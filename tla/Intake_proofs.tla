------------------------------ MODULE Intake_proofs ------------------------------
(***************************************************************************)
(* That settings and categories agree, for any number of requests,         *)
(* updates, refused commits and process deaths.                            *)
(***************************************************************************)
EXTENDS Intake, TLAPS

Answers == {"none", "ok", "refused", "error"}

IdleRequest == [step : {"idle"}]
AddRequest ==
  [step : {"look", "category", "insert", "again", "answered"}, op : {"add"},
   hash : Hashes, name : Names \cup {None}, answer : Answers]
CreateRequest ==
  [step : {"look", "insert", "answered"}, op : {"create"},
   name : Names, root : Roots, answer : Answers]

NoUpdate == [step : {"idle", "waiting"}]
Working == [step : {"look", "apply"}, next : Settings, todo : SUBSET Names]
Writing ==
  [step : {"write"}, next : Settings, todo : SUBSET Names, name : Names,
   seen : Roots \cup {None}]

\* The types of all variables; those of requests and updates depend on where
\* they are.
Typed ==
  /\ TypeOK
  /\ request \in [Requests -> IdleRequest \cup AddRequest \cup CreateRequest]
  /\ update \in [Updates -> NoUpdate \cup Working \cup Writing]

InHand(u) == update[u].step \notin {"idle", "waiting"}

\* An update that is under way holds the lock.
Holds == \A u \in Updates : InHand(u) => lock = u

Agrees(c, s) == s # None => c = s

\* The names that are not left to do are written, and stay.
Written ==
  \A u \in Updates : update[u].step \in {"look", "write", "apply"} =>
    \A n \in Names \ update[u].todo : Agrees(category[n], update[u].next.categories[n])

\* What is about to be applied is in the file, and nothing is left to do.
Filed ==
  \A u \in Updates : update[u].step = "apply" =>
    saved = update[u].next /\ update[u].todo = {}

\* What is applied and not torn is in the file and in the rows.
Settled ==
  ~torn /\ (\A u \in Updates : ~InHand(u)) =>
    memory = saved /\ \A n \in Names : Agrees(category[n], memory.categories[n])

\* Once there is a path for a category there always is, so a job that was
\* accepted has a root: what a request saw before it inserts, and what an update
\* has left to write, are paths.
Rooted ==
  /\ \A h \in Hashes : job[h] # None /\ job[h].category # None =>
       category[job[h].category] # None
  /\ \A h \in Hashes : Has(h, {"delivering"}) => job[h].base \in Roots
  /\ \A r \in Requests : At(r, "add", "insert") /\ request[r].name # None =>
       category[request[r].name] # None
  /\ \A u \in Updates : update[u].step \in {"look", "write", "apply"} =>
       \A n \in update[u].todo : update[u].next.categories[n] # None
  /\ \A u \in Updates : update[u].step = "write" => update[u].name \in update[u].todo

Coherent == Typed /\ Holds /\ Written /\ Filed /\ Settled

-----------------------------------------------------------------------------
\* The start is typed.
LEMMA InitTyped == Init => Typed
<1> SUFFICES ASSUME Init PROVE Typed
  OBVIOUS
<1>1. saved \in Settings /\ memory \in Settings /\ category \in [Names -> Roots \cup {None}]
  BY DEF Init, Settings
<1>2. Idle \in IdleRequest /\ Idle \in NoUpdate
  BY DEF Idle, IdleRequest, NoUpdate
<1>3. request \in [Requests -> IdleRequest \cup AddRequest \cup CreateRequest]
  BY <1>2 DEF Init
<1>4. update \in [Updates -> NoUpdate \cup Working \cup Writing]
  BY <1>2 DEF Init
<1>5. TypeOK
  <2>1. job \in [Hashes -> Job \cup {None}] /\ disk \in [Hashes -> SUBSET Roots]
    BY DEF Init
  <2>2. acts \in 0 .. MaxActs /\ faults \in 0 .. MaxFaults
    BY BoundAssumption DEF Init
  <2>3. lock \in Updates \cup {None} /\ torn \in BOOLEAN
    BY DEF Init
  <2> QED BY <1>1, <2>1, <2>2, <2>3 DEF TypeOK
<1> QED BY <1>3, <1>4, <1>5 DEF Typed

\* The start is coherent.
LEMMA InitCoherent == Init => Coherent
BY InitTyped DEF Init, Coherent, Holds, Written, Filed, Settled, InHand, Idle, Agrees

-----------------------------------------------------------------------------
RequestStep(r) ==
  \/ AskAdd(r) \/ LookForJob(r) \/ LookForCategory(r) \/ InsertJob(r)
  \/ JobTaken(r) \/ LookAgain(r)
  \/ AskCreate(r) \/ LookForName(r) \/ InsertCategory(r) \/ InsertRefused(r)

\* A request keeps the types.
LEMMA RequestTyped ==
  ASSUME Typed, NEW r \in Requests, RequestStep(r)
  PROVE  Typed'
<1> USE DEF At, Goto, Answer, Answers, rows, settings, Idle
<1> DEFINE Q == IdleRequest \cup AddRequest \cup CreateRequest
<1>1. request[r] \in Q BY DEF Typed
<1>2. request[r].step \notin {"idle", "answered"} => request[r] \in AddRequest \cup CreateRequest
  BY <1>1 DEF IdleRequest
<1>3. CASE AskAdd(r)
  <2>1. PICK h \in Hashes, n \in Names \cup {None} :
          request' = [request EXCEPT ![r] =
            [step |-> "look", op |-> "add", hash |-> h, name |-> n, answer |-> "none"]]
    BY <1>3 DEF AskAdd
  <2>2. [step |-> "look", op |-> "add", hash |-> h, name |-> n, answer |-> "none"] \in AddRequest
    BY DEF AddRequest
  <2>3. request' \in [Requests -> Q]
    BY <2>1, <2>2 DEF Typed
  <2>4. acts' \in 0 .. MaxActs
    BY <1>3, BoundAssumption DEF AskAdd, Act, Typed, TypeOK
  <2> QED BY <1>3, <2>3, <2>4 DEF AskAdd, Typed, TypeOK
<1>4. CASE AskCreate(r)
  <2>1. PICK n \in Names, d \in Roots :
          request' = [request EXCEPT ![r] =
            [step |-> "look", op |-> "create", name |-> n, root |-> d, answer |-> "none"]]
    BY <1>4 DEF AskCreate
  <2>2. [step |-> "look", op |-> "create", name |-> n, root |-> d, answer |-> "none"]
          \in CreateRequest
    BY DEF CreateRequest
  <2>3. request' \in [Requests -> Q]
    BY <2>1, <2>2 DEF Typed
  <2>4. acts' \in 0 .. MaxActs
    BY <1>4, BoundAssumption DEF AskCreate, Act, Typed, TypeOK
  <2> QED BY <1>4, <2>3, <2>4 DEF AskCreate, Typed, TypeOK
<1>5. ASSUME request[r] \in AddRequest, NEW s \in {"category", "insert", "again"},
             request' = [request EXCEPT ![r].step = s]
      PROVE  request' \in [Requests -> Q]
  BY <1>5 DEF Typed, AddRequest
<1>6. ASSUME request[r] \in CreateRequest, request' = [request EXCEPT ![r].step = "insert"]
      PROVE  request' \in [Requests -> Q]
  BY <1>6 DEF Typed, CreateRequest
<1>7. ASSUME request[r] \in AddRequest \cup CreateRequest, NEW a \in Answers,
             request' = [request EXCEPT ![r].step = "answered", ![r].answer = a]
      PROVE  request' \in [Requests -> Q]
  <2>1. CASE request[r] \in AddRequest BY <1>7, <2>1 DEF Typed, AddRequest
  <2>2. CASE request[r] \in CreateRequest BY <1>7, <2>2 DEF Typed, CreateRequest
  <2> QED BY <1>7, <2>1, <2>2
<1>8. request[r].op = "add" /\ request[r].step # "idle" => request[r] \in AddRequest
  BY <1>1 DEF IdleRequest, CreateRequest
<1>9. request[r].op = "create" /\ request[r].step # "idle" => request[r] \in CreateRequest
  BY <1>1 DEF IdleRequest, AddRequest
<1>10. CASE LookForJob(r)
  <2>1. request' \in [Requests -> Q] BY <1>10, <1>5, <1>7, <1>8 DEF LookForJob
  <2> QED BY <1>10, <2>1 DEF LookForJob, Typed, TypeOK
<1>11. CASE LookForCategory(r)
  <2>1. request' \in [Requests -> Q] BY <1>11, <1>5, <1>7, <1>8 DEF LookForCategory
  <2> QED BY <1>11, <2>1 DEF LookForCategory, Typed, TypeOK
<1>12. CASE InsertJob(r)
  <2>1. request' \in [Requests -> Q] BY <1>12, <1>7, <1>8 DEF InsertJob
  <2>2. [category |-> request[r].name, step |-> "accepted", base |-> None, files |-> FALSE] \in Job
    BY <1>12, <1>8 DEF InsertJob, AddRequest, Job
  <2>3. job' \in [Hashes -> Job \cup {None}]
    BY <1>12, <2>2 DEF InsertJob, Typed, TypeOK
  <2> QED BY <1>12, <2>1, <2>3 DEF InsertJob, Typed, TypeOK
<1>13. CASE JobTaken(r)
  <2>1. request' \in [Requests -> Q] BY <1>13, <1>5, <1>8 DEF JobTaken
  <2> QED BY <1>13, <2>1 DEF JobTaken, Typed, TypeOK
<1>14. CASE LookAgain(r)
  <2>1. request' \in [Requests -> Q] BY <1>14, <1>7, <1>8 DEF LookAgain
  <2> QED BY <1>14, <2>1 DEF LookAgain, Typed, TypeOK
<1>15. CASE LookForName(r)
  <2>1. request' \in [Requests -> Q] BY <1>15, <1>6, <1>7, <1>9 DEF LookForName
  <2> QED BY <1>15, <2>1 DEF LookForName, Typed, TypeOK
<1>16. CASE InsertCategory(r)
  <2>1. request' \in [Requests -> Q]
    <3>1. CASE category[request[r].name] = None BY <1>16, <1>7, <1>9, <3>1 DEF InsertCategory
    <3>2. CASE category[request[r].name] # None BY <1>16, <1>7, <1>9, <3>2 DEF InsertCategory
    <3> QED BY <3>1, <3>2
  <2>2. category' \in [Names -> Roots \cup {None}]
    BY <1>16, <1>9 DEF InsertCategory, Create, CreateRequest, Typed, TypeOK
  <2> QED BY <1>16, <2>1, <2>2 DEF InsertCategory, Typed, TypeOK
<1>17. CASE InsertRefused(r)
  <2>1. request' \in [Requests -> Q] BY <1>17, <1>7, <1>2 DEF InsertRefused
  <2>2. faults' \in 0 .. MaxFaults
    BY <1>17, BoundAssumption DEF InsertRefused, Fault, Typed, TypeOK
  <2> QED BY <1>17, <2>1, <2>2 DEF InsertRefused, Typed, TypeOK
<1> QED BY <1>3, <1>4, <1>10, <1>11, <1>12, <1>13, <1>14, <1>15, <1>16, <1>17 DEF RequestStep

\* A request writes only categories that have no path.
LEMMA RequestKeeps ==
  ASSUME Typed, NEW r \in Requests, RequestStep(r)
  PROVE  /\ UNCHANGED settings
         /\ \A n \in Names : category[n] # None => category'[n] = category[n]
<1> USE DEF RequestStep, settings, rows
<1>1. CASE InsertCategory(r)
  BY <1>1 DEF InsertCategory, Create, Typed, TypeOK
<1>2. CASE ~InsertCategory(r)
  BY <1>2 DEF AskAdd, LookForJob, LookForCategory, InsertJob, JobTaken, LookAgain,
              AskCreate, LookForName, InsertRefused
<1> QED BY <1>1, <1>2

\* What agrees keeps agreeing when only empty categories are written.
LEMMA StaysCoherent ==
  ASSUME Coherent, Typed', UNCHANGED settings, None \notin Roots,
         \A n \in Names : category[n] # None => category'[n] = category[n]
  PROVE  Coherent'
<1>1. ASSUME NEW n \in Names, NEW s, Agrees(category[n], s)
      PROVE  Agrees(category'[n], s)
  BY <1>1 DEF Agrees
<1>2. Written'
  <2> SUFFICES ASSUME NEW u \in Updates, update[u].step \in {"look", "write", "apply"},
                      NEW n \in Names \ update[u].todo
               PROVE  Agrees(category'[n], update[u].next.categories[n])
    BY DEF Written, settings
  <2>1. Agrees(category[n], update[u].next.categories[n]) BY DEF Coherent, Written
  <2> QED BY <1>1, <2>1
<1>3. Settled'
  <2> SUFFICES ASSUME ~torn, \A u \in Updates : ~InHand(u)
               PROVE  memory = saved /\ \A n \in Names : Agrees(category'[n], memory.categories[n])
    BY DEF Settled, InHand, settings
  <2>1. memory = saved /\ \A n \in Names : Agrees(category[n], memory.categories[n])
    BY DEF Coherent, Settled
  <2> QED BY <1>1, <2>1
<1> QED BY <1>2, <1>3 DEF Coherent, Holds, Filed, InHand, settings

-----------------------------------------------------------------------------
UpdateStep(u) ==
  \/ AskUpdate(u) \/ Begin(u) \/ Refuse(u) \/ LookAtCategory(u) \/ WriteCategory(u)
  \/ WriteFails(u) \/ Save(u) \/ SaveFails(u) \/ Apply(u)

\* Where an update is says what it has.
LEMMA UpdateForms ==
  ASSUME Typed, NEW u \in Updates
  PROVE  /\ update[u].step \in {"idle", "waiting"} => update[u] \in NoUpdate
         /\ update[u].step \in {"look", "apply"} => update[u] \in Working
         /\ update[u].step = "write" => update[u] \in Writing
         /\ update[u].step \in {"idle", "waiting", "look", "write", "apply"}
BY DEF Typed, NoUpdate, Working, Writing

\* An update keeps the types.
LEMMA UpdateTyped ==
  ASSUME Typed, NEW u \in Updates, UpdateStep(u)
  PROVE  Typed'
<1> USE DEF Set, End, Idle, rows, settings
<1> DEFINE U == NoUpdate \cup Working \cup Writing
<1>f. Fault => faults' \in 0 .. MaxFaults
  BY BoundAssumption DEF Fault, Typed, TypeOK
<1>i. update' = [update EXCEPT ![u] = Idle] => update' \in [Updates -> U]
  BY DEF Typed, NoUpdate
<1>n. None \in Updates \cup {None} /\ u \in Updates \cup {None}
  OBVIOUS
<1>1. CASE AskUpdate(u)
  <2>1. update' \in [Updates -> U] BY <1>1, UpdateForms DEF AskUpdate, Typed, NoUpdate
  <2>2. acts' \in 0 .. MaxActs
    BY <1>1, BoundAssumption DEF AskUpdate, Act, Typed, TypeOK
  <2> QED BY <1>1, <2>1, <2>2 DEF AskUpdate, Typed, TypeOK
<1>2. CASE Begin(u)
  <2>1. PICK next \in Settings :
          update' = [update EXCEPT ![u] = [step |-> "look", next |-> next,
                       todo |-> {n \in Names : next.categories[n] # None}]]
    BY <1>2 DEF Begin
  <2>2. [step |-> "look", next |-> next, todo |-> {n \in Names : next.categories[n] # None}]
          \in Working
    BY DEF Working
  <2>3. update' \in [Updates -> U] BY <2>1, <2>2 DEF Typed
  <2> QED BY <1>2, <2>3 DEF Begin, Typed, TypeOK
<1>3. CASE Refuse(u) BY <1>3, <1>i DEF Refuse, Typed, TypeOK
<1>4. CASE LookAtCategory(u)
  <2>1. PICK n \in update[u].todo :
          update' = [update EXCEPT ![u] = [step |-> "write", next |-> @.next,
                       todo |-> @.todo, name |-> n, seen |-> category[n]]]
    BY <1>4 DEF LookAtCategory
  <2>2. update[u] \in Working BY <1>4, UpdateForms DEF LookAtCategory
  <2>3. [step |-> "write", next |-> update[u].next, todo |-> update[u].todo,
         name |-> n, seen |-> category[n]] \in Writing
    BY <2>2 DEF Working, Writing, Typed, TypeOK
  <2>4. update' \in [Updates -> U] BY <2>1, <2>3 DEF Typed
  <2> QED BY <1>4, <2>4 DEF LookAtCategory, Typed, TypeOK
<1>5. CASE WriteCategory(u)
  <2>1. update[u] \in Writing BY <1>5, UpdateForms DEF WriteCategory
  <2>2. update' = [update EXCEPT ![u] =
          [step |-> "look", next |-> @.next, todo |-> @.todo \ {update[u].name}]]
    BY <1>5 DEF WriteCategory
  <2>3. [step |-> "look", next |-> update[u].next,
         todo |-> update[u].todo \ {update[u].name}] \in Working
    BY <2>1 DEF Working, Writing
  <2>4. update' \in [Updates -> U] BY <2>2, <2>3 DEF Typed
  <2>5. update[u].next.categories[update[u].name] \in Roots \cup {None}
    BY <2>1 DEF Writing, Settings
  <2>6. category' \in [Names -> Roots \cup {None}]
    BY <1>5, <2>5 DEF WriteCategory, Typed, TypeOK
  <2> QED BY <1>5, <2>4, <2>6 DEF WriteCategory, Typed, TypeOK
<1>6. CASE WriteFails(u)
  <2>1. faults' \in 0 .. MaxFaults
    BY <1>6, <1>f DEF WriteFails, Typed, TypeOK
  <2> QED BY <1>6, <1>i, <2>1 DEF WriteFails, Typed, TypeOK
<1>7. CASE Save(u)
  <2>1. update[u] \in Working BY <1>7, UpdateForms DEF Save
  <2>2. [update[u] EXCEPT !.step = "apply"] \in Working BY <2>1 DEF Working
  <2>3. update' \in [Updates -> U] BY <1>7, <2>2 DEF Save, Typed
  <2>4. saved' \in Settings BY <1>7, <2>1 DEF Save, Working
  <2> QED BY <1>7, <2>3, <2>4 DEF Save, Typed, TypeOK
<1>8. CASE SaveFails(u)
  <2>1. update[u] \in Working BY <1>8, UpdateForms DEF SaveFails
  <2>2. saved' \in Settings BY <1>8, <2>1 DEF SaveFails, Working, Typed, TypeOK
  <2> QED BY <1>8, <1>i, <1>f, <2>2 DEF SaveFails, Typed, TypeOK
<1>9. CASE Apply(u)
  <2>1. update[u] \in Working BY <1>9, UpdateForms DEF Apply
  <2>2. memory' \in Settings BY <1>9, <2>1 DEF Apply, Applied, Working
  <2> QED BY <1>9, <1>i, <2>2 DEF Apply, Typed, TypeOK
<1> QED BY <1>1, <1>2, <1>3, <1>4, <1>5, <1>6, <1>7, <1>8, <1>9 DEF UpdateStep

\* While one update is in hand no other is.
LEMMA OnlyOne ==
  ASSUME Coherent, NEW u \in Updates, InHand(u) \/ lock = None
  PROVE  \A v \in Updates \ {u} : ~InHand(v)
BY NoneAssumption DEF Coherent, Holds

\* An update keeps the invariant.
LEMMA UpdateCoherent ==
  ASSUME Coherent, NEW u \in Updates, UpdateStep(u)
  PROVE  Coherent'
<1> USE DEF Set, End, Idle, rows, settings
<1>t. Typed /\ Typed' BY UpdateTyped DEF Coherent
<1>d. DOMAIN update = Updates /\ \A n \in Names : n \in DOMAIN category
  BY <1>t DEF Typed, TypeOK
<1>1. CASE AskUpdate(u)
  <2>1. \A v \in Updates : InHand(v)' => InHand(v) /\ update'[v] = update[v]
    BY <1>1, <1>d DEF AskUpdate, InHand
  <2>2. \A v \in Updates : InHand(v) => InHand(v)'
    BY <1>1, <1>d DEF AskUpdate, InHand
  <2> QED BY <1>1, <1>t, <2>1, <2>2 DEF AskUpdate, Coherent, Holds, Written, Filed, Settled, InHand
<1>2. CASE Begin(u)
  <2>1. PICK next \in Settings :
          update' = [update EXCEPT ![u] = [step |-> "look", next |-> next,
                       todo |-> {n \in Names : next.categories[n] # None}]]
    BY <1>2 DEF Begin
  <2>2. \A v \in Updates \ {u} : ~InHand(v) /\ ~InHand(v)'
    BY <1>2, <2>1, <1>d, OnlyOne DEF Begin, Free, InHand
  <2>3. InHand(u)' /\ lock' = u BY <1>2, <2>1, <1>d DEF Begin, InHand
  <2>4. Holds' BY <2>2, <2>3 DEF Holds
  <2>5. Written'
    BY <1>d, <2>1, <2>2, <1>2 DEF Begin, Written, InHand, Agrees
  <2>6. Filed' /\ Settled'
    BY <1>d, <2>1, <2>2, <2>3 DEF Filed, Settled, InHand
  <2> QED BY <1>t, <2>4, <2>5, <2>6 DEF Coherent
<1>3. CASE Refuse(u)
  <2>1. \A v \in Updates : InHand(v)' <=> InHand(v)
    BY <1>3, <1>d DEF Refuse, InHand
  <2>2. \A v \in Updates : InHand(v) => update'[v] = update[v]
    BY <1>3, <1>d DEF Refuse, InHand
  <2> QED BY <1>3, <1>t, <2>1, <2>2 DEF Refuse, Coherent, Holds, Written, Filed, Settled, InHand
<1>4. CASE LookAtCategory(u)
  <2>1. PICK n \in update[u].todo :
          update' = [update EXCEPT ![u] = [step |-> "write", next |-> @.next,
                       todo |-> @.todo, name |-> n, seen |-> category[n]]]
    BY <1>4 DEF LookAtCategory
  <2>2. InHand(u) /\ InHand(u)' /\ update[u].step = "look"
    BY <1>4, <2>1, <1>d DEF LookAtCategory, InHand
  <2>3. \A v \in Updates \ {u} : ~InHand(v) /\ ~InHand(v)'
    BY <2>1, <2>2, <1>d, OnlyOne DEF InHand
  <2>4. Holds' BY <1>4, <2>2, <2>3 DEF LookAtCategory, Coherent, Holds
  <2>5. Written'
    BY <1>4, <2>1, <2>2, <2>3, <1>d DEF LookAtCategory, Coherent, Written, InHand
  <2>6. Filed' /\ Settled'
    BY <2>1, <2>2, <2>3, <1>d DEF Filed, Settled, InHand
  <2> QED BY <1>t, <2>4, <2>5, <2>6 DEF Coherent
<1>5. CASE WriteCategory(u)
  <2>1. update' = [update EXCEPT ![u] =
          [step |-> "look", next |-> @.next, todo |-> @.todo \ {update[u].name}]]
    BY <1>5 DEF WriteCategory
  <2>2. InHand(u) /\ InHand(u)' /\ update[u].step = "write"
    BY <1>5, <2>1, <1>d DEF WriteCategory, InHand
  <2>3. \A v \in Updates \ {u} : ~InHand(v) /\ ~InHand(v)'
    BY <2>1, <2>2, <1>d, OnlyOne DEF InHand
  <2>4. Holds' BY <1>5, <2>2, <2>3 DEF WriteCategory, Coherent, Holds
  <2>5. ASSUME NEW n \in Names, n \notin update'[u].todo
        PROVE  Agrees(category'[n], update'[u].next.categories[n])
    <3>1. update'[u].next = update[u].next /\ update'[u].todo = update[u].todo \ {update[u].name}
      BY <2>1, <1>d
    <3>2. CASE n = update[u].name
      BY <1>5, <1>d, <3>1, <3>2 DEF WriteCategory, Agrees
    <3>3. CASE n # update[u].name
      <4>1. n \notin update[u].todo BY <2>5, <3>1, <3>3
      <4>2. category'[n] = category[n] BY <1>5, <1>d, <3>3 DEF WriteCategory
      <4> QED BY <2>2, <3>1, <4>1, <4>2 DEF Coherent, Written
    <3> QED BY <3>2, <3>3
  <2>6. Written'
    BY <2>3, <2>5 DEF Written, InHand
  <2>7. Filed' /\ Settled'
    BY <2>1, <2>2, <2>3, <1>d DEF Filed, Settled, InHand
  <2> QED BY <1>t, <2>4, <2>6, <2>7 DEF Coherent
<1>6. CASE WriteFails(u) \/ SaveFails(u)
  <2>1. /\ update' = [update EXCEPT ![u] = Idle] /\ torn' = TRUE /\ InHand(u)
    BY <1>6 DEF WriteFails, SaveFails, InHand
  <2>2. \A v \in Updates : ~InHand(v)'
    BY <2>1, <1>d, OnlyOne DEF InHand
  <2> QED BY <1>t, <2>1, <2>2 DEF Coherent, Holds, Written, Filed, Settled, InHand
<1>7. CASE Save(u)
  <2>1. update' = [update EXCEPT ![u].step = "apply"] BY <1>7 DEF Save
  <2>2. InHand(u) /\ update[u].step = "look" /\ update[u].todo = {} /\ saved' = update[u].next
    BY <1>7 DEF Save, InHand
  <2>3. update[u] \in Working BY <1>t, <2>2, UpdateForms
  <2>4. update'[u].step = "apply" /\ update'[u].next = update[u].next /\ update'[u].todo = {}
    BY <2>1, <2>2, <2>3, <1>d DEF Working
  <2>5. InHand(u)' BY <2>4 DEF InHand
  <2>6. \A v \in Updates \ {u} : ~InHand(v) /\ ~InHand(v)'
    BY <2>1, <2>2, <1>d, OnlyOne DEF InHand
  <2>7. Holds' BY <1>7, <2>2, <2>6 DEF Save, Coherent, Holds
  <2>8. Written'
    BY <1>7, <2>2, <2>4, <2>6 DEF Save, Coherent, Written, InHand
  <2>9. Filed' /\ Settled'
    BY <2>2, <2>4, <2>5, <2>6 DEF Filed, Settled, InHand
  <2> QED BY <1>t, <2>7, <2>8, <2>9 DEF Coherent
<1>8. CASE Apply(u)
  <2>1. /\ update' = [update EXCEPT ![u] = Idle] /\ torn' = FALSE /\ InHand(u)
        /\ update[u].step = "apply" /\ memory' = update[u].next
    BY <1>8 DEF Apply, Applied, InHand
  <2>2. \A v \in Updates : ~InHand(v)'
    BY <2>1, <1>d, OnlyOne DEF InHand
  <2>3. saved' = memory' BY <1>8, <2>1 DEF Apply, Coherent, Filed
  <2>4. \A n \in Names : Agrees(category'[n], memory'.categories[n])
    BY <1>8, <2>1 DEF Apply, Coherent, Written, Filed
  <2>5. Settled' BY <2>3, <2>4 DEF Settled
  <2> QED BY <1>t, <2>2, <2>5 DEF Coherent, Holds, Written, Filed, InHand
<1> QED BY <1>1, <1>2, <1>3, <1>4, <1>5, <1>6, <1>7, <1>8 DEF UpdateStep

-----------------------------------------------------------------------------
JobStep(h) == StartDelivery(h) \/ Deliver(h) \/ Remove(h) \/ Cleanup(h)

\* A job leaves settings, categories, requests and updates alone, and keeps
\* the types.
LEMMA JobTyped ==
  ASSUME Typed, Rooted, NEW h \in Hashes, JobStep(h)
  PROVE  Typed' /\ UNCHANGED <<category, settings, request>>
<1> USE DEF rows, settings
<1>1. job[h] # None => job[h] \in Job
  BY DEF Typed, TypeOK
<1>2. CASE StartDelivery(h)
  <2>1. Root(job[h]) \in Roots \cup {None}
    BY <1>1, <1>2 DEF StartDelivery, Has, Root, Job, Typed, TypeOK, Settings
  <2>2. [job[h] EXCEPT !.step = "delivering", !.base = Root(job[h])] \in Job
    BY <1>1, <1>2, <2>1 DEF StartDelivery, Has, Job
  <2>3. job' \in [Hashes -> Job \cup {None}]
    BY <1>2, <2>2 DEF StartDelivery, Typed, TypeOK
  <2> QED BY <1>2, <2>3 DEF StartDelivery, Typed, TypeOK
<1>3. CASE Deliver(h)
  <2>1. [job[h] EXCEPT !.step = "delivered"] \in Job
    BY <1>1, <1>3 DEF Deliver, Has, Job
  <2>2. job' \in [Hashes -> Job \cup {None}]
    BY <1>3, <2>1 DEF Deliver, Turn, Typed, TypeOK
  <2>3. disk' \in [Hashes -> SUBSET Roots]
    BY <1>3 DEF Deliver, Rooted, Typed, TypeOK
  <2> QED BY <1>3, <2>2, <2>3 DEF Deliver, Typed, TypeOK
<1>4. CASE Remove(h)
  <2>1. PICK files \in BOOLEAN :
          job' = [job EXCEPT ![h].step = "removing", ![h].files = files]
    BY <1>4 DEF Remove
  <2>2. [job[h] EXCEPT !.step = "removing", !.files = files] \in Job
    BY <1>1, <1>4 DEF Remove, Has, Job
  <2>3. job' \in [Hashes -> Job \cup {None}]
    BY <2>1, <2>2 DEF Typed, TypeOK
  <2>4. acts' \in 0 .. MaxActs
    BY <1>4, BoundAssumption DEF Remove, Act, Typed, TypeOK
  <2> QED BY <1>4, <2>3, <2>4 DEF Remove, Typed, TypeOK
<1>5. CASE Cleanup(h)
  BY <1>5 DEF Cleanup, Typed, TypeOK
<1> QED BY <1>2, <1>3, <1>4, <1>5 DEF JobStep

\* A restart reads the file and writes its categories.
LEMMA RestartCoherent == Coherent /\ Restart => Coherent'
<1> SUFFICES ASSUME Coherent, Restart PROVE Coherent'
  OBVIOUS
<1> USE DEF Restart
<1>1. Typed BY DEF Coherent
<1>2. request' \in [Requests -> IdleRequest] /\ update' \in [Updates -> NoUpdate]
  BY DEF Idle, IdleRequest, NoUpdate
<1>3. category' \in [Names -> Roots \cup {None}]
  BY <1>1 DEF Ensured, Typed, TypeOK, Settings
<1>4. job' \in [Hashes -> Job \cup {None}]
  <2> SUFFICES ASSUME NEW h \in Hashes
               PROVE  (IF Has(h, {"delivering"})
                         THEN [job[h] EXCEPT !.step = "accepted", !.base = None]
                         ELSE job[h]) \in Job \cup {None}
    OBVIOUS
  <2>1. job[h] \in Job \cup {None} BY <1>1 DEF Typed, TypeOK
  <2>2. CASE Has(h, {"delivering"}) BY <2>1, <2>2 DEF Has, Job
  <2> QED BY <2>1, <2>2
<1>5. faults' \in 0 .. MaxFaults
  <2>1. faults \in 0 .. MaxFaults BY <1>1 DEF Typed, TypeOK
  <2>2. faults < MaxFaults /\ faults' = faults + 1 BY DEF Fault
  <2> HIDE DEF Restart
  <2> QED BY <2>1, <2>2, BoundAssumption
<1>6. Typed'
  BY <1>1, <1>2, <1>3, <1>4, <1>5 DEF Typed, TypeOK
<1>7. \A u \in Updates : update'[u].step = "idle" /\ ~InHand(u)'
  BY DEF Idle, InHand
<1>8. \A n \in Names : Agrees(category'[n], memory'.categories[n])
  BY DEF Ensured, Agrees
<1> QED BY <1>6, <1>7, <1>8 DEF Coherent, Holds, Written, Filed, Settled

-----------------------------------------------------------------------------
\* The start has roots.
LEMMA InitRooted == Init => Rooted
BY DEF Init, Rooted, Has, At, Idle

\* A request finds its category before it inserts its job.
LEMMA RequestRooted ==
  ASSUME Typed, Rooted, NEW r \in Requests, RequestStep(r)
  PROVE  Rooted'
<1> USE DEF rows, settings, Goto, Answer, Idle
<1>1. UNCHANGED settings /\ \A n \in Names : category[n] # None => category'[n] # None
  BY RequestKeeps
<1>2. \A n \in Names \cup {None} : n # None => n \in Names
  OBVIOUS
<1>3. \A h \in Hashes : job[h] # None => job[h] \in Job
  BY DEF Typed, TypeOK
<1>4. \A q \in Requests : At(q, "add", "insert") => request[q] \in AddRequest
  BY DEF At, Typed, IdleRequest, CreateRequest
<1>5. ASSUME NEW h \in Hashes, job'[h] # None, job'[h].category # None
      PROVE  category'[job'[h].category] # None
  <2>1. CASE job'[h] = job[h]
    BY <1>1, <1>2, <1>3, <1>5, <2>1 DEF Rooted, Job
  <2>2. CASE job'[h] # job[h]
    <3>1. InsertJob(r) /\ h = request[r].hash
      BY <2>2 DEF RequestStep, AskAdd, LookForJob, LookForCategory, InsertJob, JobTaken,
                  LookAgain, AskCreate, LookForName, InsertCategory, InsertRefused, Typed, TypeOK
    <3>2. job'[h].category = request[r].name
      BY <3>1 DEF InsertJob, Typed, TypeOK
    <3>3. request[r].name \in Names \cup {None} /\ At(r, "add", "insert")
      BY <3>1, <1>4 DEF InsertJob, AddRequest
    <3> QED BY <1>1, <1>2, <1>5, <3>2, <3>3 DEF Rooted
  <2> QED BY <2>1, <2>2
<1>6. ASSUME NEW h \in Hashes, Has(h, {"delivering"})'
      PROVE  job'[h].base \in Roots
  <2>1. job'[h] = job[h] \/ job'[h].step = "accepted"
    BY DEF RequestStep, AskAdd, LookForJob, LookForCategory, InsertJob, JobTaken,
           LookAgain, AskCreate, LookForName, InsertCategory, InsertRefused, Typed, TypeOK
  <2> QED BY <1>6, <2>1 DEF Rooted, Has
<1>7. ASSUME NEW q \in Requests, At(q, "add", "insert")', request'[q].name # None
      PROVE  category'[request'[q].name] # None
  <2>1. CASE request'[q] = request[q]
    BY <1>1, <1>2, <1>4, <1>7, <2>1 DEF Rooted, At, AddRequest
  <2>2. CASE request'[q] # request[q]
    <3>1. q = r /\ LookForCategory(r)
      <4>1. ASSUME NEW s, request' = [request EXCEPT ![r] = s]
            PROVE  q = r /\ request'[q] = s
        BY <2>2, <4>1 DEF Typed
      <4>2. request[r] \in IdleRequest \cup AddRequest \cup CreateRequest
        BY DEF Typed
      <4>3. ~AskAdd(r) /\ ~AskCreate(r)
        BY <1>7, <4>1 DEF AskAdd, AskCreate, At
      <4>4. ASSUME NEW a, Answer(r, a), request[r].step # "idle"
            PROVE  FALSE
        <5>1. q = r /\ request'[q] = [request[r] EXCEPT !.step = "answered", !.answer = a]
          BY <2>2, <4>4 DEF Typed
        <5>2. request'[q].step = "answered"
          <6>1. CASE request[r] \in AddRequest BY <5>1, <6>1 DEF AddRequest
          <6>2. CASE request[r] \in CreateRequest BY <5>1, <6>2 DEF CreateRequest
          <6> QED BY <4>2, <4>4, <6>1, <6>2 DEF IdleRequest
        <5> QED BY <1>7, <5>2 DEF At
      <4>5. ASSUME NEW s, Goto(r, s), request[r].step # "idle"
            PROVE  q = r /\ s = "insert" /\ request[r].op = "add"
        <5>1. q = r /\ request'[q] = [request[r] EXCEPT !.step = s]
          BY <4>1, <4>5
        <5>2. request'[q].step = s /\ request'[q].op = request[r].op
          BY <4>2, <4>5, <5>1 DEF IdleRequest, AddRequest, CreateRequest
        <5> QED BY <1>7, <5>1, <5>2 DEF At
      <4> HIDE DEF Answer, Goto
      <4>6. ~InsertJob(r) /\ ~LookAgain(r) /\ ~InsertRefused(r)
        BY <4>4 DEF InsertJob, LookAgain, InsertRefused, At
      <4>7. ~InsertCategory(r)
        BY <4>4 DEF InsertCategory, At
      <4>8. ~JobTaken(r) /\ ~LookForJob(r)
        BY <4>4, <4>5 DEF JobTaken, LookForJob, At
      <4>9. ~LookForName(r)
        BY <4>4, <4>5 DEF LookForName, At
      <4>10. LookForCategory(r)
        BY <4>3, <4>6, <4>7, <4>8, <4>9 DEF RequestStep
      <4>11. q = r
        BY <4>4, <4>5, <4>10 DEF LookForCategory, At
      <4> QED BY <4>10, <4>11
    <3>2. request[r] \in AddRequest
      BY <3>1 DEF LookForCategory, At, Typed, IdleRequest, CreateRequest
    <3>3. request'[q].name = request[r].name /\ request'[q].step = "insert"
      BY <3>1, <3>2, <1>7 DEF LookForCategory, At, Typed, AddRequest
    <3>4. category[request[r].name] # None /\ category' = category
      BY <3>1, <3>2, <3>3, <1>7 DEF LookForCategory, Typed, AddRequest
    <3> QED BY <3>3, <3>4
  <2> QED BY <2>1, <2>2
<1> QED BY <1>1, <1>5, <1>6, <1>7 DEF Rooted, RequestStep

\* An update writes paths.
LEMMA UpdateRooted ==
  ASSUME Typed, Rooted, NEW u \in Updates, UpdateStep(u)
  PROVE  Rooted'
<1> USE DEF rows, settings, Set, End, Idle
<1>1. UNCHANGED <<job, request>>
  BY DEF UpdateStep, AskUpdate, Begin, Refuse, LookAtCategory, WriteCategory, WriteFails,
         Save, SaveFails, Apply
<1>2. \A n \in Names : category[n] # None => category'[n] # None
  <2>1. CASE WriteCategory(u)
    BY <2>1 DEF WriteCategory, Rooted, Typed, TypeOK
  <2>2. CASE ~WriteCategory(u)
    BY <2>2 DEF UpdateStep, AskUpdate, Begin, Refuse, LookAtCategory, WriteFails,
                Save, SaveFails, Apply
  <2> QED BY <2>1, <2>2
<1>3. ASSUME NEW h \in Hashes, job[h] # None, job[h].category # None
      PROVE  category'[job[h].category] # None
  BY <1>2, <1>3 DEF Rooted, Typed, TypeOK, Job
<1>4. ASSUME NEW q \in Requests, At(q, "add", "insert"), request[q].name # None
      PROVE  category'[request[q].name] # None
  <2>1. request[q] \in AddRequest
    BY <1>4 DEF At, Typed, IdleRequest, CreateRequest
  <2> QED BY <1>2, <1>4, <2>1 DEF Rooted, AddRequest
<1>5. ASSUME NEW v \in Updates, update'[v].step \in {"look", "write", "apply"}
      PROVE  /\ \A n \in update'[v].todo : update'[v].next.categories[n] # None
             /\ update'[v].step = "write" => update'[v].name \in update'[v].todo
  <2>1. CASE update'[v] = update[v] BY <1>5, <2>1 DEF Rooted
  <2>2. CASE update'[v] # update[v]
    <3>1. v = u
      BY <2>2 DEF UpdateStep, AskUpdate, Begin, Refuse, LookAtCategory, WriteCategory,
                  WriteFails, Save, SaveFails, Apply, Typed
    <3>2. CASE Begin(u) BY <3>1, <3>2 DEF Begin, Typed
    <3>3. CASE LookAtCategory(u) BY <3>1, <3>3 DEF LookAtCategory, Rooted, Typed
    <3>4. CASE WriteCategory(u) BY <3>1, <3>4 DEF WriteCategory, Rooted, Typed
    <3>5. CASE Save(u)
      <4>1. update[u] \in Working BY <3>5, UpdateForms DEF Save
      <4> QED BY <3>1, <3>5, <4>1 DEF Save, Typed, Working
    <3>6. CASE ~(Begin(u) \/ LookAtCategory(u) \/ WriteCategory(u) \/ Save(u))
      <4>1. CASE AskUpdate(u)
        BY <1>5, <3>1, <4>1, UpdateForms DEF AskUpdate, Typed, NoUpdate
      <4>2. CASE ~AskUpdate(u)
        BY <1>5, <3>1, <3>6, <4>2 DEF UpdateStep, Refuse, WriteFails, SaveFails, Apply, Typed
      <4> QED BY <4>1, <4>2
    <3> QED BY <3>2, <3>3, <3>4, <3>5, <3>6
  <2> QED BY <2>1, <2>2
<1>6. \A h \in Hashes : Has(h, {"delivering"})' => job'[h].base \in Roots
  BY <1>1 DEF Rooted, Has
<1> QED BY <1>1, <1>3, <1>4, <1>5, <1>6 DEF Rooted, At

\* A job that starts its delivery has a root.
LEMMA JobRooted ==
  ASSUME Typed, Rooted, NEW h \in Hashes, JobStep(h)
  PROVE  Rooted'
<1>1. UNCHANGED <<category, settings, request>> BY JobTyped
<1>2. \A g \in Hashes : job[g] # None => job[g] \in Job
  BY DEF Typed, TypeOK
<1>3. job[h] # None
  BY DEF JobStep, StartDelivery, Deliver, Remove, Cleanup, Has
<1>4. ASSUME NEW g \in Hashes, job'[g] # None
      PROVE  job[g] # None /\ job'[g].category = job[g].category
  BY <1>2, <1>3, <1>4 DEF JobStep, StartDelivery, Deliver, Remove, Cleanup, Turn, Job, Typed, TypeOK
<1>5. ASSUME NEW g \in Hashes, Has(g, {"delivering"})'
      PROVE  job'[g].base \in Roots
  <2>1. CASE job'[g] = job[g] BY <1>5, <2>1 DEF Rooted, Has
  <2>2. CASE job'[g] # job[g]
    <3>1. g = h /\ StartDelivery(h)
      BY <1>2, <1>3, <1>5, <2>2
         DEF JobStep, StartDelivery, Deliver, Remove, Cleanup, Turn, Has, Job, Typed, TypeOK
    <3>2. job'[h].base = Root(job[h])
      BY <1>2, <1>3, <3>1 DEF StartDelivery, Job, Typed, TypeOK
    <3>3. Root(job[h]) \in Roots
      BY <1>2, <1>3 DEF Root, Rooted, Job, Typed, TypeOK, Settings
    <3> QED BY <3>1, <3>2, <3>3
  <2> QED BY <2>1, <2>2
<1> QED BY <1>1, <1>4, <1>5 DEF Rooted, At, settings

\* A restart forgets requests and updates and takes no path away.
LEMMA RestartRooted == Typed /\ Rooted /\ Restart => Rooted'
<1> SUFFICES ASSUME Typed, Rooted, Restart PROVE Rooted'
  OBVIOUS
<1>1. \A n \in Names : category[n] # None => category'[n] # None
  BY DEF Restart, Ensured
<1>2. \A h \in Hashes : job[h] # None => job[h] \in Job
  BY DEF Typed, TypeOK
<1>3. ASSUME NEW h \in Hashes, job'[h] # None
      PROVE  /\ job[h] # None /\ job'[h].category = job[h].category
             /\ job'[h].step # "delivering"
  BY <1>2, <1>3 DEF Restart, Has, Job
<1>4. \A h \in Hashes : job'[h] # None /\ job'[h].category # None =>
        category'[job'[h].category] # None
  BY <1>1, <1>2, <1>3 DEF Rooted, Job
<1>5. \A r \in Requests : request'[r].step = "idle"
  BY DEF Restart, Idle
<1>6. \A u \in Updates : update'[u].step = "idle"
  BY DEF Restart, Idle
<1> QED BY <1>3, <1>4, <1>5, <1>6 DEF Rooted, Has, At

\* Every step keeps roots.
LEMMA StepRooted == Typed /\ Rooted /\ [Next]_vars => Rooted'
<1> SUFFICES ASSUME Typed, Rooted, [Next]_vars PROVE Rooted'
  OBVIOUS
<1>1. CASE UNCHANGED vars
  BY <1>1 DEF vars, rows, settings, Rooted, Has, At
<1> QED BY <1>1, RequestRooted, UpdateRooted, JobRooted, RestartRooted
        DEF Next, RequestStep, UpdateStep, JobStep

\* Every step keeps the invariant.
LEMMA StepCoherent == Coherent /\ Rooted /\ [Next]_vars => Coherent' /\ Rooted'
<1> SUFFICES ASSUME Coherent, Rooted, [Next]_vars PROVE Coherent'
  BY StepRooted DEF Coherent
<1>1. Typed /\ None \notin Roots
  BY NoneAssumption DEF Coherent
<1>2. ASSUME NEW r \in Requests, RequestStep(r) PROVE Coherent'
  BY <1>1, <1>2, RequestTyped, RequestKeeps, StaysCoherent
<1>3. ASSUME NEW u \in Updates, UpdateStep(u) PROVE Coherent'
  BY <1>3, UpdateCoherent
<1>4. ASSUME NEW h \in Hashes, JobStep(h) PROVE Coherent'
  <2>1. Typed' /\ UNCHANGED <<category, settings>> BY <1>1, <1>4, JobTyped
  <2> QED BY <1>1, <2>1, StaysCoherent
<1>5. CASE Restart BY <1>5, RestartCoherent
<1>6. CASE UNCHANGED vars
  <2>1. Typed' BY <1>1, <1>6 DEF vars, rows, settings, Typed, TypeOK
  <2> QED BY <1>1, <1>6, <2>1, StaysCoherent DEF vars, rows
<1> QED BY <1>2, <1>3, <1>4, <1>5, <1>6 DEF Next, RequestStep, UpdateStep, JobStep

\* Whatever requests, updates, failures and restarts ran in between, the state
\* is well formed.
THEOREM TypeCorrect == Spec => []TypeOK
<1>1. Coherent => TypeOK BY DEF Coherent, Typed
<1> QED BY <1>1, InitCoherent, InitRooted, StepCoherent, PTL DEF Spec

\* Updates cannot leave the file of one and the memory of another: unless one
\* stopped half way, what serves is what a restart would read.
THEOREM FileAndMemoryAgree == Spec => []MemoryIsSaved
<1>1. Coherent => MemoryIsSaved
  BY DEF Coherent, Settled, MemoryIsSaved, UnderWay, InHand
<1> QED BY <1>1, InitCoherent, InitRooted, StepCoherent, PTL DEF Spec

\* Unless an update stopped half way, jobs of a configured category go where
\* the settings say; no request writes over the path of a category.
THEOREM RowsAndMemoryAgree == Spec => []CategoriesAgree
<1>1. Coherent => CategoriesAgree
  BY DEF Coherent, Settled, CategoriesAgree, UnderWay, InHand, Agrees
<1> QED BY <1>1, InitCoherent, InitRooted, StepCoherent, PTL DEF Spec

-----------------------------------------------------------------------------
\* What an answer other than Ok. to a submission rests on.
LEMMA RefusedForCause ==
  ASSUME Typed, NEW q \in Requests, RequestStep(q), NEW r \in Requests,
         request[r].step # "answered", request'[r].step = "answered",
         request[r].op = "add", request'[r].answer # "ok"
  PROVE  faults' > faults \/ (request[r].name # None /\ category[request[r].name] = None)
<1>1. request[r] # request'[r]
  OBVIOUS
<1>2. request[r] \in IdleRequest \cup AddRequest \cup CreateRequest
  BY DEF Typed
<1>3. ASSUME NEW s, request' = [request EXCEPT ![q] = s]
      PROVE  q = r /\ request'[r] = s
  BY <1>1, <1>3 DEF Typed
<1>4. ~AskAdd(q) /\ ~AskCreate(q)
  BY <1>3 DEF AskAdd, AskCreate
<1>5. ASSUME NEW s, Goto(q, s), request[q].step # "idle"
      PROVE  s = "answered"
  <2>1. q = r /\ request'[r] = [request[r] EXCEPT !.step = s]
    BY <1>1, <1>5 DEF Goto, Typed
  <2>2. CASE request[r] \in AddRequest BY <2>1, <2>2 DEF AddRequest
  <2>3. CASE request[r] \in CreateRequest BY <2>1, <2>3 DEF CreateRequest
  <2> QED BY <1>2, <1>5, <2>1, <2>2, <2>3 DEF IdleRequest
<1>6. ASSUME NEW a, Answer(q, a), request[q].step # "idle"
      PROVE  q = r /\ a # "ok"
  <2>1. q = r /\ request'[r] = [request[r] EXCEPT !.step = "answered", !.answer = a]
    BY <1>1, <1>6 DEF Answer, Typed
  <2>2. CASE request[r] \in AddRequest BY <2>1, <2>2 DEF AddRequest
  <2>3. CASE request[r] \in CreateRequest BY <2>1, <2>3 DEF CreateRequest
  <2> QED BY <1>2, <1>6, <2>1, <2>2, <2>3 DEF IdleRequest
<1>7. ~InsertJob(q) /\ ~LookAgain(q)
  BY <1>6 DEF InsertJob, LookAgain, At
<1>8. ~JobTaken(q) /\ ~LookForJob(q)
  BY <1>5, <1>6 DEF JobTaken, LookForJob, At
<1>9. ~LookForName(q)
  BY <1>5, <1>6 DEF LookForName, At
<1>10. ~InsertCategory(q)
  <2>1. InsertCategory(q) => q = r
    BY <1>6 DEF InsertCategory, At
  <2> QED BY <2>1 DEF InsertCategory, At
<1>11. CASE InsertRefused(q)
  <2>1. faults \in Nat /\ faults' = faults + 1
    BY <1>11, BoundAssumption DEF InsertRefused, Fault, Typed, TypeOK
  <2> QED BY <2>1
<1>12. CASE LookForCategory(q)
  <2>1. q = r BY <1>5, <1>6, <1>12 DEF LookForCategory, At
  <2> QED BY <1>5, <1>12, <2>1 DEF LookForCategory, At
<1> QED BY <1>4, <1>7, <1>8, <1>9, <1>10, <1>11, <1>12 DEF RequestStep

\* A submission is turned away for its category or a refused commit, never
\* because another one won a race.
THEOREM RefusedOnlyForCause == Spec => NoFalseRefusal
<1> DEFINE Cause == \A r \in Requests :
       request[r].step # "answered" /\ request'[r].step = "answered"
         /\ request[r].op = "add" /\ request'[r].answer # "ok" =>
       \/ faults' > faults
       \/ request[r].name # None /\ category[request[r].name] = None
<1>1. Coherent /\ Rooted /\ [Next]_vars => [Cause]_vars
  <2> SUFFICES ASSUME Coherent, Rooted, Next, NEW r \in Requests,
                      request[r].step # "answered", request'[r].step = "answered",
                      request[r].op = "add", request'[r].answer # "ok"
               PROVE  faults' > faults \/ (request[r].name # None /\ category[request[r].name] = None)
    OBVIOUS
  <2>1. Typed BY DEF Coherent
  <2>2. request' # request
    OBVIOUS
  <2> USE DEF rows, settings
  <2>3. ASSUME NEW u \in Updates PROVE ~UpdateStep(u)
    BY <2>2 DEF UpdateStep, AskUpdate, Begin, Refuse, LookAtCategory, WriteCategory,
                WriteFails, Save, SaveFails, Apply
  <2>4. ASSUME NEW h \in Hashes PROVE ~JobStep(h)
    BY <2>2 DEF JobStep, StartDelivery, Deliver, Remove, Cleanup
  <2>5. ASSUME Restart PROVE FALSE
    <3>1. request'[r] = Idle BY <2>5 DEF Restart
    <3> QED BY <3>1 DEF Idle
  <2>6. \E q \in Requests : RequestStep(q)
    BY <2>3, <2>4, <2>5 DEF Next, RequestStep, UpdateStep, JobStep
  <2> QED BY <2>1, <2>6, RefusedForCause
<1>2. Spec => [][Cause]_vars
  <2> HIDE DEF Cause
  <2> QED BY <1>1, InitCoherent, InitRooted, StepCoherent, PTL DEF Spec
<1> QED BY <1>2 DEF NoFalseRefusal
=============================================================================
