--------------------------------- MODULE Intake ---------------------------------
(***************************************************************************)
(* What clients and the operator may ask for side by side: adding a hash,  *)
(* creating a category, updating the settings.  They meet in the unique    *)
(* rows of the database and in the root a job is delivered to and reported *)
(* at, which is looked up whenever it is needed.                           *)
(*                                                                         *)
(* A step is the code between two awaits.  A session that has flushed an   *)
(* insert holds SQLite's write lock until it commits, so that flush and    *)
(* commit are one step.  What a job does between being accepted and being  *)
(* removed is JobService; here it only takes a root and keeps it.          *)
(***************************************************************************)
EXTENDS Naturals

CONSTANTS
  Hashes,
  Names,       \* category names
  Roots,       \* directories
  None,        \* no job, category or directory
  Requests,    \* API requests that can be in flight together
  Updates,     \* settings updates that can be in flight together
  MaxActs,     \* bound: requests and updates in a behaviour
  MaxFaults    \* bound: refused commits, failed saves, process deaths

ASSUME NoneAssumption == None \notin Names \cup Roots \cup Updates
ASSUME BoundAssumption == MaxActs \in Nat /\ MaxFaults \in Nat

\* What the settings say: the root of a job without a category, and those of
\* the configured categories.
Settings == [path : Roots, categories : [Names -> Roots \cup {None}]]

Job == [category : Names \cup {None}, step : {"accepted", "delivering", "delivered", "removing"},
        base : Roots \cup {None}, files : BOOLEAN]

VARIABLES
  job,        \* the row of a hash, or None
  category,   \* save_path of a category, or None
  disk,       \* roots that hold the payload of a hash
  saved,      \* the settings file
  memory,     \* app.state.settings, and what JobService took from it
  request, update,
  lock,       \* the holder of settings_update_lock
  torn,       \* an update stopped half way since the last that did not
  acts, faults

rows == <<job, category>>
settings == <<saved, memory, update, lock, torn>>
vars == <<rows, disk, settings, request, acts, faults>>

Idle == [step |-> "idle"]

Init ==
  /\ job = [h \in Hashes |-> None]
  /\ saved \in Settings
  /\ memory = saved
  /\ category = saved.categories
  /\ disk = [h \in Hashes |-> {}]
  /\ request = [r \in Requests |-> Idle]
  /\ update = [u \in Updates |-> Idle]
  /\ lock = None
  /\ torn = FALSE
  /\ acts = 0
  /\ faults = 0

Act == acts < MaxActs /\ acts' = acts + 1
Fault == faults < MaxFaults /\ faults' = faults + 1

-----------------------------------------------------------------------------
(***************************************************************************)
(* Requests of the qBittorrent API: each looks before it inserts.          *)
(***************************************************************************)
At(r, op, step) == request[r].step = step /\ request[r].op = op
Goto(r, step) == request' = [request EXCEPT ![r].step = step]

Answer(r, answer) == request' = [request EXCEPT ![r].step = "answered", ![r].answer = answer]

AskAdd(r) ==
  /\ request[r].step \in {"idle", "answered"} /\ Act
  /\ \E h \in Hashes, n \in Names \cup {None} :
       request' = [request EXCEPT ![r] =
         [step |-> "look", op |-> "add", hash |-> h, name |-> n, answer |-> "none"]]
  /\ UNCHANGED <<rows, disk, settings, faults>>

AskCreate(r) ==
  /\ request[r].step \in {"idle", "answered"} /\ Act
  /\ \E n \in Names, d \in Roots :
       request' = [request EXCEPT ![r] =
         [step |-> "look", op |-> "create", name |-> n, root |-> d, answer |-> "none"]]
  /\ UNCHANGED <<rows, disk, settings, faults>>

\* _add_source: the hash, then its category, then the insert.
LookForJob(r) ==
  /\ At(r, "add", "look")
  /\ IF job[request[r].hash] # None THEN Answer(r, "ok") ELSE Goto(r, "category")
  /\ UNCHANGED <<rows, disk, settings, acts, faults>>

LookForCategory(r) ==
  /\ At(r, "add", "category")
  /\ IF request[r].name # None /\ category[request[r].name] = None
       THEN Answer(r, "refused") ELSE Goto(r, "insert")
  /\ UNCHANGED <<rows, disk, settings, acts, faults>>

InsertJob(r) ==
  LET h == request[r].hash IN
  /\ At(r, "add", "insert") /\ job[h] = None
  /\ job' = [job EXCEPT ![h] = [category |-> request[r].name, step |-> "accepted",
                                base |-> None, files |-> FALSE]]
  /\ Answer(r, "ok")
  /\ UNCHANGED <<category, disk, settings, acts, faults>>

\* The hash is taken: roll back and look again.  Whatever is found then, even
\* nothing, the client hears Ok.  Mutant: the error is not handled.
JobTakenUnhandled(r) ==
  /\ At(r, "add", "insert") /\ job[request[r].hash] # None
  /\ Answer(r, "error")
  /\ UNCHANGED <<rows, disk, settings, acts, faults>>
JobTaken(r) ==
  /\ At(r, "add", "insert") /\ job[request[r].hash] # None
  /\ Goto(r, "again")
  /\ UNCHANGED <<rows, disk, settings, acts, faults>>

LookAgain(r) ==
  /\ At(r, "add", "again")
  /\ Answer(r, "ok")
  /\ UNCHANGED <<rows, disk, settings, acts, faults>>

\* create_category: the name, then the insert.  Nobody handles the error of
\* the second of two inserts.  Mutant: create writes over an existing path.
CreateOver(n, d) == [category EXCEPT ![n] = d]
Create(n, d) == IF category[n] = None THEN [category EXCEPT ![n] = d] ELSE category

LookForName(r) ==
  /\ At(r, "create", "look")
  /\ IF category[request[r].name] # None THEN Answer(r, "ok") ELSE Goto(r, "insert")
  /\ UNCHANGED <<rows, disk, settings, acts, faults>>

InsertCategory(r) ==
  LET n == request[r].name IN
  /\ At(r, "create", "insert")
  /\ category' = Create(n, request[r].root)
  /\ Answer(r, IF category[n] = None THEN "ok" ELSE "error")
  /\ UNCHANGED <<job, disk, settings, acts, faults>>

\* Another session holds the write lock for longer than the insert waits.
InsertRefused(r) ==
  /\ request[r].step = "insert" /\ Fault
  /\ Answer(r, "error")
  /\ UNCHANGED <<rows, disk, settings, acts>>

-----------------------------------------------------------------------------
(***************************************************************************)
(* A settings update, under settings_update_lock: directories, categories, *)
(* file, memory.                                                           *)
(***************************************************************************)
Set(u, step) == update' = [update EXCEPT ![u].step = step]
End(u) == update' = [update EXCEPT ![u] = Idle] /\ lock' = None

AskUpdate(u) ==
  /\ update[u].step = "idle" /\ Act
  /\ Set(u, "waiting")
  /\ UNCHANGED <<rows, disk, saved, memory, lock, torn, request, faults>>

\* Mutant: the updates do not wait for each other.
FreeAlways == TRUE
Free == lock = None

\* Every directory of the form was made.
Begin(u) ==
  /\ update[u].step = "waiting" /\ Free
  /\ lock' = u
  /\ \E next \in Settings :
       update' = [update EXCEPT ![u] = [step |-> "look", next |-> next,
                    todo |-> {n \in Names : next.categories[n] # None}]]
  /\ UNCHANGED <<rows, disk, saved, memory, torn, request, acts, faults>>

\* The form is invalid or a directory cannot be made: nothing was written.
Refuse(u) ==
  /\ update[u].step = "waiting" /\ Free
  /\ update' = [update EXCEPT ![u] = Idle]
  /\ UNCHANGED <<rows, disk, saved, memory, lock, torn, request, acts, faults>>

\* ensure_category of the next name.
LookAtCategory(u) ==
  /\ update[u].step = "look"
  /\ \E n \in update[u].todo :
       update' = [update EXCEPT ![u] =
         [step |-> "write", next |-> @.next, todo |-> @.todo, name |-> n, seen |-> category[n]]]
  /\ UNCHANGED <<rows, disk, saved, memory, lock, torn, request, acts, faults>>

Taken(u) == update[u].seen = None /\ category[update[u].name] # None

WriteCategory(u) ==
  /\ update[u].step = "write" /\ ~Taken(u)
  /\ LET n == update[u].name IN
     /\ category' = [category EXCEPT ![n] = update[u].next.categories[n]]
     /\ update' = [update EXCEPT ![u] =
          [step |-> "look", next |-> @.next, todo |-> @.todo \ {n}]]
  /\ UNCHANGED <<job, disk, saved, memory, lock, torn, request, acts, faults>>

\* The commit fails: what the earlier ones wrote stays.
WriteFails(u) ==
  /\ update[u].step = "write"
  /\ IF Taken(u) THEN UNCHANGED faults ELSE Fault
  /\ End(u)
  /\ torn' = TRUE
  /\ UNCHANGED <<rows, disk, saved, memory, request, acts>>

Save(u) ==
  /\ update[u].step = "look" /\ update[u].todo = {}
  /\ saved' = update[u].next
  /\ Set(u, "apply")
  /\ UNCHANGED <<rows, disk, memory, lock, torn, request, acts, faults>>

\* The save fails before the replacement of the file or, at the
\* synchronisation of its directory, after it.
SaveFails(u) ==
  /\ update[u].step = "look" /\ update[u].todo = {} /\ Fault
  /\ saved' \in {saved, update[u].next}
  /\ End(u)
  /\ torn' = TRUE
  /\ UNCHANGED <<rows, disk, memory, request, acts>>

\* No await from here to the release of the lock.  Mutant: the job service is
\* given the configuration the update started from.
AppliedOld(u) == [update[u].next EXCEPT !.path = memory.path]
Applied(u) == update[u].next

Apply(u) ==
  /\ update[u].step = "apply"
  /\ memory' = Applied(u)
  /\ End(u)
  /\ torn' = FALSE
  /\ UNCHANGED <<rows, disk, saved, request, acts, faults>>

-----------------------------------------------------------------------------
(***************************************************************************)
(* A job, as far as its root goes.                                         *)
(***************************************************************************)
Root(j) == IF j.category = None THEN memory.path ELSE category[j.category]

Has(h, steps) == job[h] # None /\ job[h].step \in steps
Turn(h, step) == job' = [job EXCEPT ![h].step = step]

StartDelivery(h) ==
  /\ Has(h, {"accepted"})
  /\ job' = [job EXCEPT ![h].step = "delivering", ![h].base = Root(job[h])]
  /\ UNCHANGED <<category, disk, settings, request, acts, faults>>

\* The last file is in its place; completed.
Deliver(h) ==
  /\ Has(h, {"delivering"})
  /\ disk' = [disk EXCEPT ![h] = @ \cup {job[h].base}]
  /\ Turn(h, "delivered")
  /\ UNCHANGED <<category, settings, request, acts, faults>>

Remove(h) ==
  /\ Has(h, {"accepted", "delivering", "delivered"}) /\ Act
  /\ \E files \in BOOLEAN :
       job' = [job EXCEPT ![h].step = "removing", ![h].files = files]
  /\ UNCHANGED <<category, disk, settings, request, faults>>

\* _cleanup_removing: the files under the root of now, then the row.
Cleanup(h) ==
  /\ Has(h, {"removing"})
  /\ disk' = [disk EXCEPT ![h] = IF job[h].files THEN @ \ {Root(job[h])} ELSE @]
  /\ job' = [job EXCEPT ![h] = None]
  /\ UNCHANGED <<category, settings, request, acts, faults>>

\* The process dies and is started: the settings are read from the file and
\* their categories written before anything is served.  Mutant: the start
\* leaves the categories that exist as they are.
EnsuredMissing == [n \in Names |-> IF category[n] = None
                                     THEN saved.categories[n] ELSE category[n]]
Ensured == [n \in Names |-> IF saved.categories[n] # None
                              THEN saved.categories[n] ELSE category[n]]

Restart ==
  /\ Fault
  /\ memory' = saved
  /\ category' = Ensured
  /\ job' = [h \in Hashes |-> IF Has(h, {"delivering"})
                                THEN [job[h] EXCEPT !.step = "accepted", !.base = None]
                                ELSE job[h]]
  /\ request' = [r \in Requests |-> Idle]
  /\ update' = [u \in Updates |-> Idle]
  /\ lock' = None
  /\ torn' = FALSE
  /\ UNCHANGED <<disk, saved, acts>>

Next ==
  \/ \E r \in Requests :
       \/ AskAdd(r) \/ LookForJob(r) \/ LookForCategory(r) \/ InsertJob(r)
       \/ JobTaken(r) \/ LookAgain(r)
       \/ AskCreate(r) \/ LookForName(r) \/ InsertCategory(r) \/ InsertRefused(r)
  \/ \E u \in Updates :
       \/ AskUpdate(u) \/ Begin(u) \/ Refuse(u) \/ LookAtCategory(u) \/ WriteCategory(u)
       \/ WriteFails(u) \/ Save(u) \/ SaveFails(u) \/ Apply(u)
  \/ \E h \in Hashes : StartDelivery(h) \/ Deliver(h) \/ Remove(h) \/ Cleanup(h)
  \/ Restart

Spec == Init /\ [][Next]_vars

-----------------------------------------------------------------------------
UnderWay == {u \in Updates : update[u].step \notin {"idle", "waiting"}}

TypeOK ==
  /\ job \in [Hashes -> Job \cup {None}]
  /\ category \in [Names -> Roots \cup {None}]
  /\ disk \in [Hashes -> SUBSET Roots]
  /\ saved \in Settings /\ memory \in Settings
  /\ lock \in Updates \cup {None}
  /\ torn \in BOOLEAN
  /\ acts \in 0 .. MaxActs /\ faults \in 0 .. MaxFaults

\* Unless an update stopped half way, what serves is what a restart would
\* read: two updates one after the other cannot leave the file of one and the
\* memory of the other.
MemoryIsSaved == UnderWay = {} /\ ~torn => memory = saved

\* Unless an update stopped half way, jobs of a configured category go where
\* the settings say, whatever requests, updates and restarts ran in between.
CategoriesAgree ==
  UnderWay = {} /\ ~torn =>
    \A n \in Names : memory.categories[n] # None => category[n] = memory.categories[n]

\* A submission is turned away only if its category was missing when it was
\* looked for or its commit was refused, never because another one won a race.
NoFalseRefusal ==
  [][\A r \in Requests :
       request[r].step # "answered" /\ request'[r].step = "answered"
         /\ request[r].op = "add" /\ request'[r].answer # "ok" =>
       \/ faults' > faults
       \/ request[r].name # None /\ category[request[r].name] = None]_vars

\* A submission that was answered Ok. has a job that stays until the client
\* asks for its removal.  The code answers Ok. for a job it is about to delete.
AddedServed ==
  [][\A r \in Requests :
       request[r].step # "answered" /\ request'[r].step = "answered"
         /\ request[r].op = "add" /\ request'[r].answer = "ok" =>
       /\ job'[request[r].hash] # None
       /\ job'[request[r].hash].step # "removing"]_vars

\* Creating a category fails only at a refused commit.  The second of two
\* inserts of one name is answered with an error.
CreateServed ==
  [][\A r \in Requests :
       request[r].step # "answered" /\ request'[r].step = "answered"
         /\ request[r].op = "create" /\ request'[r].answer # "ok" => faults' > faults]_vars

\* A delivered job is reported at a root that holds its payload.  An update
\* that moves the root of its category, or of the jobs without one, breaks it.
ReportedWhereItIs ==
  \A h \in Hashes : Has(h, {"delivered"}) => Root(job[h]) \in disk[h]

\* When a job that was to go with its files is gone, so are they.  Cleanup
\* looks for them under the root of now.
FilesGone ==
  [][\A h \in Hashes : job[h] # None /\ job'[h] = None /\ job[h].files => disk'[h] = {}]_vars
=============================================================================
