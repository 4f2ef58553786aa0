---------------------------- MODULE Lifespan_proofs ----------------------------
(***************************************************************************)
(* The server around the poller is a Scheduler; for any number of jobs,    *)
(* requests and changes, its workers stay within the limit, it asks for    *)
(* enough jobs, each job it should look at has its one place in the order, *)
(* and nobody works with a closed database.                                *)
(***************************************************************************)
EXTENDS Lifespan, FiniteSetTheorems, SequenceTheorems, TLAPS

\* Every step of the server is a step of the scheduler or none.
LEMMA LifeSteps == [LifeNext]_allVars => [Next]_vars
BY DEF LifeNext, allVars, Next, Starting, Ending, Acquire, Open, Serve, StartFails, Drain,
   StopPoller, StopRaises, PollerEnds, Close, Release

\* Starting and stopping the server adds nothing to what the scheduler does:
\* what is proved of the scheduler holds of the server (app.py:32-117).
THEOREM LifeIsScheduler == LifeSpec => Spec
<1>1. LifeInit => Init
  BY DEF LifeInit
<1> QED
  BY <1>1, LifeSteps, PTL DEF LifeSpec, Spec

-----------------------------------------------------------------------------
(***************************************************************************)
(* The slots.                                                              *)
(***************************************************************************)
Workers == {"none", "created", "working", "done"}

\* While the loop waits for the database, the room it computed stays free.
Slots ==
  /\ worker \in [Jobs -> Workers]
  /\ limit \in Limits
  /\ room \in Nat /\ asked \in Nat
  /\ IsFiniteSet(DOMAIN ids) /\ DOMAIN ids \subseteq Nat
  /\ loop \in {"asking", "listed"} => Cardinality(Unfinished(worker)) + room <= asked

\* The workers at work are finitely many.
LEMMA Countable ==
  ASSUME NEW w
  PROVE  /\ IsFiniteSet(Unfinished(w)) /\ Cardinality(Unfinished(w)) \in Nat
         /\ Unfinished(w) \subseteq Jobs
<1>1. Unfinished(w) \subseteq Jobs
  BY DEF Unfinished
<1>2. IsFiniteSet(Unfinished(w))
  BY <1>1, JobAssumption, FS_Subset
<1> QED BY <1>1, <1>2, FS_CardinalityType

\* As many jobs as there is room for are chosen at the most: they have as many
\* different numbers of free jobs before them.
LEMMA ChosenFit ==
  ASSUME room \in Nat, IsFiniteSet(DOMAIN ids), DOMAIN ids \subseteq Nat
  PROVE  IsFiniteSet(Chosen) /\ Cardinality(Chosen) <= room
<1> DEFINE P    == {k \in Free : Cardinality(Before(k)) < room}
           Seat == 0..(room - 1)
           rank == [k \in P |-> Cardinality(Before(k))]
           name == [k \in P |-> ids[k]]
<1>1. Free \subseteq Nat /\ IsFiniteSet(Free) /\ P \subseteq Free
  <2>1. Free \subseteq DOMAIN ids
    BY DEF Free
  <2> QED BY <2>1, FS_Subset
<1>2. \A k \in Free : IsFiniteSet(Before(k)) /\ Cardinality(Before(k)) \in Nat
  <2> SUFFICES ASSUME NEW k \in Free PROVE IsFiniteSet(Before(k)) /\ Cardinality(Before(k)) \in Nat
    OBVIOUS
  <2>1. Before(k) \subseteq Free
    BY DEF Before
  <2>2. IsFiniteSet(Before(k))
    BY <1>1, <2>1, FS_Subset
  <2> QED BY <2>2, FS_CardinalityType
<1>3. rank \in [P -> Seat]
  <2> SUFFICES ASSUME NEW k \in P PROVE Cardinality(Before(k)) \in Seat
    OBVIOUS
  <2>1. k \in Free /\ Cardinality(Before(k)) < room
    OBVIOUS
  <2>2. Cardinality(Before(k)) \in Nat
    BY <1>2, <2>1
  <2> QED BY <2>1, <2>2
<1>4. ASSUME NEW i \in P, NEW k \in P, i < k PROVE rank[i] # rank[k]
  <2>0. i \in Free /\ k \in Free /\ i \in Nat /\ k \in Nat
    BY <1>1
  <2>1. Before(i) \subseteq Before(k) /\ i \in Before(k) /\ i \notin Before(i)
    <3>1. \A m \in Free : m < i => m < k
      BY <1>1, <1>4, <2>0
    <3>2. Before(i) \subseteq Before(k)
      BY <3>1 DEF Before
    <3>3. i \in Before(k)
      BY <1>4, <2>0 DEF Before
    <3>4. ~(i < i)
      BY <2>0
    <3>5. i \notin Before(i)
      BY <3>4 DEF Before
    <3> QED BY <3>2, <3>3, <3>5
  <2>2. Cardinality(Before(i)) # Cardinality(Before(k))
    BY <1>2, <2>0, <2>1, FS_Subset
  <2> QED BY <2>2
<1>5. rank \in Injection(P, Seat)
  <2>1. \A i, k \in P : rank[i] = rank[k] => i = k
    BY <1>1, <1>4
  <2> QED BY <1>3, <2>1 DEF Injection, IsInjective
<1>6. IsFiniteSet(Seat) /\ Cardinality(Seat) = room
  BY FS_Interval
<1>7. IsFiniteSet(P) /\ Cardinality(P) <= room
  BY <1>5, <1>6, FS_Injection
<1>8. name \in Surjection(P, Chosen)
  BY DEF Surjection, Chosen
<1> QED BY <1>7, <1>8, FS_Surjection, FS_CardinalityType

\* What ends does not take a slot.
LEMMA FewerAtWork ==
  ASSUME NEW v, NEW w, Unfinished(v) \subseteq Unfinished(w)
  PROVE  Cardinality(Unfinished(v)) <= Cardinality(Unfinished(w))
BY Countable, FS_Subset

\* A step that admits nobody and leaves the loop where it is.
LEMMA SlotsKept ==
  ASSUME Slots, worker' \in [Jobs -> Workers], Unfinished(worker') \subseteq Unfinished(worker),
         UNCHANGED loopVars, limit' \in Limits
  PROVE  Slots'
<1>1. Cardinality(Unfinished(worker')) <= Cardinality(Unfinished(worker))
  BY FewerAtWork
<1>2. Cardinality(Unfinished(worker')) \in Nat /\ Cardinality(Unfinished(worker)) \in Nat
  BY Countable
<1> QED BY <1>1, <1>2 DEF Slots, loopVars

\* A round of the loop.
LEMMA LoopSlots ==
  ASSUME Slots, Look \/ Query \/ Admit
  PROVE  Slots'
<1>0. limit \in Nat /\ Cardinality(Unfinished(worker)) \in Nat
  BY LimitAssumption, Countable DEF Slots
<1>1. CASE Look
  <2>1. worker' \in [Jobs -> Workers] /\ Unfinished(worker') = Unfinished(worker)
    BY <1>1 DEF Look, Reaped, Slots, Workers, Unfinished
  <2>2. CASE Cardinality(Unfinished(worker)) < limit
    BY <1>0, <1>1, <2>1, <2>2 DEF Look, Slots
  <2>3. CASE ~(Cardinality(Unfinished(worker)) < limit)
    BY <1>1, <2>1, <2>3, SlotsKept DEF Look, Slots, loopVars
  <2> QED BY <2>2, <2>3
<1>2. CASE Query
  <2>1. UNCHANGED <<worker, limit, room, asked>> /\ loop = "asking"
        /\ ids' = [i \in (1..Candidates) \cap DOMAIN ripe |-> ripe[i]]
    BY <1>2 DEF Query
  <2>2. Candidates \in Nat
    BY DEF Candidates, Slots
  <2>3. DOMAIN ids' \subseteq 1..Candidates
    BY <2>1
  <2>4. IsFiniteSet(1..Candidates) /\ 1..Candidates \subseteq Nat
    BY <2>2, FS_Interval
  <2>5. IsFiniteSet(DOMAIN ids') /\ DOMAIN ids' \subseteq Nat
    BY <2>3, <2>4, FS_Subset
  <2> QED BY <2>1, <2>5 DEF Slots
<1>3. CASE Admit
  <2>1. /\ worker' = [j \in Jobs |-> IF j \in Chosen THEN "created" ELSE worker[j]]
        /\ loop' = "idle" /\ room' = 0 /\ asked' = 0 /\ ids' = <<>> /\ limit' = limit
    BY <1>3 DEF Admit
  <2>2. DOMAIN ids' = {}
    BY <2>1
  <2>3. IsFiniteSet(DOMAIN ids')
    BY <2>2, FS_EmptySet
  <2>4. worker' \in [Jobs -> Workers]
    BY <2>1 DEF Slots, Workers
  <2> QED BY <2>1, <2>2, <2>3, <2>4 DEF Slots
<1> QED BY <1>1, <1>2, <1>3

\* Only the loop, its start and its end touch the slots; everything else ends
\* workers or leaves them alone.
LEMMA SlotsStep ==
  ASSUME Slots, [Next]_vars
  PROVE  Slots'
<1>1. CASE Look \/ Query \/ Admit
  BY <1>1, LoopSlots
<1>2. CASE Start
  BY <1>2 DEF Start, Slots
<1>3. CASE Wind
  <2>1. worker' \in [Jobs -> Workers] /\ UNCHANGED limit
    BY <1>3 DEF Wind, Slots, Workers
  <2>2. loop' = "ending" /\ room' = 0 /\ asked' = 0 /\ DOMAIN ids' = {}
    BY <1>3 DEF Wind
  <2> QED BY <2>1, <2>2, FS_EmptySet DEF Slots
<1>4. CASE EndRun
  BY <1>4 DEF EndRun, Slots, Workers
<1>5. CASE \E n \in Limits : SetConcurrency(n)
  BY <1>5, SlotsKept DEF SetConcurrency, loopVars, Slots
<1>6. CASE \E j \in Jobs : Work(j) \/ Add(j) \/ Gate(j) \/ Settle(j)
  <2>1. PICK j \in Jobs : Work(j) \/ Add(j) \/ Gate(j) \/ Settle(j)
    BY <1>6
  <2>2. UNCHANGED <<loop, room, asked, ids, limit>>
    BY <2>1 DEF Work, Begin, End, Cancelled, InlineEnd, Add, Gate, Settle, Pause, Revive,
       Ignore, Discard, Settles, loopVars
  <2>3. worker' \in [Jobs -> Workers] /\ Unfinished(worker') \subseteq Unfinished(worker)
    BY <2>1 DEF Work, Begin, End, Cancelled, InlineEnd, Add, Gate, Settle, Pause, Revive,
       Ignore, Discard, Settles, Slots, Workers, Unfinished
  <2> QED BY <2>2, <2>3, SlotsKept DEF loopVars, Slots
<1>7. CASE Ripen \/ UNCHANGED vars
  BY <1>7, SlotsKept DEF Ripen, vars, loopVars, Slots
<1> QED BY <1>1, <1>2, <1>3, <1>4, <1>5, <1>6, <1>7
    DEF Next, Background, Loop, Requests, QueryFails, Stop

\* Nobody is at work at first.
LEMMA SlotsInit == Init => Slots
BY FS_EmptySet DEF Init, Slots, Workers

\* Whoever ends while the loop waits, and whatever limit is set meanwhile, the
\* loop admits no more workers than the limit it looked at allows
\* (poller.py:32-49).
THEOREM AdmitsWithinLimit == Spec => WithinLimit
<1>1. ASSUME Slots, [Next]_vars, loop = "listed", loop' = "idle"
      PROVE  Cardinality(Unfinished(worker')) <= asked
  <2>1. worker' = [j \in Jobs |-> IF j \in Chosen THEN "created" ELSE worker[j]]
    BY <1>1 DEF Next, Background, Loop, Look, Query, Admit, EndRun, QueryFails, Ripen, Stop,
       Wind, Start, Requests, Work, Begin, End, Cancelled, InlineEnd, Add, Gate, Settle,
       Pause, Revive, Ignore, Discard, Settles, SetConcurrency, loopVars, vars
  <2>2. Unfinished(worker') \subseteq Unfinished(worker) \cup Chosen
    BY <2>1 DEF Unfinished
  <2>3. /\ IsFiniteSet(Chosen) /\ Cardinality(Chosen) <= room
        /\ Cardinality(Unfinished(worker)) + room <= asked /\ room \in Nat /\ asked \in Nat
    BY <1>1, ChosenFit DEF Slots
  <2>4. /\ IsFiniteSet(Unfinished(worker) \cup Chosen)
        /\ Cardinality(Unfinished(worker) \cup Chosen)
             <= Cardinality(Unfinished(worker)) + Cardinality(Chosen)
    <3>1. IsFiniteSet(Unfinished(worker)) /\ IsFiniteSet(Chosen)
      BY <2>3, Countable
    <3>2. IsFiniteSet(Unfinished(worker) \cap Chosen)
      BY <3>1, FS_Intersection
    <3>3. /\ Cardinality(Unfinished(worker)) \in Nat /\ Cardinality(Chosen) \in Nat
          /\ Cardinality(Unfinished(worker) \cap Chosen) \in Nat
      BY <3>1, <3>2, FS_CardinalityType
    <3>4. /\ IsFiniteSet(Unfinished(worker) \cup Chosen)
          /\ Cardinality(Unfinished(worker) \cup Chosen)
               = Cardinality(Unfinished(worker)) + Cardinality(Chosen)
                   - Cardinality(Unfinished(worker) \cap Chosen)
      BY <3>1, FS_Union
    <3> QED BY <3>3, <3>4
  <2>5. Cardinality(Unfinished(worker')) <= Cardinality(Unfinished(worker) \cup Chosen)
    BY <2>2, <2>4, FS_Subset
  <2> QED BY <2>3, <2>4, <2>5, Countable, FS_CardinalityType
<1> QED
  BY <1>1, SlotsInit, SlotsStep, PTL DEF Spec, WithinLimit

\* The poller admits within its limit under the server that starts and stops
\* it, too (poller.py:32-49, app.py:97-110).
THEOREM LifeAdmitsWithinLimit == LifeSpec => WithinLimit
BY LifeIsScheduler, AdmitsWithinLimit

-----------------------------------------------------------------------------
(***************************************************************************)
(* The stages.                                                             *)
(***************************************************************************)
Idle == inline = {} /\ \A j \in Jobs : worker[j] = "none"

Stages == {"down", "locked", "preparing", "serving", "draining", "awaiting",
           "closing", "aborted", "down again"}

\* Nobody is at work before the poller is started and after it has ended, and
\* in between the database is open.
Staged ==
  /\ worker \in [Jobs -> Workers] /\ stage \in Stages
  /\ open => lock
  /\ stage = "locked" => lock
  /\ stage \in {"preparing", "serving", "draining", "awaiting", "aborted"} => open
  /\ stage \in {"down", "locked", "preparing"} =>
       Idle /\ loop = "off" /\ monitor = "none"
  /\ stage \in {"draining", "awaiting", "aborted"} => inline = {}
  /\ stage = "awaiting" => monitor = "ended"
  /\ loop \in {"off", "ended"} => \A j \in Jobs : worker[j] = "none"
  /\ stage \in {"closing", "down again"} =>
       Idle /\ loop \in {"off", "ended"} /\ monitor # "running"
  /\ stage = "down again" => ~open

\* The server is down at first.
LEMMA StagedInit == LifeInit => Staged
BY DEF LifeInit, Init, Staged, Idle, Stages, Workers

\* The poller and its workers by themselves, at any stage.
LEMMA StagedBackground ==
  ASSUME Staged, Background, UNCHANGED lifeVars
  PROVE  Staged'
<1>1. CASE Look
  BY <1>1 DEF Look, Reaped, Staged, Idle, Workers, lifeVars
<1>2. CASE Query
  BY <1>2 DEF Query, Staged, Idle, lifeVars
<1>3. CASE Admit
  BY <1>3 DEF Admit, Staged, Idle, Workers, lifeVars
<1>4. CASE EndRun
  BY <1>4 DEF EndRun, Staged, Idle, Workers, lifeVars
<1>5. CASE QueryFails
  BY <1>5 DEF QueryFails, Wind, Staged, Idle, Workers, lifeVars
<1>6. CASE Ripen
  BY <1>6 DEF Ripen, Staged, Idle, lifeVars, loopVars
<1>7. CASE \E j \in Jobs : Work(j)
  <2>1. PICK j \in Jobs : Work(j)
    BY <1>7
  <2>2. UNCHANGED <<loop, lifeVars>> /\ inline' \subseteq inline /\ worker' \in [Jobs -> Workers]
    BY <2>1 DEF Work, Begin, End, Cancelled, InlineEnd, loopVars, Staged, Workers
  <2>3. (\A i \in Jobs : worker[i] = "none") => \A i \in Jobs : worker'[i] = "none"
    BY <2>1 DEF Work, Begin, End, Cancelled, InlineEnd, Staged
  <2>4. inline = {} => inline' = {}
    BY <2>2
  <2>5. Idle => Idle'
    BY <2>3, <2>4 DEF Idle
  <2>6. UNCHANGED <<loop, stage, lock, open, monitor>>
    BY <2>2 DEF lifeVars
  <2>7. loop' \in {"off", "ended"} => \A i \in Jobs : worker'[i] = "none"
    BY <2>3, <2>6 DEF Staged
  <2> QED BY <2>2, <2>4, <2>5, <2>6, <2>7 DEF Staged
<1> QED BY <1>1, <1>2, <1>3, <1>4, <1>5, <1>6, <1>7 DEF Background, Loop

\* Requests come only while the server serves.
LEMMA StagedRequests ==
  ASSUME Staged, stage = "serving", Requests, UNCHANGED lifeVars
  PROVE  Staged'
<1>1. UNCHANGED <<worker, loop, lifeVars>>
  BY DEF Requests, Add, Gate, Settle, Pause, Revive, Ignore, Discard, Settles,
     SetConcurrency, loopVars
<1> QED BY <1>1 DEF Staged, lifeVars

\* The stages follow each other, and the poller does the rest.
LEMMA StagedStep ==
  ASSUME Staged, [LifeNext]_allVars
  PROVE  Staged'
<1>1. CASE Background /\ UNCHANGED lifeVars
  BY <1>1, StagedBackground
<1>2. CASE stage = "serving" /\ Requests /\ UNCHANGED lifeVars
  BY <1>2, StagedRequests
<1>3. CASE Acquire \/ Open \/ StartFails \/ Close \/ Release
  <2>1. UNCHANGED <<worker, inline, loop, monitor>>
    BY <1>3 DEF Acquire, Open, StartFails, Close, Release, vars
  <2>2. Idle' = Idle
    BY <2>1 DEF Idle
  <2>3. CASE Acquire
    BY <2>1, <2>2, <2>3 DEF Acquire, Staged, Stages
  <2>4. CASE Open
    BY <2>1, <2>2, <2>4 DEF Open, Staged, Stages
  <2>5. CASE StartFails
    BY <2>1, <2>2, <2>5 DEF StartFails, Staged, Stages
  <2>6. CASE Close
    BY <2>1, <2>2, <2>6 DEF Close, Staged, Stages
  <2>7. CASE Release
    BY <2>1, <2>2, <2>7 DEF Release, Staged, Stages
  <2> QED BY <1>3, <2>3, <2>4, <2>5, <2>6, <2>7
<1>4. CASE Serve
  BY <1>4 DEF Serve, Start, Staged, Idle, Stages
<1>5. CASE Drain
  BY <1>5 DEF Drain, Staged, Stages, vars
<1>6. CASE StopPoller
  BY <1>6 DEF StopPoller, Stop, Wind, Staged, Stages, Workers, vars
<1>7. CASE StopRaises
  BY <1>7 DEF StopRaises, Staged, Stages, vars
<1>8. CASE PollerEnds
  BY <1>8 DEF PollerEnds, PollerStopped, Staged, Idle, Stages, vars
<1>9. CASE UNCHANGED allVars
  BY <1>9 DEF allVars, vars, lifeVars, Staged, Idle
<1> QED BY <1>1, <1>2, <1>3, <1>4, <1>5, <1>6, <1>7, <1>8, <1>9
    DEF LifeNext, Starting, Ending

\* No worker, removal request or monitor run meets a closed database, and the
\* database is never open without the lock, at any stage of the start and of
\* the shutdown (app.py:32-117).
THEOREM LifeClosedLast == LifeSpec => []ClosedLast
<1>1. LifeSpec => []Staged
  BY StagedInit, StagedStep, PTL DEF LifeSpec
<1>2. Staged => ClosedLast
  BY DEF Staged, Stages, Idle, ClosedLast, Unfinished
<1> QED BY <1>1, <1>2, PTL

-----------------------------------------------------------------------------
(***************************************************************************)
(* Sequences without repetition.                                           *)
(***************************************************************************)
\* Taking the only place of an element out of a sequence.
LEMMA TakenOut ==
  ASSUME NEW s \in Seq(Jobs), IsInjective(s), NEW i \in 1..Len(s)
  PROVE  /\ RemoveFirst(s, s[i]) \in Seq(Jobs)
         /\ Len(RemoveFirst(s, s[i])) = Len(s) - 1
         /\ \A k \in 1..(Len(s) - 1) :
              RemoveFirst(s, s[i])[k] = IF k < i THEN s[k] ELSE s[k + 1]
<1> DEFINE before == SubSeq(s, 1, i - 1)
           after  == SubSeq(s, i + 1, Len(s))
<1>1. {k \in 1..Len(s) : s[k] = s[i]} = {i}
  BY DEF IsInjective
<1>2. Min({i}) = i
  BY DEF Min
<1>3. SelectInSeq(s, LAMBDA v : v = s[i]) = i
  BY <1>1, <1>2 DEF SelectInSeq
<1>4. RemoveFirst(s, s[i]) = before \o after
  BY <1>3 DEF RemoveFirst, RemoveAt
<1>5. \A k \in 1..Len(s) : s[k] \in Jobs
  OBVIOUS
<1>6. before \in Seq(Jobs) /\ Len(before) = i - 1 /\ \A k \in 1..(i - 1) : before[k] = s[k]
  OBVIOUS
<1>7. /\ after \in Seq(Jobs) /\ Len(after) = Len(s) - i
      /\ \A k \in 1..(Len(s) - i) : after[k] = s[i + k]
  OBVIOUS
<1> HIDE DEF before, after
<1>8. /\ before \o after \in Seq(Jobs)
      /\ Len(before \o after) = Len(before) + Len(after)
      /\ \A k \in 1..(Len(before) + Len(after)) :
           (before \o after)[k] = IF k <= Len(before) THEN before[k] ELSE after[k - Len(before)]
  BY <1>6, <1>7, ConcatProperties
<1>9. ASSUME NEW k \in 1..(Len(s) - 1)
      PROVE  (before \o after)[k] = IF k < i THEN s[k] ELSE s[k + 1]
  <2>0. Len(s) \in Nat
    OBVIOUS
  <2>1. k \in 1..(Len(before) + Len(after))
    BY <1>6, <1>7, <2>0
  <2>2. (before \o after)[k] = IF k <= i - 1 THEN before[k] ELSE after[k - (i - 1)]
    BY <1>6, <1>8, <2>1
  <2>3. CASE k < i
    <3>1. k \in 1..(i - 1)
      BY <2>0, <2>3
    <3>2. k <= i - 1 /\ before[k] = s[k]
      BY <1>6, <3>1
    <3> QED BY <2>2, <2>3, <3>2
  <2>4. CASE ~(k < i)
    <3>1. ~(k <= i - 1) /\ k - (i - 1) \in 1..(Len(s) - i) /\ i + (k - (i - 1)) = k + 1
      BY <2>0, <2>4
    <3>2. after[k - (i - 1)] = s[k + 1]
      BY <1>7, <3>1
    <3> QED BY <2>2, <2>4, <3>1, <3>2
  <2> QED BY <2>3, <2>4
<1>10. Len(before) + Len(after) = Len(s) - 1
  <2>1. Len(s) \in Nat
    OBVIOUS
  <2> QED BY <1>6, <1>7, <2>1
<1> QED BY <1>4, <1>8, <1>9, <1>10, Zenon

\* A job has a place at the most, and it is the one that is taken.
LEMMA Dropped ==
  ASSUME NEW s \in Seq(Jobs), IsInjective(s), NEW j
  PROVE  /\ RemoveFirst(s, j) \in Seq(Jobs) /\ IsInjective(RemoveFirst(s, j))
         /\ ToSet(RemoveFirst(s, j)) = ToSet(s) \ {j}
<1>1. CASE \E i \in 1..Len(s) : s[i] = j
  <2>1. PICK i \in 1..Len(s) : s[i] = j
    BY <1>1
  <2> DEFINE r == RemoveFirst(s, j)
  <2>2. /\ r \in Seq(Jobs) /\ Len(r) = Len(s) - 1
        /\ \A k \in 1..(Len(s) - 1) : r[k] = IF k < i THEN s[k] ELSE s[k + 1]
    BY <2>1, TakenOut
  <2> HIDE DEF r
  <2>3. \A k, m \in 1..Len(s) : s[k] = s[m] => k = m
    BY DEF IsInjective
  <2>4. DOMAIN r = 1..(Len(s) - 1) /\ DOMAIN s = 1..Len(s)
    BY <2>2
  <2>5. IsInjective(r)
    <3> SUFFICES ASSUME NEW k \in DOMAIN r, NEW m \in DOMAIN r, r[k] = r[m] PROVE k = m
      BY DEF IsInjective
    <3> QED BY <2>2, <2>3, <2>4
  <2>6. ASSUME NEW k \in DOMAIN r PROVE r[k] \in ToSet(s) \ {j}
    BY <2>1, <2>2, <2>3, <2>4 DEF ToSet
  <2>7. ASSUME NEW k \in DOMAIN s, s[k] # j PROVE s[k] \in ToSet(r)
    <3>1. CASE k < i
      <4>1. k \in DOMAIN r /\ r[k] = s[k]
        BY <2>2, <2>4, <3>1
      <4> QED BY <4>1 DEF ToSet
    <3>2. CASE ~(k < i)
      <4>1. k # i
        BY <2>1, <2>7
      <4>2. k - 1 \in DOMAIN r /\ r[k - 1] = s[k]
        BY <2>2, <2>4, <3>2, <4>1
      <4> QED BY <4>2 DEF ToSet
    <3> QED BY <3>1, <3>2
  <2>8. ToSet(r) = ToSet(s) \ {j}
    BY <2>6, <2>7 DEF ToSet
  <2> QED BY <2>2, <2>5, <2>8 DEF r
<1>2. CASE ~ \E i \in 1..Len(s) : s[i] = j
  <2>1. RemoveFirst(s, j) = s
    BY <1>2 DEF RemoveFirst
  <2>2. j \notin ToSet(s)
    BY <1>2 DEF ToSet
  <2> QED BY <2>1, <2>2
<1> QED BY <1>1, <1>2

\* A job that has no place gets the last.
LEMMA Lasts ==
  ASSUME NEW s \in Seq(Jobs), IsInjective(s), NEW j \in Jobs, j \notin ToSet(s)
  PROVE  /\ Append(s, j) \in Seq(Jobs) /\ IsInjective(Append(s, j))
         /\ ToSet(Append(s, j)) = ToSet(s) \cup {j}
<1> DEFINE r == Append(s, j)
<1>1. /\ r \in Seq(Jobs) /\ Len(r) = Len(s) + 1 /\ r[Len(s) + 1] = j
      /\ \A k \in 1..Len(s) : r[k] = s[k]
  BY AppendProperties
<1> HIDE DEF r
<1>2. DOMAIN r = 1..(Len(s) + 1) /\ DOMAIN s = 1..Len(s) /\ Len(s) \in Nat
  BY <1>1
<1>3. \A k \in 1..Len(s) : s[k] # j
  BY <1>2 DEF ToSet
<1>4. IsInjective(r)
  <2> SUFFICES ASSUME NEW k \in DOMAIN r, NEW m \in DOMAIN r, r[k] = r[m] PROVE k = m
    BY DEF IsInjective
  <2>1. \A a, b \in 1..Len(s) : s[a] = s[b] => a = b
    BY DEF IsInjective
  <2> QED BY <1>1, <1>2, <1>3, <2>1
<1>5. \A k \in DOMAIN r : r[k] \in ToSet(s) \cup {j}
  BY <1>1, <1>2 DEF ToSet
<1>6. \A k \in DOMAIN s : s[k] \in ToSet(r)
  BY <1>1, <1>2 DEF ToSet
<1>7. j \in ToSet(r)
  BY <1>1, <1>2 DEF ToSet
<1>8. ToSet(r) = ToSet(s) \cup {j}
  BY <1>5, <1>6, <1>7 DEF ToSet
<1> QED BY <1>1, <1>4, <1>8 DEF r

\* Or any other.
LEMMA Inserted ==
  ASSUME NEW s \in Seq(Jobs), IsInjective(s), NEW j \in Jobs, j \notin ToSet(s),
         NEW i \in 1..(Len(s) + 1)
  PROVE  /\ InsertAt(s, i, j) \in Seq(Jobs) /\ IsInjective(InsertAt(s, i, j))
         /\ ToSet(InsertAt(s, i, j)) = ToSet(s) \cup {j}
<1> DEFINE before == SubSeq(s, 1, i - 1)
           after  == SubSeq(s, i, Len(s))
           front  == Append(before, j)
           r      == front \o after
<1>0. Len(s) \in Nat /\ DOMAIN s = 1..Len(s) /\ \A k \in 1..Len(s) : s[k] \in Jobs
  OBVIOUS
<1>1. before \in Seq(Jobs) /\ Len(before) = i - 1 /\ \A k \in 1..(i - 1) : before[k] = s[k]
  OBVIOUS
<1>2. /\ after \in Seq(Jobs) /\ Len(after) = Len(s) - (i - 1)
      /\ \A k \in 1..(Len(s) - (i - 1)) : after[k] = s[(i - 1) + k]
  OBVIOUS
<1>3. InsertAt(s, i, j) = r
  <2>1. Append(before, j) = before \o <<j>>
    BY <1>1, AppendIsConcat
  <2> QED BY <2>1 DEF InsertAt
<1> HIDE DEF before, after
<1>4. /\ front \in Seq(Jobs) /\ Len(front) = i
      /\ front[i] = j /\ \A k \in 1..(i - 1) : front[k] = s[k]
  BY <1>1, AppendProperties
<1> HIDE DEF front
<1>5. /\ r \in Seq(Jobs) /\ Len(r) = Len(s) + 1
      /\ \A k \in 1..(Len(s) + 1) : r[k] = IF k <= i THEN front[k] ELSE after[k - i]
  <2>1. /\ r \in Seq(Jobs) /\ Len(r) = Len(front) + Len(after)
        /\ \A k \in 1..(Len(front) + Len(after)) :
             r[k] = IF k <= Len(front) THEN front[k] ELSE after[k - Len(front)]
    BY <1>2, <1>4, ConcatProperties
  <2>2. Len(front) + Len(after) = Len(s) + 1
    BY <1>0, <1>2, <1>4
  <2> QED BY <1>4, <2>1, <2>2
<1> HIDE DEF r
<1>6. r[i] = j /\ \A k \in 1..(i - 1) : r[k] = s[k]
  BY <1>0, <1>4, <1>5
<1>7. ASSUME NEW k \in (i + 1)..(Len(s) + 1) PROVE r[k] = s[k - 1]
  <2>1. k - i \in 1..(Len(s) - (i - 1)) /\ (i - 1) + (k - i) = k - 1
    BY <1>0
  <2>2. after[k - i] = s[k - 1]
    BY <1>2, <2>1
  <2>3. ~(k <= i) /\ k \in 1..(Len(s) + 1)
    BY <1>0
  <2> QED BY <1>5, <2>2, <2>3
<1>8. DOMAIN r = 1..(Len(s) + 1)
  BY <1>0, <1>5
<1>9. \A k \in 1..Len(s) : s[k] # j
  BY <1>0 DEF ToSet
<1>10. IsInjective(r)
  <2> SUFFICES ASSUME NEW k \in DOMAIN r, NEW m \in DOMAIN r, r[k] = r[m] PROVE k = m
    BY DEF IsInjective
  <2>1. \A a, b \in 1..Len(s) : s[a] = s[b] => a = b
    BY DEF IsInjective
  <2> QED BY <1>0, <1>6, <1>7, <1>8, <1>9, <2>1
<1>11. ASSUME NEW k \in DOMAIN r PROVE r[k] \in ToSet(s) \cup {j}
  <2>1. CASE k < i
    BY <1>0, <1>6, <1>8, <2>1 DEF ToSet
  <2>2. CASE k > i
    <3>1. r[k] = s[k - 1] /\ k - 1 \in DOMAIN s
      BY <1>0, <1>7, <1>8, <2>2
    <3> QED BY <3>1 DEF ToSet
  <2> QED BY <1>6, <1>8, <2>1, <2>2
<1>12. ASSUME NEW k \in DOMAIN s PROVE s[k] \in ToSet(r)
  <2>1. CASE k < i
    <3>1. k \in DOMAIN r /\ r[k] = s[k]
      BY <1>0, <1>6, <1>8, <2>1
    <3> QED BY <3>1 DEF ToSet
  <2>2. CASE ~(k < i)
    <3>1. k + 1 \in (i + 1)..(Len(s) + 1) /\ (k + 1) - 1 = k
      BY <1>0, <2>2
    <3>2. k + 1 \in DOMAIN r /\ r[k + 1] = s[k]
      BY <1>0, <1>7, <1>8, <3>1
    <3> QED BY <3>2 DEF ToSet
  <2> QED BY <2>1, <2>2
<1>13. j \in ToSet(r)
  BY <1>0, <1>6, <1>8 DEF ToSet
<1>14. ToSet(r) = ToSet(s) \cup {j}
  BY <1>11, <1>12, <1>13 DEF ToSet
<1> QED BY <1>3, <1>5, <1>10, <1>14

\* The first leaves.
LEMMA Leaves ==
  ASSUME NEW s \in Seq(Jobs), IsInjective(s), s # <<>>
  PROVE  /\ Head(s) \in ToSet(s)
         /\ Tail(s) \in Seq(Jobs) /\ IsInjective(Tail(s))
         /\ ToSet(Tail(s)) = ToSet(s) \ {Head(s)}
<1> DEFINE r == Tail(s)
<1>0. Len(s) \in Nat \ {0} /\ DOMAIN s = 1..Len(s) /\ Head(s) = s[1]
  BY EmptySeq
<1>1. r \in Seq(Jobs) /\ Len(r) = Len(s) - 1 /\ \A k \in 1..Len(r) : r[k] = s[k + 1]
  BY HeadTailProperties
<1> HIDE DEF r
<1>2. DOMAIN r = 1..(Len(s) - 1)
  BY <1>0, <1>1
<1>3. \A a, b \in 1..Len(s) : s[a] = s[b] => a = b
  BY <1>0 DEF IsInjective
<1>4. IsInjective(r)
  <2> SUFFICES ASSUME NEW k \in DOMAIN r, NEW m \in DOMAIN r, r[k] = r[m] PROVE k = m
    BY DEF IsInjective
  <2> QED BY <1>0, <1>1, <1>2, <1>3
<1>5. ASSUME NEW k \in DOMAIN r PROVE r[k] \in ToSet(s) \ {Head(s)}
  <2>1. r[k] = s[k + 1] /\ k + 1 \in 1..Len(s) /\ k + 1 # 1
    BY <1>0, <1>1, <1>2
  <2> QED BY <1>0, <1>3, <2>1 DEF ToSet
<1>6. ASSUME NEW k \in DOMAIN s, s[k] # Head(s) PROVE s[k] \in ToSet(r)
  <2>1. k - 1 \in DOMAIN r /\ r[k - 1] = s[k]
    BY <1>0, <1>1, <1>2, <1>6
  <2> QED BY <2>1 DEF ToSet
<1>7. ToSet(r) = ToSet(s) \ {Head(s)}
  BY <1>5, <1>6 DEF ToSet
<1>8. Head(s) \in ToSet(s)
  BY <1>0 DEF ToSet
<1> QED BY <1>1, <1>4, <1>7, <1>8 DEF r

\* Two orders that share no job make one.
LEMMA Joined ==
  ASSUME NEW s \in Seq(Jobs), NEW t \in Seq(Jobs), IsInjective(s), IsInjective(t),
         ToSet(s) \cap ToSet(t) = {}
  PROVE  IsInjective(s \o t) /\ ToSet(s \o t) = ToSet(s) \cup ToSet(t)
<1> DEFINE r == s \o t
<1>1. /\ r \in Seq(Jobs) /\ Len(r) = Len(s) + Len(t)
      /\ \A k \in 1..(Len(s) + Len(t)) : r[k] = IF k <= Len(s) THEN s[k] ELSE t[k - Len(s)]
  BY ConcatProperties
<1> HIDE DEF r
<1>2. /\ Len(s) \in Nat /\ Len(t) \in Nat
      /\ DOMAIN s = 1..Len(s) /\ DOMAIN t = 1..Len(t) /\ DOMAIN r = 1..(Len(s) + Len(t))
  BY <1>1
<1>3. \A a, b \in 1..Len(s) : s[a] = s[b] => a = b
  BY <1>2 DEF IsInjective
<1>4. \A a, b \in 1..Len(t) : t[a] = t[b] => a = b
  BY <1>2 DEF IsInjective
<1>5. \A a \in 1..Len(s), b \in 1..Len(t) : s[a] # t[b]
  BY <1>2 DEF ToSet
<1>6. IsInjective(r)
  <2> SUFFICES ASSUME NEW k \in DOMAIN r, NEW m \in DOMAIN r, r[k] = r[m] PROVE k = m
    BY DEF IsInjective
  <2>1. CASE k <= Len(s) /\ m <= Len(s)
    BY <1>1, <1>2, <1>3, <2>1
  <2>2. CASE k <= Len(s) /\ ~(m <= Len(s))
    <3>1. m - Len(s) \in 1..Len(t) /\ k \in 1..Len(s)
      BY <1>2, <2>2
    <3> QED BY <1>1, <1>2, <1>5, <2>2, <3>1
  <2>3. CASE ~(k <= Len(s)) /\ m <= Len(s)
    <3>1. k - Len(s) \in 1..Len(t) /\ m \in 1..Len(s)
      BY <1>2, <2>3
    <3> QED BY <1>1, <1>2, <1>5, <2>3, <3>1
  <2>4. CASE ~(k <= Len(s)) /\ ~(m <= Len(s))
    <3>1. k - Len(s) \in 1..Len(t) /\ m - Len(s) \in 1..Len(t)
      BY <1>2, <2>4
    <3>2. k - Len(s) = m - Len(s)
      BY <1>1, <1>2, <1>4, <2>4, <3>1
    <3> QED BY <1>2, <3>2
  <2> QED BY <2>1, <2>2, <2>3, <2>4
<1>7. ASSUME NEW k \in DOMAIN r PROVE r[k] \in ToSet(s) \cup ToSet(t)
  <2>1. CASE k <= Len(s)
    BY <1>1, <1>2, <2>1 DEF ToSet
  <2>2. CASE ~(k <= Len(s))
    <3>1. k - Len(s) \in 1..Len(t)
      BY <1>2, <2>2
    <3> QED BY <1>1, <1>2, <2>2, <3>1 DEF ToSet
  <2> QED BY <2>1, <2>2
<1>8. ASSUME NEW k \in DOMAIN s PROVE s[k] \in ToSet(r)
  <2>1. k \in DOMAIN r /\ r[k] = s[k]
    BY <1>1, <1>2
  <2> QED BY <2>1 DEF ToSet
<1>9. ASSUME NEW k \in DOMAIN t PROVE t[k] \in ToSet(r)
  <2>1. Len(s) + k \in DOMAIN r /\ ~(Len(s) + k <= Len(s)) /\ (Len(s) + k) - Len(s) = k
    BY <1>2
  <2>2. r[Len(s) + k] = t[k]
    BY <1>1, <1>2, <2>1
  <2> QED BY <2>1, <2>2 DEF ToSet
<1>10. ToSet(r) = ToSet(s) \cup ToSet(t)
  BY <1>7, <1>8, <1>9 DEF ToSet
<1> QED BY <1>6, <1>10 DEF r

-----------------------------------------------------------------------------
(***************************************************************************)
(* The order.                                                              *)
(***************************************************************************)
Waiting == ToSet(ripe) \cup ToSet(queued)

\* No job has two places.
Orders ==
  /\ ripe \in Seq(Jobs) /\ queued \in Seq(Jobs)
  /\ IsInjective(ripe) /\ IsInjective(queued)
  /\ ToSet(ripe) \cap ToSet(queued) = {}

\* A registered job is one there is something to do for, it is registered by a
\* worker or by a request and not by both, and it is cancelled when it is gated.
AtWork(j) ==
  /\ Registered(j) => row[j] \in Selectable
  /\ ~(worker[j] = "working" /\ j \in inline)
  /\ j \in gated /\ Registered(j) => j \in doomed

\* The jobs that have a place are those there is something to do for.
Ordered ==
  /\ Orders
  /\ Waiting = {j \in Jobs : row[j] \in Selectable}
  /\ \A j \in Jobs : AtWork(j)

\* Wherever a job was, soon it is among the ripe only.
LEMMA SoonOrders ==
  ASSUME Orders, NEW j \in Jobs, Soon(j)
  PROVE  Orders' /\ Waiting' = Waiting \cup {j}
<1> DEFINE rest == RemoveFirst(ripe, j)
<1>1. /\ rest \in Seq(Jobs) /\ IsInjective(rest) /\ ToSet(rest) = ToSet(ripe) \ {j}
      /\ queued' \in Seq(Jobs) /\ IsInjective(queued') /\ ToSet(queued') = ToSet(queued) \ {j}
  BY Dropped DEF Orders, Soon
<1>2. ripe' = Append(rest, j) /\ j \notin ToSet(rest)
  BY <1>1 DEF Soon
<1> HIDE DEF rest
<1>3. /\ ripe' \in Seq(Jobs) /\ IsInjective(ripe') /\ ToSet(ripe') = ToSet(rest) \cup {j}
  BY <1>1, <1>2, Lasts
<1>4. ToSet(ripe)' = ToSet(ripe') /\ ToSet(queued)' = ToSet(queued')
  BY DEF ToSet
<1>5. IsInjective(ripe)' = IsInjective(ripe') /\ IsInjective(queued)' = IsInjective(queued')
  BY DEF IsInjective
<1> QED BY <1>1, <1>3, <1>4, <1>5 DEF Orders, Waiting

\* Later, it is among the queued only.
LEMMA LaterOrders ==
  ASSUME Orders, NEW j \in Jobs, Later(j)
  PROVE  Orders' /\ Waiting' = Waiting \cup {j}
<1> DEFINE rest == RemoveFirst(queued, j)
<1>1. /\ rest \in Seq(Jobs) /\ IsInjective(rest) /\ ToSet(rest) = ToSet(queued) \ {j}
      /\ ripe' \in Seq(Jobs) /\ IsInjective(ripe') /\ ToSet(ripe') = ToSet(ripe) \ {j}
  BY Dropped DEF Orders, Later
<1>2. PICK i \in 1..(Len(rest) + 1) : queued' = InsertAt(rest, i, j)
  BY DEF Later
<1>3. j \notin ToSet(rest)
  BY <1>1
<1> HIDE DEF rest
<1>4. /\ queued' \in Seq(Jobs) /\ IsInjective(queued') /\ ToSet(queued') = ToSet(rest) \cup {j}
  BY <1>1, <1>2, <1>3, Inserted
<1>5. ToSet(ripe)' = ToSet(ripe') /\ ToSet(queued)' = ToSet(queued')
  BY DEF ToSet
<1>6. IsInjective(ripe)' = IsInjective(ripe') /\ IsInjective(queued)' = IsInjective(queued')
  BY DEF IsInjective
<1> QED BY <1>1, <1>4, <1>5, <1>6 DEF Orders, Waiting

\* Never, it is nowhere.
LEMMA NeverOrders ==
  ASSUME Orders, NEW j \in Jobs, Never(j)
  PROVE  Orders' /\ Waiting' = Waiting \ {j}
<1>1. /\ ripe' \in Seq(Jobs) /\ IsInjective(ripe') /\ ToSet(ripe') = ToSet(ripe) \ {j}
      /\ queued' \in Seq(Jobs) /\ IsInjective(queued') /\ ToSet(queued') = ToSet(queued) \ {j}
  BY Dropped DEF Orders, Never
<1>2. ToSet(ripe)' = ToSet(ripe') /\ ToSet(queued)' = ToSet(queued')
  BY DEF ToSet
<1>3. IsInjective(ripe)' = IsInjective(ripe') /\ IsInjective(queued)' = IsInjective(queued')
  BY DEF IsInjective
<1> QED BY <1>1, <1>2, <1>3 DEF Orders, Waiting

\* Time takes a job from the one to the other.
LEMMA RipenOrders ==
  ASSUME Orders, Ripen
  PROVE  Orders' /\ Waiting' = Waiting
<1> DEFINE j == Head(queued)
<1>1. /\ j \in ToSet(queued) /\ queued' \in Seq(Jobs) /\ IsInjective(queued')
      /\ ToSet(queued') = ToSet(queued) \ {j}
  BY Leaves DEF Orders, Ripen
<1>2. j \notin ToSet(ripe) /\ j \in Jobs
  BY <1>1 DEF Orders, ToSet
<1>3. ripe' = Append(ripe, j)
  BY DEF Ripen
<1> HIDE DEF j
<1>4. ripe' \in Seq(Jobs) /\ IsInjective(ripe') /\ ToSet(ripe') = ToSet(ripe) \cup {j}
  BY <1>2, <1>3, Lasts DEF Orders
<1>5. ToSet(ripe)' = ToSet(ripe') /\ ToSet(queued)' = ToSet(queued')
  BY DEF ToSet
<1>6. IsInjective(ripe)' = IsInjective(ripe') /\ IsInjective(queued)' = IsInjective(queued')
  BY DEF IsInjective
<1> QED BY <1>1, <1>2, <1>4, <1>5, <1>6 DEF Orders, Waiting

\* What leaves the rows and the order alone.
LEMMA OrderKept ==
  ASSUME Orders, UNCHANGED orderVars
  PROVE  Orders' /\ Waiting' = Waiting
BY DEF orderVars, Orders, Waiting, ToSet, IsInjective

Rows == [Jobs -> Selectable \cup {"new", "resting", "gone"}]

\* What a job comes to is its own: it has a place when there is something to do.
LEMMA OutcomeOrders ==
  ASSUME Orders, Waiting = {i \in Jobs : row[i] \in Selectable}, row \in Rows,
         NEW j \in Jobs, row[j] \in Selectable, Outcome(j)
  PROVE  /\ Orders' /\ Waiting' = {i \in Jobs : row'[i] \in Selectable}
         /\ row' \in Rows /\ \A i \in Jobs \ {j} : row'[i] = row[i]
<1>1. CASE UNCHANGED <<row, orderVars>>
  BY <1>1, OrderKept
<1>2. CASE (Soon(j) \/ Later(j)) /\ UNCHANGED row
  <2>1. Orders' /\ Waiting' = Waiting \cup {j}
    BY <1>2, SoonOrders, LaterOrders
  <2> QED BY <1>2, <2>1
<1>3. CASE Never(j) /\ row' = [row EXCEPT ![j] = IF @ = "due" THEN "resting" ELSE "gone"]
  <2>1. Orders' /\ Waiting' = Waiting \ {j}
    BY <1>3, NeverOrders
  <2>2. row'[j] \in {"resting", "gone"} /\ \A i \in Jobs \ {j} : row'[i] = row[i]
    BY <1>3 DEF Rows
  <2>3. row' \in Rows
    BY <1>3 DEF Rows
  <2>4. row'[j] \notin Selectable
    BY <2>2 DEF Selectable
  <2> QED BY <2>1, <2>2, <2>3, <2>4
<1> QED BY <1>1, <1>2, <1>3 DEF Outcome

\* The loop, its start and its end.
LEMMA LoopOrdered ==
  ASSUME Ordered, worker \in [Jobs -> Workers], Start \/ Loop \/ Wind
  PROVE  Ordered'
<1>1. UNCHANGED <<row, orderVars, gated, inline>>
  BY DEF Start, Loop, Look, Query, Admit, EndRun, Wind
<1>2. Orders' /\ Waiting' = Waiting
  BY <1>1, OrderKept DEF Ordered
<1>3. \A j \in Jobs : worker'[j] = "working" => worker[j] = "working"
  BY DEF Start, Loop, Look, Reaped, Query, Admit, EndRun, Wind
<1>4. doomed \subseteq doomed'
  BY DEF Start, Loop, Look, Query, Admit, EndRun, Wind
<1>5. \A j \in Jobs : Registered(j)' => Registered(j)
  BY <1>1, <1>3 DEF Registered
<1>6. \A j \in Jobs : AtWork(j)'
  BY <1>1, <1>3, <1>4, <1>5 DEF Ordered, AtWork
<1> QED BY <1>1, <1>2, <1>6 DEF Ordered

\* The workers and the removals, job by job.
LEMMA WorkOrdered ==
  ASSUME Ordered, row \in Rows, worker \in [Jobs -> Workers], NEW j \in Jobs, Work(j)
  PROVE  Ordered' /\ row' \in Rows
<1>0. /\ Orders /\ Waiting = {i \in Jobs : row[i] \in Selectable}
      /\ \A i \in Jobs : AtWork(i)
  BY DEF Ordered
<1>1. CASE Begin(j) \/ Cancelled(j)
  <2>1. UNCHANGED <<row, orderVars, gated>>
    BY <1>1 DEF Begin, Cancelled
  <2>2. Orders' /\ Waiting' = Waiting
    BY <1>0, <2>1, OrderKept
  <2>3. CASE Begin(j)
    <3>1. UNCHANGED <<inline, doomed>> /\ worker[j] = "created"
          /\ worker' = [worker EXCEPT ![j] = IF Admitted(j) THEN "working" ELSE "done"]
      BY <2>3 DEF Begin
    <3>2. \A i \in Jobs \ {j} : worker'[i] = worker[i]
      BY <3>1
    <3>3. worker'[j] = "working" => Admitted(j)
      BY <3>1
    <3>4. AtWork(j)'
      BY <1>0, <2>1, <3>1, <3>3 DEF AtWork, Registered, Admitted
    <3>5. \A i \in Jobs \ {j} : AtWork(i)'
      BY <1>0, <2>1, <3>1, <3>2 DEF AtWork, Registered
    <3> QED BY <1>0, <2>1, <2>2, <3>4, <3>5 DEF Ordered
  <2>4. CASE Cancelled(j)
    <3>1. /\ doomed' = doomed \ {j} /\ inline' = inline \ {j}
          /\ worker' = [worker EXCEPT ![j] = IF @ = "working" THEN "done" ELSE @]
      BY <2>4 DEF Cancelled
    <3>2. \A i \in Jobs \ {j} : worker'[i] = worker[i]
      BY <3>1
    <3>3. worker'[j] # "working"
      BY <3>1
    <3>4. AtWork(j)'
      BY <3>1, <3>3 DEF AtWork, Registered
    <3>5. \A i \in Jobs \ {j} : AtWork(i)'
      BY <1>0, <2>1, <3>1, <3>2 DEF AtWork, Registered
    <3> QED BY <1>0, <2>1, <2>2, <3>4, <3>5 DEF Ordered
  <2> QED BY <1>1, <2>3, <2>4
<1>2. CASE End(j) \/ InlineEnd(j)
  <2>1. Registered(j) /\ Outcome(j) /\ UNCHANGED <<gated, doomed>>
    BY <1>2 DEF End, InlineEnd, Registered
  <2>2. row[j] \in Selectable
    BY <1>0, <2>1 DEF AtWork
  <2>3. /\ Orders' /\ Waiting' = {i \in Jobs : row'[i] \in Selectable}
        /\ row' \in Rows /\ \A i \in Jobs \ {j} : row'[i] = row[i]
    BY <1>0, <2>1, <2>2, OutcomeOrders
  <2>4. worker'[j] # "working" /\ j \notin inline'
    <3>1. CASE End(j)
      BY <1>0, <3>1 DEF End, AtWork
    <3>2. CASE InlineEnd(j)
      BY <1>0, <3>2 DEF InlineEnd, AtWork
    <3> QED BY <1>2, <3>1, <3>2
  <2>5. \A i \in Jobs \ {j} : worker'[i] = worker[i] /\ (i \in inline' <=> i \in inline)
    BY <1>2 DEF End, InlineEnd
  <2>6. AtWork(j)'
    BY <2>4 DEF AtWork, Registered
  <2>7. \A i \in Jobs \ {j} : AtWork(i)'
    BY <1>0, <2>1, <2>3, <2>5 DEF AtWork, Registered
  <2> QED BY <2>3, <2>6, <2>7 DEF Ordered
<1> QED BY <1>1, <1>2 DEF Work

\* What clients ask for: a gated job whose task has ended is not registered.
LEMMA RequestOrdered ==
  ASSUME Ordered, row \in Rows, NEW j \in Jobs, Add(j) \/ Gate(j) \/ Settle(j)
  PROVE  Ordered' /\ row' \in Rows
<1>0. /\ Orders /\ Waiting = {i \in Jobs : row[i] \in Selectable}
      /\ \A i \in Jobs : AtWork(i)
  BY DEF Ordered
<1>w. UNCHANGED worker
  BY DEF Add, Gate, Settle, Pause, Revive, Ignore, Discard, Settles
<1>1. CASE Add(j)
  <2>1. Soon(j) /\ row' = [row EXCEPT ![j] = "due"] /\ UNCHANGED <<gated, inline, doomed>>
    BY <1>1 DEF Add
  <2>2. Orders' /\ Waiting' = Waiting \cup {j}
    BY <1>0, <2>1, SoonOrders
  <2>3. row' \in Rows /\ row'[j] \in Selectable /\ \A i \in Jobs \ {j} : row'[i] = row[i]
    BY <2>1 DEF Rows, Selectable
  <2>4. Waiting' = {i \in Jobs : row'[i] \in Selectable}
    BY <1>0, <2>2, <2>3
  <2>5. \A i \in Jobs : AtWork(i)'
    BY <1>0, <1>w, <2>1, <2>3 DEF AtWork, Registered
  <2> QED BY <2>2, <2>3, <2>4, <2>5 DEF Ordered
<1>2. CASE Gate(j)
  <2>1. /\ UNCHANGED <<row, orderVars, inline>> /\ gated' = gated \cup {j}
        /\ doomed' = IF Registered(j) THEN doomed \cup {j} ELSE doomed
    BY <1>2 DEF Gate
  <2>2. Orders' /\ Waiting' = Waiting
    BY <1>0, <2>1, OrderKept
  <2>3. \A i \in Jobs : AtWork(i)'
    BY <1>0, <1>w, <2>1 DEF AtWork, Registered
  <2> QED BY <1>0, <2>1, <2>2, <2>3 DEF Ordered
<1>3. CASE Settle(j)
  <2>1. Settles(j) /\ gated' = gated \ {j} /\ UNCHANGED doomed
    BY <1>3 DEF Settle, Pause, Revive, Ignore, Discard, Settles
  <2>2. ~Registered(j)
    BY <1>0, <2>1 DEF AtWork, Settles
  <2>3. CASE Pause(j)
    <3>1. Never(j) /\ row' = [row EXCEPT ![j] = "resting"] /\ UNCHANGED inline
      BY <2>3 DEF Pause
    <3>2. Orders' /\ Waiting' = Waiting \ {j}
      BY <1>0, <3>1, NeverOrders
    <3>3. row' \in Rows /\ row'[j] \notin Selectable /\ \A i \in Jobs \ {j} : row'[i] = row[i]
      BY <3>1 DEF Rows, Selectable
    <3>4. Waiting' = {i \in Jobs : row'[i] \in Selectable}
      BY <1>0, <3>2, <3>3
    <3>5. \A i \in Jobs : AtWork(i)'
      BY <1>0, <1>w, <2>1, <2>2, <3>1, <3>3 DEF AtWork, Registered
    <3> QED BY <3>2, <3>3, <3>4, <3>5 DEF Ordered
  <2>4. CASE Revive(j) \/ Discard(j)
    <3>1. /\ Soon(j) /\ inline' \in {inline, inline \cup {j}}
          /\ \E v \in Selectable : row' = [row EXCEPT ![j] = v]
      BY <2>4 DEF Revive, Discard, Selectable
    <3>2. Orders' /\ Waiting' = Waiting \cup {j}
      BY <1>0, <3>1, SoonOrders
    <3>3. row' \in Rows /\ row'[j] \in Selectable /\ \A i \in Jobs \ {j} : row'[i] = row[i]
      BY <3>1 DEF Rows
    <3>4. Waiting' = {i \in Jobs : row'[i] \in Selectable}
      BY <1>0, <3>2, <3>3
    <3>5. AtWork(j)'
      BY <1>w, <2>1, <2>2, <3>3 DEF AtWork, Registered
    <3>6. \A i \in Jobs \ {j} : AtWork(i)'
      BY <1>0, <1>w, <2>1, <3>1, <3>3 DEF AtWork, Registered
    <3> QED BY <3>2, <3>3, <3>4, <3>5, <3>6 DEF Ordered
  <2>5. CASE Ignore(j)
    <3>1. UNCHANGED <<row, orderVars, inline>>
      BY <2>5 DEF Ignore
    <3>2. Orders' /\ Waiting' = Waiting
      BY <1>0, <3>1, OrderKept
    <3>3. \A i \in Jobs : AtWork(i)'
      BY <1>0, <1>w, <2>1, <3>1 DEF AtWork, Registered
    <3> QED BY <1>0, <3>1, <3>2, <3>3 DEF Ordered
  <2> QED BY <1>3, <2>3, <2>4, <2>5 DEF Settle
<1> QED BY <1>1, <1>2, <1>3

-----------------------------------------------------------------------------
(***************************************************************************)
(* The types.                                                              *)
(***************************************************************************)
Loops == {"off", "idle", "asking", "listed", "ending", "ended"}

Typed ==
  /\ row \in Rows /\ worker \in [Jobs -> Workers]
  /\ gated \subseteq Jobs /\ inline \subseteq Jobs /\ doomed \subseteq Jobs
  /\ loop \in Loops
  /\ room \in 0..64 /\ asked \in Limits \cup {0} /\ ids \in Seq(Jobs)
  /\ limit \in Limits
  /\ changes \in 0..MaxChanges /\ requests \in 0..MaxRequests

\* The answer is a beginning of the ripe jobs.
LEMMA Answer ==
  ASSUME Orders, NEW n \in Nat
  PROVE  LET r == [i \in (1..n) \cap DOMAIN ripe |-> ripe[i]]
         IN  /\ r \in Seq(Jobs)
             /\ DOMAIN r = (1..n) \cap (1..Len(ripe))
<1>1. Len(ripe) \in Nat /\ DOMAIN ripe = 1..Len(ripe) /\ \A i \in 1..Len(ripe) : ripe[i] \in Jobs
  BY DEF Orders
<1>2. PICK m \in Nat : (1..n) \cap DOMAIN ripe = 1..m
  <2>1. CASE n <= Len(ripe)
    <3>1. (1..n) \cap DOMAIN ripe = 1..n
      BY <1>1, <2>1
    <3> QED BY <3>1
  <2>2. CASE ~(n <= Len(ripe))
    <3>1. (1..n) \cap DOMAIN ripe = 1..Len(ripe)
      BY <1>1, <2>2
    <3> QED BY <1>1, <3>1
  <2> QED BY <2>1, <2>2
<1>3. \A i \in 1..m : ripe[i] \in Jobs
  BY <1>1, <1>2
<1>4. [i \in 1..m |-> ripe[i]] \in [1..m -> Jobs]
  BY <1>3
<1>5. [i \in 1..m |-> ripe[i]] \in Seq(Jobs)
  BY <1>4
<1> QED BY <1>1, <1>2, <1>5

\* A round of the loop, its start and its end.
LEMMA LoopTyped ==
  ASSUME Typed, Slots, Orders, Start \/ Loop \/ Wind
  PROVE  Typed'
<1>0. UNCHANGED <<row, gated, inline, limit, changes, requests>>
  BY DEF Start, Loop, Look, Query, Admit, EndRun, Wind, bounds
<1>1. CASE Start \/ EndRun
  BY <1>0, <1>1 DEF Start, EndRun, Typed, Loops, Workers
<1>2. CASE Look
  <2>1. worker' \in [Jobs -> Workers] /\ UNCHANGED <<doomed, ids>>
    BY <1>2 DEF Look, Reaped, Typed, Workers
  <2>2. Cardinality(Unfinished(worker)) \in Nat /\ limit \in 1..64
    BY Countable, LimitAssumption DEF Typed
  <2>3. CASE Cardinality(Unfinished(worker)) < limit
    <3>1. loop' = "asking" /\ room' = limit - Cardinality(Unfinished(worker)) /\ asked' = limit
      BY <1>2, <2>3 DEF Look
    <3>2. room' \in 0..64
      BY <2>2, <2>3, <3>1
    <3> QED BY <1>0, <2>1, <3>1, <3>2 DEF Typed, Loops
  <2>4. CASE ~(Cardinality(Unfinished(worker)) < limit)
    BY <1>0, <1>2, <2>1, <2>4 DEF Look, Typed
  <2> QED BY <2>3, <2>4
<1>3. CASE Query
  <2>1. UNCHANGED <<worker, doomed, room, asked>> /\ loop' = "listed"
        /\ ids' = [i \in (1..Candidates) \cap DOMAIN ripe |-> ripe[i]]
    BY <1>3 DEF Query
  <2>2. Candidates \in Nat
    BY DEF Candidates, Slots
  <2>3. ids' \in Seq(Jobs)
    BY <2>1, <2>2, Answer
  <2> QED BY <1>0, <2>1, <2>3 DEF Typed, Loops
<1>4. CASE Admit
  BY <1>0, <1>4 DEF Admit, Typed, Loops, Workers
<1>5. CASE Wind
  BY <1>0, <1>5 DEF Wind, Typed, Loops, Workers
<1> QED BY <1>1, <1>2, <1>3, <1>4, <1>5 DEF Loop

\* What is not the loop keeps it.
LEMMA JobTyped ==
  ASSUME Typed, row' \in Rows, NEW j \in Jobs, Work(j) \/ Add(j) \/ Gate(j) \/ Settle(j)
  PROVE  Typed'
<1>1. UNCHANGED <<loop, room, asked, ids, limit, changes>>
  BY DEF Work, Begin, End, Cancelled, InlineEnd, Add, Gate, Settle, Pause, Revive, Ignore,
     Discard, Settles, loopVars, bounds
<1>2. worker' \in [Jobs -> Workers]
  BY DEF Work, Begin, End, Cancelled, InlineEnd, Add, Gate, Settle, Pause, Revive, Ignore,
     Discard, Settles, Typed, Workers
<1>3. gated' \subseteq Jobs /\ inline' \subseteq Jobs /\ doomed' \subseteq Jobs
  BY DEF Work, Begin, End, Cancelled, InlineEnd, Add, Gate, Settle, Pause, Revive, Ignore,
     Discard, Settles, Typed
<1>4. requests' \in 0..MaxRequests
  <2>1. CASE Gate(j)
    BY <2>1, BoundAssumption DEF Gate, Typed
  <2>2. CASE ~Gate(j)
    BY <2>2 DEF Work, Begin, End, Cancelled, InlineEnd, Add, Settle, Pause, Revive, Ignore,
       Discard, Settles, Typed, bounds
  <2> QED BY <2>1, <2>2
<1> QED BY <1>1, <1>2, <1>3, <1>4 DEF Typed

\* Types, slots and order hold together.
Sound == Typed /\ Slots /\ Ordered

\* No job was added at first.
LEMMA SoundInit == Init => Sound
<1> SUFFICES ASSUME Init PROVE Sound
  OBVIOUS
<1>1. Typed
  BY BoundAssumption DEF Init, Typed, Rows, Workers, Loops
<1>2. ToSet(<<>>) = {} /\ IsInjective(<<>>) /\ <<>> \in Seq(Jobs)
  BY DEF ToSet, IsInjective
<1>3. Orders
  BY <1>2 DEF Init, Orders
<1>4. Waiting = {} /\ {j \in Jobs : row[j] \in Selectable} = {}
  BY <1>2 DEF Init, Waiting, Selectable
<1>5. \A j \in Jobs : AtWork(j)
  BY DEF Init, AtWork, Registered
<1> QED BY <1>1, <1>3, <1>4, <1>5, SlotsInit DEF Sound, Ordered

\* Each step keeps all three.
LEMMA SoundStep ==
  ASSUME Sound, [Next]_vars
  PROVE  Sound'
<1>0. Typed /\ Slots /\ Ordered /\ Orders /\ row \in Rows /\ worker \in [Jobs -> Workers]
  BY DEF Sound, Typed, Ordered
<1>1. Slots'
  BY <1>0, SlotsStep
<1>2. CASE Start \/ Loop \/ Wind
  BY <1>0, <1>1, <1>2, LoopOrdered, LoopTyped DEF Sound
<1>3. CASE \E j \in Jobs : Work(j)
  <2>1. PICK j \in Jobs : Work(j)
    BY <1>3
  <2>2. Ordered' /\ row' \in Rows
    BY <1>0, <2>1, WorkOrdered
  <2> QED BY <1>0, <1>1, <2>1, <2>2, JobTyped DEF Sound
<1>4. CASE \E j \in Jobs : Add(j) \/ Gate(j) \/ Settle(j)
  <2>1. PICK j \in Jobs : Add(j) \/ Gate(j) \/ Settle(j)
    BY <1>4
  <2>2. Ordered' /\ row' \in Rows
    BY <1>0, <2>1, RequestOrdered
  <2> QED BY <1>0, <1>1, <2>1, <2>2, JobTyped DEF Sound
<1>5. CASE Ripen \/ (\E n \in Limits : SetConcurrency(n)) \/ UNCHANGED vars
  <2>1. UNCHANGED <<row, gated, worker, inline, doomed, loop, room, asked, ids, requests>>
    BY <1>5 DEF Ripen, SetConcurrency, vars, loopVars, bounds
  <2>2. limit' \in Limits /\ changes' \in 0..MaxChanges
    BY <1>0, <1>5, BoundAssumption DEF Ripen, SetConcurrency, vars, bounds, Typed
  <2>3. Orders' /\ Waiting' = Waiting
    <3>1. CASE Ripen
      BY <1>0, <3>1, RipenOrders
    <3>2. CASE UNCHANGED orderVars
      BY <1>0, <3>2, OrderKept
    <3> QED BY <1>5, <3>1, <3>2 DEF SetConcurrency, vars, orderVars
  <2>4. \A j \in Jobs : AtWork(j)'
    BY <1>0, <2>1 DEF Ordered, AtWork, Registered
  <2>5. Ordered'
    BY <1>0, <2>1, <2>3, <2>4 DEF Ordered
  <2>6. Typed'
    BY <1>0, <2>1, <2>2 DEF Typed
  <2> QED BY <1>1, <2>5, <2>6 DEF Sound
<1> QED BY <1>2, <1>3, <1>4, <1>5 DEF Next, Background, Requests, QueryFails, Stop

\* Every variable of the poller keeps its type, and the order of the jobs is
\* that of the rows: each job there is something to do for has one place, and
\* no other job has any (poller.py:19-85, service.py:330-341).
THEOREM TypeCorrect == Spec => []TypeOK
<1>1. Spec => []Sound
  BY SoundInit, SoundStep, PTL DEF Spec
<1>2. Sound => TypeOK
  <2> SUFFICES ASSUME Sound PROVE TypeOK
    OBVIOUS
  <2>1. Typed /\ Ordered /\ Orders
    BY DEF Sound, Ordered
  <2>2. IsInjective(ripe \o queued) /\ ToSet(ripe \o queued) = Waiting
    BY <2>1, Joined DEF Orders, Waiting
  <2> QED BY <2>1, <2>2 DEF Typed, Ordered, Orders, Rows, Workers, Loops, TypeOK
<1> QED BY <1>1, <1>2, PTL

-----------------------------------------------------------------------------
(***************************************************************************)
(* The answer.                                                             *)
(***************************************************************************)
Occupied == {j \in Jobs : worker[j] # "none"}

\* While the database is asked no job gets a worker: those that have one and
\* the room there is make the limit that was read.
Counted == loop = "asking" => Cardinality(Occupied) + room <= asked

\* Those that have a worker are finitely many.
LEMMA OccupiedCounts ==
  /\ IsFiniteSet(Occupied) /\ Cardinality(Occupied) \in Nat
  /\ IsFiniteSet(Occupied') /\ Cardinality(Occupied') \in Nat
<1>1. Occupied \subseteq Jobs /\ Occupied' \subseteq Jobs
  BY DEF Occupied
<1>2. IsFiniteSet(Occupied) /\ IsFiniteSet(Occupied')
  BY <1>1, JobAssumption, FS_Subset
<1> QED BY <1>2, FS_CardinalityType

\* No step gives a job a worker while the loop asks.
LEMMA CountedStep ==
  ASSUME Sound, Counted, [Next]_vars
  PROVE  Counted'
<1>0. worker \in [Jobs -> Workers] /\ room \in Nat /\ asked \in Nat /\ limit \in Nat
  BY LimitAssumption DEF Sound, Typed, Slots
<1>1. CASE loop' # "asking"
  BY <1>1 DEF Counted
<1>2. CASE loop = "asking" /\ loop' = "asking"
  <2>1. UNCHANGED <<room, asked>>
    BY <1>2 DEF Next, Background, Loop, Look, Query, Admit, EndRun, QueryFails, Stop, Wind,
       Start, Requests, Ripen, Work, Begin, End, Cancelled, InlineEnd, Add, Gate, Settle,
       Pause, Revive, Ignore, Discard, Settles, SetConcurrency, loopVars, vars
  <2>2. \A j \in Jobs : worker[j] = "none" => worker'[j] = "none"
    BY <1>0, <1>2 DEF Next, Background, Loop, Look, Query, Admit, EndRun, QueryFails, Stop,
       Wind, Start, Requests, Ripen, Work, Begin, End, Cancelled, InlineEnd, Add, Gate, Settle,
       Pause, Revive, Ignore, Discard, Settles, SetConcurrency, loopVars, vars
  <2>3. Occupied' \subseteq Occupied
    BY <2>2 DEF Occupied
  <2>4. Cardinality(Occupied') <= Cardinality(Occupied)
    BY <2>3, OccupiedCounts, FS_Subset
  <2>5. Cardinality(Occupied)' = Cardinality(Occupied')
    OBVIOUS
  <2> QED BY <1>0, <1>2, <2>1, <2>4, OccupiedCounts DEF Counted
<1>3. CASE loop # "asking" /\ loop' = "asking"
  <2>1. Look
    BY <1>3 DEF Next, Background, Loop, Query, Admit, EndRun, QueryFails, Stop, Wind,
       Start, Requests, Ripen, Work, Begin, End, Cancelled, InlineEnd, Add, Gate, Settle,
       Pause, Revive, Ignore, Discard, Settles, SetConcurrency, loopVars, vars
  <2>2. worker' = Reaped /\ room' = limit - Cardinality(Unfinished(worker)) /\ asked' = limit
    BY <1>3, <2>1 DEF Look
  <2>3. Occupied' = Unfinished(worker)
    BY <1>0, <2>2 DEF Occupied, Reaped, Unfinished, Workers
  <2>4. Cardinality(Unfinished(worker)) \in Nat
    BY Countable
  <2> QED BY <1>0, <2>2, <2>3, <2>4 DEF Counted
<1> QED BY <1>1, <1>2, <1>3

\* The number of jobs at the head of the order is the number of its places.
LEMMA HeadCount ==
  ASSUME Orders, NEW n \in Nat, n <= Len(ripe)
  PROVE  LET H == {ripe[i] : i \in 1..n}
         IN  IsFiniteSet(H) /\ Cardinality(H) = n
<1> DEFINE H == {ripe[i] : i \in 1..n}
           place == [i \in 1..n |-> ripe[i]]
<1>1. Len(ripe) \in Nat /\ DOMAIN ripe = 1..Len(ripe) /\ 1..n \subseteq DOMAIN ripe
  BY DEF Orders
<1>2. place \in Surjection(1..n, H)
  BY DEF Surjection
<1>3. place \in Injection(1..n, H)
  <2>1. \A a, b \in 1..n : ripe[a] = ripe[b] => a = b
    BY <1>1 DEF Orders, IsInjective
  <2>2. place \in [1..n -> H]
    OBVIOUS
  <2> QED BY <2>1, <2>2 DEF Injection, IsInjective
<1>4. IsFiniteSet(1..n) /\ Cardinality(1..n) = n
  BY FS_Interval
<1> HIDE DEF H, place
<1>5. IsFiniteSet(H) /\ Cardinality(H) = n
  BY <1>2, <1>3, <1>4, FS_Surjection
<1> QED BY <1>5 DEF H

\* The jobs at work never hide a due job behind them: whatever the answer, it
\* has a job without a worker for each free slot, or all the due jobs there are
\* (poller.py:32-49).
THEOREM AnswersSuffice == Spec => AnswerSuffices
<1>1. ASSUME Sound, Counted, [Next]_vars, loop = "asking", loop' = "listed"
      PROVE  \/ Cardinality({j \in ToSet(ids') : worker[j] = "none"}) >= room
             \/ ToSet(ripe) \subseteq ToSet(ids')
  <2>0. Orders /\ room \in Nat /\ asked \in Nat /\ Cardinality(Occupied) + room <= asked
    BY <1>1 DEF Sound, Ordered, Slots, Counted
  <2>1. Query
    BY <1>1 DEF Next, Background, Loop, Look, Admit, EndRun, QueryFails, Stop, Wind,
       Start, Requests, Ripen, Work, Begin, End, Cancelled, InlineEnd, Add, Gate, Settle,
       Pause, Revive, Ignore, Discard, Settles, SetConcurrency, loopVars, vars
  <2>2. ids' = [i \in (1..Candidates) \cap DOMAIN ripe |-> ripe[i]]
    BY <2>1 DEF Query
  <2>3. Candidates \in Nat /\ Candidates >= asked
    BY <2>0 DEF Candidates
  <2>4. Len(ripe) \in Nat /\ DOMAIN ripe = 1..Len(ripe) /\ \A i \in 1..Len(ripe) : ripe[i] \in Jobs
    BY <2>0 DEF Orders
  <2>5. CASE Len(ripe) < Candidates
    <3>1. (1..Candidates) \cap DOMAIN ripe = DOMAIN ripe
      BY <2>3, <2>4, <2>5
    <3>2. ToSet(ids') = ToSet(ripe)
      BY <2>2, <3>1 DEF ToSet
    <3> QED BY <3>2
  <2>6. CASE Candidates <= Len(ripe)
    <3> DEFINE H == {ripe[i] : i \in 1..Candidates}
               F == {j \in H : worker[j] = "none"}
    <3>1. (1..Candidates) \cap DOMAIN ripe = 1..Candidates
      BY <2>3, <2>4, <2>6
    <3>2. ToSet(ids') = H
      BY <2>2, <3>1 DEF ToSet
    <3>3. IsFiniteSet(H) /\ Cardinality(H) = Candidates
      BY <2>0, <2>3, <2>6, HeadCount
    <3>4. H \subseteq Jobs
      BY <2>3, <2>4, <2>6
    <3> HIDE DEF H
    <3>5. IsFiniteSet(F) /\ Cardinality(F) \in Nat
      BY <3>3, FS_Subset, FS_CardinalityType
    <3>6. H \subseteq F \cup Occupied
      BY <3>4 DEF Occupied
    <3>7. /\ IsFiniteSet(F \cup Occupied)
          /\ Cardinality(F \cup Occupied)
               = Cardinality(F) + Cardinality(Occupied) - Cardinality(F \cap Occupied)
      BY <3>5, OccupiedCounts, FS_Union
    <3>8. Cardinality(F \cap Occupied) \in Nat
      BY <3>5, FS_Intersection, FS_CardinalityType
    <3>9. Cardinality(H) <= Cardinality(F \cup Occupied)
      BY <3>6, <3>7, FS_Subset
    <3>10. Candidates <= Cardinality(F) + Cardinality(Occupied)
      <4>1. Cardinality(F) + Cardinality(Occupied) - Cardinality(F \cap Occupied)
              <= Cardinality(F) + Cardinality(Occupied)
        BY <3>5, <3>8, OccupiedCounts
      <4> QED BY <2>3, <3>3, <3>5, <3>7, <3>8, <3>9, <4>1, OccupiedCounts
    <3>11. Cardinality(F) >= room
      BY <2>0, <2>3, <3>5, <3>10, OccupiedCounts
    <3> QED BY <3>2, <3>11
  <2> QED BY <2>3, <2>4, <2>5, <2>6
<1>2. Init => Counted
  BY DEF Init, Counted
<1> QED
  BY <1>1, <1>2, SoundInit, SoundStep, CountedStep, PTL DEF Spec, AnswerSuffices

-----------------------------------------------------------------------------
(***************************************************************************)
(* The same of the server.                                                 *)
(***************************************************************************)
Handles ==
  /\ lock \in BOOLEAN /\ open \in BOOLEAN
  /\ monitor \in {"none", "running", "ended"}

\* The lock, the database, the monitor and the stage keep their types.
LEMMA HandlesStep ==
  ASSUME Handles, [LifeNext]_allVars
  PROVE  Handles'
BY DEF Handles, LifeNext, Starting, Ending, Acquire, Open, Serve, StartFails, Drain,
   StopPoller, StopRaises, PollerEnds, Close, Release, allVars, lifeVars

\* Types and order hold of the whole server (app.py:32-117, poller.py:19-85).
THEOREM LifeTypeCorrect == LifeSpec => []LifeTypeOK
<1>1. LifeInit => Handles
  BY DEF LifeInit, Handles
<1>2. LifeSpec => [](Handles /\ Staged)
  BY <1>1, HandlesStep, StagedInit, StagedStep, PTL DEF LifeSpec
<1>3. LifeSpec => []TypeOK
  BY LifeIsScheduler, TypeCorrect
<1>4. Handles /\ Staged /\ TypeOK => LifeTypeOK
  BY DEF Handles, Staged, Stages, LifeTypeOK
<1> QED BY <1>2, <1>3, <1>4, PTL

\* The poller of the server asks for enough jobs (poller.py:32-49,
\* app.py:97-110).
THEOREM LifeAnswersSuffice == LifeSpec => AnswerSuffices
BY LifeIsScheduler, AnswersSuffice

=============================================================================
