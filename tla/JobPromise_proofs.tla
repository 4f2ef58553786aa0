--------------------------- MODULE JobPromise_proofs ---------------------------
(***************************************************************************)
(* What the promise of one job amounts to.  Since JobService implements    *)
(* JobPromise, each of these holds of the service wherever it does.        *)
(***************************************************************************)
EXTENDS JobPromise, TLAPS

Knowledge == {"queued", "remote", "files"}

\* Every variable keeps its type.
TypeOK ==
  /\ phase \in Phases
  /\ known \subseteq Knowledge
  /\ failures \in Nat
  /\ asked \subseteq {"job", "files"}
  /\ released \in BOOLEAN
  /\ payload \in {"none", "partial", "final"}
  /\ gone \in BOOLEAN

\* TorBox lets go only of what a removal asked for.
ReleasedAsked == released => "job" \in asked

Promises == TypeOK /\ ReleasedAsked /\ Backed /\ Kept /\ Budget /\ AskedFor

\* The phases by name.
LEMMA PhasesAre ==
  Phases = {"submitted", "provider_queued", "provider_downloading", "provider_ready",
            "delivering", "completed", "retry_wait", "failed"}
BY DEF Phases, Needs

\* What each phase needs, phase by phase.
LEMMA NeedsAre ==
  /\ Needs["submitted"] = {} /\ Needs["retry_wait"] = {} /\ Needs["failed"] = {}
  /\ Needs["delivering"] = {"remote", "files"} /\ Needs["completed"] = {"remote", "files"}
BY DEF Needs

\* The start keeps every promise.
LEMMA InitPromises == Init => Promises
<1> SUFFICES ASSUME Init PROVE Promises
  OBVIOUS
<1>1. phase = "submitted" /\ Needs[phase] = {}
  BY NeedsAre DEF Init
<1>2. TypeOK
  BY <1>1, PhasesAre DEF Init, TypeOK
<1>3. Backed /\ Kept /\ Budget
  BY <1>1 DEF Backed, Kept, Budget
<1>4. ReleasedAsked /\ AskedFor
  BY DEF Init, ReleasedAsked, AskedFor
<1> QED
  BY <1>2, <1>3, <1>4 DEF Promises

\* Every step keeps them.
LEMMA StepPromises == Promises /\ [Next]_vars => Promises'
<1> SUFFICES ASSUME Promises, [Next]_vars PROVE Promises'
  OBVIOUS
<1> USE PhasesAre DEF Promises
<1>1. CASE Advance
  <2>1. known' \subseteq Knowledge /\ known \subseteq known'
    BY <1>1 DEF Advance, Lessons, TypeOK, Knowledge
  <2>2. phase' \in Stages /\ Backed'
    BY <1>1 DEF Advance, Backed
  <2>3. phase' \notin {"completed", "retry_wait"} /\ phase' \in Phases
    BY <2>2 DEF Stages, Terminal
  <2>4. TypeOK'
    BY <1>1, <2>1, <2>3 DEF Advance, TypeOK
  <2>5. ReleasedAsked' /\ Kept' /\ Budget' /\ AskedFor'
    BY <1>1, <2>3 DEF Advance, ReleasedAsked, Kept, Budget, AskedFor
  <2> QED
    BY <2>2, <2>4, <2>5
<1>2. CASE Fail
  <2>1. phase' \in {phase, "retry_wait", "failed"} /\ phase # "completed" /\ failures' \in Nat
    BY <1>2 DEF Fail, Terminal
  <2>2. TypeOK'
    BY <1>2, <2>1 DEF Fail, TypeOK
  <2>3. Backed'
    BY <1>2, <2>1, NeedsAre DEF Fail, Backed
  <2>4. Budget'
    BY <1>2 DEF Fail, Budget, Stages, Terminal
  <2>5. ReleasedAsked' /\ Kept' /\ AskedFor'
    BY <1>2, <2>1 DEF Fail, ReleasedAsked, Kept, AskedFor
  <2> QED
    BY <2>2, <2>3, <2>4, <2>5
<1>3. CASE Receive
  <2>1. phase' = phase \/ (phase' = "delivering" /\ phase \notin Terminal)
    BY <1>3 DEF Receive
  <2>2. TypeOK'
    BY <1>3, <2>1 DEF Receive, TypeOK
  <2>3. Backed'
    BY <1>3, <2>1 DEF Receive, Backed
  <2>4. Kept'
    BY <1>3, <2>1 DEF Receive, Kept
  <2>5. ReleasedAsked' /\ Budget' /\ AskedFor'
    BY <1>3, <2>1 DEF Receive, ReleasedAsked, Budget, AskedFor
  <2> QED
    BY <2>2, <2>3, <2>4, <2>5
<1>4. CASE Complete
  <2>1. phase' = "completed" /\ payload' = "final" /\ Needs["completed"] \subseteq known'
    BY <1>4 DEF Complete
  <2> QED
    BY <1>4, <2>1 DEF Complete, TypeOK, ReleasedAsked, Backed, Kept, Budget, AskedFor
<1>5. CASE Restart
  <2>1. phase' \in Stages /\ Backed'
    BY <1>5 DEF Restart, Backed
  <2>2. phase' \notin {"completed", "retry_wait"} /\ phase' \in Phases
    BY <2>1 DEF Stages, Terminal
  <2> QED
    BY <1>5, <2>1, <2>2 DEF Restart, TypeOK, ReleasedAsked, Kept, Budget, AskedFor
<1>6. CASE Ask
  <2>1. asked \subseteq asked' /\ asked' \subseteq {"job", "files"}
    BY <1>6 DEF Ask
  <2> QED
    BY <1>6, <2>1 DEF Ask, TypeOK, ReleasedAsked, Backed, Kept, Budget, AskedFor
<1>7. CASE Release
  BY <1>7 DEF Release, TypeOK, ReleasedAsked, Backed, Kept, Budget, AskedFor
<1>8. CASE Discard
  BY <1>8 DEF Discard, TypeOK, ReleasedAsked, Backed, Kept, Budget, AskedFor
<1>9. CASE Vanish
  BY <1>9 DEF Vanish, TypeOK, ReleasedAsked, Backed, Kept, Budget, AskedFor
<1>10. CASE UNCHANGED vars
  BY <1>10 DEF vars, TypeOK, ReleasedAsked, Backed, Kept, Budget, AskedFor
<1> QED
  BY <1>1, <1>2, <1>3, <1>4, <1>5, <1>6, <1>7, <1>8, <1>9, <1>10 DEF Next

\* The promise implies, in every behaviour: no phase without the identities it
\* rests on, no completed job without its payload, no retry beyond the budget,
\* nothing gone that was not asked to go.
THEOREM PromisesHold == Spec => [](Backed /\ Kept /\ Budget /\ AskedFor)
<1>1. Promises => Backed /\ Kept /\ Budget /\ AskedFor
  BY DEF Promises
<1> QED
  BY InitPromises, StepPromises, <1>1, PTL DEF Spec
=============================================================================
