---------------------------- MODULE Transfer_proofs ----------------------------
(***************************************************************************)
(* For any number of chunks, connections, retries, expiries and faults: a  *)
(* URL is only replaced once it has expired, and a chunk wastes no attempt.*)
(***************************************************************************)
EXTENDS Transfer, TLAPS

\* A task that was refused holds a URL that expired; the one inside refresh
\* holds the manager's, and the lock.  An attempt is only made while one is left.
Burst ==
  /\ phase = "probe_refused" => generation \in expired
  /\ phase \in {"probe", "probe_refused"} =>
       probes <= Retries /\ \A c \in Chunks : pc[c] \in {"ready", "done"}
  /\ \A c \in Chunks :
       /\ pc[c] \in {"refused", "asking"} => url[c] \in expired
       /\ pc[c] = "asking" => lock = c /\ url[c] = generation
       /\ pc[c] \in Working => tries[c] <= Retries
       /\ pc[c] = "open" => got[c] < Size

Inv == TypeOK /\ Burst /\ FreshKept /\ AttemptsEarned

-----------------------------------------------------------------------------
\* Counters that may only grow leave a chunk's attempts earned.
LEMMA Counted ==
  ASSUME Inv
  PROVE  /\ generation \in Nat /\ faults \in Nat /\ stalls \in Nat /\ probes \in Nat
         /\ Retries \in Nat /\ Size \in Nat
         /\ \A c \in Chunks : tries[c] \in Nat /\ url[c] \in 0..generation
BY ConfigAssumption, BoundAssumption DEF Inv, TypeOK

LEMMA Beginning == Init => Inv
<1> SUFFICES ASSUME Init PROVE Inv
  OBVIOUS
<1> USE ConfigAssumption, BoundAssumption, ChunkAssumption
<1>1. Size \in Nat /\ Retries \in Nat /\ got \in [Chunks -> 0..Size]
  BY DEF Init, Left
<1>2. TypeOK
  BY <1>1 DEF Init, TypeOK, Phases, Outcomes, Places, Working
<1>3. Burst
  BY DEF Init, Burst
<1>4. FreshKept /\ AttemptsEarned
  BY DEF Init, FreshKept, AttemptsEarned
<1> QED
  BY <1>2, <1>3, <1>4 DEF Inv

\* The probe asks for a new URL only when its own was refused.
LEMMA ProbeKeeps == Inv /\ Probe => Inv'
<1> SUFFICES ASSUME Inv, Probe PROVE Inv'
  OBVIOUS
<1> USE ConfigAssumption, BoundAssumption, Counted DEF Phases, Outcomes
<1>1. CASE Probed
  <2>1. TypeOK'
    BY <1>1 DEF Inv, TypeOK, Probed, managerVars
  <2>2. Burst'
    BY <1>1 DEF Inv, Burst, TypeOK, Probed, managerVars
  <2>3. FreshKept' /\ AttemptsEarned'
    BY <1>1 DEF Inv, TypeOK, FreshKept, AttemptsEarned, Probed, managerVars
  <2> QED
    BY <2>1, <2>2, <2>3 DEF Inv
<1>2. CASE ProbeFails
  <2>1. TypeOK'
    BY <1>2 DEF Inv, TypeOK, Burst, ProbeFails, ProbeAgain, End, Fault, managerVars, chunkVars
  <2>2. Burst'
    BY <1>2 DEF Inv, Burst, ProbeFails, ProbeAgain, End, managerVars, chunkVars
  <2>3. FreshKept' /\ AttemptsEarned'
    BY <1>2 DEF Inv, TypeOK, FreshKept, AttemptsEarned, ProbeFails, Fault, managerVars, chunkVars
  <2> QED
    BY <2>1, <2>2, <2>3 DEF Inv
<1>3. CASE ProbeRefused
  BY <1>3 DEF Inv, TypeOK, Burst, FreshKept, AttemptsEarned, ProbeRefused, managerVars, chunkVars
<1>4. CASE ProbeRefreshes
  <2>1. TypeOK'
    BY <1>4 DEF Inv, TypeOK, Burst, ProbeRefreshes, ProbeAgain, End, chunkVars
  <2>2. Burst'
    <3>1. \A c \in Chunks : pc[c] # "asking"
      BY <1>4 DEF Inv, Burst, ProbeRefreshes
    <3> QED
      BY <1>4, <3>1 DEF Inv, Burst, ProbeRefreshes, ProbeAgain, End, chunkVars
  <2>3. FreshKept' /\ AttemptsEarned'
    BY <1>4 DEF Inv, Burst, TypeOK, FreshKept, AttemptsEarned, ProbeRefreshes, chunkVars
  <2> QED
    BY <2>1, <2>2, <2>3 DEF Inv
<1>5. CASE ProbeUnnamed
  BY <1>5 DEF Inv, TypeOK, Burst, FreshKept, AttemptsEarned, ProbeUnnamed, Fault, End,
              managerVars, chunkVars
<1> QED
  BY <1>1, <1>2, <1>3, <1>4, <1>5 DEF Probe

\* What a failed attempt leaves behind.
LEMMA AgainTyped ==
  ASSUME Inv, NEW c \in Chunks, pc[c] \in Working, Again(c)
  PROVE  /\ pc' \in [Chunks -> Places] /\ outcome' \in Outcomes
         /\ tries' \in [Chunks -> 0..(Retries + 1)]
         /\ \A d \in Chunks : /\ pc'[d] = IF d = c THEN pc'[c] ELSE pc[d]
                              /\ tries'[d] = IF d = c THEN tries[c] + 1 ELSE tries[d]
         /\ pc'[c] \in {"raised", "backoff"}
         /\ pc'[c] = "backoff" => tries[c] < Retries
<1>1. /\ pc \in [Chunks -> Places] /\ outcome \in Outcomes
      /\ tries \in [Chunks -> 0..(Retries + 1)] /\ tries[c] <= Retries /\ Retries \in Nat
  BY ConfigAssumption DEF Inv, TypeOK, Burst
<1>2. tries' = [tries EXCEPT ![c] = tries[c] + 1]
  BY DEF Again
<1>3. tries' \in [Chunks -> 0..(Retries + 1)] /\ tries'[c] = tries[c] + 1
  BY <1>1, <1>2
<1>4. PICK place \in {"raised", "backoff"} :
        /\ pc' = [pc EXCEPT ![c] = place]
        /\ place = "backoff" => tries[c] < Retries
        /\ outcome' \in {outcome, "exhausted"}
  BY <1>1 DEF Again, Raise, Goto
<1>5. place \in Places
  BY DEF Places, Working
<1>6. pc' \in [Chunks -> Places] /\ \A d \in Chunks : pc'[d] = IF d = c THEN place ELSE pc[d]
  BY <1>1, <1>4, <1>5
<1>7. \A d \in Chunks : tries'[d] = IF d = c THEN tries[c] + 1 ELSE tries[d]
  BY <1>1, <1>2
<1>8. outcome' \in Outcomes
  BY <1>1, <1>4 DEF Outcomes
<1> QED
  BY <1>3, <1>4, <1>6, <1>7, <1>8

\* An attempt that an error or a stall ended: one more of these was counted.
LEMMA ErrorKeeps ==
  ASSUME Inv, NEW c \in Chunks, phase = "run", pc[c] \in Working, Again(c),
         UNCHANGED <<ranged, phase, managerVars, expired, probes, url>>,
         got' \in [Chunks -> 0..Size], \A d \in Chunks \ {c} : got'[d] = got[d],
         \/ Fault /\ UNCHANGED stalls
         \/ stalls < MaxStalls /\ stalls' = stalls + 1 /\ UNCHANGED faults
  PROVE  Inv'
<1> USE ConfigAssumption, BoundAssumption, Counted DEF Fault, managerVars
<1>1. TypeOK'
  BY AgainTyped DEF Inv, TypeOK
<1>2. Burst'
  BY AgainTyped DEF Inv, Burst, Working
<1>3. FreshKept'
  BY DEF Inv, FreshKept
<1>4. AttemptsEarned'
  BY AgainTyped DEF Inv, AttemptsEarned
<1> QED
  BY <1>1, <1>2, <1>3, <1>4 DEF Inv

\* A step that moves one task to place, counts nothing and holds no lock there.
LEMMA MoveKeeps ==
  ASSUME Inv, NEW c \in Chunks, NEW place \in Places \ {"asking"},
         place = "refused" => url[c] \in expired,
         place = "open" => got'[c] < Size, phase = "run", pc[c] \in Working,
         Goto(c, place), outcome' \in Outcomes, got' \in [Chunks -> 0..Size],
         \A d \in Chunks \ {c} : got'[d] = got[d],
         lock' = lock \/ (lock = c /\ lock' = Nobody),
         UNCHANGED <<ranged, phase, generation, expired, probes, url, tries, stalls>>,
         UNCHANGED faults \/ Fault
  PROVE  Inv'
<1> USE ConfigAssumption, BoundAssumption, Counted DEF Fault
<1>1. pc' \in [Chunks -> Places] /\ \A d \in Chunks : pc'[d] = IF d = c THEN place ELSE pc[d]
  BY DEF Inv, TypeOK, Goto
<1>2. faults' \in 0..MaxFaults /\ faults' >= faults
  BY DEF Inv, TypeOK
<1>3. TypeOK'
  BY <1>1, <1>2 DEF Inv, TypeOK
<1>4. Burst'
  BY <1>1 DEF Inv, Burst, Working
<1>5. FreshKept' /\ AttemptsEarned'
  BY <1>2 DEF Inv, FreshKept, AttemptsEarned
<1> QED
  BY <1>3, <1>4, <1>5 DEF Inv

\* The three ways out of refresh.
LEMMA EnterKeeps ==
  ASSUME Inv, NEW c \in Chunks, Enter(c)
  PROVE  Inv'
<1> USE Counted DEF Enter, In, Outdated, Working
<1>1. TypeOK'
  BY DEF Inv, TypeOK, Goto, Places, Working
<1>2. \A d \in Chunks : pc[d] # "asking"
  BY ChunkAssumption DEF Inv, Burst
<1>3. Burst'
  BY <1>2 DEF Inv, Burst, TypeOK, Goto
<1>4. FreshKept' /\ AttemptsEarned'
  BY DEF Inv, FreshKept, AttemptsEarned
<1> QED
  BY <1>1, <1>3, <1>4 DEF Inv

LEMMA TakeUrlKeeps ==
  ASSUME Inv, NEW c \in Chunks, TakeUrl(c)
  PROVE  Inv'
<1> USE Counted DEF TakeUrl, In, Outdated, managerVars
<1>1. pc[c] \in Working
  BY DEF Working
<1>2. TypeOK'
  BY <1>1, AgainTyped DEF Inv, TypeOK
<1>3. \A d \in Chunks : url'[d] = IF d = c THEN generation ELSE url[d]
  BY DEF Inv, TypeOK
<1>4. Burst'
  BY <1>1, <1>3, AgainTyped DEF Inv, Burst, Working
<1>5. FreshKept'
  BY DEF Inv, FreshKept
<1>6. generation >= url[c] + 1
  BY DEF Inv, TypeOK
<1>7. AttemptsEarned'
  BY <1>1, <1>3, <1>6, AgainTyped DEF Inv, AttemptsEarned
<1> QED
  BY <1>2, <1>4, <1>5, <1>7 DEF Inv

LEMMA RenewKeeps ==
  ASSUME Inv, NEW c \in Chunks, Renew(c)
  PROVE  Inv'
<1> USE Counted DEF Renew, In
<1>1. pc[c] \in Working /\ url[c] = generation /\ generation \in expired
  BY DEF Working, Inv, Burst
<1>2. TypeOK'
  <2>1. expired' \in SUBSET (0..generation') /\ generation' \in Nat
    BY DEF Inv, TypeOK
  <2>2. url' \in [Chunks -> 0..generation']
    BY DEF Inv, TypeOK
  <2> QED
    BY <1>1, <2>1, <2>2, AgainTyped DEF Inv, TypeOK
<1>3. \A d \in Chunks : url'[d] = IF d = c THEN generation + 1 ELSE url[d]
  BY DEF Inv, TypeOK
<1>4. \A d \in Chunks \ {c} : pc[d] # "asking"
  BY DEF Inv, Burst
<1>5. Burst'
  BY <1>1, <1>3, <1>4, AgainTyped DEF Inv, Burst, Working
<1>6. FreshKept'
  BY <1>1 DEF Inv, FreshKept
<1>7. AttemptsEarned'
  BY <1>1, <1>3, AgainTyped DEF Inv, AttemptsEarned
<1> QED
  BY <1>2, <1>5, <1>6, <1>7 DEF Inv

LEMMA DownloadKeeps ==
  ASSUME Inv, NEW c \in Chunks, Download(c)
  PROVE  Inv'
<1>0. got \in [Chunks -> 0..Size] /\ outcome \in Outcomes /\ got[c] \in 0..Size
  BY DEF Inv, TypeOK
<1> USE ConfigAssumption, BoundAssumption
<1>1. ASSUME NEW error \in Outcomes, Raise(c, error)
      PROVE  Goto(c, "raised") /\ outcome' \in Outcomes
  BY <1>0, <1>1 DEF Raise
<1>2. CASE Request(c)
  BY <1>0, <1>2, MoveKeeps DEF Request, In, managerVars, Places, Working
<1>3. CASE Answered(c)
  BY <1>0, <1>3, MoveKeeps DEF Answered, Fits, In, managerVars, Places, Working
<1>4. CASE Mismatched(c)
  BY <1>0, <1>1, <1>4, MoveKeeps DEF Mismatched, In, managerVars, Places, Working, Outcomes
<1>5. CASE Throttled(c)
  BY <1>0, <1>5, ErrorKeeps DEF Throttled, In, Working
<1>6. CASE Refused(c)
  BY <1>0, <1>6, MoveKeeps DEF Refused, In, managerVars, Places, Working
<1>7. CASE Receive(c)
  <2>1. got' = [got EXCEPT ![c] = @ + 1] /\ got[c] < Size
    BY <1>7 DEF Receive, In, Inv, Burst
  <2>2. got' \in [Chunks -> 0..Size] /\ got'[c] = got[c] + 1
    BY <1>0, <2>1
  <2>3. CASE got'[c] = Size
    BY <1>0, <1>7, <2>2, <2>3, MoveKeeps DEF Receive, In, managerVars, Places, Working
  <2>4. CASE got'[c] # Size
    <3>1. pc[c] = "open" /\ Goto(c, "open")
      BY <1>7, <2>4 DEF Receive, In, Goto, Inv, TypeOK
    <3> QED
      BY <1>0, <1>7, <2>1, <2>2, <2>4, <3>1, MoveKeeps DEF Receive, In, managerVars, Places, Working
  <2> QED
    BY <2>3, <2>4
<1>8. CASE Broken(c)
  <2>1. got' \in [Chunks -> 0..Size] /\ \A d \in Chunks \ {c} : got'[d] = got[d]
    BY <1>0, <1>8 DEF Broken, Restart
  <2> QED
    BY <1>8, <2>1, ErrorKeeps DEF Broken, Working
<1>9. CASE Stalled(c)
  <2>1. got' \in [Chunks -> 0..Size] /\ \A d \in Chunks \ {c} : got'[d] = got[d]
    BY <1>0, <1>9 DEF Stalled, Restart, In, Inv, Burst
  <2> QED
    BY <1>9, <2>1, ErrorKeeps DEF Stalled, In, Working
<1>10. CASE RenewFails(c)
  <2>1. lock = c
    BY <1>10 DEF RenewFails, In, Inv, Burst
  <2> QED
    BY <1>0, <1>1, <1>10, <2>1, MoveKeeps DEF RenewFails, In, Places, Working, Outcomes
<1>11. CASE WakeUp(c)
  BY <1>0, <1>11, MoveKeeps DEF WakeUp, In, managerVars, Places, Working
<1>12. CASE Cancel(c)
  BY <1>0, <1>12, MoveKeeps DEF Cancel, Places, Working
<1> QED
  BY <1>2, <1>3, <1>4, <1>5, <1>6, <1>7, <1>8, <1>9, <1>10, <1>11, <1>12,
     EnterKeeps, TakeUrlKeeps, RenewKeeps DEF Download

LEMMA Keeping == Inv /\ [Next]_vars => Inv'
<1> SUFFICES ASSUME Inv, [Next]_vars PROVE Inv'
  OBVIOUS
<1>1. CASE Finish
  BY <1>1 DEF Finish, End, Inv, TypeOK, Burst, FreshKept, AttemptsEarned, managerVars,
              chunkVars, Phases, Outcomes
<1>2. CASE Expire
  BY <1>2 DEF Expire, Inv, TypeOK, Burst, FreshKept, AttemptsEarned, managerVars, chunkVars
<1>3. CASE UNCHANGED vars
  BY <1>3 DEF vars, Inv, TypeOK, Burst, FreshKept, AttemptsEarned, managerVars, chunkVars
<1> QED
  BY <1>1, <1>2, <1>3, ProbeKeeps, DownloadKeeps DEF Next

\* Every variable keeps its type: _UrlManager, the chunk tasks and the task group.
THEOREM TypeCorrect == Spec => []TypeOK
<1>1. Inv => TypeOK
  BY DEF Inv
<1> QED
  BY <1>1, Beginning, Keeping, PTL DEF Spec

\* Chunks that are refused together have their URL replaced once: a URL is only
\* given up after it expired (downloader.py:45-50).
THEOREM RefreshedOnce == Spec => []FreshKept
<1>1. Inv => FreshKept
  BY DEF Inv
<1> QED
  BY <1>1, Beginning, Keeping, PTL DEF Spec

\* A chunk's failed attempts are covered by URLs that expired and errors that
\* happened: none is spent on a URL known to be stale (downloader.py:242-303).
THEOREM AttemptsNotWasted == Spec => []AttemptsEarned
<1>1. Inv => AttemptsEarned
  BY DEF Inv
<1> QED
  BY <1>1, Beginning, Keeping, PTL DEF Spec

\* Blocks that were written stay written while the server answers ranges
\* (downloader.py:296-299).
THEOREM BytesStay == Spec => BytesKept
<1>1. Inv /\ [Next]_vars => [ranged => \A c \in Chunks : got'[c] >= got[c]]_vars
  <2> SUFFICES ASSUME Inv, [Next]_vars, ranged PROVE \A c \in Chunks : got'[c] >= got[c]
    BY DEF vars
  <2>0. got \in [Chunks -> 0..Size] /\ \A c \in Chunks : got[c] \in Nat
    BY ConfigAssumption DEF Inv, TypeOK
  <2>1. CASE UNCHANGED got
    BY <2>0, <2>1
  <2>2. ASSUME NEW c \in Chunks, Receive(c)
        PROVE  \A d \in Chunks : got'[d] >= got[d]
    BY <2>0, <2>2 DEF Receive
  <2>3. ASSUME NEW c \in Chunks, Broken(c)
        PROVE  \A d \in Chunks : got'[d] >= got[d]
    BY <2>0, <2>3 DEF Broken, Restart
  <2>4. ASSUME NEW c \in Chunks, Stalled(c)
        PROVE  \A d \in Chunks : got'[d] >= got[d]
    BY <2>0, <2>4 DEF Stalled, Restart
  <2>5. ASSUME NEW c \in Chunks, Download(c)
        PROVE  UNCHANGED got \/ Receive(c) \/ Broken(c) \/ Stalled(c)
    BY <2>5 DEF Download, Request, Answered, Mismatched, Throttled, Refused, Enter, TakeUrl,
                Renew, RenewFails, WakeUp, Cancel
  <2>6. Probe \/ Finish \/ Expire \/ UNCHANGED vars => UNCHANGED got
    BY DEF Probe, Probed, ProbeFails, ProbeRefused, ProbeRefreshes, ProbeUnnamed, Finish,
           Expire, vars, chunkVars
  <2> QED
    BY <2>1, <2>2, <2>3, <2>4, <2>5, <2>6 DEF Next
<1> QED
  BY <1>1, Beginning, Keeping, PTL DEF Spec, BytesKept

=============================================================================
