---------------------------- MODULE Delivery_proofs ----------------------------
(***************************************************************************)
(* What a delivery keeps for any number of jobs, rows, strangers, faults   *)
(* and acts, as long as no two rows share a destination.                   *)
(***************************************************************************)
EXTENDS Delivery, SequenceTheorems, TLAPS

\* No destination is that of two rows.  DeliveryShared shows what happens to
\* NeverOverwrites without it.
Distinct ==
  \A j, k \in Jobs : \A i \in Rows(j), m \in Rows(k) :
    Target[j][i] = Target[k][m] => j = k /\ i = m

\* What lies at the destination of a row and beside it.  A receipt is written
\* while the destination is free, and goes after the row was recorded; so a file
\* put in place and not recorded can be recognised by it.
Laid(j, i) ==
  LET p == Target[j][i] IN
  /\ part[p] \in {None, Own(j, i)}
  /\ part[p] # None => final[p] = None
  /\ receipt[p] => final[p] \in {None, Own(j, i)}
  /\ i \in done[j] => final[p] \in {None, Own(j, i)} /\ part[p] = None
  /\ i \in published[j] => i \in history[j] \/ (receipt[p] /\ i \notin done[j])

\* Where a task stands rests on what lies at the row it works on.
Standing(j) ==
  LET i == at[j]  p == Path(j) IN
  /\ pc[j] # "idle" => state[j] = "delivering" /\ \A m \in Rows(j) : m < i => m \in done[j]
  /\ pc[j] \in {"open", "transfer", "receipt", "rename"} => final[p] = None
  /\ pc[j] \in {"transfer", "receipt", "rename"} => part[p] = Own(j, i) /\ i \notin done[j]
  /\ pc[j] = "rename" => receipt[p]
  /\ pc[j] \in {"unlink", "commit"} => part[p] = None /\ final[p] \in {None, Own(j, i)}
  /\ pc[j] = "verify" \/ (pc[j] = "commit" /\ origin[j] = "reused") => ~receipt[p]
  /\ pc[j] = "drop" => i \in done[j]
  /\ pc[j] = "finish" \/ state[j] = "completed" => done[j] = Rows(j)

Tidy ==
  /\ TypeOK
  /\ \A j \in Jobs : Standing(j)
  /\ \A j \in Jobs : \A i \in Rows(j) : Laid(j, i)

-----------------------------------------------------------------------------
(***************************************************************************)
(* Types.                                                                  *)
(***************************************************************************)
\* Every row has a destination, and the row a task works on is one of its job.
LEMMA RowsHavePaths ==
  /\ \A j \in Jobs : Len(Target[j]) \in Nat /\ 1 \in Rows(j)
  /\ \A j \in Jobs : \A i \in Rows(j) :
       /\ i \in Nat /\ Target[j][i] \in Paths /\ Own(j, i) \in Owned
       /\ Own(j, i) \notin {None, Other, Odd, Mixed}
<1>1. \A j \in Jobs : Target[j] \in Seq(Paths) /\ Target[j] # <<>>
  BY TargetAssumption
<1>2. \A j \in Jobs : Len(Target[j]) \in Nat /\ Len(Target[j]) # 0
  BY <1>1, EmptySeq, LenProperties
<1>3. \A j \in Jobs : \A i \in Rows(j) : i \in Nat /\ Target[j][i] \in Paths
  BY <1>1 DEF Rows
<1>4. \A j \in Jobs : \A i \in Rows(j) : Own(j, i) \in Owned
  BY DEF Owned
<1> QED
  BY <1>2, <1>3, <1>4, ContentAssumption DEF Rows

\* A task goes on with a row of its job.
LEMMA AdvanceTyped ==
  ASSUME TypeOK, NEW j \in Jobs, Advance(j)
  PROVE  /\ pc' \in [Jobs -> Places]
         /\ at' \in [Jobs -> Nat] /\ \A k \in Jobs : at'[k] \in Rows(k)
<1>1. at[j] \in Nat /\ at[j] \in Rows(j) /\ Len(Target[j]) \in Nat
  BY RowsHavePaths DEF TypeOK
<1>2. pc' \in [Jobs -> Places]
  BY DEF Advance, Goto, Places, TypeOK
<1>3. CASE at[j] < Len(Target[j])
  <2>1. at' = [at EXCEPT ![j] = @ + 1] /\ at[j] + 1 \in Rows(j)
    BY <1>1, <1>3 DEF Advance, Rows
  <2> QED BY <1>1, <1>2, <2>1 DEF TypeOK
<1>4. CASE ~(at[j] < Len(Target[j]))
  BY <1>2, <1>4 DEF Advance, TypeOK
<1> QED BY <1>3, <1>4

\* Every step keeps the types, whatever destinations rows share.
LEMMA TypeStep == TypeOK /\ [Next]_vars => TypeOK'
<1> SUFFICES ASSUME TypeOK, [Next]_vars PROVE TypeOK'
  OBVIOUS
<1>1. ASSUME NEW j \in Jobs, Works(j) PROVE TypeOK'
  <2>1. /\ at[j] \in Rows(j) /\ at[j] \in Nat /\ Path(j) \in Paths
        /\ Own(j, at[j]) \in Owned /\ 1 \in Rows(j)
    BY RowsHavePaths DEF TypeOK, Path
  <2>2. CASE Start(j)
    BY <2>1, <2>2 DEF Start, Goto, TypeOK, Places, rowVars, diskVars
  <2>3. CASE Skip(j)
    BY <2>3, AdvanceTyped DEF Skip, TypeOK, rowVars, diskVars
  <2>4. CASE Adopt(j) \/ Compare(j) \/ Verified(j) \/ Download(j)
    BY <2>4 DEF Adopt, Compare, Verified, Download, Goto, TypeOK, Places, rowVars, diskVars
  <2>5. CASE Blocked(j) \/ Refused(j)
    BY <2>5 DEF Blocked, Refused, FailJob, Goto, TypeOK, Places, rowVars, diskVars
  <2>6. CASE OpenPart(j)
    <3>1. part' \in [Paths -> Owned \cup {None, Mixed}]
      BY <2>1, <2>6 DEF OpenPart, TypeOK
    <3>2. manifest' \in [Paths -> Owned \cup {None}]
      BY <2>1, <2>6 DEF OpenPart, TypeOK
    <3>3. done' \in RowSets
      BY <2>6 DEF OpenPart, TypeOK, RowSets
    <3> QED BY <2>6, <3>1, <3>2, <3>3 DEF OpenPart, Goto, TypeOK, Places
  <2>7. CASE Transferred(j)
    <3>1. part' \in [Paths -> Owned \cup {None, Mixed}]
      BY <2>1, <2>7 DEF Transferred, FailJob, TypeOK, diskVars
    <3> QED BY <2>7, <3>1 DEF Transferred, FailJob, Goto, TypeOK, Places, rowVars, diskVars
  <2>8. CASE WriteReceipt(j)
    BY <2>1, <2>8 DEF WriteReceipt, Goto, TypeOK, Places, rowVars
  <2>9. CASE Rename(j)
    <3>1. published' \in RowSets
      BY <2>1, <2>9 DEF Rename, TypeOK, RowSets
    <3> QED BY <2>1, <2>9, <3>1 DEF Rename, Goto, TypeOK, Places, rowVars
  <2>10. CASE UnlinkManifest(j)
    BY <2>1, <2>10 DEF UnlinkManifest, Goto, TypeOK, Places, rowVars
  <2>11. CASE Commit(j)
    <3>1. done' \in RowSets /\ history' \in RowSets /\ reused' \in RowSets
      BY <2>1, <2>11 DEF Commit, TypeOK, RowSets, rowVars
    <3>2. pc' \in [Jobs -> Places]
      BY <2>11 DEF Commit, Goto, TypeOK, Places
    <3> QED BY <2>11, <3>1, <3>2 DEF Commit, TypeOK, diskVars
  <2>12. CASE DropReceipt(j)
    BY <2>1, <2>12, AdvanceTyped DEF DropReceipt, TypeOK, rowVars
  <2>13. CASE Finish(j)
    BY <2>13 DEF Finish, Goto, TypeOK, Places, rowVars, diskVars
  <2> QED BY <1>1, <2>2, <2>3, <2>4, <2>5, <2>6, <2>7, <2>8, <2>9, <2>10, <2>11, <2>12,
             <2>13 DEF Works
<1>2. ASSUME NEW j \in Jobs, Interrupt(j) \/ Retry(j) PROVE TypeOK'
  BY <1>2, BoundAssumption DEF Interrupt, Retry, CountFault, CountAct, Goto, TypeOK, Places,
     rowVars, diskVars
<1>3. ASSUME NEW j \in Jobs, NEW files \in BOOLEAN, Regrab(j, files) PROVE TypeOK'
  <2>1. done' \in RowSets /\ history' \in RowSets /\ reused' \in RowSets /\ published' \in RowSets
    BY <1>3 DEF Regrab, TypeOK, RowSets
  <2>2. /\ final' \in [Paths -> Owned \cup {None, Other, Odd, Mixed}]
        /\ part' \in [Paths -> Owned \cup {None, Mixed}]
        /\ manifest' \in [Paths -> Owned \cup {None}]
        /\ receipt' \in [Paths -> BOOLEAN]
    <3>1. CASE files
      <4>1. receipt' \in [Paths -> BOOLEAN]
        BY <1>3, <3>1, Zenon DEF Regrab, TypeOK
      <4>2. final' \in [Paths -> Owned \cup {None, Other, Odd, Mixed}]
        BY <1>3, <3>1 DEF Regrab, TypeOK
      <4>3. /\ part' \in [Paths -> Owned \cup {None, Mixed}]
            /\ manifest' \in [Paths -> Owned \cup {None}]
        BY <1>3, <3>1 DEF Regrab, TypeOK
      <4> QED BY <4>1, <4>2, <4>3
    <3>2. CASE ~files
      BY <1>3, <3>2 DEF Regrab, TypeOK, diskVars
    <3> QED BY <3>1, <3>2
  <2> QED BY <1>3, <2>1, <2>2, BoundAssumption DEF Regrab, CountAct, TypeOK
<1>4. ASSUME NEW p \in Paths, TakeAway(p) PROVE TypeOK'
  BY <1>4, BoundAssumption DEF TakeAway, CountAct, TypeOK, rowVars
<1>5. CASE Die
  BY <1>5, BoundAssumption DEF Die, CountFault, TypeOK, Places, rowVars, diskVars
<1>6. CASE UNCHANGED vars
  BY <1>6 DEF vars, TypeOK
<1> QED BY <1>1, <1>2, <1>3, <1>4, <1>5, <1>6 DEF Next

LEMMA TypeInit == Init => TypeOK
<1> SUFFICES ASSUME Init PROVE TypeOK
  OBVIOUS
<1>1. final \in [Paths -> Owned \cup {None, Other, Odd, Mixed}]
  BY StrangersAssumption DEF Init
<1>2. [j \in Jobs |-> {}] \in RowSets
  BY DEF RowSets
<1> QED BY <1>1, <1>2, RowsHavePaths, BoundAssumption DEF Init, TypeOK, Places

\* Types: a task works on rows of its job only (_deliver, service.py:653-771).
THEOREM TypeCorrect == Spec => []TypeOK
  BY TypeInit, TypeStep, PTL DEF Spec

-----------------------------------------------------------------------------
(***************************************************************************)
(* The steps of a task touch the row they work on.                         *)
(***************************************************************************)
\* A step of job j that disturbs no row but i.
OnlyRow(j, i) ==
  /\ \A k \in Jobs \ {j} :
       /\ state'[k] = state[k] /\ pc'[k] = pc[k] /\ at'[k] = at[k] /\ origin'[k] = origin[k]
       /\ done'[k] = done[k] /\ history'[k] = history[k] /\ published'[k] = published[k]
  /\ \A m \in Rows(j) \ {i} :
       /\ m \in done'[j] <=> m \in done[j]
       /\ m \in history'[j] <=> m \in history[j]
       /\ m \in published'[j] <=> m \in published[j]
  /\ \A p \in Paths \ {Target[j][i]} :
       final'[p] = final[p] /\ part'[p] = part[p] /\ receipt'[p] = receipt[p]

\* Then only that row and the job's own task have to be looked at.
LEMMA OthersKept ==
  ASSUME Distinct, Tidy, TypeOK', NEW j \in Jobs, NEW i \in Rows(j), OnlyRow(j, i),
         Standing(j)', Laid(j, i)'
  PROVE  Tidy'
<1>1. \A k \in Jobs : at[k] \in Rows(k)
  BY DEF Tidy, TypeOK
<1>2. ASSUME NEW k \in Jobs, NEW m \in Rows(k), ~(k = j /\ m = i)
      PROVE  Target[k][m] \in Paths \ {Target[j][i]}
  BY <1>2, RowsHavePaths DEF Distinct
<1>3. ASSUME NEW k \in Jobs \ {j} PROVE Standing(k)'
  <2>1. Path(k)' = Path(k) /\ Path(k) \in Paths \ {Target[j][i]} /\ at'[k] = at[k]
    BY <1>1, <1>2, <1>3 DEF Path, OnlyRow
  <2>2. Standing(k)
    BY DEF Tidy
  <2> QED BY <2>1, <2>2 DEF OnlyRow, Standing
<1>4. ASSUME NEW k \in Jobs, NEW m \in Rows(k), ~(k = j /\ m = i)
      PROVE  Laid(k, m)'
  <2>1. Target[k][m] \in Paths \ {Target[j][i]}
    BY <1>2, <1>4
  <2>2. Laid(k, m)
    BY DEF Tidy
  <2>3. /\ m \in done'[k] <=> m \in done[k]
        /\ m \in history'[k] <=> m \in history[k]
        /\ m \in published'[k] <=> m \in published[k]
    BY <1>4 DEF OnlyRow
  <2>4. /\ final'[Target[k][m]] = final[Target[k][m]]
        /\ part'[Target[k][m]] = part[Target[k][m]]
        /\ receipt'[Target[k][m]] = receipt[Target[k][m]]
    BY <2>1 DEF OnlyRow
  <2> QED BY <2>2, <2>3, <2>4 DEF Laid
<1> QED BY <1>3, <1>4 DEF Tidy

\* The row a task works on, as the invariant has it.
LEMMA TaskRow ==
  ASSUME Tidy, NEW j \in Jobs
  PROVE  /\ at[j] \in Rows(j) /\ at[j] \in Nat /\ Path(j) \in Paths /\ Path(j) = Target[j][at[j]]
         /\ Own(j, at[j]) # None
         /\ Standing(j) /\ Laid(j, at[j])
  BY RowsHavePaths DEF Tidy, TypeOK, Path

\* A step that changes neither rows nor disk keeps every row as it is.
LEMMA QuietRows ==
  ASSUME Tidy, NEW j \in Jobs, NEW i \in Rows(j),
         UNCHANGED <<done, history, final, part, receipt, published>>,
         \A k \in Jobs \ {j} : /\ state'[k] = state[k] /\ pc'[k] = pc[k]
                                /\ at'[k] = at[k] /\ origin'[k] = origin[k]
  PROVE  OnlyRow(j, i) /\ Laid(j, i)'
<1>1. Laid(j, i)
  BY DEF Tidy
<1> QED BY <1>1 DEF OnlyRow, Laid

\* Going on to the next row: the rows before it are done.
LEMMA AdvanceStands ==
  ASSUME Tidy, NEW j \in Jobs, Advance(j), UNCHANGED <<state, done>>,
         state[j] = "delivering", \A m \in Rows(j) : m <= at[j] => m \in done[j]
  PROVE  Standing(j)'
<1>1. at[j] \in Nat /\ Len(Target[j]) \in Nat /\ at[j] <= Len(Target[j]) /\ done[j] \subseteq Rows(j)
  BY RowsHavePaths DEF Tidy, TypeOK, Rows, RowSets
<1>2. pc \in [Jobs -> Places] /\ at \in [Jobs -> Nat]
  BY DEF Tidy, TypeOK
<1>3. CASE at[j] < Len(Target[j])
  <2>1. pc'[j] = "check" /\ at'[j] = at[j] + 1
    BY <1>2, <1>3 DEF Advance, Goto
  <2>2. \A m \in Rows(j) : m < at'[j] => m \in done'[j]
    BY <1>1, <2>1, RowsHavePaths
  <2> QED BY <2>1, <2>2 DEF Standing
<1>4. CASE ~(at[j] < Len(Target[j]))
  <2>1. pc'[j] = "finish" /\ at'[j] = at[j]
    BY <1>2, <1>4 DEF Advance, Goto
  <2>2. \A m \in Rows(j) : m <= at[j]
    BY <1>1, <1>4 DEF Rows
  <2>3. done'[j] = Rows(j)
    BY <1>1, <2>2
  <2>4. \A m \in Rows(j) : m < at'[j] => m \in done'[j]
    BY <2>3
  <2> QED BY <2>1, <2>3, <2>4 DEF Standing
<1> QED BY <1>3, <1>4

\* A task that stays at its row while the rows stay.
LEMMA SameRow ==
  ASSUME Tidy, NEW j \in Jobs, UNCHANGED <<state, done, at>>, pc[j] # "idle"
  PROVE  /\ state'[j] = "delivering" /\ at'[j] = at[j] /\ Path(j)' = Path(j)
         /\ \A m \in Rows(j) : m < at'[j] => m \in done'[j]
<1>1. Standing(j)
  BY DEF Tidy
<1> QED BY <1>1 DEF Standing, Path

\* Outside a pass nothing is asked of a task.
LEMMA AtRest ==
  ASSUME NEW j \in Jobs, pc'[j] = "idle", state'[j] # "completed" \/ done'[j] = Rows(j)
  PROVE  Standing(j)'
  BY DEF Standing

\* Looking at a row, and the ends of a pass.
LEMMA LooksStep ==
  ASSUME Tidy, NEW j \in Jobs, NEW i \in Rows(j), i = at[j],
         \/ Start(j) \/ Skip(j) \/ Adopt(j) \/ Compare(j) \/ Blocked(j)
         \/ Verified(j) \/ Refused(j) \/ Download(j) \/ Finish(j) \/ Interrupt(j) \/ Retry(j)
  PROVE  OnlyRow(j, i) /\ Standing(j)' /\ Laid(j, i)'
<1> USE DEF Goto, Runs
<1>1. /\ Standing(j) /\ Laid(j, i) /\ Path(j) = Target[j][i] /\ Path(j) \in Paths
      /\ Own(j, i) # None
  BY TaskRow
<1>2. /\ pc \in [Jobs -> Places] /\ at \in [Jobs -> Nat]
      /\ state \in [Jobs -> {"delivering", "completed", "failed"}]
      /\ origin \in [Jobs -> {"none", "downloaded", "reused"}]
      /\ receipt \in [Paths -> BOOLEAN]
  BY DEF Tidy, TypeOK
<1>3. OnlyRow(j, i) /\ Laid(j, i)'
  <2>1. /\ UNCHANGED <<done, history, final, part, receipt, published>>
        /\ \A k \in Jobs \ {j} : /\ state'[k] = state[k] /\ pc'[k] = pc[k]
                                 /\ at'[k] = at[k] /\ origin'[k] = origin[k]
    BY <1>2 DEF Start, Skip, Adopt, Compare, Blocked, Verified, Refused, Download, Finish,
       Interrupt, Retry, FailJob, Advance, rowVars, diskVars
  <2> QED BY <2>1, QuietRows
<1> SUFFICES Standing(j)'
  BY <1>3
<1>4. CASE Start(j)
  <2>1. state'[j] = "delivering" /\ pc'[j] = "check" /\ at'[j] = 1
    BY <1>2, <1>4 DEF Start
  <2>2. \A m \in Rows(j) : ~(m < at'[j])
    BY <2>1 DEF Rows
  <2> QED BY <2>1, <2>2 DEF Standing
<1>5. CASE Skip(j)
  <2>1. \A m \in Rows(j) : m <= at[j] => m \in done[j]
    BY <1>1, <1>5, RowsHavePaths DEF Skip, Standing
  <2>2. state[j] = "delivering"
    BY <1>1, <1>5 DEF Skip, Standing
  <2> QED BY <1>5, <2>1, <2>2, AdvanceStands DEF Skip, rowVars
<1>6. CASE Adopt(j)
  <2>1. final[Path(j)] = Own(j, i) /\ part[Path(j)] = None
    BY <1>1, <1>6 DEF Adopt, SameSize, Laid
  <2>2. /\ pc'[j] = "commit" /\ origin'[j] = "downloaded"
        /\ UNCHANGED <<state, done, at, final, part, receipt>>
    BY <1>2, <1>6 DEF Adopt, rowVars, diskVars
  <2> QED BY <1>6, <2>1, <2>2, SameRow DEF Adopt, Standing
<1>7. CASE Compare(j)
  <2>1. pc'[j] = "verify" /\ UNCHANGED <<state, done, at, final, part, receipt>>
    BY <1>2, <1>7 DEF Compare, rowVars, diskVars
  <2> QED BY <1>7, <2>1, SameRow DEF Compare, Standing
<1>8. CASE Blocked(j) \/ Refused(j)
  <2>1. pc'[j] = "idle" /\ state'[j] = "failed"
    BY <1>2, <1>8 DEF Blocked, Refused, FailJob
  <2> QED BY <2>1, AtRest
<1>9. CASE Verified(j)
  <2>1. final[Path(j)] = Own(j, i) /\ ~receipt[Path(j)] /\ part[Path(j)] = None
    BY <1>1, <1>9 DEF Verified, Matches, Standing, Laid
  <2>2. pc'[j] = "commit" /\ UNCHANGED <<state, done, at, final, part, receipt>>
    BY <1>2, <1>9 DEF Verified, rowVars, diskVars
  <2> QED BY <1>9, <2>1, <2>2, SameRow DEF Verified, Standing
<1>10. CASE Download(j)
  <2>1. /\ pc'[j] = "open" /\ final[Path(j)] = None
        /\ UNCHANGED <<state, done, at, final, part, receipt>>
    BY <1>2, <1>10 DEF Download, rowVars, diskVars
  <2> QED BY <1>10, <2>1, SameRow DEF Download, Standing
<1>11. CASE Finish(j)
  <2>1. pc'[j] = "idle" /\ done'[j] = Rows(j)
    BY <1>1, <1>2, <1>11 DEF Finish, Standing, rowVars
  <2> QED BY <2>1, AtRest
<1>12. CASE Interrupt(j)
  <2>1. pc'[j] = "idle" /\ state'[j] = state[j] /\ state[j] = "delivering"
    BY <1>1, <1>2, <1>12 DEF Interrupt, Standing
  <2> QED BY <2>1, AtRest
<1>13. CASE Retry(j)
  <2>1. pc'[j] = "idle" /\ state'[j] = "delivering"
    BY <1>1, <1>2, <1>13 DEF Retry, Standing
  <2> QED BY <2>1, AtRest
<1> QED BY <1>4, <1>5, <1>6, <1>7, <1>8, <1>9, <1>10, <1>11, <1>12, <1>13

\* The transfer: the part file is the row's own, whoever began it.
LEMMA TransferStep ==
  ASSUME Tidy, NEW j \in Jobs, NEW i \in Rows(j), i = at[j],
         OpenPart(j) \/ Transferred(j)
  PROVE  OnlyRow(j, i) /\ Standing(j)' /\ Laid(j, i)'
<1> USE DEF Goto, Runs
<1>1. /\ Standing(j) /\ Laid(j, i) /\ Path(j) = Target[j][i] /\ Path(j) \in Paths
      /\ Own(j, i) # None
  BY TaskRow
<1>2. /\ pc \in [Jobs -> Places] /\ at \in [Jobs -> Nat]
      /\ state \in [Jobs -> {"delivering", "completed", "failed"}]
      /\ done \in [Jobs -> SUBSET Nat] /\ part \in [Paths -> Owned \cup {None, Mixed}]
      /\ receipt \in [Paths -> BOOLEAN]
  BY DEF Tidy, TypeOK, RowSets
<1>3. CASE OpenPart(j)
  <2>1. /\ pc'[j] = "transfer" /\ part'[Path(j)] = Own(j, i)
        /\ done'[j] = done[j] \ {i}
        /\ UNCHANGED <<state, at, history, origin, final, receipt, published>>
        /\ \A k \in Jobs \ {j} : pc'[k] = pc[k] /\ done'[k] = done[k]
        /\ \A p \in Paths \ {Path(j)} : part'[p] = part[p]
    BY <1>1, <1>2, <1>3 DEF OpenPart, Resumes, Laid
  <2>2. OnlyRow(j, i)
    BY <1>1, <2>1 DEF OnlyRow
  <2>3. state[j] = "delivering" /\ final[Path(j)] = None
    BY <1>1, <1>3 DEF OpenPart, Standing
  <2>4. Laid(j, i)'
    BY <1>1, <2>1, <2>3 DEF Laid
  <2>5. \A m \in Rows(j) : m < at'[j] => m \in done'[j]
    BY <1>1, <1>3, <2>1, RowsHavePaths DEF OpenPart, Standing
  <2>6. Path(j)' = Path(j)
    BY <2>1 DEF Path
  <2>7. Standing(j)'
    BY <2>1, <2>3, <2>5, <2>6 DEF Standing
  <2> QED BY <2>2, <2>4, <2>7
<1>4. CASE Transferred(j)
  <2>1. part[Path(j)] = Own(j, i) /\ i \notin done[j] /\ final[Path(j)] = None
    BY <1>1, <1>4 DEF Transferred, Standing
  <2>2. /\ pc'[j] = "receipt" /\ part' = part
        /\ UNCHANGED <<state, at, done, history, origin, final, receipt, published>>
        /\ \A k \in Jobs \ {j} : pc'[k] = pc[k]
    BY <1>1, <1>2, <1>4, <2>1 DEF Transferred, rowVars
  <2>3. OnlyRow(j, i) /\ Laid(j, i)'
    BY <1>1, <2>2, QuietRows
  <2>4. Standing(j)'
    BY <1>4, <2>1, <2>2, SameRow DEF Transferred, Standing
  <2> QED BY <2>3, <2>4
<1> QED BY <1>3, <1>4

\* Publication: the receipt before the rename, the manifest after it.
LEMMA PublishStep ==
  ASSUME Tidy, NEW j \in Jobs, NEW i \in Rows(j), i = at[j],
         WriteReceipt(j) \/ Rename(j) \/ UnlinkManifest(j)
  PROVE  OnlyRow(j, i) /\ Standing(j)' /\ Laid(j, i)'
<1> USE DEF Goto, Runs
<1>1. /\ Standing(j) /\ Laid(j, i) /\ Path(j) = Target[j][i] /\ Path(j) \in Paths
      /\ Own(j, i) # None
  BY TaskRow
<1>2. /\ pc \in [Jobs -> Places] /\ at \in [Jobs -> Nat]
      /\ origin \in [Jobs -> {"none", "downloaded", "reused"}]
      /\ published \in [Jobs -> SUBSET Nat] /\ part \in [Paths -> Owned \cup {None, Mixed}]
      /\ final \in [Paths -> Owned \cup {None, Other, Odd, Mixed}]
      /\ receipt \in [Paths -> BOOLEAN]
  BY DEF Tidy, TypeOK, RowSets
<1>3. CASE WriteReceipt(j)
  <2>1. part[Path(j)] = Own(j, i) /\ i \notin done[j] /\ final[Path(j)] = None
    BY <1>1, <1>3 DEF WriteReceipt, Standing
  <2>2. /\ pc'[j] = "rename" /\ receipt'[Path(j)]
        /\ UNCHANGED <<state, at, done, history, origin, final, part, published>>
        /\ \A k \in Jobs \ {j} : pc'[k] = pc[k]
        /\ \A p \in Paths \ {Path(j)} : receipt'[p] = receipt[p]
    BY <1>1, <1>2, <1>3 DEF WriteReceipt, rowVars
  <2>3. OnlyRow(j, i)
    BY <1>1, <2>2 DEF OnlyRow
  <2>4. Laid(j, i)'
    BY <1>1, <2>1, <2>2 DEF Laid
  <2>5. Standing(j)'
    BY <1>3, <2>1, <2>2, SameRow DEF WriteReceipt, Standing
  <2> QED BY <2>3, <2>4, <2>5
<1>4. CASE Rename(j)
  <2>1. part[Path(j)] = Own(j, i) /\ i \notin done[j] /\ receipt[Path(j)]
    BY <1>1, <1>4 DEF Rename, Standing
  <2>2. /\ pc'[j] = "unlink" /\ final'[Path(j)] = Own(j, i) /\ part'[Path(j)] = None
        /\ published'[j] = published[j] \cup {i}
        /\ UNCHANGED <<state, at, done, history, origin, receipt>>
        /\ \A k \in Jobs \ {j} : pc'[k] = pc[k] /\ published'[k] = published[k]
        /\ \A p \in Paths \ {Path(j)} : final'[p] = final[p] /\ part'[p] = part[p]
    BY <1>1, <1>2, <1>4, <2>1 DEF Rename, rowVars
  <2>3. OnlyRow(j, i)
    BY <1>1, <2>2 DEF OnlyRow
  <2>4. Laid(j, i)'
    BY <1>1, <2>1, <2>2 DEF Laid
  <2>5. Standing(j)'
    BY <1>4, <2>1, <2>2, SameRow DEF Rename, Standing
  <2> QED BY <2>3, <2>4, <2>5
<1>5. CASE UnlinkManifest(j)
  <2>1. part[Path(j)] = None /\ final[Path(j)] \in {None, Own(j, i)}
    BY <1>1, <1>5 DEF UnlinkManifest, Standing
  <2>2. /\ pc'[j] = "commit" /\ origin'[j] = "downloaded"
        /\ UNCHANGED <<state, at, done, history, final, part, receipt, published>>
        /\ \A k \in Jobs \ {j} : pc'[k] = pc[k] /\ origin'[k] = origin[k]
    BY <1>1, <1>2, <1>5 DEF UnlinkManifest, rowVars
  <2>3. OnlyRow(j, i) /\ Laid(j, i)'
    BY <1>1, <2>2, QuietRows
  <2>4. Standing(j)'
    BY <1>5, <2>1, <2>2, SameRow DEF UnlinkManifest, Standing
  <2> QED BY <2>3, <2>4
<1> QED BY <1>3, <1>4, <1>5

\* Recording: the row with its entry, then the receipt goes.
LEMMA RecordStep ==
  ASSUME Tidy, NEW j \in Jobs, NEW i \in Rows(j), i = at[j],
         Commit(j) \/ DropReceipt(j)
  PROVE  OnlyRow(j, i) /\ Standing(j)' /\ Laid(j, i)'
<1> USE DEF Goto, Runs
<1>1. /\ Standing(j) /\ Laid(j, i) /\ Path(j) = Target[j][i] /\ Path(j) \in Paths
      /\ Own(j, i) # None
  BY TaskRow
<1>2. /\ pc \in [Jobs -> Places] /\ at \in [Jobs -> Nat]
      /\ done \in [Jobs -> SUBSET Nat] /\ history \in [Jobs -> SUBSET Nat]
      /\ receipt \in [Paths -> BOOLEAN]
  BY DEF Tidy, TypeOK, RowSets
<1>3. CASE Commit(j)
  <2>1. /\ part[Path(j)] = None /\ final[Path(j)] \in {None, Own(j, i)}
        /\ state[j] = "delivering"
    BY <1>1, <1>3 DEF Commit, Standing
  <2>2. UNCHANGED <<state, at, origin, final, part, receipt, published>>
    BY <1>3 DEF Commit, diskVars
  <2>3. CASE UNCHANGED rowVars /\ pc' = [pc EXCEPT ![j] = "idle"]
    <3>1. /\ pc'[j] = "idle" /\ UNCHANGED <<done, history>>
          /\ \A k \in Jobs \ {j} : pc'[k] = pc[k]
      BY <1>2, <2>3 DEF rowVars
    <3>2. OnlyRow(j, i) /\ Laid(j, i)'
      BY <2>2, <3>1, QuietRows
    <3> QED BY <2>1, <2>2, <3>1, <3>2, AtRest
  <2>4. CASE /\ done' = [done EXCEPT ![j] = @ \cup {i}]
             /\ \/ origin[j] = "reused" /\ UNCHANGED history
                \/ history' = [history EXCEPT ![j] = @ \cup {i}]
             /\ pc' = [pc EXCEPT ![j] = "drop"]
    <3>1. /\ pc'[j] = "drop" /\ done'[j] = done[j] \cup {i}
          /\ history'[j] = history[j] \cup {i} \/ (history' = history /\ origin[j] = "reused")
          /\ \A k \in Jobs \ {j} :
               pc'[k] = pc[k] /\ done'[k] = done[k] /\ history'[k] = history[k]
      BY <1>2, <2>4
    <3>2. OnlyRow(j, i)
      BY <2>2, <3>1 DEF OnlyRow
    <3>3. i \in published[j] => i \in history'[j]
      BY <1>1, <1>3, <3>1 DEF Commit, Standing, Laid
    <3>4. Laid(j, i)'
      BY <1>1, <2>1, <2>2, <3>1, <3>3 DEF Laid
    <3>5. \A m \in Rows(j) : m < at'[j] => m \in done'[j]
      BY <1>1, <1>3, <2>2, <3>1 DEF Commit, Standing
    <3>6. Standing(j)'
      BY <2>1, <2>2, <3>1, <3>5 DEF Standing
    <3> QED BY <3>2, <3>4, <3>6
  <2> QED BY <1>3, <2>3, <2>4 DEF Commit
<1>4. CASE DropReceipt(j)
  <2>1. state[j] = "delivering" /\ i \in done[j] /\ \A m \in Rows(j) : m < i => m \in done[j]
    BY <1>1, <1>4 DEF DropReceipt, Standing
  <2>2. \A m \in Rows(j) : m <= at[j] => m \in done[j]
    BY <2>1, RowsHavePaths
  <2>3. /\ ~receipt'[Path(j)] /\ Advance(j)
        /\ UNCHANGED <<state, done, history, origin, final, part, published>>
        /\ \A p \in Paths \ {Path(j)} : receipt'[p] = receipt[p]
    BY <1>1, <1>2, <1>4 DEF DropReceipt, rowVars
  <2>4. \A k \in Jobs \ {j} : pc'[k] = pc[k] /\ at'[k] = at[k]
    BY <1>2, <2>3 DEF Advance
  <2>5. OnlyRow(j, i)
    BY <1>1, <2>3, <2>4 DEF OnlyRow
  <2>6. Laid(j, i)'
    BY <1>1, <2>1, <2>3 DEF Laid
  <2> QED BY <2>1, <2>2, <2>3, <2>5, <2>6, AdvanceStands
<1> QED BY <1>3, <1>4

-----------------------------------------------------------------------------
(***************************************************************************)
(* What happens to files and jobs from outside, and the whole.             *)
(***************************************************************************)
\* A file is taken away: whatever was said of it allows that it is gone.
LEMMA TakeAwayStep ==
  ASSUME Tidy, NEW p \in Paths, TakeAway(p)
  PROVE  Tidy'
<1>1. /\ UNCHANGED <<state, done, history, pc, at, origin, part, receipt, published>>
      /\ \A q \in Paths : final'[q] \in {final[q], None}
  BY DEF TakeAway, rowVars, Tidy, TypeOK
<1>2. TypeOK'
  BY TypeStep DEF Next, Tidy
<1>3. ASSUME NEW j \in Jobs PROVE Standing(j)'
  <2>1. Standing(j) /\ Path(j) \in Paths /\ Path(j)' = Path(j)
    BY <1>1, TaskRow DEF Path
  <2> QED BY <1>1, <2>1 DEF Standing
<1>4. ASSUME NEW j \in Jobs, NEW i \in Rows(j) PROVE Laid(j, i)'
  <2>1. Laid(j, i) /\ Target[j][i] \in Paths
    BY RowsHavePaths DEF Tidy
  <2> QED BY <1>1, <2>1 DEF Laid
<1> QED BY <1>2, <1>3, <1>4 DEF Tidy

\* A job is removed and added again: it starts anew, with its own files gone
\* or as they are, and no other job's.
LEMMA RegrabStep ==
  ASSUME Distinct, Tidy, NEW j \in Jobs, NEW files \in BOOLEAN, Regrab(j, files)
  PROVE  Tidy'
<1>1. /\ state'[j] = "delivering" /\ pc[j] = "idle"
      /\ done'[j] = {} /\ published'[j] = {}
      /\ UNCHANGED <<pc, at, origin>>
      /\ \A k \in Jobs \ {j} : /\ state'[k] = state[k] /\ done'[k] = done[k]
                               /\ history'[k] = history[k] /\ published'[k] = published[k]
  BY DEF Regrab, Tidy, TypeOK, RowSets
<1>2. ASSUME NEW p \in Paths
      PROVE  \/ final'[p] = final[p] /\ part'[p] = part[p] /\ receipt'[p] = receipt[p]
             \/ Artefact(j, p) /\ final'[p] = None /\ part'[p] = None /\ ~receipt'[p]
  <2>1. CASE files
    BY <2>1, Zenon DEF Regrab
  <2>2. CASE ~files
    BY <2>2 DEF Regrab, diskVars
  <2> QED BY <2>1, <2>2
<1>3. TypeOK'
  BY TypeStep DEF Next, Tidy
<1>4. ASSUME NEW k \in Jobs, NEW m \in Rows(k), k # j
      PROVE  /\ final'[Target[k][m]] = final[Target[k][m]]
             /\ part'[Target[k][m]] = part[Target[k][m]]
             /\ receipt'[Target[k][m]] = receipt[Target[k][m]]
  BY <1>2, <1>4, RowsHavePaths DEF Distinct, Artefact
<1>5. ASSUME NEW k \in Jobs PROVE Standing(k)'
  <2>1. CASE k = j
    BY <1>1, <2>1, AtRest
  <2>2. CASE k # j
    <3>1. Standing(k) /\ at[k] \in Rows(k) /\ Path(k) = Target[k][at[k]] /\ Path(k)' = Path(k)
      BY <1>1, TaskRow DEF Path
    <3> QED BY <1>1, <1>4, <2>2, <3>1 DEF Standing
  <2> QED BY <2>1, <2>2
<1>6. ASSUME NEW k \in Jobs, NEW m \in Rows(k) PROVE Laid(k, m)'
  <2>1. Laid(k, m) /\ Target[k][m] \in Paths
    BY RowsHavePaths DEF Tidy
  <2>2. CASE k = j
    BY <1>1, <1>2, <2>1, <2>2 DEF Laid
  <2>3. CASE k # j
    BY <1>1, <1>4, <2>1, <2>3 DEF Laid
  <2> QED BY <2>2, <2>3
<1> QED BY <1>3, <1>5, <1>6 DEF Tidy

\* The process dies: what was not renamed, unlinked or committed is left as it is.
LEMMA DieStep ==
  ASSUME Tidy, Die
  PROVE  Tidy'
<1>1. /\ UNCHANGED <<state, done, history, final, part, receipt, published>>
      /\ \A j \in Jobs : pc'[j] = "idle"
  BY DEF Die, rowVars, diskVars
<1>2. TypeOK'
  BY TypeStep DEF Next, Tidy
<1>3. ASSUME NEW j \in Jobs PROVE Standing(j)'
  BY <1>1, AtRest DEF Tidy, Standing
<1>4. ASSUME NEW j \in Jobs, NEW i \in Rows(j) PROVE Laid(j, i)'
  BY <1>1 DEF Tidy, Laid
<1> QED BY <1>2, <1>3, <1>4 DEF Tidy

LEMMA TidyStep == Distinct /\ Tidy /\ [Next]_vars => Tidy'
<1> SUFFICES ASSUME Distinct, Tidy, [Next]_vars PROVE Tidy'
  OBVIOUS
<1>1. TypeOK'
  BY TypeStep DEF Tidy
<1>2. ASSUME NEW j \in Jobs, Works(j) \/ Interrupt(j) \/ Retry(j) PROVE Tidy'
  <2>1. PICK i \in Rows(j) : i = at[j]
    BY TaskRow
  <2>2. OnlyRow(j, i) /\ Standing(j)' /\ Laid(j, i)'
    BY <1>2, <2>1, LooksStep, TransferStep, PublishStep, RecordStep DEF Works
  <2> QED BY <1>1, <2>2, OthersKept
<1>3. CASE UNCHANGED vars
  BY <1>3 DEF vars, Tidy, TypeOK, Standing, Laid, Path
<1> QED BY <1>2, <1>3, TakeAwayStep, RegrabStep, DieStep DEF Next

LEMMA TidyInit == Init => Tidy
<1> SUFFICES ASSUME Init PROVE Tidy
  OBVIOUS
<1>1. ASSUME NEW j \in Jobs PROVE Standing(j)
  BY DEF Init, Standing
<1>2. ASSUME NEW j \in Jobs, NEW i \in Rows(j) PROVE Laid(j, i)
  BY RowsHavePaths DEF Init, Laid
<1> QED BY <1>1, <1>2, TypeInit DEF Tidy

LEMMA TidyAlways == ASSUME Distinct PROVE Spec => []Tidy
  BY Distinct, TidyInit, TidyStep, PTL DEF Spec

\* A completed row stands for the provider's file, or nothing is there
\* (Downloader.download and verify_existing, downloader.py).
THEOREM ContentIsOwn == ASSUME Distinct PROVE Spec => []OwnContent
<1>1. Tidy => OwnContent
  BY DEF Tidy, TypeOK, RowSets, Laid, OwnContent
<1> QED BY <1>1, TidyAlways, Distinct, PTL

\* A completed job has all its rows and left no part file
\* (_deliver, service.py:653-771).
THEOREM CompletedIsWhole == ASSUME Distinct PROVE Spec => []CompletedWhole
<1>1. Tidy => CompletedWhole
  BY DEF Tidy, Standing, Laid, CompletedWhole
<1> QED BY <1>1, TidyAlways, Distinct, PTL

\* What a job put in place and completed is in the transfer history, wherever
\* the process died: the receipt carries the origin over (_deliver, service.py:680-771).
THEOREM PublishedIsRecorded == ASSUME Distinct PROVE Spec => []PublishedRecorded
<1>1. Tidy => PublishedRecorded
  BY DEF Tidy, TypeOK, RowSets, Laid, PublishedRecorded
<1> QED BY <1>1, TidyAlways, Distinct, PTL

\* A delivery renames only where nothing lies (Downloader.download, downloader.py).
THEOREM OverwritesNone == ASSUME Distinct PROVE Spec => NeverOverwrites
<1>1. Tidy /\ [Next]_vars => [\A p \in Paths : final[p] # None => final'[p] \in {final[p], None}]_vars
  <2> SUFFICES ASSUME Tidy, Next, NEW p \in Paths, final[p] # None
               PROVE  final'[p] \in {final[p], None}
    OBVIOUS
  <2>1. final \in [Paths -> Owned \cup {None, Other, Odd, Mixed}]
    BY DEF Tidy, TypeOK
  <2>2. ASSUME NEW j \in Jobs, Works(j) PROVE final'[p] = final[p]
    <3>1. CASE Rename(j)
      <4>1. final[Path(j)] = None
        BY <3>1 DEF Rename, Runs, Tidy, Standing
      <4> QED BY <2>1, <3>1, <4>1 DEF Rename
    <3>2. CASE ~Rename(j)
      BY <2>2, <3>2 DEF Works, Start, Skip, Adopt, Compare, Blocked, Verified, Refused, Download,
         OpenPart, Transferred, WriteReceipt, UnlinkManifest, Commit, DropReceipt, Finish,
         FailJob, diskVars
    <3> QED BY <3>1, <3>2
  <2>3. ASSUME NEW j \in Jobs, Interrupt(j) \/ Retry(j) PROVE final'[p] = final[p]
    BY <2>3 DEF Interrupt, Retry, diskVars
  <2>4. ASSUME NEW j \in Jobs, NEW files \in BOOLEAN, Regrab(j, files)
        PROVE  final'[p] \in {final[p], None}
    BY <2>4 DEF Regrab, diskVars
  <2>5. ASSUME NEW q \in Paths, TakeAway(q) PROVE final'[p] \in {final[p], None}
    BY <2>1, <2>5 DEF TakeAway
  <2>6. CASE Die
    BY <2>6 DEF Die, diskVars
  <2> QED BY <2>2, <2>3, <2>4, <2>5, <2>6 DEF Next
<1> QED BY <1>1, TidyAlways, Distinct, PTL DEF Spec, NeverOverwrites
=============================================================================
