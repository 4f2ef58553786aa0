-------------------------------- MODULE Transfer --------------------------------
(***************************************************************************)
(* One call of Downloader.download: the probe, then one task per chunk of  *)
(* the file in a task group.  The tasks share a limited number of          *)
(* connections and one signed URL, which may expire at any time and which  *)
(* only one of them may have replaced.  A task that gives up takes the     *)
(* others with it.                                                         *)
(*                                                                         *)
(* A chunk is a number of blocks.  How blocks become durable is            *)
(* CheckpointWriter; what the job does about the outcome is JobService.    *)
(* URLs are told apart by the generation _UrlManager gives them.           *)
(***************************************************************************)
EXTENDS Naturals, FiniteSets

CONSTANTS
  Chunks,
  Size,          \* blocks in a chunk
  Connections,   \* config.connections: requests at a time
  Retries,       \* config.retries
  Nobody,        \* no task holds the lock of the URL manager
  MaxExpiries,   \* bound: URLs that expire
  MaxFaults,     \* bound: lost connections, 429 and 5xx answers, TorBox errors
  MaxStalls      \* bound: connections that fall below the minimum rate

ASSUME ChunkAssumption == IsFiniteSet(Chunks) /\ Nobody \notin Chunks
ASSUME ConfigAssumption ==
  /\ Size \in Nat \ {0}
  /\ Connections \in Nat \ {0}
  /\ Retries \in Nat
ASSUME BoundAssumption ==
  /\ MaxExpiries \in Nat
  /\ MaxFaults \in Nat
  /\ MaxStalls \in Nat

VARIABLES
  ranged,       \* the server answers range requests
  phase,        \* "probe", "probe_refused", "run" or "ended"
  outcome,      \* how the call ended, or the first error a task raised
  generation,   \* of the URL the manager holds
  lock,         \* the task inside _UrlManager.refresh
  expired,      \* generations the server no longer accepts
  probes,       \* failed attempts of the probe
  pc,           \* per chunk: where its task is
  url,          \* per chunk: the generation of the URL it uses
  got,          \* per chunk: blocks written, which is where a request starts
  tries,        \* per chunk: failed attempts
  faults, stalls

managerVars == <<generation, lock>>
chunkVars   == <<pc, url, got, tries>>
vars == <<ranged, phase, outcome, managerVars, expired, probes, chunkVars,
          faults, stalls>>

Phases   == {"probe", "probe_refused", "run", "ended"}
Outcomes == {"none", "done", "exhausted", "protocol", "provider"}

\* sent: the answer is awaited; open: blocks arrive; refused: the answer was
\* 401 or 403; asking: TorBox is asked for a new URL.
Working  == {"ready", "sent", "open", "refused", "asking", "backoff"}
Places   == Working \cup {"done", "raised", "cancelled"}

\* What an earlier call left in the part file.  A server that ignores ranges
\* is asked for the file in one piece: there the other chunks count as done.
Left == IF ranged THEN [Chunks -> 0..Size]
        ELSE {[d \in Chunks |-> IF d = c THEN n ELSE Size] : c \in Chunks, n \in 0..Size}

Init ==
  /\ ranged \in BOOLEAN
  /\ got \in Left
  /\ phase = "probe"
  /\ outcome = "none"
  /\ generation = 0
  /\ lock = Nobody
  /\ expired = {}
  /\ probes = 0
  /\ pc = [c \in Chunks |-> IF got[c] = Size THEN "done" ELSE "ready"]
  /\ url = [c \in Chunks |-> 0]
  /\ tries = [c \in Chunks |-> 0]
  /\ faults = 0
  /\ stalls = 0

Fault == faults < MaxFaults /\ faults' = faults + 1

-----------------------------------------------------------------------------
(***************************************************************************)
(* The probe: one request at a time, with the manager's own URL.           *)
(***************************************************************************)
End(result) == phase' = "ended" /\ outcome' = result

\* An attempt of the probe failed: another one, or the end.
ProbeAgain ==
  /\ probes' = probes + 1
  /\ IF probes >= Retries THEN End("exhausted")
                          ELSE phase' = "probe" /\ UNCHANGED outcome

Probed ==
  /\ phase = "probe" /\ generation \notin expired
  /\ phase' = "run"
  /\ url' = [c \in Chunks |-> generation]
  /\ UNCHANGED <<ranged, outcome, managerVars, expired, probes, pc, got, tries,
                 faults, stalls>>

ProbeFails ==
  /\ phase = "probe" /\ Fault
  /\ ProbeAgain
  /\ UNCHANGED <<ranged, managerVars, expired, chunkVars, stalls>>

ProbeRefused ==
  /\ phase = "probe" /\ generation \in expired
  /\ phase' = "probe_refused"
  /\ UNCHANGED <<ranged, outcome, managerVars, expired, probes, chunkVars,
                 faults, stalls>>

\* A new URL is asked for even when no attempt is left to use it.
ProbeRefreshes ==
  /\ phase = "probe_refused"
  /\ generation' = generation + 1
  /\ ProbeAgain
  /\ UNCHANGED <<ranged, lock, expired, chunkVars, faults, stalls>>

\* TorBox fails to name a URL, the first one included.
ProbeUnnamed ==
  /\ phase \in {"probe", "probe_refused"} /\ Fault
  /\ phase = "probe" => probes = 0
  /\ End("provider")
  /\ UNCHANGED <<ranged, managerVars, expired, probes, chunkVars, stalls>>

-----------------------------------------------------------------------------
(***************************************************************************)
(* One attempt of a chunk.                                                 *)
(***************************************************************************)
In(c, place) == phase = "run" /\ pc[c] = place

Goto(c, place) == pc' = [pc EXCEPT ![c] = place]

Raise(c, error) ==
  /\ Goto(c, "raised")
  /\ outcome' = IF outcome = "none" THEN error ELSE outcome

\* An attempt failed: back off, or give up.
Again(c) ==
  /\ tries' = [tries EXCEPT ![c] = @ + 1]
  /\ IF tries[c] >= Retries THEN Raise(c, "exhausted")
                            ELSE Goto(c, "backoff") /\ UNCHANGED outcome

\* Mutant: the connection of a failed attempt is not given back.
BusyKept == {c \in Chunks : \/ pc[c] \in {"sent", "open"}
                             \/ (pc[c] \in Working /\ tries[c] > 0)}
Busy == {c \in Chunks : pc[c] \in {"sent", "open"}}

\* A connection is free: the rest of the chunk is asked for.
Request(c) ==
  /\ In(c, "ready") /\ Cardinality(Busy) < Connections
  /\ Goto(c, "sent")
  /\ UNCHANGED <<ranged, phase, outcome, managerVars, expired, probes, url, got, tries,
                 faults, stalls>>

\* The answer is about the bytes the chunk still needs.
Fits(c) == IF ranged THEN got[c] < Size ELSE got[c] = 0

Answered(c) ==
  /\ In(c, "sent") /\ url[c] \notin expired /\ Fits(c)
  /\ Goto(c, "open")
  /\ UNCHANGED <<ranged, phase, outcome, managerVars, expired, probes, url, got, tries,
                 faults, stalls>>

\* A chunk that has all its bytes asks for a range that ends before it starts;
\* a server that ignores ranges sends the whole file to one that has some.
Mismatched(c) ==
  /\ In(c, "sent") /\ url[c] \notin expired /\ ~Fits(c)
  /\ Raise(c, "protocol")
  /\ UNCHANGED <<ranged, phase, managerVars, expired, probes, url, got, tries,
                 faults, stalls>>

\* 429 or 5xx.
Throttled(c) ==
  /\ In(c, "sent") /\ Fault
  /\ Again(c)
  /\ UNCHANGED <<ranged, phase, managerVars, expired, probes, url, got, stalls>>

Refused(c) ==
  /\ In(c, "sent") /\ url[c] \in expired
  /\ Goto(c, "refused")
  /\ UNCHANGED <<ranged, phase, outcome, managerVars, expired, probes, url, got, tries,
                 faults, stalls>>

\* The next block is written; after the last one the task is done.
Receive(c) ==
  /\ In(c, "open")
  /\ got' = [got EXCEPT ![c] = @ + 1]
  /\ IF got'[c] = Size THEN Goto(c, "done") ELSE UNCHANGED pc
  /\ UNCHANGED <<ranged, phase, outcome, managerVars, expired, probes, url,
                 tries, faults, stalls>>

\* Where the next attempt starts once blocks[c] blocks are there: a server
\* that ignores ranges can only start again.  Mutant: every server does.
RestartAlways(c, blocks) == got' = [got EXCEPT ![c] = 0]
Restart(c, blocks) == got' = [got EXCEPT ![c] = IF ranged THEN blocks ELSE 0]

\* A connection breaks, times out or ends early.
Broken(c) ==
  /\ pc[c] \in {"sent", "open"} /\ phase = "run" /\ Fault
  /\ Restart(c, got[c])
  /\ Again(c)
  /\ UNCHANGED <<ranged, phase, managerVars, expired, probes, url, stalls>>

\* A block was written, but the rate since the last look was too low.
Stalled(c) ==
  /\ In(c, "open") /\ stalls < MaxStalls
  /\ stalls' = stalls + 1
  /\ Restart(c, got[c] + 1)
  /\ Again(c)
  /\ UNCHANGED <<ranged, phase, managerVars, expired, probes, url, faults>>

-----------------------------------------------------------------------------
(***************************************************************************)
(* _UrlManager.refresh                                                     *)
(***************************************************************************)
\* The manager still holds the URL that was refused to c.  Mutant: it is
\* asked about the URL it holds, as in verify_existing.
OutdatedAny(c) == TRUE
Outdated(c) == generation = url[c]

Enter(c) ==
  /\ In(c, "refused") /\ lock = Nobody /\ Outdated(c)
  /\ lock' = c
  /\ Goto(c, "asking")
  /\ UNCHANGED <<ranged, phase, outcome, generation, expired, probes, url, got, tries,
                 faults, stalls>>

\* Another task has replaced it.  Mutant: the new URL is not taken over.
KeepUrl(c) ==
  /\ In(c, "refused") /\ lock = Nobody /\ ~Outdated(c)
  /\ Again(c)
  /\ UNCHANGED <<ranged, phase, managerVars, expired, probes, url, got, faults, stalls>>
TakeUrl(c) ==
  /\ In(c, "refused") /\ lock = Nobody /\ ~Outdated(c)
  /\ url' = [url EXCEPT ![c] = generation]
  /\ Again(c)
  /\ UNCHANGED <<ranged, phase, managerVars, expired, probes, got, faults, stalls>>

Renew(c) ==
  /\ In(c, "asking")
  /\ generation' = generation + 1
  /\ lock' = Nobody
  /\ url' = [url EXCEPT ![c] = generation + 1]
  /\ Again(c)
  /\ UNCHANGED <<ranged, phase, expired, probes, got, faults, stalls>>

\* A ProviderError is not retried here.
RenewFails(c) ==
  /\ In(c, "asking") /\ Fault
  /\ lock' = Nobody
  /\ Raise(c, "provider")
  /\ UNCHANGED <<ranged, phase, generation, expired, probes, url, got, tries, stalls>>

WakeUp(c) ==
  /\ In(c, "backoff")
  /\ Goto(c, "ready")
  /\ UNCHANGED <<ranged, phase, outcome, managerVars, expired, probes, url, got, tries,
                 faults, stalls>>

-----------------------------------------------------------------------------
(***************************************************************************)
(* The task group.                                                         *)
(***************************************************************************)
Cancel(c) ==
  /\ phase = "run" /\ pc[c] \in Working
  /\ \E d \in Chunks : pc[d] = "raised"
  /\ Goto(c, "cancelled")
  /\ lock' = IF lock = c THEN Nobody ELSE lock
  /\ UNCHANGED <<ranged, phase, outcome, generation, expired, probes, url, got, tries,
                 faults, stalls>>

\* Every task is over: the call raises the first error, or publishes.
Finish ==
  /\ phase = "run" /\ \A c \in Chunks : pc[c] \notin Working
  /\ End(IF outcome = "none" THEN "done" ELSE outcome)
  /\ UNCHANGED <<ranged, managerVars, expired, probes, chunkVars, faults, stalls>>

\* The server stops accepting the URL the manager holds.
Expire ==
  /\ phase # "ended"
  /\ generation \notin expired /\ Cardinality(expired) < MaxExpiries
  /\ expired' = expired \cup {generation}
  /\ UNCHANGED <<ranged, phase, outcome, managerVars, probes, chunkVars, faults, stalls>>

-----------------------------------------------------------------------------
Probe == Probed \/ ProbeFails \/ ProbeRefused \/ ProbeRefreshes \/ ProbeUnnamed

Download(c) ==
  \/ Request(c) \/ Answered(c) \/ Mismatched(c) \/ Throttled(c) \/ Refused(c)
  \/ Receive(c) \/ Broken(c) \/ Stalled(c)
  \/ Enter(c) \/ TakeUrl(c) \/ Renew(c) \/ RenewFails(c) \/ WakeUp(c)
  \/ Cancel(c)

Next == Probe \/ Finish \/ Expire \/ \E c \in Chunks : Download(c)

Spec == Init /\ [][Next]_vars

\* The event loop runs every ready task, servers and TorBox answer or time
\* out, and the semaphore and the lock let the waiting in by turns.
Fairness ==
  /\ WF_vars(Probe) /\ WF_vars(Finish)
  /\ \A c \in Chunks : SF_vars(Download(c))

FairSpec == Spec /\ Fairness

-----------------------------------------------------------------------------
TypeOK ==
  /\ ranged \in BOOLEAN
  /\ phase \in Phases
  /\ outcome \in Outcomes
  /\ generation \in Nat
  /\ lock \in Chunks \cup {Nobody}
  /\ expired \in SUBSET (0..generation)
  /\ probes \in 0..(Retries + 1)
  /\ pc \in [Chunks -> Places]
  /\ url \in [Chunks -> 0..generation]
  /\ got \in [Chunks -> 0..Size]
  /\ tries \in [Chunks -> 0..(Retries + 1)]
  /\ faults \in 0..MaxFaults
  /\ stalls \in 0..MaxStalls

\* However many chunks are refused at once, a URL is only replaced after the
\* server stopped accepting it: the refresh of a burst happens once
\* (tests/test_downloader.py:255).
FreshKept == \A g \in 0..(generation - 1) : g \in expired

\* No attempt is wasted: every failed attempt of a chunk is due to an expired
\* URL that no earlier attempt of it met, or to an error or stall.  So a
\* transfer gives up only when there were more of these than retries.
AttemptsEarned ==
  \A c \in Chunks : tries[c] <= url[c] + faults + stalls

\* What is written stays written while the server answers ranges
\* (sonarr-radarr-torbox-api.md:451).
BytesKept == [][ranged => \A c \in Chunks : got'[c] >= got[c]]_vars

\* Every call ends, whatever expires or breaks on the way.
TransferEnds == <>(phase = "ended")

\* A connection that is too slow costs an attempt, not the transfer
\* (tests/test_downloader.py:298).
StallsRetried == outcome = "protocol" => stalls = 0

=============================================================================
