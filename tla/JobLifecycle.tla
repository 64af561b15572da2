---------------------------- MODULE JobLifecycle ----------------------------
(***************************************************************************)
(* What the job store promises its clients, with no processes, messages or *)
(* transactions in it: a job is created queued, moves only along the       *)
(* status graph, is deleted only when it is terminal, and never returns.   *)
(* docs/architecture/overview.md states it as "Job state machine with only *)
(* legal transitions; terminal states are immutable".                      *)
(***************************************************************************)
EXTENDS DistillationJob

VARIABLE status

Init == status = [j \in Job |-> "absent"]

\* create_job commits the row as QUEUED: PENDING is never visible.
Create(j) ==
  /\ status[j] = "absent"
  /\ status' = [status EXCEPT ![j] = "queued"]

Advance(j, to) ==
  /\ status[j] \in JobStatus
  /\ to \in LegalTransitions[status[j]]
  /\ status' = [status EXCEPT ![j] = to]

Delete(j) ==
  /\ status[j] \in Terminal
  /\ status' = [status EXCEPT ![j] = "deleted"]

Next ==
  \E j \in Job :
    \/ Create(j)
    \/ \E to \in JobStatus : Advance(j, to)
    \/ Delete(j)

Spec == Init /\ [][Next]_status
=============================================================================
