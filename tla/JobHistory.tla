---------------------------- MODULE JobHistory ----------------------------
(***************************************************************************)
(* What is left of the promise of JobLifecycle when a handler may write a  *)
(* row that rests on an old read.  The state of a job is the set of        *)
(* statuses its row has had; a stale write may take the row back to one of *)
(* them.  The set grows only along the status graph, a job is deleted only *)
(* when it has been terminal, and once it is deleted nothing is written.   *)
(***************************************************************************)
EXTENDS DistillationJob

VARIABLE had \* had[j]: the statuses job j has had

Init == had = [j \in Job |-> {"absent"}]

Create(j) ==
  /\ had[j] = {"absent"}
  /\ had' = [had EXCEPT ![j] = @ \cup {"queued"}]

\* The row gets a status that is one legal transition away from one it had.
Advance(j, from, to) ==
  /\ "deleted" \notin had[j]
  /\ from \in had[j]
  /\ to \in LegalTransitions[from]
  /\ had' = [had EXCEPT ![j] = @ \cup {to}]

Delete(j) ==
  /\ had[j] \cap Terminal # {}
  /\ had' = [had EXCEPT ![j] = @ \cup {"deleted"}]

Next ==
  \E j \in Job :
    \/ Create(j)
    \/ \E from, to \in JobStatus : Advance(j, from, to)
    \/ Delete(j)

Spec == Init /\ [][Next]_had
=============================================================================
