------------------------- MODULE JobPipelineHistory -------------------------
(***************************************************************************)
(* JobPipeline with a history variable that remembers the statuses each    *)
(* row has had, and the claim that with it the pipeline implements         *)
(* JobHistory.  The variable observes: it constrains no step.              *)
(***************************************************************************)
EXTENDS JobPipelineProperties

VARIABLE had \* had[j]: the statuses the row of job j has had

HistoryInit ==
  /\ Init
  /\ had = [j \in Job |-> {jobs[j].status}]

HistoryNext ==
  /\ Next
  /\ had' = [j \in Job |-> had[j] \cup {jobs'[j].status}]

HistorySpec == HistoryInit /\ [][HistoryNext]_<<vars, had>>

History == INSTANCE JobHistory

\* However requests and workers interleave, and whichever messages and commits
\* are lost or repeated, what a handler writes is one legal transition away from
\* a status the row really had, and delete_job removes only a job that was once
\* terminal: each guard is decided on a row that was committed, even if it is
\* out of date when the write comes.
WritesFollowHistory == History!Spec
=============================================================================
