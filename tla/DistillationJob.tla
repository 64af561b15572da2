-------------------------- MODULE DistillationJob --------------------------
(***************************************************************************)
(* The aggregate root of the domain (domain/entities.py, domain/enums.py): *)
(* the columns of a job, its status graph, and the operations that move a  *)
(* job along it.  An operation is a function from a job to the job it      *)
(* leaves behind; what refuses it is the test CanTransition, and the       *)
(* caller models the exception.                                            *)
(*                                                                         *)
(* Data is abstracted to what a property can tell apart.  A timestamp, a   *)
(* report or an error text is only present or absent; the progress         *)
(* snapshot is the number of reports of one run it reflects; artifact rows *)
(* are counted in batches, a batch being what one run records at once.     *)
(***************************************************************************)
EXTENDS Naturals

CONSTANT Job \* job ids; create_job draws one that was never used

JobStatus == {"pending", "queued", "running", "succeeded", "failed", "cancelled"}

Terminal == {"succeeded", "failed", "cancelled"}

Active == {"pending", "queued", "running"}

LegalTransitions ==
  [ pending   |-> {"queued", "cancelled", "failed"},
    queued    |-> {"running", "cancelled", "failed"},
    running   |-> {"succeeded", "failed", "cancelled"},
    succeeded |-> {},
    failed    |-> {},
    cancelled |-> {} ]

\* The events a job buffers and a service publishes.
Event == {"JobStarted", "JobProgressed", "JobCompleted", "JobFailed"}

\* The table has no row for a job that is "absent" (its id was never inserted)
\* or "deleted" (its row was removed); the two are kept apart so that the
\* properties can speak of a job that comes back.
NoRow == {"absent", "deleted"}

Row == [ status    : JobStatus \cup NoRow,
         progress  : Nat,
         started   : BOOLEAN,
         finished  : BOOLEAN,
         evaluated : BOOLEAN,
         error     : BOOLEAN,
         task      : BOOLEAN,
         artifacts : Nat ]

NewJob == [ status    |-> "pending",
            progress  |-> 0,
            started   |-> FALSE,
            finished  |-> FALSE,
            evaluated |-> FALSE,
            error     |-> FALSE,
            task      |-> FALSE,
            artifacts |-> 0 ]

AbsentRow == [NewJob EXCEPT !.status = "absent"]

DeletedRow == [NewJob EXCEPT !.status = "deleted"]

Exists(job) == job.status \notin NoRow

CanTransition(job, to) == to \in LegalTransitions[job.status]

MarkQueued(job) == [job EXCEPT !.status = "queued"]

MarkRunning(job) == [job EXCEPT !.status = "running", !.started = TRUE]

UpdateProgress(job, percent) == [job EXCEPT !.progress = percent]

MarkSucceeded(job) ==
  [job EXCEPT !.status = "succeeded", !.evaluated = TRUE, !.finished = TRUE,
              !.artifacts = @ + 1]

MarkFailed(job) ==
  [job EXCEPT !.status = "failed", !.error = TRUE, !.finished = TRUE]

MarkCancelled(job) == [job EXCEPT !.status = "cancelled", !.finished = TRUE]
=============================================================================
