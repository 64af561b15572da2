------------------------ MODULE JobPipelineProperties ------------------------
(***************************************************************************)
(* What is claimed of JobPipeline.  The first group holds of the program;  *)
(* the second is stated by the documentation and does not hold.            *)
(***************************************************************************)
EXTENDS JobPipeline

Deleted(j) == jobs[j].status = "deleted"

Announced(j, event) == \E i \in DOMAIN published[j] : published[j][i] = event

-----------------------------------------------------------------------------
(* What holds.                                                             *)

\* A job that reads SUCCEEDED has artifact rows: mark_succeeded and the
\* insertion of the artifacts are one unit of work, and no stale write of
\* another handler can produce the status without the rows.
SucceededHasArtifacts ==
  \A j \in Job : jobs[j].status = "succeeded" => jobs[j].artifacts > 0

\* Every artifact row points to something that is stored: _persist_artifacts
\* runs before _finish_success records anything, and delete_job removes the
\* files only after the row is gone.  On local storage save_directory removes a
\* directory before it copies the new one, and a second run of a job does that
\* to artifacts the first has recorded: there the claim is made of jobs whose
\* message was never redelivered.
RecordedArtifactsStored ==
  \A j \in Job :
    Exists(jobs[j]) /\ jobs[j].artifacts > 0 /\ (Backend = "local" => j \notin redelivered) =>
      files[j] = Artifacts

\* Who has heard JobCompleted finds the result: events leave the process
\* after the commit, and nothing later takes the recorded artifacts away
\* except the deletion of the job.
CompletedMeansRecorded ==
  \A j \in Job :
    Announced(j, "JobCompleted") => Deleted(j) \/ jobs[j].artifacts > 0

\* A deleted job does not come back, although a worker or a request may hold
\* a copy of it and try to write that copy: JobRepository.update raises.
DeletedStaysDeleted ==
  [][\A j \in Job : Deleted(j) => jobs'[j].status = "deleted"]_vars

\* As long as the message of a job is not redelivered its events come out in
\* the order of its life, each at most once, and only one of JobCompleted and
\* JobFailed, whatever requests write into the row while it runs and whichever
\* commit is lost: run_job announces only what it has committed itself.
EventsFollowLifecycle ==
  \A j \in Job \ redelivered :
    published[j] \in { <<>>, <<"JobStarted">>,
                       <<"JobStarted", "JobCompleted">>, <<"JobStarted", "JobFailed">> }

\* A worker that took a message comes free: no outcome of a run, no row another
\* process changed or removed meanwhile and no fault leaves run_job waiting, so
\* that the slot is lost.
WorkersComeFree == \A w \in Worker : Busy(w) ~> ~Busy(w)

\* Without faults and cancellations no job stays RUNNING: every path out of
\* run_job, the engine raising included, ends in _finish_success or
\* _finish_failure, and neither stands back while the row still says RUNNING.
NothingStaysRunning ==
  \A j \in Job :
    jobs[j].status = "running" ~>
      \/ jobs[j].status # "running"
      \/ faults > 0
      \/ \E q \in Request : proc[q].op = "cancel"

-----------------------------------------------------------------------------
(* What the documentation states.                                          *)

\* docs/architecture/overview.md: "Job state machine with only legal
\* transitions; terminal states are immutable".
Lifecycle == INSTANCE JobLifecycle WITH status <- [j \in Job |-> jobs[j].status]

FollowsLifecycle == Lifecycle!Spec

\* Process w runs job j: _start has committed for it.
Runs(w, j) ==
  /\ JobOf(w) = j
  /\ ~ (proc[w].op = "start" /\ proc[w].at \in {"get", "reload", "flush"})

\* docs/decisions/0003: "a redelivered task will not double-run work that
\* already progressed".  At any time one worker at most runs a job.
SingleRunner ==
  \A j \in Job : \A v, w \in Worker : Runs(v, j) /\ Runs(w, j) => v = w

\* docs/api/reference.md on DELETE: "artifacts are removed".  Once every
\* process has come to rest without a fault, a deleted job has no files.
DeletedLeavesNoFiles ==
  (\A p \in Process : proc[p].at \in {"idle", "replied", "error"}) =>
    \A j \in Job : Deleted(j) => files[j] = {}
=============================================================================
