----------------------------- MODULE JobPipeline -----------------------------
(***************************************************************************)
(* The life of distillation jobs across the processes that share them:     *)
(* the requests of the API (JobService), the workers (PipelineService),    *)
(* the PostgreSQL table between them (SqlAlchemyUnitOfWork), the broker    *)
(* and the artifact storage.                                               *)
(*                                                                         *)
(* A unit of work is not one step.  A handler reads the row and decides;   *)
(* JobRepository.update reads it again and copies the handler's job onto   *)
(* it; the flush then writes the columns that differ from that second      *)
(* read.  The engine is created without an isolation level, so PostgreSQL  *)
(* runs the transactions at READ COMMITTED: each statement sees what has   *)
(* been committed before it, whatever the handler read earlier.            *)
(*                                                                         *)
(* A process is a record: at says which step comes next, op for which      *)
(* handler, new is the job the handler changed, base the row as last read. *)
(***************************************************************************)
EXTENDS TaskBroker, ArtifactStore, Sequences

CONSTANTS Request,    \* API requests, each one call of a client
          Calls,      \* what clients call: a subset of {"create", "cancel", "delete"}
          MaxPercent, \* bound: progress reports of one run
          MaxFaults,  \* bound: infrastructure faults in a behaviour
          NoJob       \* the job of an idle process

ASSUME PipelineAssumption ==
  /\ Request \cap Worker = {}
  /\ Calls \subseteq {"create", "cancel", "delete"}
  /\ MaxPercent \in Nat
  /\ MaxFaults \in Nat
  /\ NoJob \notin Job

VARIABLES jobs,      \* jobs[j]: the row of job j with its artifact rows
          proc,      \* proc[p]: where process p stands
          published, \* published[j]: events handed to the EventPublisher, in order
          faults     \* infrastructure faults so far

vars == <<jobs, proc, published, faults, files, ready, redelivered, control, revoked>>

Process == Request \cup Worker

Step == {"idle", "get", "reload", "flush", "publish", "engine", "upload", "copy",
         "enqueue", "purge", "replied", "error"}

Op == {"none", "start", "progress", "success", "failure", "record", "cancel", "delete"}

ProcState == [ at      : Step,
               op      : Op,
               job     : Job \cup {NoJob},
               new     : Row,
               base    : Row,
               percent : Nat,
               part    : Nat ]

Idle == [ at      |-> "idle",
          op      |-> "none",
          job     |-> NoJob,
          new     |-> AbsentRow,
          base    |-> AbsentRow,
          percent |-> 0,
          part    |-> 0 ]

TypeOK ==
  /\ jobs \in [Job -> Row]
  /\ proc \in [Process -> ProcState]
  /\ published \in [Job -> Seq(Event)]
  /\ faults \in 0..MaxFaults
  /\ StoreTypeOK
  /\ BrokerTypeOK

Init ==
  /\ jobs = [j \in Job |-> AbsentRow]
  /\ proc = [p \in Process |-> Idle]
  /\ published = [j \in Job |-> <<>>]
  /\ faults = 0
  /\ StoreInit
  /\ BrokerInit

-----------------------------------------------------------------------------
(* Control flow: where a process goes after a step.                        *)

JobOf(p) == proc[p].job

RowOf(p) == jobs[JobOf(p)]

Doing(p, step, op) == proc[p].at = step /\ proc[p].op = op

Become(p, s) == proc' = [proc EXCEPT ![p] = s]

Goto(p, step, op) ==
  Become(p, [proc[p] EXCEPT !.at = step, !.op = op, !.new = AbsentRow, !.base = AbsentRow])

\* The task returns or raises: either way the message is acknowledged.
Acknowledge(w) == Become(w, Idle)

Reply(q) == Become(q, [Idle EXCEPT !.at = "replied", !.op = proc[q].op, !.job = JobOf(q)])

Refuse(q) == Become(q, [Idle EXCEPT !.at = "error"])

\* Mutant: _start is called inside the try block of run_job.
RaiseInsideTry(p) ==
  CASE proc[p].op = "progress"             -> Goto(p, "engine", "none")
    [] proc[p].op \in {"start", "success"} -> Goto(p, "get", "failure")
    [] proc[p].op = "failure"              -> Acknowledge(p)
    [] OTHER                               -> Refuse(p)

\* An exception leaves the unit of work.  The progress callback swallows it,
\* run_job turns it into a failure when the engine or the success path raised,
\* everything else propagates to the task or to the client.
Raise(p) ==
  CASE proc[p].op = "progress"            -> Goto(p, "engine", "none")
    [] proc[p].op = "success"             -> Goto(p, "get", "failure")
    [] proc[p].op \in {"start", "failure"} -> Acknowledge(p)
    [] OTHER                              -> Refuse(p)

\* What follows the commit of a unit of work.
Committed(p) ==
  CASE proc[p].op = "progress"           -> Goto(p, "engine", "none")
    [] proc[p].op \in {"record", "cancel"} -> Reply(p)
    [] proc[p].op = "delete"             -> Goto(p, "purge", "delete")
    [] OTHER                             -> Goto(p, "publish", proc[p].op)

\* The handler has changed its job and calls jobs.update.
Stage(p, new) ==
  Become(p, [proc[p] EXCEPT !.at = "reload", !.new = new, !.base = RowOf(p)])

\* transition_to raises on a transition the graph does not have.
StageTransition(p, to, new) ==
  IF CanTransition(RowOf(p), to) THEN Stage(p, new) ELSE Raise(p)

-----------------------------------------------------------------------------
(* The unit of work, from jobs.update to the commit.                       *)

\* update reads the row again, as it is committed now, and raises if it is gone.
UpdateReload(p) ==
  /\ proc[p].at = "reload"
  /\ IF Exists(RowOf(p))
       THEN Become(p, [proc[p] EXCEPT !.at = "flush", !.base = RowOf(p)])
       ELSE Raise(p)
  /\ UNCHANGED <<jobs, published, faults, files, brokerVars>>

\* Mutant: update inserts a row that is missing, as the API key repository does.
WritableUpsert(p) == TRUE

\* UPDATE fails on a row that is gone, DELETE does not.
Writable(p) == proc[p].op # "delete" => Exists(RowOf(p))

NetChange(new, base, current) == IF new # base THEN new ELSE current

\* Mutant: update copies the columns and leaves the artifacts out.
InsertedNever(op) == 0

\* Only mark_succeeded hands over artifacts; the others insert none.
Inserted(op) == IF op = "success" THEN 1 ELSE 0

\* The UPDATE sets the columns in which new differs from base, and the
\* artifacts that base did not have are inserted.
Merge(op, new, base, row) ==
  [ status    |-> NetChange(new.status, base.status, row.status),
    progress  |-> NetChange(new.progress, base.progress, row.progress),
    started   |-> NetChange(new.started, base.started, row.started),
    finished  |-> NetChange(new.finished, base.finished, row.finished),
    evaluated |-> NetChange(new.evaluated, base.evaluated, row.evaluated),
    error     |-> NetChange(new.error, base.error, row.error),
    task      |-> NetChange(new.task, base.task, row.task),
    artifacts |-> row.artifacts + Inserted(op) ]

WriteRow(p) ==
  LET Written(row) == IF proc[p].op = "delete"
                        THEN DeletedRow
                        ELSE Merge(proc[p].op, proc[p].new, proc[p].base, row)
  IN  jobs' = [jobs EXCEPT ![JobOf(p)] = Written(@)]

\* session.flush and commit.
Flush(p) ==
  /\ proc[p].at = "flush"
  /\ IF Writable(p)
       THEN WriteRow(p) /\ Committed(p)
       ELSE Raise(p) /\ UNCHANGED jobs
  /\ UNCHANGED <<published, faults, files, brokerVars>>

-----------------------------------------------------------------------------
(* JobService: the requests of the API.                                    *)

Calling(q, call) == proc[q].at = "idle" /\ call \in Calls

\* create_job, first unit of work: the row is inserted and committed QUEUED.
Create(q, j) ==
  /\ Calling(q, "create")
  /\ jobs[j].status = "absent"
  /\ jobs' = [jobs EXCEPT ![j] = MarkQueued(NewJob)]
  /\ Become(q, [Idle EXCEPT !.at = "enqueue", !.op = "record", !.job = j])
  /\ UNCHANGED <<published, faults, files, brokerVars>>

Enqueue(q) ==
  /\ proc[q].at = "enqueue"
  /\ Publish(JobOf(q))
  /\ Goto(q, "get", "record")
  /\ UNCHANGED <<jobs, published, faults, files>>

\* create_job, second unit of work: the task id is recorded if still queued.
RecordGet(q) ==
  /\ Doing(q, "get", "record")
  /\ IF Exists(RowOf(q)) /\ RowOf(q).status = "queued"
       THEN Stage(q, [RowOf(q) EXCEPT !.task = TRUE])
       ELSE Reply(q)
  /\ UNCHANGED <<jobs, published, faults, files, brokerVars>>

\* A client cancels or deletes a job that has been created.
Call(q, j, call) ==
  /\ Calling(q, call)
  /\ jobs[j].status # "absent"
  /\ Become(q, [Idle EXCEPT !.at = "get", !.op = call, !.job = j])
  /\ UNCHANGED <<jobs, published, faults, files, brokerVars>>

\* cancel_job: the task is revoked before the new status is written.
CancelGet(q) ==
  /\ Doing(q, "get", "cancel")
  /\ IF Exists(RowOf(q)) /\ RowOf(q).status \notin Terminal
       THEN /\ StageTransition(q, "cancelled", MarkCancelled(RowOf(q)))
            /\ IF RowOf(q).task THEN Revoke(JobOf(q)) ELSE UNCHANGED brokerVars
       ELSE Refuse(q) /\ UNCHANGED brokerVars
  /\ UNCHANGED <<jobs, published, faults, files>>

\* Mutant: the files are removed before the row.
DeleteGetPurges(q) ==
  /\ Doing(q, "get", "delete")
  /\ IF Exists(RowOf(q)) /\ RowOf(q).status \notin Active
       THEN /\ Become(q, [proc[q] EXCEPT !.at = "flush", !.base = RowOf(q)])
            /\ DeletePrefix(JobOf(q))
       ELSE Refuse(q) /\ UNCHANGED files
  /\ UNCHANGED <<jobs, published, faults, brokerVars>>

\* Mutant: an active job may be deleted.
DeleteGetActive(q) ==
  /\ Doing(q, "get", "delete")
  /\ IF Exists(RowOf(q))
       THEN Become(q, [proc[q] EXCEPT !.at = "flush", !.base = RowOf(q)])
       ELSE Refuse(q)
  /\ UNCHANGED <<jobs, published, faults, files, brokerVars>>

\* delete_job refuses an active job.
DeleteGet(q) ==
  /\ Doing(q, "get", "delete")
  /\ IF Exists(RowOf(q)) /\ RowOf(q).status \notin Active
       THEN Become(q, [proc[q] EXCEPT !.at = "flush", !.base = RowOf(q)])
       ELSE Refuse(q)
  /\ UNCHANGED <<jobs, published, faults, files, brokerVars>>

\* After the commit delete_job removes the artifacts from the storage.
Purge(q) ==
  /\ proc[q].at = "purge"
  /\ DeletePrefix(JobOf(q))
  /\ Reply(q)
  /\ UNCHANGED <<jobs, published, faults, brokerVars>>

-----------------------------------------------------------------------------
(* PipelineService: the workers.                                           *)

\* A worker takes a message; one whose task id it knows to be revoked is
\* acknowledged and dropped.
Deliver(w, j) ==
  /\ proc[w].at = "idle"
  /\ Take(j)
  /\ IF j \in revoked[w]
       THEN UNCHANGED proc
       ELSE Become(w, [Idle EXCEPT !.at = "get", !.op = "start", !.job = j])
  /\ UNCHANGED <<jobs, published, faults, files>>

\* Mutant: a redelivered task waits until the job is no longer RUNNING.
StartGetWaits(w) ==
  /\ Doing(w, "get", "start")
  /\ RowOf(w).status # "running"
  /\ IF Exists(RowOf(w)) /\ RowOf(w).status = "queued"
       THEN StageTransition(w, "running", MarkRunning(RowOf(w)))
       ELSE Acknowledge(w)
  /\ UNCHANGED <<jobs, published, faults, files, brokerVars>>

\* _start: a row that is gone raises, one that is not QUEUED is skipped.
StartGet(w) ==
  /\ Doing(w, "get", "start")
  /\ IF Exists(RowOf(w)) /\ RowOf(w).status = "queued"
       THEN StageTransition(w, "running", MarkRunning(RowOf(w)))
       ELSE Acknowledge(w)
  /\ UNCHANGED <<jobs, published, faults, files, brokerVars>>

\* The engine reports progress; the throttle lets through any report or none.
EngineReport(w) ==
  /\ proc[w].at = "engine" /\ proc[w].percent < MaxPercent
  /\ Become(w, [proc[w] EXCEPT !.at = "get", !.op = "progress", !.percent = @ + 1])
  /\ UNCHANGED <<jobs, published, faults, files, brokerVars>>

ProgressGet(w) ==
  /\ Doing(w, "get", "progress")
  /\ IF Exists(RowOf(w)) /\ RowOf(w).status = "running"
       THEN Stage(w, UpdateProgress(RowOf(w), proc[w].percent))
       ELSE Goto(w, "engine", "none")
  /\ UNCHANGED <<jobs, published, faults, files, brokerVars>>

\* engine.run returns and _persist_artifacts begins.
EngineReturn(w) ==
  /\ proc[w].at = "engine"
  /\ Become(w, [proc[w] EXCEPT !.at = "upload", !.op = "success", !.part = 1])
  /\ UNCHANGED <<jobs, published, faults, files, brokerVars>>

\* Mutant: run_job does not catch what the engine raises.
EngineRaiseEscapes(w) ==
  /\ proc[w].at = "engine"
  /\ Acknowledge(w)
  /\ UNCHANGED <<jobs, published, faults, files, brokerVars>>

\* engine.run raises: bad data, a teacher error, the soft time limit.
EngineRaise(w) ==
  /\ proc[w].at = "engine"
  /\ Goto(w, "get", "failure")
  /\ UNCHANGED <<jobs, published, faults, files, brokerVars>>

\* A directory on local storage: what is there is removed first.
UploadReplace(w) ==
  /\ proc[w].at = "upload" /\ Replaces(proc[w].part)
  /\ RemoveOld(JobOf(w), proc[w].part)
  /\ Become(w, [proc[w] EXCEPT !.at = "copy"])
  /\ UNCHANGED <<jobs, published, faults, brokerVars>>

NextPart(w) ==
  IF proc[w].part < NumArtifacts
    THEN Become(w, [proc[w] EXCEPT !.at = "upload", !.part = @ + 1])
    ELSE Become(w, [proc[w] EXCEPT !.at = "get", !.part = 0])

UploadSave(w) ==
  /\ \/ proc[w].at = "upload" /\ ~Replaces(proc[w].part)
     \/ proc[w].at = "copy"
  /\ IF proc[w].at = "copy" /\ Blocked(JobOf(w), proc[w].part)
       THEN Raise(w) /\ UNCHANGED files
       ELSE Save(JobOf(w), proc[w].part) /\ NextPart(w)
  /\ UNCHANGED <<jobs, published, faults, brokerVars>>

\* Mutant: JobCompleted is published before the commit.
SuccessGetPublishes(w) ==
  /\ Doing(w, "get", "success")
  /\ IF Exists(RowOf(w)) /\ RowOf(w).status = "running"
       THEN /\ StageTransition(w, "succeeded", MarkSucceeded(RowOf(w)))
            /\ published' = [published EXCEPT ![JobOf(w)] = Append(@, "JobCompleted")]
       ELSE Acknowledge(w) /\ UNCHANGED published
  /\ UNCHANGED <<jobs, faults, files, brokerVars>>

\* _finish_success: a job that is no longer RUNNING is left alone.
SuccessGet(w) ==
  /\ Doing(w, "get", "success")
  /\ IF Exists(RowOf(w)) /\ RowOf(w).status = "running"
       THEN StageTransition(w, "succeeded", MarkSucceeded(RowOf(w)))
       ELSE Acknowledge(w)
  /\ UNCHANGED <<jobs, published, faults, files, brokerVars>>

\* _finish_failure: any job that is not terminal is failed.
FailureGet(w) ==
  /\ Doing(w, "get", "failure")
  /\ IF Exists(RowOf(w)) /\ RowOf(w).status \notin Terminal
       THEN StageTransition(w, "failed", MarkFailed(RowOf(w)))
       ELSE Acknowledge(w)
  /\ UNCHANGED <<jobs, published, faults, files, brokerVars>>

\* The event the handler pulled before its commit.
PulledEvent(op) ==
  CASE op = "start"   -> "JobStarted"
    [] op = "success" -> "JobCompleted"
    [] OTHER          -> "JobFailed"

PublishEvents(w) ==
  /\ proc[w].at = "publish"
  /\ published' = [published EXCEPT ![JobOf(w)] = Append(@, PulledEvent(proc[w].op))]
  /\ IF proc[w].op = "start" THEN Goto(w, "engine", "none") ELSE Acknowledge(w)
  /\ UNCHANGED <<jobs, faults, files, brokerVars>>

-----------------------------------------------------------------------------
(* The environment: revocations arriving, and infrastructure faults.       *)

Fault == faults < MaxFaults /\ faults' = faults + 1

\* The worker holds a message it has not acknowledged.
Busy(w) == JobOf(w) \in Job

\* A revoked task that is running is killed (SIGTERM) and acknowledged.
RevokeArrives(w, j) ==
  /\ HearRevoke(w, j)
  /\ IF JobOf(w) = j THEN Acknowledge(w) ELSE UNCHANGED proc
  /\ UNCHANGED <<jobs, published, faults, files>>

\* The broker refuses the message: the client sees a 500, the row stays.
EnqueueFails(q) ==
  /\ Fault
  /\ proc[q].at = "enqueue"
  /\ Refuse(q)
  /\ UNCHANGED <<jobs, published, files, brokerVars>>

\* A statement of a unit of work fails and its transaction is rolled back.
DatabaseFails(p) ==
  /\ Fault
  /\ proc[p].at \in {"get", "reload", "flush"}
  /\ Raise(p)
  /\ UNCHANGED <<jobs, published, files, brokerVars>>

\* The commit is applied but its acknowledgement is lost: the handler raises.
CommitUnconfirmed(p) ==
  /\ Fault
  /\ proc[p].at = "flush"
  /\ Writable(p)
  /\ WriteRow(p)
  /\ Raise(p)
  /\ UNCHANGED <<published, files, brokerVars>>

\* Mutant: an artifact that cannot be uploaded is skipped.
StorageFailsSkips(p) ==
  /\ Fault
  /\ \/ proc[p].at \in {"upload", "copy"} /\ NextPart(p)
     \/ proc[p].at = "purge" /\ Reply(p)
  /\ UNCHANGED <<jobs, published, files, brokerVars>>

StorageFails(p) ==
  /\ Fault
  /\ \/ proc[p].at \in {"upload", "copy"} /\ Raise(p)
     \/ proc[p].at = "purge" /\ Reply(p)
  /\ UNCHANGED <<jobs, published, files, brokerVars>>

\* The connection to the broker breaks: the message is delivered once more.
Redeliver(w) ==
  /\ Fault
  /\ Busy(w)
  /\ PutBack(JobOf(w))
  /\ UNCHANGED <<jobs, proc, published, files, control, revoked>>

\* The child process dies and the message is rejected back to the queue.
ChildLost(w) ==
  /\ Fault
  /\ Busy(w)
  /\ PutBack(JobOf(w))
  /\ Become(w, Idle)
  /\ UNCHANGED <<jobs, published, files, control, revoked>>

HostLost(w) ==
  /\ Fault
  /\ Busy(w)
  /\ LoseHost(w, JobOf(w))
  /\ Become(w, Idle)
  /\ UNCHANGED <<jobs, published, files>>

\* The hard time limit kills the child; the message is acknowledged.
HardTimeLimit(w) ==
  /\ Fault
  /\ Busy(w)
  /\ Acknowledge(w)
  /\ UNCHANGED <<jobs, published, files, brokerVars>>

-----------------------------------------------------------------------------
UnitOfWork(p) == UpdateReload(p) \/ Flush(p)

ClientCall(q) ==
  \E j \in Job : Create(q, j) \/ Call(q, j, "cancel") \/ Call(q, j, "delete")

RequestStep(q) ==
  Enqueue(q) \/ RecordGet(q) \/ CancelGet(q) \/ DeleteGet(q) \/ Purge(q)

WorkerStep(w) ==
  \/ StartGet(w) \/ EngineReport(w) \/ ProgressGet(w)
  \/ EngineReturn(w) \/ EngineRaise(w)
  \/ UploadReplace(w) \/ UploadSave(w)
  \/ SuccessGet(w) \/ FailureGet(w) \/ PublishEvents(w)

Delivery(w) == \E j \in Job : Deliver(w, j)

Environment ==
  \/ \E q \in Request : EnqueueFails(q)
  \/ \E p \in Process : DatabaseFails(p) \/ CommitUnconfirmed(p) \/ StorageFails(p)
  \/ \E w \in Worker :
       \/ Redeliver(w) \/ ChildLost(w) \/ HostLost(w) \/ HardTimeLimit(w)
       \/ \E j \in Job : RevokeArrives(w, j)

Next ==
  \/ \E p \in Process : UnitOfWork(p)
  \/ \E q \in Request : ClientCall(q) \/ RequestStep(q)
  \/ \E w \in Worker : Delivery(w) \/ WorkerStep(w)
  \/ Environment

Spec == Init /\ [][Next]_vars

\* A request or a run that has begun goes on, and an idle worker takes a
\* message; nothing obliges a client to call or a revocation to arrive.
FairSpec ==
  /\ Spec
  /\ \A p \in Process : WF_vars(UnitOfWork(p))
  /\ \A q \in Request : WF_vars(RequestStep(q))
  /\ \A w \in Worker : WF_vars(WorkerStep(w)) /\ WF_vars(Delivery(w))
=============================================================================
