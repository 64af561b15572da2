-------------------------- MODULE JobPipeline_proofs --------------------------
(***************************************************************************)
(* Proofs about JobPipeline for every set of jobs, workers and requests    *)
(* and every value of the bounds: the types, what a step can do, what a    *)
(* row records, and what the storage holds of it.                          *)
(***************************************************************************)
EXTENDS JobPipelineProperties, TLAPS

\* A process that is under way has a job, and one that uploads an artifact.
Placed ==
  \A p \in Process :
    /\ proc[p].at \notin {"idle", "error"} => JobOf(p) \in Job
    /\ proc[p].at \in {"upload", "copy"} => proc[p].part \in Artifacts

TypeInv == TypeOK /\ Placed

-----------------------------------------------------------------------------
(* What a process record may become.                                       *)

LEMMA MaxFaultsNat == MaxFaults \in Nat
  BY PipelineAssumption DEF PipelineAssumption

LEMMA FirstArtifact == NumArtifacts \in Nat /\ 1 \in Artifacts
  BY ArtifactAssumption DEF ArtifactAssumption, Artifacts

LEMMA RowTypes == AbsentRow \in Row /\ DeletedRow \in Row /\ MarkQueued(NewJob) \in Row
  BY DEF AbsentRow, DeletedRow, NewJob, MarkQueued, Row, JobStatus, NoRow

LEMMA IdleType == Idle \in ProcState
  BY RowTypes DEF Idle, ProcState, Step, Op

\* The domain operations return jobs.
LEMMA DomainTypes ==
  ASSUME NEW job \in Row, NEW percent \in Nat
  PROVE  /\ MarkRunning(job) \in Row
         /\ UpdateProgress(job, percent) \in Row
         /\ MarkSucceeded(job) \in Row
         /\ MarkFailed(job) \in Row
         /\ MarkCancelled(job) \in Row
         /\ [job EXCEPT !.task = TRUE] \in Row
  <1> USE DEF Row, JobStatus, NoRow
  <1>1. MarkRunning(job) \in Row
    BY DEF MarkRunning
  <1>2. UpdateProgress(job, percent) \in Row
    BY DEF UpdateProgress
  <1>3. MarkSucceeded(job) \in Row
    <2> DEFINE n == job.artifacts + 1
    <2>1. n \in Nat
      OBVIOUS
    <2>2. MarkSucceeded(job) = [job EXCEPT !.status = "succeeded", !.evaluated = TRUE,
                                           !.finished = TRUE, !.artifacts = n]
      BY DEF MarkSucceeded
    <2> HIDE DEF n
    <2>3. QED
      BY <2>1, <2>2
  <1>4. MarkFailed(job) \in Row
    BY DEF MarkFailed
  <1>5. MarkCancelled(job) \in Row
    BY DEF MarkCancelled
  <1>6. [job EXCEPT !.task = TRUE] \in Row
    OBVIOUS
  <1>7. QED
    BY <1>1, <1>2, <1>3, <1>4, <1>5, <1>6

\* The row an UPDATE leaves is a row.
LEMMA MergeType ==
  ASSUME NEW op \in Op, NEW new \in Row, NEW base \in Row, NEW row \in Row
  PROVE  Merge(op, new, base, row) \in Row
  BY DEF Merge, NetChange, Inserted, Row

\* Every way a step changes proc changes it for one process only, and leaves
\* that process with a job unless it comes to rest.
LEMMA BecomeType ==
  ASSUME TypeInv, NEW p \in Process, NEW s \in ProcState, Become(p, s),
         s.at \notin {"idle", "error"} => s.job \in Job,
         s.at \in {"upload", "copy"} => s.part \in Artifacts
  PROVE  proc' \in [Process -> ProcState] /\ Placed'
  BY DEF TypeInv, TypeOK, Become, Placed, JobOf

LEMMA GotoType ==
  ASSUME TypeInv, NEW p \in Process, NEW step \in Step, NEW op \in Op,
         Goto(p, step, op), step \notin {"upload", "copy"}, JobOf(p) \in Job
  PROVE  proc' \in [Process -> ProcState] /\ Placed'
  <1> DEFINE s == [proc[p] EXCEPT !.at = step, !.op = op,
                                  !.new = AbsentRow, !.base = AbsentRow]
  <1>1. s \in ProcState /\ s.job \in Job /\ s.at = step
    BY RowTypes DEF TypeInv, TypeOK, ProcState, JobOf
  <1>2. QED
    BY <1>1, BecomeType DEF Goto

LEMMA AcknowledgeType ==
  ASSUME TypeInv, NEW p \in Process, Acknowledge(p)
  PROVE  proc' \in [Process -> ProcState] /\ Placed'
  BY IdleType, BecomeType DEF Acknowledge, Idle

LEMMA RefuseType ==
  ASSUME TypeInv, NEW p \in Process, Refuse(p)
  PROVE  proc' \in [Process -> ProcState] /\ Placed'
  <1> DEFINE s == [Idle EXCEPT !.at = "error"]
  <1>1. s \in ProcState /\ s.at = "error"
    BY IdleType DEF ProcState, Step
  <1>2. QED
    BY <1>1, BecomeType DEF Refuse

LEMMA ReplyType ==
  ASSUME TypeInv, NEW p \in Process, Reply(p), JobOf(p) \in Job
  PROVE  proc' \in [Process -> ProcState] /\ Placed'
  <1> DEFINE s == [Idle EXCEPT !.at = "replied", !.op = proc[p].op, !.job = JobOf(p)]
  <1>1. proc[p].op \in Op
    BY DEF TypeInv, TypeOK, ProcState
  <1>2. s \in ProcState /\ s.job \in Job /\ s.at = "replied"
    BY <1>1, IdleType DEF ProcState, Step
  <1>3. QED
    BY <1>2, BecomeType DEF Reply

LEMMA RaiseType ==
  ASSUME TypeInv, NEW p \in Process, Raise(p), JobOf(p) \in Job
  PROVE  proc' \in [Process -> ProcState] /\ Placed'
  <1>1. CASE proc[p].op = "progress"
    <2>1. Goto(p, "engine", "none")
      BY <1>1 DEF Raise
    <2>2. QED
      BY <2>1, GotoType DEF Step, Op
  <1>2. CASE proc[p].op = "success"
    <2>1. Goto(p, "get", "failure")
      BY <1>2 DEF Raise
    <2>2. QED
      BY <2>1, GotoType DEF Step, Op
  <1>3. CASE proc[p].op \in {"start", "failure"}
    <2>1. Acknowledge(p)
      BY <1>3 DEF Raise
    <2>2. QED
      BY <2>1, AcknowledgeType
  <1>4. CASE proc[p].op \notin {"progress", "success", "start", "failure"}
    <2>1. Refuse(p)
      BY <1>4 DEF Raise
    <2>2. QED
      BY <2>1, RefuseType
  <1>5. QED
    BY <1>1, <1>2, <1>3, <1>4

LEMMA CommittedType ==
  ASSUME TypeInv, NEW p \in Process, Committed(p), JobOf(p) \in Job
  PROVE  proc' \in [Process -> ProcState] /\ Placed'
  <1>1. CASE proc[p].op = "progress"
    <2>1. Goto(p, "engine", "none")
      BY <1>1 DEF Committed
    <2>2. QED
      BY <2>1, GotoType DEF Step, Op
  <1>2. CASE proc[p].op \in {"record", "cancel"}
    <2>1. Reply(p)
      BY <1>2 DEF Committed
    <2>2. QED
      BY <2>1, ReplyType
  <1>3. CASE proc[p].op = "delete"
    <2>1. Goto(p, "purge", "delete")
      BY <1>3 DEF Committed
    <2>2. QED
      BY <2>1, GotoType DEF Step, Op
  <1>4. CASE proc[p].op \notin {"progress", "record", "cancel", "delete"}
    <2>1. Goto(p, "publish", proc[p].op) /\ proc[p].op \in Op
      BY <1>4 DEF Committed, TypeInv, TypeOK, ProcState
    <2>2. QED
      BY <2>1, GotoType DEF Step
  <1>5. QED
    BY <1>1, <1>2, <1>3, <1>4

LEMMA StageType ==
  ASSUME TypeInv, NEW p \in Process, NEW new \in Row, Stage(p, new), JobOf(p) \in Job
  PROVE  proc' \in [Process -> ProcState] /\ Placed'
  <1> DEFINE s == [proc[p] EXCEPT !.at = "reload", !.new = new, !.base = RowOf(p)]
  <1>1. RowOf(p) \in Row
    BY DEF TypeInv, TypeOK, RowOf
  <1>2. s \in ProcState /\ s.job \in Job /\ s.at = "reload"
    BY <1>1 DEF TypeInv, TypeOK, ProcState, Step, JobOf
  <1>3. QED
    BY <1>2, BecomeType DEF Stage

LEMMA StageTransitionType ==
  ASSUME TypeInv, NEW p \in Process, NEW to, NEW new \in Row,
         StageTransition(p, to, new), JobOf(p) \in Job
  PROVE  proc' \in [Process -> ProcState] /\ Placed'
  BY StageType, RaiseType DEF StageTransition

\* A new task or request starts from Idle with a job.
LEMMA BeginType ==
  ASSUME TypeInv, NEW p \in Process, NEW step \in Step, NEW op \in Op, NEW j \in Job,
         Become(p, [Idle EXCEPT !.at = step, !.op = op, !.job = j]),
         step \notin {"upload", "copy"}
  PROVE  proc' \in [Process -> ProcState] /\ Placed'
  <1> DEFINE s == [Idle EXCEPT !.at = step, !.op = op, !.job = j]
  <1>1. s \in ProcState /\ s.job \in Job /\ s.at = step
    BY IdleType DEF ProcState
  <1>2. QED
    BY <1>1, BecomeType

LEMMA WriteRowType ==
  ASSUME TypeInv, NEW p \in Process, WriteRow(p), JobOf(p) \in Job
  PROVE  jobs' \in [Job -> Row]
  <1>1. Merge(proc[p].op, proc[p].new, proc[p].base, jobs[JobOf(p)]) \in Row
    BY MergeType DEF TypeInv, TypeOK, ProcState
  <1>2. QED
    BY <1>1, RowTypes DEF WriteRow, TypeInv, TypeOK

-----------------------------------------------------------------------------
(* The type invariant.                                                     *)

LEMMA TypeInit == Init => TypeInv
  <1> SUFFICES ASSUME Init PROVE TypeInv
    OBVIOUS
  <1>1. StoreTypeOK /\ BrokerTypeOK
    BY DEF Init, StoreInit, StoreTypeOK, BrokerInit, BrokerTypeOK
  <1>2. proc \in [Process -> ProcState] /\ Placed
    BY IdleType DEF Init, Placed, Idle
  <1>3. jobs \in [Job -> Row]
    BY RowTypes DEF Init
  <1>4. published \in [Job -> Seq(Event)]
    BY DEF Init
  <1>5. faults \in 0..MaxFaults
    <2>1. faults = 0
      BY DEF Init
    <2>2. QED
      BY <2>1, MaxFaultsNat
  <1>6. QED
    BY <1>1, <1>2, <1>3, <1>4, <1>5 DEF TypeInv, TypeOK

LEMMA TypeStep == TypeInv /\ [Next]_vars => TypeInv'
  <1> SUFFICES ASSUME TypeInv, [Next]_vars PROVE TypeInv'
    OBVIOUS
  <1> USE DEF JobOf
  <1>r. \A p \in Process : proc[p].at \notin {"idle", "error"} => RowOf(p) \in Row /\ JobOf(p) \in Job
    BY DEF TypeInv, TypeOK, Placed, RowOf
  <1>b. \A p \in Process : proc[p].at \in {"upload", "copy"} => proc[p].part \in Artifacts
    BY DEF TypeInv, Placed
  <1>p. \A p \in Process : /\ proc[p] \in ProcState /\ proc[p].op \in Op
                           /\ proc[p].percent \in Nat /\ proc[p].part \in Nat
                           /\ proc[p].base \in Row /\ proc[p].new \in Row
    BY DEF TypeInv, TypeOK, ProcState
  <1>c. ASSUME proc' \in [Process -> ProcState], Placed', jobs' \in [Job -> Row],
               published' = published, faults' \in 0..MaxFaults,
               StoreTypeOK', BrokerTypeOK'
        PROVE  TypeInv'
    BY <1>c DEF TypeInv, TypeOK
  <1>d. /\ jobs' = jobs => jobs' \in [Job -> Row]
        /\ published' = published => published' \in [Job -> Seq(Event)]
        /\ faults' = faults => faults' \in 0..MaxFaults
        /\ files' = files => StoreTypeOK'
        /\ UNCHANGED brokerVars => BrokerTypeOK'
    BY DEF TypeInv, TypeOK, StoreTypeOK, BrokerTypeOK, brokerVars
  <1>f. Fault => faults' \in 0..MaxFaults
    BY MaxFaultsNat DEF TypeInv, TypeOK, Fault
  <1>1. ASSUME NEW p \in Process, UpdateReload(p) PROVE TypeInv'
    <2> DEFINE seen == RowOf(p)
    <2>1. seen \in Row /\ JobOf(p) \in Job
      BY <1>1, <1>r DEF UpdateReload
    <2>2. CASE Exists(seen)
      <3>1. Become(p, [proc[p] EXCEPT !.at = "flush", !.base = seen])
        BY <1>1, <2>2 DEF UpdateReload
      <3>2. [proc[p] EXCEPT !.at = "flush", !.base = seen] \in ProcState
        BY <1>p, <2>1 DEF ProcState, Step
      <3>3. /\ [proc[p] EXCEPT !.at = "flush", !.base = seen].job \in Job
            /\ [proc[p] EXCEPT !.at = "flush", !.base = seen].at = "flush"
        BY <1>p, <2>1 DEF ProcState
      <3>4. QED
        BY <3>1, <3>2, <3>3, BecomeType, <1>1, <1>c, <1>d DEF UpdateReload
    <2>3. CASE ~Exists(seen)
      <3>1. Raise(p)
        BY <1>1, <2>3 DEF UpdateReload
      <3>2. QED
        BY <3>1, <2>1, RaiseType, <1>1, <1>c, <1>d DEF UpdateReload
    <2>4. QED
      BY <2>2, <2>3
  <1>2. ASSUME NEW p \in Process, Flush(p) PROVE TypeInv'
    <2>1. JobOf(p) \in Job
      BY <1>2, <1>r DEF Flush
    <2>2. CASE Writable(p)
      <3>1. WriteRow(p) /\ Committed(p)
        BY <1>2, <2>2 DEF Flush
      <3>2. QED
        BY <3>1, <2>1, WriteRowType, CommittedType, <1>2, <1>c, <1>d DEF Flush
    <2>3. CASE ~Writable(p)
      <3>1. Raise(p) /\ jobs' = jobs
        BY <1>2, <2>3 DEF Flush
      <3>2. QED
        BY <3>1, <2>1, RaiseType, <1>2, <1>c, <1>d DEF Flush
    <2>4. QED
      BY <2>2, <2>3
  <1>4. ASSUME NEW q \in Request, NEW j \in Job, Create(q, j) PROVE TypeInv'
    <2>1. q \in Process /\ "enqueue" \in Step /\ "record" \in Op
      BY DEF Process, Step, Op
    <2>2. jobs' \in [Job -> Row]
      BY <1>4, RowTypes DEF Create, TypeInv, TypeOK
    <2>3. QED
      BY <1>4, <2>1, <2>2, BeginType, <1>c, <1>d DEF Create
  <1>5. ASSUME NEW q \in Request, NEW j \in Job, NEW call \in {"cancel", "delete"},
               Call(q, j, call)
        PROVE  TypeInv'
    <2>1. q \in Process /\ "get" \in Step /\ call \in Op
      BY DEF Process, Step, Op
    <2>2. QED
      BY <1>5, <2>1, BeginType, <1>c, <1>d DEF Call
  <1>6. ASSUME NEW q \in Request, Enqueue(q) PROVE TypeInv'
    <2>1. q \in Process /\ "get" \in Step /\ "record" \in Op /\ JobOf(q) \in Job
      BY <1>6, <1>r DEF Process, Step, Op, Enqueue
    <2>2. BrokerTypeOK'
      BY <1>6, <2>1 DEF Enqueue, Publish, BrokerTypeOK, TypeInv, TypeOK
    <2>3. QED
      BY <1>6, <2>1, <2>2, GotoType, <1>c, <1>d DEF Enqueue
  <1>7. ASSUME NEW q \in Request, RecordGet(q) PROVE TypeInv'
    <2>1. q \in Process /\ JobOf(q) \in Job /\ RowOf(q) \in Row
      BY <1>7, <1>r DEF Process, RecordGet, Doing
    <2>2. proc' \in [Process -> ProcState] /\ Placed'
      <3>1. CASE Exists(RowOf(q)) /\ RowOf(q).status = "queued"
        BY <1>7, <2>1, <3>1, DomainTypes, StageType DEF RecordGet
      <3>2. CASE ~(Exists(RowOf(q)) /\ RowOf(q).status = "queued")
        BY <1>7, <2>1, <3>2, ReplyType DEF RecordGet
      <3>3. QED
        BY <3>1, <3>2
    <2>3. QED
      BY <1>7, <2>2, <1>c, <1>d DEF RecordGet
  <1>8. ASSUME NEW q \in Request, CancelGet(q) PROVE TypeInv'
    <2>1. q \in Process /\ JobOf(q) \in Job /\ RowOf(q) \in Row
      BY <1>8, <1>r DEF Process, CancelGet, Doing
    <2>2. CASE Exists(RowOf(q)) /\ RowOf(q).status \notin Terminal
      <3>1. StageTransition(q, "cancelled", MarkCancelled(RowOf(q)))
        BY <1>8, <2>2 DEF CancelGet
      <3>2. Revoke(JobOf(q)) \/ UNCHANGED brokerVars
        BY <1>8, <2>2 DEF CancelGet
      <3>3. BrokerTypeOK'
        BY <3>2, <2>1, <1>d DEF Revoke, BrokerTypeOK, TypeInv, TypeOK
      <3>4. QED
        BY <1>8, <3>1, <3>3, <2>1, DomainTypes, StageTransitionType, <1>c, <1>d DEF CancelGet
    <2>3. CASE ~(Exists(RowOf(q)) /\ RowOf(q).status \notin Terminal)
      BY <1>8, <2>1, <2>3, RefuseType, <1>c, <1>d DEF CancelGet
    <2>4. QED
      BY <2>2, <2>3
  <1>9. ASSUME NEW q \in Request, DeleteGet(q) PROVE TypeInv'
    <2>1. q \in Process /\ JobOf(q) \in Job /\ RowOf(q) \in Row
      BY <1>9, <1>r DEF Process, DeleteGet, Doing
    <2>2. proc' \in [Process -> ProcState] /\ Placed'
      <3>1. CASE Exists(RowOf(q)) /\ RowOf(q).status \notin Active
        <4>1. Become(q, [proc[q] EXCEPT !.at = "flush", !.base = RowOf(q)])
          BY <1>9, <3>1 DEF DeleteGet
        <4>2. [proc[q] EXCEPT !.at = "flush", !.base = RowOf(q)] \in ProcState
          BY <1>p, <2>1 DEF ProcState, Step
        <4>3. /\ [proc[q] EXCEPT !.at = "flush", !.base = RowOf(q)].job \in Job
              /\ [proc[q] EXCEPT !.at = "flush", !.base = RowOf(q)].at = "flush"
          BY <1>p, <2>1 DEF ProcState
        <4>4. QED
          BY <4>1, <4>2, <4>3, <2>1, BecomeType
      <3>2. CASE ~(Exists(RowOf(q)) /\ RowOf(q).status \notin Active)
        BY <1>9, <2>1, <3>2, RefuseType DEF DeleteGet
      <3>3. QED
        BY <3>1, <3>2
    <2>3. QED
      BY <1>9, <2>2, <1>c, <1>d DEF DeleteGet
  <1>10. ASSUME NEW q \in Request, Purge(q) PROVE TypeInv'
    <2>1. q \in Process /\ JobOf(q) \in Job
      BY <1>10, <1>r DEF Process, Purge
    <2>2. StoreTypeOK'
      BY <1>10, <2>1 DEF Purge, DeletePrefix, StoreTypeOK, TypeInv, TypeOK
    <2>3. QED
      BY <1>10, <2>1, <2>2, ReplyType, <1>c, <1>d DEF Purge
  <1>11. ASSUME NEW w \in Worker, NEW j \in Job, Deliver(w, j) PROVE TypeInv'
    <2>1. w \in Process /\ "get" \in Step /\ "start" \in Op
      BY DEF Process, Step, Op
    <2>2. BrokerTypeOK'
      BY <1>11 DEF Deliver, Take, BrokerTypeOK, TypeInv, TypeOK
    <2>3. CASE j \in revoked[w]
      <3>1. proc' = proc
        BY <1>11, <2>3 DEF Deliver
      <3>2. proc' \in [Process -> ProcState] /\ Placed'
        BY <3>1 DEF TypeInv, TypeOK, Placed
      <3>3. QED
        BY <1>11, <2>2, <3>2, <1>c, <1>d DEF Deliver
    <2>4. CASE j \notin revoked[w]
      <3>1. Become(w, [Idle EXCEPT !.at = "get", !.op = "start", !.job = j])
        BY <1>11, <2>4 DEF Deliver
      <3>2. proc' \in [Process -> ProcState] /\ Placed'
        BY <3>1, <2>1, BeginType
      <3>3. QED
        BY <1>11, <2>2, <3>2, <1>c, <1>d DEF Deliver
    <2>5. QED
      BY <2>3, <2>4
  <1>12. ASSUME NEW w \in Worker, StartGet(w) PROVE TypeInv'
    <2>1. w \in Process /\ JobOf(w) \in Job /\ RowOf(w) \in Row
      BY <1>12, <1>r DEF Process, StartGet, Doing
    <2>2. proc' \in [Process -> ProcState] /\ Placed'
      BY <1>12, <2>1, DomainTypes, StageTransitionType, AcknowledgeType DEF StartGet
    <2>3. QED
      BY <1>12, <2>2, <1>c, <1>d DEF StartGet
  <1>13. ASSUME NEW w \in Worker, EngineReport(w) PROVE TypeInv'
    <2>1. w \in Process /\ JobOf(w) \in Job
      BY <1>13, <1>r DEF Process, EngineReport
    <2>2. Become(w, [proc[w] EXCEPT !.at = "get", !.op = "progress",
                                    !.percent = proc[w].percent + 1])
      BY <1>13 DEF EngineReport
    <2>3. proc[w].percent + 1 \in Nat
      BY <1>p, <2>1
    <2> DEFINE n == proc[w].percent + 1
               s == [proc[w] EXCEPT !.at = "get", !.op = "progress", !.percent = n]
    <2> HIDE DEF n
    <2>4. s \in ProcState /\ s.job \in Job /\ s.at = "get"
      BY <1>p, <2>1, <2>3 DEF ProcState, Step, Op, n
    <2>5. QED
      BY <1>13, <2>1, <2>2, <2>4, BecomeType, <1>c, <1>d DEF EngineReport, n
  <1>14. ASSUME NEW w \in Worker, ProgressGet(w) PROVE TypeInv'
    <2>1. w \in Process /\ JobOf(w) \in Job /\ RowOf(w) \in Row
      BY <1>14, <1>r DEF Process, ProgressGet, Doing
    <2>2. UpdateProgress(RowOf(w), proc[w].percent) \in Row
      BY <2>1, <1>p, DomainTypes
    <2>3. proc' \in [Process -> ProcState] /\ Placed'
      BY <1>14, <2>1, <2>2, StageType, GotoType DEF ProgressGet, Step, Op
    <2>4. QED
      BY <1>14, <2>3, <1>c, <1>d DEF ProgressGet
  <1>15. ASSUME NEW w \in Worker, EngineReturn(w) PROVE TypeInv'
    <2> DEFINE s == [proc[w] EXCEPT !.at = "upload", !.op = "success", !.part = 1]
    <2>1. w \in Process /\ JobOf(w) \in Job
      BY <1>15, <1>r DEF Process, EngineReturn
    <2>2. s \in ProcState /\ s.job \in Job /\ s.part \in Artifacts
      BY <1>p, <2>1, FirstArtifact DEF ProcState, Step, Op
    <2>3. QED
      BY <1>15, <2>1, <2>2, BecomeType, <1>c, <1>d DEF EngineReturn
  <1>16. ASSUME NEW w \in Worker, EngineRaise(w) PROVE TypeInv'
    <2>1. w \in Process /\ JobOf(w) \in Job /\ "get" \in Step /\ "failure" \in Op
      BY <1>16, <1>r DEF Process, EngineRaise, Step, Op
    <2>2. QED
      BY <1>16, <2>1, GotoType, <1>c, <1>d DEF EngineRaise
  <1>17. ASSUME NEW w \in Worker, UploadReplace(w) PROVE TypeInv'
    <2> DEFINE s == [proc[w] EXCEPT !.at = "copy"]
    <2>1. w \in Process /\ JobOf(w) \in Job
      BY <1>17, <1>r DEF Process, UploadReplace
    <2>2. s \in ProcState /\ s.job \in Job /\ s.part \in Artifacts
      BY <1>p, <1>b, <2>1, <1>17 DEF ProcState, Step, UploadReplace
    <2>3. StoreTypeOK'
      BY <1>17 DEF UploadReplace, RemoveOld, StoreTypeOK, TypeInv, TypeOK
    <2>4. QED
      BY <1>17, <2>1, <2>2, <2>3, BecomeType, <1>c, <1>d DEF UploadReplace
  <1>18. ASSUME NEW w \in Worker, UploadSave(w) PROVE TypeInv'
    <2>1. w \in Process /\ JobOf(w) \in Job
      BY <1>18, <1>r DEF Process, UploadSave
    <2>2. CASE proc[w].at = "copy" /\ Blocked(JobOf(w), proc[w].part)
      <3>1. Raise(w) /\ files' = files
        BY <1>18, <2>2 DEF UploadSave
      <3>2. QED
        BY <1>18, <2>1, <3>1, RaiseType, <1>c, <1>d DEF UploadSave
    <2>3. CASE ~(proc[w].at = "copy" /\ Blocked(JobOf(w), proc[w].part))
      <3>1. Save(JobOf(w), proc[w].part) /\ NextPart(w)
        BY <1>18, <2>3 DEF UploadSave
      <3>2. proc[w].part \in Artifacts
        BY <1>18, <1>b, <2>1 DEF UploadSave
      <3>3. StoreTypeOK'
        BY <3>1, <3>2 DEF Save, StoreTypeOK, TypeInv, TypeOK
      <3> DEFINE n == proc[w].part + 1
                 s == [proc[w] EXCEPT !.at = "upload", !.part = n]
                 t == [proc[w] EXCEPT !.at = "get", !.part = 0]
      <3>4. n \in Nat /\ (proc[w].part < NumArtifacts => n \in Artifacts)
        BY <1>p, <2>1, FirstArtifact DEF Artifacts
      <3> HIDE DEF n
      <3>5. /\ s \in ProcState /\ s.job \in Job /\ s.part = n
            /\ t \in ProcState /\ t.job \in Job /\ t.at = "get"
        BY <1>p, <2>1, <3>4 DEF ProcState, Step
      <3>6. \/ proc[w].part < NumArtifacts /\ Become(w, s)
            \/ Become(w, t)
        BY <3>1 DEF NextPart, n
      <3>7. proc' \in [Process -> ProcState] /\ Placed'
        BY <2>1, <3>4, <3>5, <3>6, BecomeType
      <3>8. QED
        BY <1>18, <3>3, <3>7, <1>c, <1>d DEF UploadSave
    <2>4. QED
      BY <2>2, <2>3
  <1>19. ASSUME NEW w \in Worker, SuccessGet(w) PROVE TypeInv'
    <2>1. w \in Process /\ JobOf(w) \in Job /\ RowOf(w) \in Row
      BY <1>19, <1>r DEF Process, SuccessGet, Doing
    <2>2. proc' \in [Process -> ProcState] /\ Placed'
      BY <1>19, <2>1, DomainTypes, StageTransitionType, AcknowledgeType DEF SuccessGet
    <2>3. QED
      BY <1>19, <2>2, <1>c, <1>d DEF SuccessGet
  <1>20. ASSUME NEW w \in Worker, FailureGet(w) PROVE TypeInv'
    <2>1. w \in Process /\ JobOf(w) \in Job /\ RowOf(w) \in Row
      BY <1>20, <1>r DEF Process, FailureGet, Doing
    <2>2. proc' \in [Process -> ProcState] /\ Placed'
      BY <1>20, <2>1, DomainTypes, StageTransitionType, AcknowledgeType DEF FailureGet
    <2>3. QED
      BY <1>20, <2>2, <1>c, <1>d DEF FailureGet
  <1>21. ASSUME NEW w \in Worker, PublishEvents(w) PROVE TypeInv'
    <2>1. w \in Process /\ JobOf(w) \in Job
      BY <1>21, <1>r DEF Process, PublishEvents
    <2>2. PulledEvent(proc[w].op) \in Event
      BY DEF PulledEvent, Event
    <2>3. published' \in [Job -> Seq(Event)]
      BY <1>21, <2>1, <2>2 DEF PublishEvents, TypeInv, TypeOK
    <2>4. proc' \in [Process -> ProcState] /\ Placed'
      BY <1>21, <2>1, GotoType, AcknowledgeType DEF PublishEvents, Step, Op
    <2>5. StoreTypeOK' /\ BrokerTypeOK' /\ jobs' \in [Job -> Row] /\ faults' \in 0..MaxFaults
      BY <1>21, <1>d DEF PublishEvents
    <2>6. QED
      BY <2>3, <2>4, <2>5 DEF TypeInv, TypeOK
  <1>22. ASSUME NEW w \in Worker, NEW j \in Job, RevokeArrives(w, j) PROVE TypeInv'
    <2>1. w \in Process
      BY DEF Process
    <2>2. BrokerTypeOK'
      BY <1>22 DEF RevokeArrives, HearRevoke, BrokerTypeOK, TypeInv, TypeOK
    <2>3. proc' \in [Process -> ProcState] /\ Placed'
      <3>1. CASE proc' = proc
        BY <3>1 DEF TypeInv, TypeOK, Placed
      <3>2. CASE Acknowledge(w)
        BY <3>2, <2>1, AcknowledgeType
      <3>3. QED
        BY <1>22, <3>1, <3>2 DEF RevokeArrives
    <2>4. QED
      BY <1>22, <2>2, <2>3, <1>c, <1>d DEF RevokeArrives
  <1>23. ASSUME NEW q \in Request, EnqueueFails(q) PROVE TypeInv'
    <2>1. q \in Process
      BY DEF Process
    <2>2. QED
      BY <1>23, <2>1, RefuseType, <1>c, <1>d, <1>f DEF EnqueueFails
  <1>24. ASSUME NEW p \in Process, DatabaseFails(p) PROVE TypeInv'
    <2>1. JobOf(p) \in Job
      BY <1>24, <1>r DEF DatabaseFails
    <2>2. QED
      BY <1>24, <2>1, RaiseType, <1>c, <1>d, <1>f DEF DatabaseFails
  <1>25. ASSUME NEW p \in Process, CommitUnconfirmed(p) PROVE TypeInv'
    <2>1. JobOf(p) \in Job
      BY <1>25, <1>r DEF CommitUnconfirmed
    <2>2. QED
      BY <1>25, <2>1, RaiseType, WriteRowType, <1>c, <1>d, <1>f DEF CommitUnconfirmed
  <1>26. ASSUME NEW p \in Process, StorageFails(p) PROVE TypeInv'
    <2>1. JobOf(p) \in Job
      BY <1>26, <1>r DEF StorageFails
    <2>2. proc' \in [Process -> ProcState] /\ Placed'
      BY <1>26, <2>1, RaiseType, ReplyType DEF StorageFails
    <2>3. QED
      BY <1>26, <2>2, <1>c, <1>d, <1>f DEF StorageFails
  <1>27. ASSUME NEW w \in Worker, Redeliver(w) PROVE TypeInv'
    <2>0. w \in Process /\ JobOf(w) \in Job
      BY <1>27, <1>r DEF Process, Redeliver, Busy
    <2>1. BrokerTypeOK'
      BY <1>27, <2>0 DEF Redeliver, PutBack, BrokerTypeOK, TypeInv, TypeOK
    <2>2. proc' \in [Process -> ProcState] /\ Placed'
      BY <1>27 DEF Redeliver, TypeInv, TypeOK, Placed
    <2>3. QED
      BY <1>27, <2>1, <2>2, <1>c, <1>d, <1>f DEF Redeliver
  <1>28. ASSUME NEW w \in Worker, ChildLost(w) PROVE TypeInv'
    <2>0. w \in Process /\ JobOf(w) \in Job
      BY <1>28, <1>r DEF Process, ChildLost, Busy
    <2>1. BrokerTypeOK'
      BY <1>28, <2>0 DEF ChildLost, PutBack, BrokerTypeOK, TypeInv, TypeOK
    <2>2. w \in Process /\ Acknowledge(w)
      BY <1>28 DEF Process, ChildLost, Acknowledge
    <2>3. QED
      BY <1>28, <2>1, <2>2, AcknowledgeType, <1>c, <1>d, <1>f DEF ChildLost
  <1>29. ASSUME NEW w \in Worker, HostLost(w) PROVE TypeInv'
    <2>0. w \in Process /\ JobOf(w) \in Job
      BY <1>29, <1>r DEF Process, HostLost, Busy
    <2>1. BrokerTypeOK'
      BY <1>29, <2>0 DEF HostLost, LoseHost, PutBack, BrokerTypeOK, TypeInv, TypeOK
    <2>2. w \in Process /\ Acknowledge(w)
      BY <1>29 DEF Process, HostLost, Acknowledge
    <2>3. QED
      BY <1>29, <2>1, <2>2, AcknowledgeType, <1>c, <1>d, <1>f DEF HostLost
  <1>30. ASSUME NEW w \in Worker, HardTimeLimit(w) PROVE TypeInv'
    <2>1. w \in Process
      BY DEF Process
    <2>2. QED
      BY <1>30, <2>1, AcknowledgeType, <1>c, <1>d, <1>f DEF HardTimeLimit
  <1>31. CASE UNCHANGED vars
    BY <1>31 DEF vars, brokerVars, TypeInv, TypeOK, StoreTypeOK, BrokerTypeOK, Placed
  <1>32. QED
    BY <1>1, <1>2, <1>4, <1>5, <1>6, <1>7, <1>8, <1>9, <1>10, <1>11, <1>12,
       <1>13, <1>14, <1>15, <1>16, <1>17, <1>18, <1>19, <1>20, <1>21, <1>22, <1>23,
       <1>24, <1>25, <1>26, <1>27, <1>28, <1>29, <1>30, <1>31
    DEF Next, UnitOfWork, ClientCall, RequestStep, Delivery, WorkerStep, Environment

\* The type invariant holds for every instance.
THEOREM TypeCorrect == Spec => []TypeOK
  <1>1. TypeInv => TypeOK
    BY DEF TypeInv
  <1>2. QED
    BY <1>1, TypeInit, TypeStep, PTL DEF Spec

-----------------------------------------------------------------------------
(* What a step can do: most steps only move one process to a place where   *)
(* nothing depends on it.                                                  *)

Resting == {"idle", "error", "replied"}

Quiet == UNCHANGED <<jobs, files, published>>

\* The process is at rest or about to begin something other than the success path.
Settled(s) == s.at \in Resting \/ (s.at \in {"get", "engine"} /\ s.op # "success")

\* One process settles and nothing else happens to the job, its files or events.
Calm(p) == Quiet /\ \E s \in ProcState : Become(p, s) /\ Settled(s)

\* A handler has read a row and stages a legal change of it.
Stages(p) ==
  /\ Quiet
  /\ proc[p].at = "get" /\ proc[p].op # "delete"
  /\ Exists(RowOf(p))
  /\ \E new \in Row :
       /\ Stage(p, new)
       /\ new.status \in JobStatus
       /\ new.status = RowOf(p).status \/ CanTransition(RowOf(p), new.status)
       /\ new.status = "succeeded" => proc[p].op = "success"
       /\ proc[p].op = "start" => RowOf(p).status = "queued" /\ new.status = "running"

\* A transaction commits.
Commits(p) ==
  /\ proc[p].at = "flush"
  /\ Writable(p)
  /\ WriteRow(p)
  /\ UNCHANGED <<files, published>>
  /\ \E s \in ProcState :
       /\ Become(p, s)
       /\ \/ Settled(s)
          \/ s.job = JobOf(p) /\ s.at = "publish" /\ s.op = proc[p].op
          \/ s.job = JobOf(p) /\ s.at = "purge" /\ proc[p].op = "delete"

LEMMA GotoSettles ==
  ASSUME TypeInv, NEW p \in Process, NEW step \in {"get", "engine"}, NEW op \in Op,
         op # "success", Goto(p, step, op)
  PROVE  \E s \in ProcState : Become(p, s) /\ Settled(s)
  <1> DEFINE s == [proc[p] EXCEPT !.at = step, !.op = op,
                                  !.new = AbsentRow, !.base = AbsentRow]
  <1>1. s \in ProcState /\ s.at = step /\ s.op = op
    BY RowTypes DEF TypeInv, TypeOK, ProcState, Step
  <1>2. QED
    BY <1>1 DEF Goto, Settled

LEMMA RestSettles ==
  ASSUME TypeInv, NEW p \in Process, Acknowledge(p) \/ Refuse(p)
  PROVE  \E s \in ProcState : Become(p, s) /\ Settled(s)
  <1> DEFINE s == [Idle EXCEPT !.at = "error"]
  <1>1. s \in ProcState /\ s.at = "error" /\ Idle.at = "idle"
    BY IdleType DEF ProcState, Step, Idle
  <1>2. QED
    BY <1>1, IdleType DEF Acknowledge, Refuse, Settled, Resting

LEMMA ReplySettles ==
  ASSUME TypeInv, NEW p \in Process, Reply(p), JobOf(p) \in Job
  PROVE  \E s \in ProcState : Become(p, s) /\ Settled(s)
  <1> DEFINE s == [Idle EXCEPT !.at = "replied", !.op = proc[p].op, !.job = JobOf(p)]
  <1>1. proc[p].op \in Op
    BY DEF TypeInv, TypeOK, ProcState
  <1>2. s \in ProcState /\ s.at = "replied"
    BY <1>1, IdleType DEF ProcState, Step
  <1>3. QED
    BY <1>2 DEF Reply, Settled, Resting

LEMMA BeginSettles ==
  ASSUME TypeInv, NEW p \in Process, NEW op \in Op, op # "success", NEW j \in Job,
         Become(p, [Idle EXCEPT !.at = "get", !.op = op, !.job = j])
  PROVE  \E s \in ProcState : Become(p, s) /\ Settled(s)
  <1> DEFINE s == [Idle EXCEPT !.at = "get", !.op = op, !.job = j]
  <1>1. s \in ProcState /\ s.at = "get" /\ s.op = op
    BY IdleType DEF ProcState, Step
  <1>2. QED
    BY <1>1 DEF Settled

LEMMA RaiseSettles ==
  ASSUME TypeInv, NEW p \in Process, Raise(p)
  PROVE  \E s \in ProcState : Become(p, s) /\ Settled(s)
  <1>1. "none" \in Op /\ "failure" \in Op
    BY DEF Op
  <1>2. \/ Goto(p, "engine", "none")
        \/ Goto(p, "get", "failure")
        \/ Acknowledge(p) \/ Refuse(p)
    BY DEF Raise
  <1>3. QED
    BY <1>1, <1>2, GotoSettles, RestSettles

LEMMA CommittedSettles ==
  ASSUME TypeInv, NEW p \in Process, Committed(p), JobOf(p) \in Job
  PROVE  \E s \in ProcState :
           /\ Become(p, s)
           /\ \/ Settled(s)
              \/ s.job = JobOf(p) /\ s.at = "publish" /\ s.op = proc[p].op
              \/ s.job = JobOf(p) /\ s.at = "purge" /\ proc[p].op = "delete"
  <1>1. proc[p] \in ProcState /\ proc[p].op \in Op /\ "none" \in Op /\ "delete" \in Op
    BY DEF TypeInv, TypeOK, ProcState, Op
  <1>2. CASE proc[p].op = "progress"
    <2>1. Goto(p, "engine", "none")
      BY <1>2 DEF Committed
    <2>2. QED
      BY <2>1, <1>1, GotoSettles
  <1>3. CASE proc[p].op \in {"record", "cancel"}
    <2>1. Reply(p)
      BY <1>3 DEF Committed
    <2>2. QED
      BY <2>1, ReplySettles
  <1>4. CASE proc[p].op \notin {"progress", "record", "cancel"}
    <2>1. PICK step \in {"publish", "purge"} :
            /\ Goto(p, step, proc[p].op)
            /\ step = "purge" => proc[p].op = "delete"
      BY <1>4 DEF Committed
    <2> DEFINE s == [proc[p] EXCEPT !.at = step, !.op = proc[p].op,
                                    !.new = AbsentRow, !.base = AbsentRow]
    <2>2. s \in ProcState /\ s.at = step /\ s.op = proc[p].op /\ s.job = JobOf(p)
      BY <1>1, RowTypes DEF ProcState, Step, JobOf
    <2>3. QED
      BY <2>1, <2>2 DEF Goto
  <1>5. QED
    BY <1>2, <1>3, <1>4

-----------------------------------------------------------------------------
(* Every step is one of these, or one of the few actions the invariants    *)
(* are about.                                                              *)

\* The second read of jobs.update found the row.
Reloads(p) ==
  /\ Quiet
  /\ proc[p].at = "reload"
  /\ \E seen \in Row :
       /\ Exists(seen)
       /\ Become(p, [proc[p] EXCEPT !.at = "flush", !.base = seen])

\* delete_job found a job that is not active.
AcceptsDelete(q) ==
  /\ Quiet
  /\ Doing(q, "get", "delete")
  /\ Exists(RowOf(q)) /\ RowOf(q).status \notin Active
  /\ Become(q, [proc[q] EXCEPT !.at = "flush", !.base = RowOf(q)])

\* An artifact has been written.
Uploads(w) ==
  /\ \/ proc[w].at = "upload" /\ ~Replaces(proc[w].part)
     \/ proc[w].at = "copy"
  /\ Save(JobOf(w), proc[w].part)
  /\ NextPart(w)
  /\ UNCHANGED <<jobs, published>>

StepCases ==
  \/ UNCHANGED <<jobs, proc, files, published>>
  \/ \E p \in Process : Calm(p) \/ Stages(p) \/ Reloads(p) \/ Commits(p)
  \/ \E q \in Request : AcceptsDelete(q) \/ Purge(q) \/ \E j \in Job : Create(q, j)
  \/ \E w \in Worker : EngineReturn(w) \/ UploadReplace(w) \/ Uploads(w) \/ PublishEvents(w)

LEMMA StageTransitionCases ==
  ASSUME TypeInv, NEW p \in Process, NEW to \in JobStatus, NEW new \in Row,
         proc[p].at = "get", proc[p].op # "delete", Exists(RowOf(p)), Quiet,
         proc[p].op = "start" => RowOf(p).status = "queued" /\ to = "running",
         new.status = to, to = "succeeded" => proc[p].op = "success",
         StageTransition(p, to, new)
  PROVE  Calm(p) \/ Stages(p)
  <1>1. CASE CanTransition(RowOf(p), to)
    BY <1>1 DEF StageTransition, Stages
  <1>2. CASE ~CanTransition(RowOf(p), to)
    BY <1>2, RaiseSettles DEF StageTransition, Calm
  <1>3. QED
    BY <1>1, <1>2

LEMMA DomainStatus ==
  ASSUME NEW job \in Row, NEW percent \in Nat
  PROVE  /\ MarkRunning(job).status = "running"
         /\ UpdateProgress(job, percent).status = job.status
         /\ MarkSucceeded(job).status = "succeeded"
         /\ MarkFailed(job).status = "failed"
         /\ MarkCancelled(job).status = "cancelled"
         /\ [job EXCEPT !.task = TRUE].status = job.status
  BY DEF Row, MarkRunning, UpdateProgress, MarkSucceeded, MarkFailed, MarkCancelled

LEMMA Cases == TypeInv /\ Next => StepCases
  <1> SUFFICES ASSUME TypeInv, Next PROVE StepCases
    OBVIOUS
  <1>r. \A p \in Process : proc[p].at \notin {"idle", "error"} =>
                             RowOf(p) \in Row /\ JobOf(p) \in Job
    BY DEF TypeInv, TypeOK, Placed, RowOf, JobOf
  <1>p. \A p \in Process : proc[p] \in ProcState /\ proc[p].base \in Row
                           /\ proc[p].percent \in Nat
    BY DEF TypeInv, TypeOK, ProcState
  <1>o. /\ {"none", "record", "cancel", "delete", "start", "failure", "progress"} \subseteq Op
        /\ {"queued", "running", "succeeded", "failed", "cancelled"} \subseteq JobStatus
    BY DEF Op, JobStatus
  <1>e. ASSUME NEW p \in Process, Calm(p) \/ Stages(p) PROVE StepCases
    BY <1>e DEF StepCases
  <1>1. ASSUME NEW p \in Process, UpdateReload(p) PROVE StepCases
    <2> DEFINE seen == RowOf(p)
    <2>1. seen \in Row /\ Quiet
      BY <1>1, <1>r DEF UpdateReload, Quiet
    <2>2. CASE Exists(seen)
      <3>1. Reloads(p)
        BY <1>1, <2>1, <2>2 DEF UpdateReload, Reloads
      <3>2. QED
        BY <3>1 DEF StepCases
    <2>3. CASE ~Exists(seen)
      BY <1>1, <2>1, <2>3, RaiseSettles, <1>e DEF UpdateReload, Calm
    <2>4. QED
      BY <2>2, <2>3
  <1>2. ASSUME NEW p \in Process, Flush(p) PROVE StepCases
    <2>1. JobOf(p) \in Job
      BY <1>2, <1>r DEF Flush
    <2>2. CASE Writable(p)
      <3>1. Commits(p)
        BY <1>2, <2>1, <2>2, CommittedSettles DEF Flush, Commits
      <3>2. QED
        BY <3>1 DEF StepCases
    <2>3. CASE ~Writable(p)
      BY <1>2, <2>3, RaiseSettles, <1>e DEF Flush, Calm, Quiet
    <2>4. QED
      BY <2>2, <2>3
  <1>3. ASSUME NEW q \in Request, NEW j \in Job, Create(q, j) PROVE StepCases
    BY <1>3 DEF StepCases
  <1>4. ASSUME NEW q \in Request, NEW j \in Job, NEW call \in {"cancel", "delete"},
               Call(q, j, call)
        PROVE  StepCases
    BY <1>4, <1>o, BeginSettles, <1>e DEF Call, Calm, Quiet, Process
  <1>5. ASSUME NEW q \in Request, Enqueue(q) PROVE StepCases
    BY <1>5, <1>o, GotoSettles, <1>e DEF Enqueue, Calm, Quiet, Process
  <1>6. ASSUME NEW q \in Request, RecordGet(q) PROVE StepCases
    <2>1. /\ q \in Process /\ JobOf(q) \in Job /\ RowOf(q) \in Row /\ Quiet
          /\ proc[q].at = "get" /\ proc[q].op = "record"
      BY <1>6, <1>r DEF Process, RecordGet, Doing, Quiet
    <2> DEFINE new == [RowOf(q) EXCEPT !.task = TRUE]
    <2>2. CASE Exists(RowOf(q)) /\ RowOf(q).status = "queued"
      <3>1. Stage(q, new)
        BY <1>6, <2>2 DEF RecordGet
      <3>2. new \in Row /\ new.status = RowOf(q).status
        BY <2>1, DomainTypes, DomainStatus
      <3> HIDE DEF new
      <3>3. Stages(q)
        BY <3>1, <3>2, <2>1, <2>2, <1>o DEF Stages
      <3>4. QED
        BY <3>3, <2>1, <1>e
    <2>3. CASE ~(Exists(RowOf(q)) /\ RowOf(q).status = "queued")
      BY <1>6, <2>1, <2>3, ReplySettles, <1>e DEF RecordGet, Calm
    <2>4. QED
      BY <2>2, <2>3
  <1>7. ASSUME NEW q \in Request, CancelGet(q) PROVE StepCases
    <2>1. /\ q \in Process /\ JobOf(q) \in Job /\ RowOf(q) \in Row /\ Quiet
          /\ proc[q].at = "get" /\ proc[q].op = "cancel"
      BY <1>7, <1>r DEF Process, CancelGet, Doing, Quiet
    <2>2. CASE Exists(RowOf(q)) /\ RowOf(q).status \notin Terminal
      <3>1. StageTransition(q, "cancelled", MarkCancelled(RowOf(q)))
        BY <1>7, <2>2 DEF CancelGet
      <3>2. Calm(q) \/ Stages(q)
        BY <3>1, <2>1, <2>2, <1>o, DomainTypes, DomainStatus, StageTransitionCases
      <3>3. QED
        BY <3>2, <2>1, <1>e
    <2>3. CASE ~(Exists(RowOf(q)) /\ RowOf(q).status \notin Terminal)
      BY <1>7, <2>1, <2>3, RestSettles, <1>e DEF CancelGet, Calm
    <2>4. QED
      BY <2>2, <2>3
  <1>8. ASSUME NEW q \in Request, DeleteGet(q) PROVE StepCases
    <2>1. CASE Exists(RowOf(q)) /\ RowOf(q).status \notin Active
      BY <1>8, <2>1 DEF DeleteGet, AcceptsDelete, StepCases, Quiet
    <2>2. CASE ~(Exists(RowOf(q)) /\ RowOf(q).status \notin Active)
      BY <1>8, <2>2, RestSettles, <1>e DEF DeleteGet, Calm, Quiet, Process
    <2>3. QED
      BY <2>1, <2>2
  <1>9. ASSUME NEW q \in Request, Purge(q) PROVE StepCases
    BY <1>9 DEF StepCases
  <1>10. ASSUME NEW w \in Worker, NEW j \in Job, Deliver(w, j) PROVE StepCases
    <2>1. w \in Process /\ Quiet
      BY <1>10 DEF Process, Deliver, Quiet
    <2>2. CASE proc' = proc
      BY <2>1, <2>2 DEF StepCases, Quiet
    <2>3. CASE Become(w, [Idle EXCEPT !.at = "get", !.op = "start", !.job = j])
      BY <2>1, <2>3, <1>o, BeginSettles, <1>e DEF Calm
    <2>4. QED
      BY <1>10, <2>2, <2>3 DEF Deliver
  <1>11. ASSUME NEW w \in Worker, StartGet(w) PROVE StepCases
    <2>1. /\ w \in Process /\ JobOf(w) \in Job /\ RowOf(w) \in Row /\ Quiet
          /\ proc[w].at = "get" /\ proc[w].op = "start"
      BY <1>11, <1>r DEF Process, StartGet, Doing, Quiet
    <2>2. CASE Exists(RowOf(w)) /\ RowOf(w).status = "queued"
      <3>1. StageTransition(w, "running", MarkRunning(RowOf(w)))
        BY <1>11, <2>2 DEF StartGet
      <3>2. Calm(w) \/ Stages(w)
        BY <3>1, <2>1, <2>2, <1>o, DomainTypes, DomainStatus, StageTransitionCases
      <3>3. QED
        BY <3>2, <2>1, <1>e
    <2>3. CASE ~(Exists(RowOf(w)) /\ RowOf(w).status = "queued")
      BY <1>11, <2>1, <2>3, RestSettles, <1>e DEF StartGet, Calm
    <2>4. QED
      BY <2>2, <2>3
  <1>12. ASSUME NEW w \in Worker, EngineReport(w) PROVE StepCases
    <2>1. w \in Process /\ Quiet /\ proc[w].percent + 1 \in Nat
      BY <1>12, <1>p DEF Process, EngineReport, Quiet
    <2> DEFINE n == proc[w].percent + 1
               s == [proc[w] EXCEPT !.at = "get", !.op = "progress", !.percent = n]
    <2>2. Become(w, s)
      BY <1>12 DEF EngineReport
    <2> HIDE DEF n
    <2>3. s \in ProcState /\ s.at = "get" /\ s.op = "progress"
      BY <1>p, <2>1 DEF ProcState, Step, Op, n
    <2>4. Calm(w)
      BY <2>1, <2>2, <2>3 DEF Calm, Settled
    <2>5. QED
      BY <2>1, <2>4, <1>e
  <1>13. ASSUME NEW w \in Worker, ProgressGet(w) PROVE StepCases
    <2>1. /\ w \in Process /\ JobOf(w) \in Job /\ RowOf(w) \in Row /\ Quiet
          /\ proc[w].at = "get" /\ proc[w].op = "progress" /\ proc[w].percent \in Nat
      BY <1>13, <1>r, <1>p DEF Process, ProgressGet, Doing, Quiet
    <2> DEFINE new == UpdateProgress(RowOf(w), proc[w].percent)
    <2>2. CASE Exists(RowOf(w)) /\ RowOf(w).status = "running"
      <3>1. Stage(w, new)
        BY <1>13, <2>2 DEF ProgressGet
      <3>2. new \in Row /\ new.status = RowOf(w).status
        BY <2>1, DomainTypes, DomainStatus
      <3> HIDE DEF new
      <3>3. Stages(w)
        BY <3>1, <3>2, <2>1, <2>2, <1>o DEF Stages
      <3>4. QED
        BY <3>3, <2>1, <1>e
    <2>3. CASE ~(Exists(RowOf(w)) /\ RowOf(w).status = "running")
      BY <1>13, <2>1, <2>3, <1>o, GotoSettles, <1>e DEF ProgressGet, Calm
    <2>4. QED
      BY <2>2, <2>3
  <1>14. ASSUME NEW w \in Worker, EngineReturn(w) PROVE StepCases
    BY <1>14 DEF StepCases
  <1>15. ASSUME NEW w \in Worker, EngineRaise(w) PROVE StepCases
    BY <1>15, <1>o, GotoSettles, <1>e DEF EngineRaise, Calm, Quiet, Process
  <1>16. ASSUME NEW w \in Worker, UploadReplace(w) PROVE StepCases
    BY <1>16 DEF StepCases
  <1>17. ASSUME NEW w \in Worker, UploadSave(w) PROVE StepCases
    <2>1. CASE proc[w].at = "copy" /\ Blocked(JobOf(w), proc[w].part)
      BY <1>17, <2>1, RaiseSettles, <1>e DEF UploadSave, Calm, Quiet, Process
    <2>2. CASE ~(proc[w].at = "copy" /\ Blocked(JobOf(w), proc[w].part))
      BY <1>17, <2>2 DEF UploadSave, Uploads, StepCases
    <2>3. QED
      BY <2>1, <2>2
  <1>18. ASSUME NEW w \in Worker, SuccessGet(w) PROVE StepCases
    <2>1. /\ w \in Process /\ JobOf(w) \in Job /\ RowOf(w) \in Row /\ Quiet
          /\ proc[w].at = "get" /\ proc[w].op = "success"
      BY <1>18, <1>r DEF Process, SuccessGet, Doing, Quiet
    <2>2. CASE Exists(RowOf(w)) /\ RowOf(w).status = "running"
      <3>1. StageTransition(w, "succeeded", MarkSucceeded(RowOf(w)))
        BY <1>18, <2>2 DEF SuccessGet
      <3>2. Calm(w) \/ Stages(w)
        BY <3>1, <2>1, <2>2, <1>o, DomainTypes, DomainStatus, StageTransitionCases
      <3>3. QED
        BY <3>2, <2>1, <1>e
    <2>3. CASE ~(Exists(RowOf(w)) /\ RowOf(w).status = "running")
      BY <1>18, <2>1, <2>3, RestSettles, <1>e DEF SuccessGet, Calm
    <2>4. QED
      BY <2>2, <2>3
  <1>19. ASSUME NEW w \in Worker, FailureGet(w) PROVE StepCases
    <2>1. /\ w \in Process /\ JobOf(w) \in Job /\ RowOf(w) \in Row /\ Quiet
          /\ proc[w].at = "get" /\ proc[w].op = "failure"
      BY <1>19, <1>r DEF Process, FailureGet, Doing, Quiet
    <2>2. CASE Exists(RowOf(w)) /\ RowOf(w).status \notin Terminal
      <3>1. StageTransition(w, "failed", MarkFailed(RowOf(w)))
        BY <1>19, <2>2 DEF FailureGet
      <3>2. Calm(w) \/ Stages(w)
        BY <3>1, <2>1, <2>2, <1>o, DomainTypes, DomainStatus, StageTransitionCases
      <3>3. QED
        BY <3>2, <2>1, <1>e
    <2>3. CASE ~(Exists(RowOf(w)) /\ RowOf(w).status \notin Terminal)
      BY <1>19, <2>1, <2>3, RestSettles, <1>e DEF FailureGet, Calm
    <2>4. QED
      BY <2>2, <2>3
  <1>20. ASSUME NEW w \in Worker, PublishEvents(w) PROVE StepCases
    BY <1>20 DEF StepCases
  <1>21. ASSUME NEW w \in Worker, NEW j \in Job, RevokeArrives(w, j) PROVE StepCases
    <2>1. w \in Process /\ Quiet
      BY <1>21 DEF Process, RevokeArrives, Quiet
    <2>2. CASE proc' = proc
      BY <2>1, <2>2 DEF StepCases, Quiet
    <2>3. CASE Acknowledge(w)
      BY <2>1, <2>3, RestSettles, <1>e DEF Calm
    <2>4. QED
      BY <1>21, <2>2, <2>3 DEF RevokeArrives
  <1>22. ASSUME NEW q \in Request, EnqueueFails(q) PROVE StepCases
    BY <1>22, RestSettles, <1>e DEF EnqueueFails, Calm, Quiet, Process
  <1>23. ASSUME NEW p \in Process, DatabaseFails(p) PROVE StepCases
    BY <1>23, RaiseSettles, <1>e DEF DatabaseFails, Calm, Quiet
  <1>24. ASSUME NEW p \in Process, CommitUnconfirmed(p) PROVE StepCases
    <2>1. Commits(p)
      BY <1>24, RaiseSettles DEF CommitUnconfirmed, Commits
    <2>2. QED
      BY <2>1 DEF StepCases
  <1>25. ASSUME NEW p \in Process, StorageFails(p) PROVE StepCases
    <2>1. JobOf(p) \in Job
      BY <1>25, <1>r DEF StorageFails
    <2>2. QED
      BY <1>25, <2>1, RaiseSettles, ReplySettles, <1>e DEF StorageFails, Calm, Quiet
  <1>26. ASSUME NEW w \in Worker, Redeliver(w) PROVE StepCases
    BY <1>26 DEF Redeliver, StepCases
  <1>27. ASSUME NEW w \in Worker, ChildLost(w) \/ HostLost(w) \/ HardTimeLimit(w)
         PROVE  StepCases
    <2>1. Acknowledge(w) /\ Quiet /\ w \in Process
      BY <1>27 DEF ChildLost, HostLost, HardTimeLimit, Acknowledge, Quiet, Process
    <2>2. QED
      BY <2>1, RestSettles, <1>e DEF Calm
  <1>28. QED
    BY <1>1, <1>2, <1>3, <1>4, <1>5, <1>6, <1>7, <1>8, <1>9, <1>10, <1>11, <1>12,
       <1>13, <1>14, <1>15, <1>16, <1>17, <1>18, <1>19, <1>20, <1>21, <1>22, <1>23,
       <1>24, <1>25, <1>26, <1>27
    DEF Next, UnitOfWork, ClientCall, RequestStep, Delivery, WorkerStep, Environment

-----------------------------------------------------------------------------
(* The invariants: what is recorded, and what is stored.                   *)

\* A process with a job to write back: what it writes is a status of the
\* graph, and only the success path writes SUCCEEDED.
Staging ==
  \A p \in Process :
    proc[p].at \in {"reload", "flush"} /\ proc[p].op # "delete" =>
      /\ proc[p].new.status \in JobStatus
      /\ proc[p].new.status = "succeeded" => proc[p].op = "success"

\* A job that was never created has no artifacts.
AbsentIsEmpty == \A j \in Job : jobs[j].status = "absent" => jobs[j].artifacts = 0

\* Between its commit and its announcement a success is recorded.
CommittedIsRecorded ==
  \A p \in Process :
    proc[p].at = "publish" /\ proc[p].op = "success" =>
      Deleted(JobOf(p)) \/ jobs[JobOf(p)].artifacts > 0

Recording ==
  /\ Staging
  /\ AbsentIsEmpty
  /\ SucceededHasArtifacts
  /\ CommittedIsRecorded
  /\ CompletedMeansRecorded

\* Nothing is claimed of the files of a job that is deleted, or that two runs
\* may save on local storage.
Loose == {j \in Job : Deleted(j) \/ (Backend = "local" /\ j \in redelivered)}

\* Files are complete from the end of the upload to the deletion of the job.
UploadedIsStored ==
  \A p \in Process :
    proc[p].at \in {"get", "reload", "flush"} /\ proc[p].op = "success" =>
      JobOf(p) \in Loose \/ files[JobOf(p)] = Artifacts

UploadingInOrder ==
  \A p \in Process :
    proc[p].at \in {"upload", "copy"} =>
      /\ proc[p].op = "success"
      /\ JobOf(p) \in Loose \/ 1..(proc[p].part - 1) \subseteq files[JobOf(p)]

PurgeAfterDelete == \A p \in Process : proc[p].at = "purge" => Deleted(JobOf(p))

Storing ==
  /\ UploadedIsStored
  /\ UploadingInOrder
  /\ PurgeAfterDelete
  /\ RecordedArtifactsStored

-----------------------------------------------------------------------------
(* What a step does to the row and the process it touches.                 *)

LEMMA Becoming ==
  ASSUME TypeInv, NEW p \in Process, NEW s, Become(p, s)
  PROVE  proc'[p] = s /\ \A q \in Process : q # p => proc'[q] = proc[q]
  BY DEF TypeInv, TypeOK, Become

LEMMA Writing ==
  ASSUME TypeInv, NEW p \in Process, proc[p].at = "flush", Writable(p), WriteRow(p)
  PROVE  /\ JobOf(p) \in Job
         /\ \A i \in Job : i # JobOf(p) => jobs'[i] = jobs[i]
         /\ proc[p].op = "delete" => jobs'[JobOf(p)].status = "deleted"
         /\ proc[p].op # "delete" =>
              /\ Exists(RowOf(p))
              /\ jobs'[JobOf(p)].status = NetChange(proc[p].new.status, proc[p].base.status,
                                                    RowOf(p).status)
              /\ jobs'[JobOf(p)].artifacts = RowOf(p).artifacts + Inserted(proc[p].op)
              /\ proc[p].op = "success" => jobs'[JobOf(p)].artifacts > 0
              /\ proc[p].op # "success" => jobs'[JobOf(p)].artifacts = RowOf(p).artifacts
  <1>1. JobOf(p) \in Job /\ jobs \in [Job -> Row]
    BY DEF TypeInv, TypeOK, Placed
  <1>2. RowOf(p).artifacts \in Nat
    BY <1>1 DEF RowOf, Row
  <1>3. CASE proc[p].op = "delete"
    BY <1>1, <1>3 DEF WriteRow, DeletedRow, NewJob
  <1>4. CASE proc[p].op # "delete"
    <2> DEFINE new == Merge(proc[p].op, proc[p].new, proc[p].base, RowOf(p))
    <2>1. jobs' = [jobs EXCEPT ![JobOf(p)] = new]
      BY <1>4 DEF WriteRow, RowOf
    <2>2. /\ new.status = NetChange(proc[p].new.status, proc[p].base.status, RowOf(p).status)
          /\ new.artifacts = RowOf(p).artifacts + Inserted(proc[p].op)
      BY DEF Merge
    <2> HIDE DEF new
    <2>3. jobs'[JobOf(p)] = new /\ \A i \in Job : i # JobOf(p) => jobs'[i] = jobs[i]
      BY <1>1, <2>1
    <2>4. Exists(RowOf(p))
      BY <1>4 DEF Writable
    <2>5. QED
      BY <1>1, <1>2, <1>4, <2>2, <2>3, <2>4 DEF Inserted
  <1>5. QED
    BY <1>3, <1>4

LEMMA Creating ==
  ASSUME TypeInv, NEW q \in Request, NEW j \in Job, Create(q, j)
  PROVE  /\ jobs[j].status = "absent"
         /\ jobs'[j].status = "queued" /\ jobs'[j].artifacts = 0
         /\ \A i \in Job : i # j => jobs'[i] = jobs[i]
  BY DEF Create, TypeInv, TypeOK, MarkQueued, NewJob

\* No step changes the row of a job by anything but the creation of a job that
\* was absent or the commit of a transaction.
LEMMA RowChanges ==
  ASSUME TypeInv, StepCases, jobs' # jobs
  PROVE  \/ \E p \in Process : Commits(p)
         \/ \E q \in Request, j \in Job : Create(q, j)
  BY DEF StepCases, Calm, Stages, Reloads, Quiet, AcceptsDelete, Purge, EngineReturn,
         UploadReplace, Uploads, PublishEvents

-----------------------------------------------------------------------------
LEMMA DeletedStep == TypeInv /\ Next => \A j \in Job : Deleted(j) => jobs'[j].status = "deleted"
  <1> SUFFICES ASSUME TypeInv, Next, NEW j \in Job, Deleted(j)
               PROVE  jobs'[j].status = "deleted"
    OBVIOUS
  <1>1. CASE jobs' = jobs
    BY <1>1 DEF Deleted
  <1>2. ASSUME NEW p \in Process, Commits(p) PROVE jobs'[j].status = "deleted"
    BY <1>2, Writing DEF Commits, Deleted, Exists, NoRow, RowOf
  <1>3. ASSUME NEW q \in Request, NEW i \in Job, Create(q, i)
        PROVE  jobs'[j].status = "deleted"
    BY <1>3, Creating DEF Deleted
  <1>4. QED
    BY <1>1, <1>2, <1>3, Cases, RowChanges

\* No worker or request that holds a copy of a deleted job brings it back.
THEOREM DeletionIsFinal == Spec => DeletedStaysDeleted
  <1>1. TypeInv /\ [Next]_vars =>
          [\A j \in Job : Deleted(j) => jobs'[j].status = "deleted"]_vars
    BY DeletedStep
  <1>2. QED
    BY <1>1, TypeInit, TypeStep, PTL DEF Spec, DeletedStaysDeleted

-----------------------------------------------------------------------------
(* What is recorded.                                                       *)

LEMMA RecordingInit == Init => Recording
  BY DEF Init, Recording, Staging, AbsentIsEmpty, SucceededHasArtifacts,
         CommittedIsRecorded, CompletedMeansRecorded, Announced, Idle, AbsentRow, NewJob

LEMMA RecordingStep == TypeInv /\ TypeInv' /\ Recording /\ [Next]_vars => Recording'
  <1> SUFFICES ASSUME TypeInv, TypeInv', Recording, [Next]_vars PROVE Recording'
    OBVIOUS
  <1>t. /\ \A j \in Job : jobs[j].artifacts \in Nat
        /\ \A p \in Process : proc[p].at \notin {"idle", "error"} => JobOf(p) \in Job
        /\ \A p \in Process : proc[p] \in ProcState
    BY DEF TypeInv, TypeOK, Placed, Row
  <1>1. CASE UNCHANGED <<jobs, proc, files, published>>
    BY <1>1 DEF Recording, Staging, AbsentIsEmpty, SucceededHasArtifacts,
         CommittedIsRecorded, CompletedMeansRecorded, Announced, JobOf, Deleted
  \* A step of one process that leaves the rows and the events alone.
  <1>2. ASSUME NEW p \in Process, NEW s, Become(p, s), UNCHANGED <<jobs, published>>,
               s.at # "publish",
               s.at \in {"reload", "flush"} /\ s.op # "delete" =>
                 /\ s.new.status \in JobStatus
                 /\ s.new.status = "succeeded" => s.op = "success"
        PROVE  Recording'
    <2>1. Staging'
      BY <1>2, Becoming DEF Recording, Staging
    <2>2. CommittedIsRecorded'
      BY <1>2, Becoming DEF Recording, CommittedIsRecorded, JobOf, Deleted
    <2>3. QED
      BY <1>2, <2>1, <2>2 DEF Recording, AbsentIsEmpty, SucceededHasArtifacts,
           CompletedMeansRecorded, Announced, Deleted
  <1>3. ASSUME NEW p \in Process, Calm(p) PROVE Recording'
    BY <1>2, <1>3 DEF Calm, Quiet, Settled, Resting
  <1>4. ASSUME NEW p \in Process, Stages(p) PROVE Recording'
    <2>1. PICK new \in Row : Stage(p, new) /\ new.status \in JobStatus
                             /\ (new.status = "succeeded" => proc[p].op = "success")
      BY <1>4 DEF Stages
    <2> DEFINE s == [proc[p] EXCEPT !.at = "reload", !.new = new, !.base = RowOf(p)]
    <2>2. s.at = "reload" /\ s.new = new /\ s.op = proc[p].op
      BY <1>t DEF ProcState
    <2>3. Become(p, s)
      BY <2>1 DEF Stage
    <2> HIDE DEF s
    <2>4. QED
      BY <1>2, <1>4, <2>1, <2>2, <2>3 DEF Stages, Quiet
  <1>5. ASSUME NEW p \in Process, Reloads(p) PROVE Recording'
    <2>1. PICK seen : Become(p, [proc[p] EXCEPT !.at = "flush", !.base = seen])
      BY <1>5 DEF Reloads
    <2> DEFINE s == [proc[p] EXCEPT !.at = "flush", !.base = seen]
    <2>2. s.at = "flush" /\ s.new = proc[p].new /\ s.op = proc[p].op
      BY <1>t DEF ProcState
    <2>3. proc[p].at = "reload" /\ UNCHANGED <<jobs, published>>
      BY <1>5 DEF Reloads, Quiet
    <2> HIDE DEF s
    <2>4. QED
      BY <1>2, <2>1, <2>2, <2>3 DEF s, Recording, Staging
  <1>6. ASSUME NEW p \in Process, Commits(p) PROVE Recording'
    <2>1. PICK s \in ProcState :
            /\ Become(p, s)
            /\ \/ Settled(s)
               \/ s.job = JobOf(p) /\ s.at = "publish" /\ s.op = proc[p].op
               \/ s.job = JobOf(p) /\ s.at = "purge" /\ proc[p].op = "delete"
      BY <1>6 DEF Commits
    <2>2. /\ s.at \notin {"reload", "flush"}
          /\ s.at = "publish" => s.job = JobOf(p) /\ s.op = proc[p].op
      BY <2>1 DEF Settled, Resting
    <2>3. /\ proc[p].at = "flush" /\ Writable(p) /\ WriteRow(p)
          /\ published' = published
      BY <1>6 DEF Commits
    <2>4. Staging'
      BY <2>1, <2>2, Becoming DEF Recording, Staging
    <2>5. SucceededHasArtifacts'
      BY <2>3, Writing, <1>t
      DEF Recording, Staging, SucceededHasArtifacts, NetChange, RowOf
    <2>6. AbsentIsEmpty'
      BY <2>3, Writing, <1>t
      DEF Recording, Staging, AbsentIsEmpty, NetChange, RowOf, JobStatus, Exists, NoRow
    \* What is recorded of a job stays, unless the job is deleted.
    <2>7. \A j \in Job : Deleted(j) \/ jobs[j].artifacts > 0 =>
                           Deleted(j)' \/ jobs'[j].artifacts > 0
      BY <2>3, Writing, <1>t DEF Deleted, RowOf, Exists, NoRow
    <2>8. CompletedMeansRecorded'
      BY <2>3, <2>7 DEF Recording, CompletedMeansRecorded, Announced
    <2>9. CommittedIsRecorded'
      <3> SUFFICES ASSUME NEW q \in Process, proc'[q].at = "publish",
                          proc'[q].op = "success"
                   PROVE  Deleted(JobOf(q))' \/ jobs'[proc'[q].job].artifacts > 0
        BY DEF CommittedIsRecorded, JobOf
      <3>1. CASE q = p
        <4>1. proc'[q].job = JobOf(p) /\ proc[p].op = "success"
          BY <3>1, <2>1, <2>2, Becoming
        <4>2. jobs'[JobOf(p)].artifacts > 0
          BY <2>3, <4>1, Writing
        <4>3. QED
          BY <4>1, <4>2
      <3>2. CASE q # p
        <4>1. proc'[q] = proc[q] /\ JobOf(q) \in Job
          BY <3>2, <2>1, Becoming, <1>t
        <4>2. Deleted(JobOf(q)) \/ jobs[JobOf(q)].artifacts > 0
          BY <4>1 DEF Recording, CommittedIsRecorded
        <4>3. proc'[q].job = JobOf(q)
          BY <4>1 DEF JobOf
        <4>4. QED
          BY <2>7, <4>1, <4>2, <4>3 DEF Deleted, JobOf
      <3>3. QED
        BY <3>1, <3>2
    <2>10. QED
      BY <2>4, <2>5, <2>6, <2>8, <2>9 DEF Recording
  <1>7. ASSUME NEW q \in Request, AcceptsDelete(q) PROVE Recording'
    <2> DEFINE s == [proc[q] EXCEPT !.at = "flush", !.base = RowOf(q)]
    <2>1. q \in Process /\ Become(q, s) /\ UNCHANGED <<jobs, published>>
      BY <1>7 DEF Process, AcceptsDelete, Quiet
    <2>2. s.at = "flush" /\ s.op = "delete"
      BY <1>7, <2>1, <1>t DEF AcceptsDelete, Doing, ProcState
    <2> HIDE DEF s
    <2>3. QED
      BY <1>2, <2>1, <2>2
  <1>8. ASSUME NEW q \in Request, Purge(q) PROVE Recording'
    <2> DEFINE s == [Idle EXCEPT !.at = "replied", !.op = proc[q].op, !.job = JobOf(q)]
    <2>1. q \in Process /\ Become(q, s) /\ UNCHANGED <<jobs, published>> /\ s.at = "replied"
      BY <1>8 DEF Process, Purge, Reply, Idle
    <2> HIDE DEF s
    <2>2. QED
      BY <1>2, <2>1
  <1>9. ASSUME NEW q \in Request, NEW j \in Job, Create(q, j) PROVE Recording'
    <2> DEFINE s == [Idle EXCEPT !.at = "enqueue", !.op = "record", !.job = j]
    <2>1. q \in Process /\ Become(q, s) /\ published' = published /\ s.at = "enqueue"
      BY <1>9 DEF Process, Create, Idle
    <2> HIDE DEF s
    <2>2. Staging'
      BY <2>1, Becoming DEF Recording, Staging
    <2>3. \A i \in Job : Deleted(i) \/ jobs[i].artifacts > 0 =>
                           Deleted(i)' \/ jobs'[i].artifacts > 0
      BY <1>9, Creating DEF Deleted, Recording, AbsentIsEmpty
    <2>4. AbsentIsEmpty' /\ SucceededHasArtifacts'
      BY <1>9, Creating DEF Recording, AbsentIsEmpty, SucceededHasArtifacts
    <2>5. CompletedMeansRecorded'
      BY <2>1, <2>3 DEF Recording, CompletedMeansRecorded, Announced
    <2>6. CommittedIsRecorded'
      BY <2>1, <2>3, Becoming, <1>t DEF Recording, CommittedIsRecorded, JobOf, Deleted
    <2>7. QED
      BY <2>2, <2>4, <2>5, <2>6 DEF Recording
  <1>10. ASSUME NEW w \in Worker, EngineReturn(w) PROVE Recording'
    <2> DEFINE s == [proc[w] EXCEPT !.at = "upload", !.op = "success", !.part = 1]
    <2>1. w \in Process /\ Become(w, s) /\ UNCHANGED <<jobs, published>>
      BY <1>10 DEF Process, EngineReturn
    <2>2. s.at = "upload"
      BY <2>1, <1>t DEF ProcState
    <2> HIDE DEF s
    <2>3. QED
      BY <1>2, <2>1, <2>2
  <1>11. ASSUME NEW w \in Worker, UploadReplace(w) PROVE Recording'
    <2> DEFINE s == [proc[w] EXCEPT !.at = "copy"]
    <2>1. w \in Process /\ Become(w, s) /\ UNCHANGED <<jobs, published>>
      BY <1>11 DEF Process, UploadReplace
    <2>2. s.at = "copy"
      BY <2>1, <1>t DEF ProcState
    <2> HIDE DEF s
    <2>3. QED
      BY <1>2, <2>1, <2>2
  <1>12. ASSUME NEW w \in Worker, Uploads(w) PROVE Recording'
    <2> DEFINE s == [proc[w] EXCEPT !.at = "upload", !.part = proc[w].part + 1]
               t == [proc[w] EXCEPT !.at = "get", !.part = 0]
    <2>1. w \in Process /\ UNCHANGED <<jobs, published>>
      BY <1>12 DEF Process, Uploads
    <2>2. Become(w, s) \/ Become(w, t)
      BY <1>12 DEF Uploads, NextPart
    <2>3. s.at = "upload" /\ t.at = "get"
      BY <2>1, <1>t DEF ProcState
    <2> HIDE DEF s, t
    <2>4. QED
      BY <1>2, <2>1, <2>2, <2>3
  <1>13. ASSUME NEW w \in Worker, PublishEvents(w) PROVE Recording'
    <2>1. w \in Process /\ JobOf(w) \in Job /\ jobs' = jobs /\ proc[w].at = "publish"
      BY <1>13, <1>t DEF Process, PublishEvents
    <2>2. PICK s : Become(w, s) /\ s.at \in {"idle", "engine"}
      <3> DEFINE s == [proc[w] EXCEPT !.at = "engine", !.op = "none",
                                      !.new = AbsentRow, !.base = AbsentRow]
      <3>1. s.at = "engine" /\ Idle.at = "idle"
        BY <2>1, <1>t DEF ProcState, Idle
      <3>2. Become(w, s) \/ Become(w, Idle)
        BY <1>13 DEF PublishEvents, Goto, Acknowledge
      <3> HIDE DEF s
      <3>3. QED
        BY <3>1, <3>2
    <2>3. Staging'
      BY <2>1, <2>2, Becoming DEF Recording, Staging
    <2>4. CommittedIsRecorded'
      BY <2>1, <2>2, Becoming DEF Recording, CommittedIsRecorded, JobOf, Deleted
    <2>5. CompletedMeansRecorded'
      <3> SUFFICES ASSUME NEW j \in Job, Announced(j, "JobCompleted")'
                   PROVE  Deleted(j)' \/ jobs'[j].artifacts > 0
        BY DEF CompletedMeansRecorded
      <3>1. CASE Announced(j, "JobCompleted")
        BY <3>1, <2>1 DEF Recording, CompletedMeansRecorded, Deleted
      <3>2. CASE ~Announced(j, "JobCompleted")
        <4> DEFINE event == PulledEvent(proc[w].op)
        <4>1. published' = [published EXCEPT ![JobOf(w)] = Append(published[JobOf(w)], event)]
          BY <1>13 DEF PublishEvents
        <4>2. published \in [Job -> Seq(Event)] /\ event \in Event
          BY DEF TypeInv, TypeOK, PulledEvent, Event
        <4> HIDE DEF event
        <4>3. j = JobOf(w) /\ event = "JobCompleted"
          <5>1. PICK i \in DOMAIN published'[j] : published'[j][i] = "JobCompleted"
            BY DEF Announced
          <5>2. j = JobOf(w)
            BY <5>1, <4>1, <4>2, <3>2, <2>1 DEF Announced
          <5>3. published[j] \in Seq(Event) /\ published'[j] = Append(published[j], event)
            BY <5>2, <4>1, <4>2
          <5>4. CASE i \in DOMAIN published[j]
            BY <5>1, <5>3, <5>4, <3>2, <4>2 DEF Announced
          <5>5. CASE i \notin DOMAIN published[j]
            BY <5>1, <5>2, <5>3, <5>5, <4>2
          <5>6. QED
            BY <5>4, <5>5
        <4>4. proc[w].op = "success"
          BY <4>3 DEF event, PulledEvent
        <4>5. QED
          BY <2>1, <4>3, <4>4 DEF Recording, CommittedIsRecorded, Deleted
      <3>3. QED
        BY <3>1, <3>2
    <2>6. QED
      BY <2>1, <2>3, <2>4, <2>5 DEF Recording, AbsentIsEmpty, SucceededHasArtifacts
  <1>14. CASE Next
    BY <1>14, Cases, <1>1, <1>3, <1>4, <1>5, <1>6, <1>7, <1>8, <1>9, <1>10, <1>11,
       <1>12, <1>13 DEF StepCases
  <1>15. QED
    BY <1>1, <1>14 DEF vars

\* A job that reads SUCCEEDED has artifact rows,
\* however the handlers and their commits interleave.
THEOREM SuccessHasArtifacts == Spec => []SucceededHasArtifacts
  <1>1. Recording => SucceededHasArtifacts
    BY DEF Recording
  <1>2. QED
    BY <1>1, TypeInit, TypeStep, RecordingInit, RecordingStep, PTL DEF Spec

\* Who has heard JobCompleted finds the recorded result, unless the job was
\* deleted since: nothing else takes recorded artifacts away.
THEOREM ResultsAreRecorded == Spec => []CompletedMeansRecorded
  <1>1. Recording => CompletedMeansRecorded
    BY DEF Recording
  <1>2. QED
    BY <1>1, TypeInit, TypeStep, RecordingInit, RecordingStep, PTL DEF Spec

-----------------------------------------------------------------------------
(* What is stored.                                                         *)

LEMMA StoringInit == Init => Storing
  BY DEF Init, Storing, UploadedIsStored, UploadingInOrder,
         PurgeAfterDelete, RecordedArtifactsStored, Idle, AbsentRow, NewJob, Exists, NoRow

\* No step forgets that a message came back.
LEMMA RedeliveredStays == [Next]_vars => redelivered \subseteq redelivered'
  <1> SUFFICES ASSUME [Next]_vars PROVE redelivered \subseteq redelivered'
    OBVIOUS
  <1>1. ASSUME NEW q \in Request, ClientCall(q) \/ RequestStep(q) \/ EnqueueFails(q)
        PROVE  redelivered' = redelivered
    BY <1>1 DEF ClientCall, Create, Call, RequestStep, Enqueue, Publish, RecordGet, CancelGet,
         Revoke, DeleteGet, Purge, EnqueueFails, brokerVars
  <1>2. ASSUME NEW p \in Process,
               UnitOfWork(p) \/ DatabaseFails(p) \/ CommitUnconfirmed(p) \/ StorageFails(p)
        PROVE  redelivered' = redelivered
    BY <1>2 DEF UnitOfWork, UpdateReload, Flush, DatabaseFails, CommitUnconfirmed, StorageFails,
         brokerVars
  <1>3. ASSUME NEW w \in Worker, WorkerStep(w) PROVE redelivered' = redelivered
    BY <1>3 DEF WorkerStep, StartGet, EngineReport, ProgressGet, EngineReturn, EngineRaise,
         UploadReplace, UploadSave, SuccessGet, FailureGet, PublishEvents, brokerVars
  <1>4. ASSUME NEW w \in Worker,
               Delivery(w) \/ HardTimeLimit(w) \/ \E j \in Job : RevokeArrives(w, j)
        PROVE  redelivered' = redelivered
    BY <1>4 DEF Delivery, Deliver, Take, HardTimeLimit, RevokeArrives, HearRevoke, brokerVars
  <1>5. ASSUME NEW w \in Worker, Redeliver(w) \/ ChildLost(w) \/ HostLost(w)
        PROVE  redelivered \subseteq redelivered'
    BY <1>5 DEF Redeliver, ChildLost, HostLost, LoseHost, PutBack
  <1>6. CASE UNCHANGED vars
    BY <1>6 DEF vars
  <1>7. QED
    BY <1>1, <1>2, <1>3, <1>4, <1>5, <1>6 DEF Next, Environment

\* Only a directory that is replaced can take away what is recorded.
LEMMA StoringStep ==
  ASSUME TypeInv, TypeInv', Recording, Storing, [Next]_vars, \A w \in Worker : ~UploadReplace(w)
  PROVE  Storing'
  <1>t. /\ \A j \in Job : jobs[j].artifacts \in Nat /\ files[j] \subseteq Artifacts
        /\ \A p \in Process : proc[p].at \notin {"idle", "error"} => JobOf(p) \in Job
        /\ \A p \in Process : proc[p] \in ProcState /\ proc[p].part \in Nat
        /\ \A p \in Process : proc[p].at \in {"upload", "copy"} => proc[p].part \in Artifacts
        /\ files \in [Job -> SUBSET Artifacts]
    BY DEF TypeInv, TypeOK, Placed, Row, StoreTypeOK, ProcState
  <1> USE DEF JobOf
  <1>k. \A j \in Job : (Deleted(j) => Deleted(j)') => (j \in Loose => j \in Loose')
    BY RedeliveredStays DEF Loose
  <1>1. CASE UNCHANGED <<jobs, proc, files, published>>
    <2>1. \A j \in Job : j \in Loose => j \in Loose'
      BY <1>1, <1>k DEF Deleted
    <2>2. UploadedIsStored' /\ UploadingInOrder'
      BY <1>1, <1>t, <2>1 DEF Storing, UploadedIsStored, UploadingInOrder
    <2>3. PurgeAfterDelete'
      BY <1>1 DEF Storing, PurgeAfterDelete, Deleted
    <2>4. RecordedArtifactsStored'
      BY <1>1, RedeliveredStays DEF Storing, RecordedArtifactsStored
    <2>5. QED
      BY <2>2, <2>3, <2>4 DEF Storing
  \* A process takes up a place for which the parts about processes hold,
  \* no job comes back and no file of a job that is not deleted goes away.
  <1>2. ASSUME NEW p \in Process, NEW s, Become(p, s),
               \A j \in Job : Deleted(j) => Deleted(j)',
               \A j \in Job : j \in Loose' \/ files[j] \subseteq files'[j],
               files' \in [Job -> SUBSET Artifacts],
               s.at \in {"get", "reload", "flush"} /\ s.op = "success" =>
                 s.job \in Job /\ (s.job \in Loose' \/ files'[s.job] = Artifacts),
               s.at \in {"upload", "copy"} =>
                 /\ s.op = "success" /\ s.job \in Job
                 /\ s.job \in Loose' \/ 1..(s.part - 1) \subseteq files'[s.job],
               s.at = "purge" => Deleted(s.job)',
               \A j \in Job : Exists(jobs'[j]) /\ jobs'[j].artifacts > 0 =>
                 /\ Exists(jobs[j])
                 /\ jobs[j].artifacts > 0 \/ j \in Loose \/ files[j] = Artifacts
        PROVE  Storing'
    <2>0. \A j \in Job : j \in Loose => j \in Loose'
      BY <1>2, <1>k
    <2>1. UploadedIsStored'
      <3> SUFFICES ASSUME NEW q \in Process, proc'[q].op = "success",
                          proc'[q].at \in {"get", "reload", "flush"}
                   PROVE  proc'[q].job \in Loose' \/ files'[proc'[q].job] = Artifacts
        BY DEF UploadedIsStored
      <3>1. CASE q = p
        BY <3>1, <1>2, Becoming
      <3>2. CASE q # p
        <4>1. proc'[q] = proc[q] /\ proc[q].job \in Job
          BY <3>2, <1>2, <1>t, Becoming
        <4> DEFINE j == proc[q].job
        <4>2. j \in Loose \/ files[j] = Artifacts
          BY <4>1 DEF Storing, UploadedIsStored
        <4>3. files'[j] \in SUBSET Artifacts /\ (j \in Loose' \/ files[j] \subseteq files'[j])
          BY <1>2, <4>1
        <4>4. j \in Loose' \/ files'[j] = Artifacts
          BY <2>0, <4>1, <4>2, <4>3
        <4>5. proc'[q].job = j
          BY <4>1
        <4> HIDE DEF j
        <4>6. QED
          BY <4>4, <4>5
      <3>3. QED
        BY <3>1, <3>2
    <2>2. UploadingInOrder'
      <3> SUFFICES ASSUME NEW q \in Process, proc'[q].at \in {"upload", "copy"}
                   PROVE  /\ proc'[q].op = "success"
                          /\ \/ proc'[q].job \in Loose'
                             \/ 1..(proc'[q].part - 1) \subseteq files'[proc'[q].job]
        BY DEF UploadingInOrder
      <3>1. CASE q = p
        BY <3>1, <1>2, Becoming
      <3>2. CASE q # p
        <4>1. proc'[q] = proc[q] /\ proc[q].job \in Job
          BY <3>2, <1>2, <1>t, Becoming
        <4> DEFINE j == proc[q].job
        <4>2. /\ proc[q].op = "success"
              /\ j \in Loose \/ 1..(proc[q].part - 1) \subseteq files[j]
          BY <4>1 DEF Storing, UploadingInOrder
        <4>3. j \in Loose' \/ files[j] \subseteq files'[j]
          BY <1>2, <4>1
        <4>4. j \in Loose' \/ 1..(proc[q].part - 1) \subseteq files'[j]
          BY <2>0, <4>1, <4>2, <4>3
        <4>5. proc'[q].job = j
          BY <4>1
        <4> HIDE DEF j
        <4>6. QED
          BY <4>1, <4>2, <4>4, <4>5
      <3>3. QED
        BY <3>1, <3>2
    <2>3. PurgeAfterDelete'
      BY <1>2, <1>t, Becoming DEF Storing, PurgeAfterDelete, Deleted
    <2>4. RecordedArtifactsStored'
      <3> SUFFICES ASSUME NEW j \in Job, Exists(jobs'[j]), jobs'[j].artifacts > 0,
                          Backend = "local" => j \notin redelivered'
                   PROVE  files'[j] = Artifacts
        BY DEF RecordedArtifactsStored
      <3>1. ~Deleted(j)' /\ j \notin Loose'
        BY DEF Deleted, Exists, NoRow, Loose
      <3>2. j \notin Loose /\ (Backend = "local" => j \notin redelivered)
        BY <2>0, <3>1, RedeliveredStays
      <3>3. files[j] = Artifacts
        BY <1>2, <3>2 DEF Storing, RecordedArtifactsStored
      <3>4. files'[j] \in SUBSET Artifacts /\ files[j] \subseteq files'[j]
        BY <1>2, <3>1
      <3>5. QED
        BY <3>3, <3>4
    <2>5. QED
      BY <2>1, <2>2, <2>3, <2>4 DEF Storing
  \* The same when the rows and the files stay.
  <1>3. ASSUME NEW p \in Process, NEW s, Become(p, s), UNCHANGED <<jobs, files>>,
               s.at \in {"get", "reload", "flush"} /\ s.op = "success" =>
                 s.job \in Job /\ (s.job \in Loose \/ files[s.job] = Artifacts),
               s.at \notin {"upload", "copy", "purge"}
        PROVE  Storing'
    <2>1. \A j \in Job : (Deleted(j) => Deleted(j)') /\ (j \in Loose => j \in Loose')
      BY <1>3, <1>k DEF Deleted
    <2>2. QED
      BY <1>2, <1>3, <1>t, <2>1
  <1>4. ASSUME NEW p \in Process, Calm(p) PROVE Storing'
    BY <1>3, <1>4 DEF Calm, Quiet, Settled, Resting
  \* A handler carries on with the same job.
  <1>5. ASSUME NEW p \in Process, NEW s, Become(p, s), Quiet,
               proc[p].at \in {"get", "reload"}, s.at \in {"reload", "flush"},
               s.op = proc[p].op, s.job = JobOf(p)
        PROVE  Storing'
    BY <1>3, <1>5, <1>t DEF Quiet, Storing, UploadedIsStored
  <1>6. ASSUME NEW p \in Process, Stages(p) PROVE Storing'
    <2>1. PICK new : Stage(p, new)
      BY <1>6 DEF Stages
    <2> DEFINE s == [proc[p] EXCEPT !.at = "reload", !.new = new, !.base = RowOf(p)]
    <2>2. s.at = "reload" /\ s.op = proc[p].op /\ s.job = JobOf(p)
      BY <1>t DEF ProcState
    <2>3. Become(p, s)
      BY <2>1 DEF Stage
    <2> HIDE DEF s
    <2>4. QED
      BY <1>5, <1>6, <2>2, <2>3 DEF Stages
  <1>7. ASSUME NEW p \in Process, Reloads(p) PROVE Storing'
    <2>1. PICK seen : Become(p, [proc[p] EXCEPT !.at = "flush", !.base = seen])
      BY <1>7 DEF Reloads
    <2> DEFINE s == [proc[p] EXCEPT !.at = "flush", !.base = seen]
    <2>2. s.at = "flush" /\ s.op = proc[p].op /\ s.job = JobOf(p)
      BY <1>t DEF ProcState
    <2> HIDE DEF s
    <2>3. QED
      BY <1>5, <1>7, <2>1, <2>2 DEF Reloads, s
  <1>8. ASSUME NEW q \in Request, AcceptsDelete(q) PROVE Storing'
    <2> DEFINE s == [proc[q] EXCEPT !.at = "flush", !.base = RowOf(q)]
    <2>1. q \in Process /\ Become(q, s)
      BY <1>8 DEF Process, AcceptsDelete
    <2>2. s.at = "flush" /\ s.op = proc[q].op /\ s.job = JobOf(q)
      BY <2>1, <1>t DEF ProcState
    <2> HIDE DEF s
    <2>3. QED
      BY <1>5, <1>8, <2>1, <2>2 DEF AcceptsDelete, Doing
  <1>9. ASSUME NEW p \in Process, Commits(p) PROVE Storing'
    <2>1. PICK s \in ProcState :
            /\ Become(p, s)
            /\ \/ Settled(s)
               \/ s.job = JobOf(p) /\ s.at = "publish" /\ s.op = proc[p].op
               \/ s.job = JobOf(p) /\ s.at = "purge" /\ proc[p].op = "delete"
      BY <1>9 DEF Commits
    <2>2. proc[p].at = "flush" /\ Writable(p) /\ WriteRow(p) /\ files' = files
      BY <1>9 DEF Commits
    <2>3. \A j \in Job : Deleted(j) => Deleted(j)'
      BY <2>2, Writing DEF Deleted, RowOf, Exists, NoRow
    <2>4. s.at = "purge" => Deleted(s.job)'
      BY <2>1, <2>2, Writing DEF Settled, Resting, Deleted
    <2>5. ASSUME NEW j \in Job, Exists(jobs'[j]), jobs'[j].artifacts > 0
          PROVE  /\ Exists(jobs[j])
                 /\ jobs[j].artifacts > 0 \/ j \in Loose \/ files[j] = Artifacts
      <3>1. CASE j # JobOf(p)
        BY <3>1, <2>2, <2>5, Writing
      <3>2. CASE j = JobOf(p)
        <4>1. proc[p].op # "delete" /\ Exists(jobs[j])
          BY <3>2, <2>2, <2>5, Writing DEF Exists, NoRow, RowOf
        <4>2. CASE proc[p].op = "success"
          BY <4>1, <4>2, <3>2, <2>2 DEF Storing, UploadedIsStored
        <4>3. CASE proc[p].op # "success"
          BY <4>1, <4>3, <3>2, <2>2, <2>5, Writing DEF RowOf
        <4>4. QED
          BY <4>1, <4>2, <4>3
      <3>3. QED
        BY <3>1, <3>2
    <2>6. /\ s.at \notin {"reload", "flush", "upload", "copy"}
          /\ s.at = "get" => s.op # "success"
      BY <2>1 DEF Settled, Resting
    <2>7. QED
      BY <1>2, <1>t, <2>1, <2>2, <2>3, <2>4, <2>5, <2>6
  <1>10. ASSUME NEW q \in Request, Purge(q) PROVE Storing'
    <2> DEFINE s == [Idle EXCEPT !.at = "replied", !.op = proc[q].op, !.job = JobOf(q)]
    <2>1. q \in Process /\ Become(q, s) /\ jobs' = jobs /\ s.at = "replied"
      BY <1>10 DEF Process, Purge, Reply, Idle
    <2>2. Deleted(JobOf(q)) /\ JobOf(q) \in Job
      BY <1>10, <2>1, <1>t DEF Storing, PurgeAfterDelete, Purge
    <2>3. files' = [files EXCEPT ![JobOf(q)] = {}]
      BY <1>10 DEF Purge, DeletePrefix
    <2> HIDE DEF s
    <2>4. \A j \in Job : /\ Deleted(j) => Deleted(j)'
                         /\ j \in Loose' \/ files[j] \subseteq files'[j]
      BY <1>t, <2>1, <2>2, <2>3 DEF Deleted, Loose
    <2>5. files' \in [Job -> SUBSET Artifacts]
      BY <1>t, <2>3
    <2>6. QED
      BY <1>2, <2>1, <2>4, <2>5
  <1>11. ASSUME NEW q \in Request, NEW j \in Job, Create(q, j) PROVE Storing'
    <2> DEFINE s == [Idle EXCEPT !.at = "enqueue", !.op = "record", !.job = j]
    <2>1. q \in Process /\ Become(q, s) /\ files' = files /\ s.at = "enqueue"
      BY <1>11 DEF Process, Create, Idle
    <2> HIDE DEF s
    <2>2. \A i \in Job : Deleted(i) => Deleted(i)'
      BY <1>11, Creating DEF Deleted
    <2>3. \A i \in Job : Exists(jobs'[i]) /\ jobs'[i].artifacts > 0 =>
                           Exists(jobs[i]) /\ jobs[i].artifacts > 0
      BY <1>11, Creating
    <2>4. QED
      BY <1>2, <1>t, <2>1, <2>2, <2>3
  <1>12. ASSUME NEW w \in Worker, EngineReturn(w) PROVE Storing'
    <2> DEFINE s == [proc[w] EXCEPT !.at = "upload", !.op = "success", !.part = 1]
    <2>1. w \in Process /\ Become(w, s) /\ UNCHANGED <<jobs, files>> /\ JobOf(w) \in Job
      BY <1>12, <1>t DEF Process, EngineReturn
    <2>2. s.at = "upload" /\ s.op = "success" /\ s.part = 1 /\ s.job = JobOf(w)
      BY <2>1, <1>t DEF ProcState
    <2>3. 1..(s.part - 1) = {}
      BY <2>2
    <2> HIDE DEF s
    <2>4. \A j \in Job : Deleted(j) => Deleted(j)'
      BY <2>1 DEF Deleted
    <2>5. QED
      BY <1>2, <1>t, <2>1, <2>2, <2>3, <2>4
  <1>13. ASSUME NEW w \in Worker, UploadReplace(w) PROVE Storing'
    BY <1>13
  <1>14. ASSUME NEW w \in Worker, Uploads(w) PROVE Storing'
    <2> DEFINE k == proc[w].part
               n == k + 1
               s == [proc[w] EXCEPT !.at = "upload", !.part = n]
               t == [proc[w] EXCEPT !.at = "get", !.part = 0]
    <2>1. w \in Process /\ jobs' = jobs
      BY <1>14 DEF Process, Uploads
    <2>2. /\ proc[w].at \in {"upload", "copy"} /\ JobOf(w) \in Job /\ proc[w].op = "success"
          /\ k \in Artifacts
          /\ JobOf(w) \in Loose \/ 1..(k - 1) \subseteq files[JobOf(w)]
      BY <1>14, <2>1, <1>t DEF Uploads, Storing, UploadingInOrder
    <2>3. /\ files' \in [Job -> SUBSET Artifacts]
          /\ files'[JobOf(w)] = files[JobOf(w)] \cup {k}
          /\ \A j \in Job : files[j] \subseteq files'[j]
      BY <1>14, <2>2, <1>t DEF Uploads, Save
    <2>0. \A j \in Job : (Deleted(j) => Deleted(j)') /\ (j \in Loose => j \in Loose')
      BY <2>1, <1>k DEF Deleted
    <2>4. JobOf(w) \in Loose' \/ 1..k \subseteq files'[JobOf(w)]
      <3>1. k \in Nat /\ 1..k = 1..(k - 1) \cup {k}
        BY <2>2, FirstArtifact DEF Artifacts
      <3>2. QED
        BY <3>1, <2>0, <2>2, <2>3
    <2>5. k \in Nat /\ n \in Nat /\ n - 1 = k /\ (k < NumArtifacts \/ 1..k = Artifacts)
      BY <2>2, FirstArtifact DEF Artifacts
    <2> HIDE DEF n, k
    <2>6. /\ s.at = "upload" /\ s.op = "success" /\ s.part = n /\ s.job = JobOf(w)
          /\ t.at = "get" /\ t.op = "success" /\ t.job = JobOf(w)
      BY <2>1, <2>2, <1>t DEF ProcState
    <2>7. \/ Become(w, s)
          \/ ~(k < NumArtifacts) /\ Become(w, t)
      BY <1>14 DEF Uploads, NextPart, n, k
    <2>8. files'[JobOf(w)] \in SUBSET Artifacts
      BY <2>2, <2>3
    <2> HIDE DEF s, t
    <2>9. CASE Become(w, s)
      BY <1>2, <1>t, <2>0, <2>1, <2>2, <2>3, <2>4, <2>5, <2>6, <2>9
    <2>10. CASE ~(k < NumArtifacts) /\ Become(w, t)
      <3>1. JobOf(w) \in Loose' \/ files'[JobOf(w)] = Artifacts
        BY <2>4, <2>5, <2>8, <2>10
      <3>2. QED
        BY <1>2, <1>t, <2>0, <2>1, <2>2, <2>3, <2>6, <2>10, <3>1
    <2>11. QED
      BY <2>7, <2>9, <2>10
  <1>15. ASSUME NEW w \in Worker, PublishEvents(w) PROVE Storing'
    <2>1. w \in Process /\ proc[w].at = "publish" /\ UNCHANGED <<jobs, files>>
      BY <1>15 DEF Process, PublishEvents
    <2> DEFINE s == [proc[w] EXCEPT !.at = "engine", !.op = "none",
                                    !.new = AbsentRow, !.base = AbsentRow]
    <2>2. s.at = "engine" /\ Idle.at = "idle"
      BY <2>1, <1>t DEF ProcState, Idle
    <2>3. Become(w, s) \/ Become(w, Idle)
      BY <1>15 DEF PublishEvents, Goto, Acknowledge
    <2> HIDE DEF s
    <2>4. QED
      BY <1>3, <2>1, <2>2, <2>3
  <1>16. CASE Next
    BY <1>16, Cases, <1>1, <1>4, <1>6, <1>7, <1>8, <1>9, <1>10, <1>11, <1>12, <1>13,
       <1>14, <1>15 DEF StepCases
  <1>17. QED
    BY <1>1, <1>16 DEF vars
=============================================================================
