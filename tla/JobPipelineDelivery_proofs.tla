---------------------- MODULE JobPipelineDelivery_proofs ----------------------
(***************************************************************************)
(* Proofs about the jobs of JobPipeline whose message was delivered once,  *)
(* for every set of jobs, workers and requests and every value of the      *)
(* bounds: such a job is in one hand at a time, so that its events come in *)
(* order and no run removes the files another has recorded.  What a        *)
(* handler writes of any job is proved to follow JobHistory.               *)
(***************************************************************************)
EXTENDS JobPipeline_proofs, JobPipelineHistory, SequenceTheorems

\* Process p has job j in hand: a request is about to send its message, or a
\* worker has taken it.
Holds(p, j) == JobOf(p) = j /\ (p \in Worker \/ proc[p].at = "enqueue")

\* A job is yet to be created, or one request is about to send its message, or
\* one copy of it waits, or one worker has it, or it is done with.
InOneHand(j) ==
  /\ ready[j] > 0 => ready[j] = 1 /\ \A p \in Process : ~Holds(p, j)
  /\ \A p, q \in Process : Holds(p, j) /\ Holds(q, j) => p = q
  /\ jobs[j].status = "absent" => ready[j] = 0 /\ \A p \in Process : ~Holds(p, j)

DeliveredOnce == \A j \in Job \ redelivered : InOneHand(j)

\* _start is what the worker does until it has announced the start.
StartPlaced ==
  \A w \in Worker :
    proc[w].op = "start" => proc[w].at \in {"get", "reload", "flush", "publish"}

-----------------------------------------------------------------------------
(* How a worker moves.                                                     *)

Starting(s) == s.op = "start" /\ s.at \in {"get", "reload", "flush"}

\* It stays, lets the job go, carries on with it, or takes one up.
WorkerMove(w) ==
  \/ proc'[w] = proc[w]
  \/ proc'[w].job = NoJob /\ proc'[w].op # "start"
  \/ /\ proc'[w].job = proc[w].job
     /\ \/ proc[w].op = "start" /\ Starting(proc'[w])
        \/ proc[w].op = "start" /\ proc'[w].op = "start" /\ proc'[w].at = "publish"
        \/ proc[w].op # "start" /\ proc'[w].op # "start"
        \/ PublishEvents(w)
  \/ \E j \in Job : Deliver(w, j) /\ proc'[w].job = j /\ Starting(proc'[w])

LEMMA RestMoves ==
  ASSUME TypeInv, NEW w \in Worker, Acknowledge(w) \/ Refuse(w)
  PROVE  WorkerMove(w)
  <1>1. w \in Process
    BY DEF Process
  <1>2. proc'[w] = Idle \/ proc'[w] = [Idle EXCEPT !.at = "error"]
    BY <1>1, Becoming DEF Acknowledge, Refuse
  <1>3. proc'[w].job = NoJob /\ proc'[w].op = "none"
    BY <1>2 DEF Idle
  <1>4. QED
    BY <1>3 DEF WorkerMove

LEMMA GotoMoves ==
  ASSUME TypeInv, NEW w \in Worker, NEW step, NEW op, Goto(w, step, op),
         proc[w].op # "start", op # "start"
  PROVE  WorkerMove(w)
  <1> DEFINE s == [proc[w] EXCEPT !.at = step, !.op = op,
                                  !.new = AbsentRow, !.base = AbsentRow]
  <1>1. w \in Process
    BY DEF Process
  <1>2. s.job = proc[w].job /\ s.op = op
    BY <1>1 DEF TypeInv, TypeOK, ProcState
  <1>3. proc'[w] = s
    BY <1>1, Becoming DEF Goto
  <1> HIDE DEF s
  <1>4. QED
    BY <1>2, <1>3 DEF WorkerMove

LEMMA RaiseMoves ==
  ASSUME TypeInv, NEW w \in Worker, Raise(w)
  PROVE  WorkerMove(w)
  <1>1. CASE proc[w].op = "start"
    BY <1>1, RestMoves DEF Raise
  <1>2. CASE proc[w].op # "start"
    <2>1. \/ Goto(w, "engine", "none")
          \/ Goto(w, "get", "failure")
          \/ Acknowledge(w) \/ Refuse(w)
      BY DEF Raise
    <2>2. QED
      BY <1>2, <2>1, GotoMoves, RestMoves
  <1>3. QED
    BY <1>1, <1>2

LEMMA StageMoves ==
  ASSUME TypeInv, NEW w \in Worker, NEW new, Stage(w, new)
  PROVE  WorkerMove(w)
  <1> DEFINE s == [proc[w] EXCEPT !.at = "reload", !.new = new, !.base = RowOf(w)]
  <1>1. w \in Process
    BY DEF Process
  <1>2. s.at = "reload" /\ s.op = proc[w].op /\ s.job = proc[w].job
    BY <1>1 DEF TypeInv, TypeOK, ProcState
  <1>3. proc'[w] = s
    BY <1>1, Becoming DEF Stage
  <1> HIDE DEF s
  <1>4. QED
    BY <1>2, <1>3 DEF WorkerMove, Starting

LEMMA ReplyMoves ==
  ASSUME TypeInv, NEW w \in Worker, Reply(w), proc[w].op # "start"
  PROVE  WorkerMove(w)
  <1> DEFINE s == [Idle EXCEPT !.at = "replied", !.op = proc[w].op, !.job = JobOf(w)]
  <1>1. w \in Process
    BY DEF Process
  <1>2. s.op = proc[w].op /\ s.job = proc[w].job /\ proc'[w] = s
    BY <1>1, Becoming DEF Reply, Idle, JobOf
  <1> HIDE DEF s
  <1>3. QED
    BY <1>2 DEF WorkerMove

\* These are all its moves.
LEMMA WorkerMoves ==
  ASSUME TypeInv, StartPlaced, Next, NEW w \in Worker
  PROVE  WorkerMove(w)
  <1>w. w \in Process /\ w \notin Request /\ proc[w] \in ProcState
    BY PipelineAssumption DEF PipelineAssumption, Process, TypeInv, TypeOK
  <1>o. ASSUME NEW p \in Process, p # w, NEW s, Become(p, s) PROVE WorkerMove(w)
    BY <1>o, <1>w, Becoming DEF WorkerMove
  <1>a. ASSUME NEW p \in Process,
               \/ Raise(p) \/ Acknowledge(p) \/ Refuse(p) \/ \E new : Stage(p, new)
               \/ /\ proc[p].op # "start"
                  /\ \/ Reply(p)
                     \/ \E step, op : Goto(p, step, op) /\ op # "start"
        PROVE  WorkerMove(w)
    <2>1. CASE p = w
      BY <2>1, <1>a, RaiseMoves, RestMoves, StageMoves, ReplyMoves, GotoMoves
    <2>2. \E s : Become(p, s)
      BY <1>a DEF Raise, Acknowledge, Refuse, Stage, Reply, Goto
    <2>3. QED
      BY <2>1, <2>2, <1>o
  <1>1. ASSUME NEW p \in Process, UpdateReload(p) PROVE WorkerMove(w)
    <2>1. CASE Raise(p)
      BY <2>1, <1>a
    <2>2. ASSUME NEW seen, Become(p, [proc[p] EXCEPT !.at = "flush", !.base = seen])
          PROVE  WorkerMove(w)
      <3> DEFINE s == [proc[p] EXCEPT !.at = "flush", !.base = seen]
      <3>1. CASE p = w
        <4>1. s.at = "flush" /\ s.op = proc[w].op /\ s.job = proc[w].job /\ proc'[w] = s
          BY <3>1, <2>2, <1>w, Becoming DEF ProcState
        <4> HIDE DEF s
        <4>2. QED
          BY <4>1 DEF WorkerMove, Starting
      <3>2. QED
        BY <3>1, <2>2, <1>o
    <2>3. QED
      BY <1>1, <2>1, <2>2 DEF UpdateReload
  <1>2. ASSUME NEW p \in Process, Flush(p) PROVE WorkerMove(w)
    <2>1. CASE ~Writable(p)
      BY <1>2, <2>1, <1>a DEF Flush
    <2>2. CASE Writable(p) /\ proc[p].op # "start"
      <3>1. \/ Goto(p, "engine", "none")
            \/ Reply(p)
            \/ Goto(p, "purge", "delete")
            \/ Goto(p, "publish", proc[p].op)
        BY <1>2, <2>2 DEF Flush, Committed
      <3>2. QED
        BY <2>2, <3>1, <1>a
    <2>3. CASE Writable(p) /\ proc[p].op = "start"
      <3> DEFINE s == [proc[p] EXCEPT !.at = "publish", !.op = "start",
                                      !.new = AbsentRow, !.base = AbsentRow]
      <3>1. Become(p, s) /\ proc[p].at = "flush"
        BY <1>2, <2>3 DEF Flush, Committed, Goto
      <3>2. CASE p = w
        <4>1. s.at = "publish" /\ s.op = "start" /\ s.job = proc[w].job /\ proc'[w] = s
          BY <3>1, <3>2, <1>w, Becoming DEF ProcState
        <4> HIDE DEF s
        <4>2. QED
          BY <2>3, <3>1, <3>2, <4>1 DEF WorkerMove
      <3>3. QED
        BY <3>1, <3>2, <1>o
    <2>4. QED
      BY <2>1, <2>2, <2>3
  <1>3. ASSUME NEW q \in Request, ClientCall(q) \/ RequestStep(q) \/ EnqueueFails(q)
        PROVE  WorkerMove(w)
    <2>1. q \in Process /\ q # w
      BY <1>w DEF Process
    <2>2. PICK s : Become(q, s)
      BY <1>3 DEF ClientCall, Create, Call, RequestStep, Enqueue, RecordGet, CancelGet,
           DeleteGet, Purge, EnqueueFails, StageTransition, Stage, Raise, Goto, Reply,
           Acknowledge, Refuse
    <2>3. QED
      BY <2>1, <2>2, <1>o
  <1>4. ASSUME NEW v \in Worker, WorkerStep(v) PROVE WorkerMove(w)
    <2>1. v \in Process /\ (proc[v].op = "start" =>
                              proc[v].at \in {"get", "reload", "flush", "publish"})
      BY DEF Process, StartPlaced
    <2>2. CASE StartGet(v) \/ SuccessGet(v) \/ FailureGet(v) \/ ProgressGet(v) \/ EngineRaise(v)
      <3>1. \/ Acknowledge(v) \/ Raise(v) \/ \E new : Stage(v, new)
            \/ /\ proc[v].op # "start"
               /\ Goto(v, "engine", "none") \/ Goto(v, "get", "failure")
        BY <2>1, <2>2 DEF StartGet, SuccessGet, FailureGet, ProgressGet, EngineRaise, Doing,
             StageTransition
      <3>2. QED
        BY <2>1, <3>1, <1>a
    <2>3. CASE PublishEvents(v)
      <3>1. CASE v = w
        <4> DEFINE s == [proc[w] EXCEPT !.at = "engine", !.op = "none",
                                        !.new = AbsentRow, !.base = AbsentRow]
        <4>1. s.job = proc[w].job
          BY <1>w DEF ProcState
        <4>2. Become(w, s) \/ Acknowledge(w)
          BY <2>3, <3>1 DEF PublishEvents, Goto
        <4> HIDE DEF s
        <4>3. CASE Become(w, s)
          BY <2>3, <3>1, <4>1, <4>3, <1>w, Becoming DEF WorkerMove
        <4>4. QED
          BY <4>2, <4>3, RestMoves
      <3>2. QED
        BY <2>1, <2>3, <3>1, <1>o DEF PublishEvents, Goto, Acknowledge
    <2>4. CASE EngineReport(v) \/ EngineReturn(v) \/ UploadReplace(v)
               \/ (UploadSave(v) /\ NextPart(v))
      <3> DEFINE a == [proc[v] EXCEPT !.at = "upload", !.op = "success", !.part = 1]
                 b == [proc[v] EXCEPT !.at = "copy"]
                 c == [proc[v] EXCEPT !.at = "upload", !.part = proc[v].part + 1]
                 d == [proc[v] EXCEPT !.at = "get", !.part = 0]
                 e == [proc[v] EXCEPT !.at = "get", !.op = "progress",
                                      !.percent = proc[v].percent + 1]
      <3>1. \/ Become(v, a) \/ Become(v, b) \/ Become(v, c) \/ Become(v, d) \/ Become(v, e)
        BY <2>4 DEF EngineReport, EngineReturn, UploadReplace, NextPart
      <3>2. proc[v].op # "start"
        BY <2>1, <2>4 DEF EngineReport, EngineReturn, UploadReplace, UploadSave
      <3>3. CASE v = w
        <4>1. \A s \in {a, b, c, d, e} : s.job = proc[w].job /\ s.op # "start"
          BY ZenonT(60), <3>2, <3>3, <1>w DEF ProcState
        <4> HIDE DEF a, b, c, d, e
        <4>2. proc'[w] \in {a, b, c, d, e}
          BY <3>1, <3>3, <1>w, Becoming
        <4>3. QED
          BY <3>2, <3>3, <4>1, <4>2 DEF WorkerMove
      <3> HIDE DEF a, b, c, d, e
      <3>4. QED
        BY <2>1, <3>1, <3>3, <1>o
    <2>5. CASE UploadSave(v) /\ Raise(v)
      BY <2>1, <2>5, <1>a
    <2>6. QED
      BY <1>4, <2>2, <2>3, <2>4, <2>5 DEF WorkerStep, UploadSave
  <1>5. ASSUME NEW v \in Worker,
               \/ Delivery(v) \/ Redeliver(v) \/ ChildLost(v) \/ HostLost(v)
               \/ HardTimeLimit(v) \/ \E j \in Job : RevokeArrives(v, j)
        PROVE  WorkerMove(w)
    <2>1. v \in Process
      BY DEF Process
    <2>2. CASE proc' = proc
      BY <2>2 DEF WorkerMove
    <2>3. CASE Delivery(v)
      <3>1. PICK j \in Job : Deliver(v, j)
        BY <2>3 DEF Delivery
      <3> DEFINE s == [Idle EXCEPT !.at = "get", !.op = "start", !.job = j]
      <3>2. proc' = proc \/ Become(v, s)
        BY <3>1 DEF Deliver
      <3>3. s.at = "get" /\ s.op = "start" /\ s.job = j
        BY DEF Idle
      <3> HIDE DEF s
      <3>4. CASE Become(v, s) /\ v = w
        BY <3>1, <3>3, <3>4, <1>w, Becoming DEF WorkerMove, Starting
      <3>5. QED
        BY <2>1, <2>2, <3>2, <3>4, <1>o
    <2>4. CASE ~Delivery(v)
      <3>1. proc' = proc \/ Acknowledge(v)
        BY <1>5, <2>4 DEF Redeliver, ChildLost, HostLost, HardTimeLimit, RevokeArrives, Acknowledge
      <3>2. QED
        BY <2>1, <2>2, <3>1, <1>a
    <2>5. QED
      BY <2>3, <2>4
  <1>6. ASSUME NEW p \in Process, DatabaseFails(p) \/ CommitUnconfirmed(p) \/ StorageFails(p)
        PROVE  WorkerMove(w)
    <2>1. Raise(p) \/ (Reply(p) /\ proc[p].at = "purge")
      BY <1>6 DEF DatabaseFails, CommitUnconfirmed, StorageFails
    <2>2. CASE p = w /\ Reply(p) /\ proc[p].at = "purge"
      BY <2>2, <1>a DEF StartPlaced
    <2>3. CASE p # w /\ Reply(p)
      BY <2>3, <1>o DEF Reply
    <2>4. QED
      BY <2>1, <2>2, <2>3, <1>a
  <1>7. QED
    BY <1>1, <1>2, <1>3, <1>4, <1>5, <1>6 DEF Next, UnitOfWork, Environment

LEMMA StartPlacedStep == TypeInv /\ StartPlaced /\ [Next]_vars => StartPlaced'
  <1> SUFFICES ASSUME TypeInv, StartPlaced, [Next]_vars, NEW w \in Worker, proc'[w].op = "start"
               PROVE  proc'[w].at \in {"get", "reload", "flush", "publish"}
    BY DEF StartPlaced
  <1>1. CASE UNCHANGED vars
    BY <1>1 DEF vars, StartPlaced
  <1>2. CASE Next
    <2>1. ~PublishEvents(w)
      <3> SUFFICES ASSUME PublishEvents(w) PROVE FALSE
        OBVIOUS
      <3>1. w \in Process /\ proc[w] \in ProcState
        BY DEF Process, TypeInv, TypeOK
      <3> DEFINE s == [proc[w] EXCEPT !.at = "engine", !.op = "none",
                                      !.new = AbsentRow, !.base = AbsentRow]
      <3>2. s.op = "none" /\ Idle.op = "none"
        BY <3>1 DEF ProcState, Idle
      <3>3. Become(w, s) \/ Become(w, Idle)
        BY DEF PublishEvents, Goto, Acknowledge
      <3> HIDE DEF s
      <3>4. QED
        BY <3>1, <3>2, <3>3, Becoming
    <2>2. QED
      BY <1>2, <2>1, WorkerMoves DEF WorkerMove, StartPlaced, Starting
  <1>3. QED
    BY <1>1, <1>2

-----------------------------------------------------------------------------
(* How the message of a job moves.                                         *)

\* Only create_job comes to the point of sending a message.
LEMMA EnqueueMoves ==
  ASSUME TypeInv, Next, NEW q \in Request, proc'[q].at = "enqueue"
  PROVE  proc'[q] = proc[q] \/ \E j \in Job : Create(q, j) /\ proc'[q].job = j
  <1> DEFINE Goal == proc'[q] = proc[q] \/ \E j \in Job : Create(q, j) /\ proc'[q].job = j
  <1>q. q \in Process /\ proc[q] \in ProcState
    BY DEF Process, TypeInv, TypeOK
  <1>b. ASSUME NEW p \in Process, NEW s, Become(p, s), s.at # "enqueue" PROVE Goal
    BY <1>b, <1>q, Becoming
  <1>1. ASSUME \E j \in Job : Create(q, j) PROVE Goal
    <2>1. PICK j \in Job : Create(q, j)
      BY <1>1
    <2> DEFINE s == [Idle EXCEPT !.at = "enqueue", !.op = "record", !.job = j]
    <2>2. Become(q, s) /\ s.job = j
      BY <2>1 DEF Create, Idle
    <2> HIDE DEF s
    <2>3. QED
      BY <1>q, <2>1, <2>2, Becoming
  <1>2. ASSUME NEW p \in Request, NEW j \in Job, Create(p, j), p # q PROVE Goal
    <2>1. p \in Process /\ \E s : Become(p, s)
      BY <1>2 DEF Create, Process
    <2>2. PICK s : Become(p, s)
      BY <2>1
    <2>3. QED
      BY <1>2, <1>q, <2>1, <2>2, Becoming
  <1> HIDE DEF Goal
  <1>3. ASSUME NEW p \in Process, Calm(p) \/ Commits(p) PROVE Goal
    <2>1. PICK s \in ProcState : Become(p, s) /\ s.at # "enqueue"
      BY <1>3 DEF Calm, Commits, Settled, Resting
    <2>2. QED
      BY <2>1, <1>b
  <1>4. ASSUME NEW p \in Process, Stages(p) \/ Reloads(p) \/ AcceptsDelete(p) PROVE Goal
    <2> DEFINE a(new) == [proc[p] EXCEPT !.at = "reload", !.new = new, !.base = RowOf(p)]
               b(seen) == [proc[p] EXCEPT !.at = "flush", !.base = seen]
    <2>1. \A x : a(x).at = "reload" /\ b(x).at = "flush"
      BY DEF TypeInv, TypeOK, ProcState
    <2>2. \E x : Become(p, a(x)) \/ Become(p, b(x))
      BY <1>4 DEF Stages, Stage, Reloads, AcceptsDelete
    <2> HIDE DEF a, b
    <2>3. QED
      BY <2>1, <2>2, <1>b
  <1>5. ASSUME NEW p \in Request, Purge(p) PROVE Goal
    <2> DEFINE s == [Idle EXCEPT !.at = "replied", !.op = proc[p].op, !.job = JobOf(p)]
    <2>1. p \in Process /\ Become(p, s) /\ s.at = "replied"
      BY <1>5 DEF Purge, Reply, Process, Idle
    <2> HIDE DEF s
    <2>2. QED
      BY <2>1, <1>b
  <1>6. ASSUME NEW w \in Worker,
               EngineReturn(w) \/ UploadReplace(w) \/ Uploads(w) \/ PublishEvents(w)
        PROVE  Goal
    <2>1. w \in Process /\ w # q
      BY PipelineAssumption DEF PipelineAssumption, Process
    <2>2. PICK s : Become(w, s)
      BY <1>6 DEF EngineReturn, UploadReplace, Uploads, NextPart, PublishEvents, Goto, Acknowledge
    <2>3. QED
      BY <1>q, <2>1, <2>2, Becoming DEF Goal
  <1>7. ASSUME proc' = proc PROVE Goal
    BY <1>7 DEF Goal
  <1>8. Goal
    <2>1. StepCases /\ \A p \in Request : p \in Process
      BY Cases DEF Process
    <2>2. ASSUME NEW p \in Request, NEW j \in Job, Create(p, j) PROVE Goal
      BY <1>1, <1>2, <2>2
    <2>3. QED
      BY <2>1, <2>2, <1>3, <1>4, <1>5, <1>6, <1>7 DEF StepCases
  <1>9. QED
    BY <1>8 DEF Goal

\* A message is sent once, by the request that created the job, and taken by the
\* worker it is delivered to; only a message that comes back is there again.
LEMMA ReadyMoves ==
  ASSUME TypeInv, Next, NEW j \in Job, j \notin redelivered'
  PROVE  \/ ready'[j] = ready[j]
         \/ \E q \in Request : Enqueue(q) /\ JobOf(q) = j
         \/ \E w \in Worker : Deliver(w, j)
  <1> DEFINE Goal == \/ ready'[j] = ready[j]
                     \/ \E q \in Request : Enqueue(q) /\ JobOf(q) = j
                     \/ \E w \in Worker : Deliver(w, j)
  <1>t. ready \in [Job -> Nat]
    BY DEF TypeInv, TypeOK, BrokerTypeOK
  <1>1. ASSUME NEW q \in Request, ClientCall(q) \/ RequestStep(q) \/ EnqueueFails(q) PROVE Goal
    <2>1. CASE Enqueue(q)
      BY <1>t, <2>1 DEF Enqueue, Publish
    <2>2. CASE ~Enqueue(q)
      BY <1>1, <2>2 DEF ClientCall, Create, Call, RequestStep, RecordGet, CancelGet, Revoke,
           DeleteGet, Purge, EnqueueFails, brokerVars
    <2>3. QED
      BY <2>1, <2>2
  <1>2. ASSUME NEW p \in Process,
               UnitOfWork(p) \/ DatabaseFails(p) \/ CommitUnconfirmed(p) \/ StorageFails(p)
        PROVE  Goal
    BY <1>2 DEF UnitOfWork, UpdateReload, Flush, DatabaseFails, CommitUnconfirmed, StorageFails,
         brokerVars
  <1>3. ASSUME NEW w \in Worker, WorkerStep(w) PROVE Goal
    BY <1>3 DEF WorkerStep, StartGet, EngineReport, ProgressGet, EngineReturn, EngineRaise,
         UploadReplace, UploadSave, SuccessGet, FailureGet, PublishEvents, brokerVars
  <1>4. ASSUME NEW w \in Worker, Delivery(w) PROVE Goal
    BY <1>t, <1>4 DEF Delivery, Deliver, Take
  <1>5. ASSUME NEW w \in Worker, HardTimeLimit(w) \/ \E i \in Job : RevokeArrives(w, i)
        PROVE  Goal
    BY <1>5 DEF HardTimeLimit, RevokeArrives, HearRevoke, brokerVars
  <1>6. ASSUME NEW w \in Worker, Redeliver(w) \/ ChildLost(w) \/ HostLost(w) PROVE Goal
    <2>1. PutBack(JobOf(w))
      BY <1>6 DEF Redeliver, ChildLost, HostLost, LoseHost
    <2>2. JobOf(w) # j
      BY <2>1 DEF PutBack
    <2>3. QED
      BY <1>t, <2>1, <2>2 DEF PutBack
  <1>7. QED
    BY <1>1, <1>2, <1>3, <1>4, <1>5, <1>6 DEF Next, Environment

\* A row that is there was there before, or its job has just been created.
LEMMA AbsentStays ==
  ASSUME TypeInv, Recording, Next, NEW j \in Job, jobs'[j].status = "absent"
  PROVE  jobs[j].status = "absent"
  <1>1. CASE jobs' = jobs
    BY <1>1
  <1>2. ASSUME NEW p \in Process, Commits(p) PROVE jobs[j].status = "absent"
    BY <1>2, Writing DEF Commits, Recording, Staging, NetChange, RowOf, JobStatus, Exists, NoRow
  <1>3. ASSUME NEW q \in Request, NEW i \in Job, Create(q, i) PROVE jobs[j].status = "absent"
    BY <1>3, Creating
  <1>4. QED
    BY <1>1, <1>2, <1>3, Cases, RowChanges

\* What a step does to the message of a job and to who has it.
Created(j) ==
  \E q \in Request :
    /\ jobs[j].status = "absent" /\ jobs'[j].status = "queued" /\ jobs'[j].artifacts = 0
    /\ proc'[q].at = "enqueue"
    /\ \A p \in Process : Holds(p, j)' => p = q \/ Holds(p, j)
    /\ UNCHANGED <<ready, published>>

Sent(j) ==
  \E q \in Request :
    /\ Holds(q, j)
    /\ ready'[j] = ready[j] + 1
    /\ \A p \in Process : Holds(p, j)' => p # q /\ Holds(p, j)
    /\ UNCHANGED <<jobs, published>>

Taken(j) ==
  \E w \in Worker :
    /\ ready[j] > 0 /\ ready'[j] = ready[j] - 1
    /\ \A p \in Process : Holds(p, j)' => Holds(p, j) \/ (p = w /\ Starting(proc'[p]))
    /\ UNCHANGED <<jobs, published>>

Rests(j) ==
  /\ ready'[j] = ready[j]
  /\ \A p \in Process : Holds(p, j)' => Holds(p, j)
  /\ jobs'[j].status = "absent" => jobs[j].status = "absent"
  /\ \A q \in Request, i \in Job : Create(q, i) => i # j

LEMMA MessageMoves ==
  ASSUME TypeInv, Recording, StartPlaced, DeliveredOnce, Next,
         NEW j \in Job, j \notin redelivered'
  PROVE  Created(j) \/ Sent(j) \/ Taken(j) \/ Rests(j)
  <1>p. /\ \A w \in Worker : w \in Process /\ w \notin Request
        /\ \A q \in Request : q \in Process /\ q \notin Worker
        /\ \A p \in Process : p \in Worker \/ p \in Request
        /\ NoJob \notin Job
    BY PipelineAssumption DEF PipelineAssumption, Process
  <1>t. ready \in [Job -> Nat]
    BY DEF TypeInv, TypeOK, BrokerTypeOK
  <1>i. j \notin redelivered /\ InOneHand(j)
    BY RedeliveredStays DEF DeliveredOnce
  <1>h. ASSUME NEW p \in Process, NEW s, Become(p, s)
        PROVE  \A r \in Process : r # p /\ Holds(r, j)' => Holds(r, j)
    BY <1>h, Becoming DEF Holds, JobOf
  <1>1. ASSUME NEW q \in Request, Create(q, j) PROVE Created(j)
    <2> DEFINE s == [Idle EXCEPT !.at = "enqueue", !.op = "record", !.job = j]
    <2>1. q \in Process /\ Become(q, s) /\ s.at = "enqueue"
      BY <1>1, <1>p DEF Create, Idle
    <2> HIDE DEF s
    <2>2. proc'[q].at = "enqueue" /\ \A p \in Process : Holds(p, j)' => p = q \/ Holds(p, j)
      BY <2>1, <1>h, Becoming
    <2>3. UNCHANGED <<ready, published>>
      BY <1>1 DEF Create, brokerVars
    <2>4. QED
      BY <1>1, <2>2, <2>3, Creating DEF Created
  <1>2. ASSUME NEW q \in Request, Enqueue(q), JobOf(q) = j PROVE Sent(j)
    <2> DEFINE s == [proc[q] EXCEPT !.at = "get", !.op = "record",
                                    !.new = AbsentRow, !.base = AbsentRow]
    <2>1. q \in Process /\ Become(q, s) /\ s.at = "get"
      BY <1>2, <1>p DEF Enqueue, Goto, TypeInv, TypeOK, ProcState
    <2> HIDE DEF s
    <2>2. Holds(q, j)
      BY <1>2 DEF Enqueue, Holds
    <2>3. ~Holds(q, j)'
      BY <2>1, <1>p, Becoming DEF Holds, JobOf
    <2>4. ready'[j] = ready[j] + 1 /\ UNCHANGED <<jobs, published>>
      BY <1>2, <1>t DEF Enqueue, Publish
    <2>5. QED
      BY <2>1, <2>2, <2>3, <2>4, <1>h DEF Sent
  <1>3. ASSUME NEW w \in Worker, Deliver(w, j) PROVE Taken(j)
    <2> DEFINE s == [Idle EXCEPT !.at = "get", !.op = "start", !.job = j]
    <2>1. ready[j] > 0 /\ ready'[j] = ready[j] - 1 /\ UNCHANGED <<jobs, published>>
      BY <1>3, <1>t DEF Deliver, Take
    <2>2. s.at = "get" /\ s.op = "start"
      BY DEF Idle
    <2>3. proc' = proc \/ Become(w, s)
      BY <1>3 DEF Deliver
    <2> HIDE DEF s
    <2>4. \A p \in Process : Holds(p, j)' => Holds(p, j) \/ (p = w /\ Starting(proc'[p]))
      <3>1. CASE proc' = proc
        BY <3>1 DEF Holds, JobOf
      <3>2. CASE Become(w, s)
        BY <3>2, <2>2, <1>p, <1>h, Becoming DEF Starting
      <3>3. QED
        BY <2>3, <3>1, <3>2
    <2>5. QED
      BY <2>1, <2>4 DEF Taken
  <1>4. CASE /\ \A q \in Request : ~Create(q, j) /\ ~(Enqueue(q) /\ JobOf(q) = j)
             /\ \A w \in Worker : ~Deliver(w, j)
    <2>1. ready'[j] = ready[j]
      BY <1>4, ReadyMoves
    <2>2. ASSUME NEW p \in Process, Holds(p, j)' PROVE Holds(p, j)
      <3>1. proc'[p].job = j /\ (p \in Worker \/ proc'[p].at = "enqueue")
        BY <2>2 DEF Holds, JobOf
      <3>2. CASE p \in Worker
        BY <3>1, <3>2, <1>4, <1>p, WorkerMoves DEF WorkerMove, Holds, JobOf
      <3>3. CASE p \in Request
        BY <3>1, <3>3, <1>4, <1>p, EnqueueMoves DEF Holds, JobOf
      <3>4. QED
        BY <3>2, <3>3, <1>p
    <2>3. jobs'[j].status = "absent" => jobs[j].status = "absent"
      BY AbsentStays
    <2>4. QED
      BY <1>4, <2>1, <2>2, <2>3 DEF Rests
  <1>5. QED
    BY <1>1, <1>2, <1>3, <1>4

LEMMA DeliveryInit == Init => DeliveredOnce /\ StartPlaced
  <1> SUFFICES ASSUME Init PROVE DeliveredOnce /\ StartPlaced
    OBVIOUS
  <1>1. \A p \in Process : proc[p].job = NoJob /\ proc[p].op = "none"
    BY DEF Init, Idle
  <1>2. NoJob \notin Job /\ Worker \subseteq Process
    BY PipelineAssumption DEF PipelineAssumption, Process
  <1>3. \A j \in Job : ready[j] = 0 /\ \A p \in Process : ~Holds(p, j)
    BY <1>1, <1>2 DEF Init, BrokerInit, Holds, JobOf
  <1>4. QED
    BY <1>1, <1>2, <1>3 DEF DeliveredOnce, InOneHand, StartPlaced

LEMMA DeliveryStep ==
  TypeInv /\ Recording /\ StartPlaced /\ DeliveredOnce /\ [Next]_vars => DeliveredOnce'
  <1> SUFFICES ASSUME TypeInv, Recording, StartPlaced, DeliveredOnce, [Next]_vars
               PROVE  DeliveredOnce'
    OBVIOUS
  <1>1. CASE UNCHANGED vars
    BY <1>1 DEF vars, DeliveredOnce, InOneHand, Holds, JobOf
  <1>2. CASE Next
    <2> SUFFICES ASSUME NEW j \in Job, j \notin redelivered'
                 PROVE  InOneHand(j)'
      BY DEF DeliveredOnce
    <2>i. InOneHand(j) /\ ready[j] \in Nat /\ \A q \in Request : q \in Process
      BY RedeliveredStays DEF DeliveredOnce, TypeInv, TypeOK, BrokerTypeOK, Process
    <2>1. CASE Created(j)
      BY <2>i, <2>1 DEF Created, InOneHand
    <2>2. CASE Sent(j)
      BY <2>i, <2>2 DEF Sent, InOneHand
    <2>3. CASE Taken(j)
      BY <2>i, <2>3 DEF Taken, InOneHand
    <2>4. CASE Rests(j)
      BY <2>i, <2>4 DEF Rests, InOneHand
    <2>5. QED
      BY <1>2, <2>1, <2>2, <2>3, <2>4, MessageMoves
  <1>3. QED
    BY <1>1, <1>2

-----------------------------------------------------------------------------
(* The order of the events.                                                *)

\* A job nobody has taken up has no events, and who runs it has announced its
\* start, unless it is about to.
InOrder(j) ==
  /\ published[j] \in { <<>>, <<"JobStarted">>,
                        <<"JobStarted", "JobCompleted">>, <<"JobStarted", "JobFailed">> }
  /\ jobs[j].status = "absent" \/ ready[j] > 0 => published[j] = <<>>
  /\ \A q \in Request : Holds(q, j) => published[j] = <<>>
  /\ \A w \in Worker :
       Holds(w, j) => published[j] = IF proc[w].op = "start" THEN <<>> ELSE <<"JobStarted">>

Announcing == \A j \in Job \ redelivered : InOrder(j)

LEMMA AnnouncingInit == Init => Announcing
  <1> SUFFICES ASSUME Init PROVE Announcing
    OBVIOUS
  <1>1. /\ \A p \in Process : proc[p].job = NoJob
        /\ NoJob \notin Job /\ Worker \subseteq Process /\ Request \subseteq Process
    BY PipelineAssumption DEF PipelineAssumption, Process, Init, Idle
  <1>2. \A j \in Job : published[j] = <<>> /\ \A p \in Process : ~Holds(p, j)
    BY <1>1 DEF Init, Holds, JobOf
  <1>3. QED
    BY <1>1, <1>2 DEF Announcing, InOrder

\* Only PublishEvents publishes.
LEMMA Publishing ==
  ASSUME TypeInv, Next, NEW j \in Job, \A w \in Worker : PublishEvents(w) => JobOf(w) # j
  PROVE  published'[j] = published[j]
  <1>1. CASE \E w \in Worker : PublishEvents(w)
    <2>1. PICK w \in Worker : PublishEvents(w)
      BY <1>1
    <2>2. published \in [Job -> Seq(Event)] /\ JobOf(w) # j
      BY <2>1 DEF TypeInv, TypeOK
    <2>3. QED
      BY <2>1, <2>2 DEF PublishEvents
  <1>2. CASE \A w \in Worker : ~PublishEvents(w)
    BY <1>2, Cases DEF StepCases, Calm, Stages, Reloads, Commits, Quiet, AcceptsDelete, Purge,
       Create, EngineReturn, UploadReplace, Uploads
  <1>3. QED
    BY <1>1, <1>2

\* Where an announcement takes the worker.
LEMMA Announcement ==
  ASSUME TypeInv, NEW w \in Worker, PublishEvents(w)
  PROVE  /\ w \in Process /\ JobOf(w) \in Job /\ jobs' = jobs
         /\ \A v \in Process : v # w => proc'[v] = proc[v]
         /\ \A j \in Job : j # JobOf(w) => published'[j] = published[j]
         /\ proc'[w].op = "none"
         /\ proc[w].op # "start" => proc'[w].job = NoJob
         /\ proc[w].op = "start" => proc'[w].job = JobOf(w)
         /\ published'[JobOf(w)] = Append(published[JobOf(w)], PulledEvent(proc[w].op))
  <1>1. /\ w \in Process /\ proc[w] \in ProcState /\ published \in [Job -> Seq(Event)]
        /\ JobOf(w) \in Job
    BY DEF Process, TypeInv, TypeOK, Placed, PublishEvents
  <1>2. jobs' = jobs
    BY DEF PublishEvents
  <1>3. /\ \A j \in Job : j # JobOf(w) => published'[j] = published[j]
        /\ published'[JobOf(w)] = Append(published[JobOf(w)], PulledEvent(proc[w].op))
    BY <1>1 DEF PublishEvents
  <1>4. CASE proc[w].op = "start"
    <2> DEFINE s == [proc[w] EXCEPT !.at = "engine", !.op = "none",
                                    !.new = AbsentRow, !.base = AbsentRow]
    <2>1. Become(w, s)
      BY <1>4 DEF PublishEvents, Goto
    <2>2. s.op = "none" /\ s.job = JobOf(w)
      BY <1>1 DEF ProcState, JobOf
    <2> HIDE DEF s
    <2>3. QED
      BY <1>1, <1>2, <1>3, <1>4, <2>1, <2>2, Becoming
  <1>5. CASE proc[w].op # "start"
    <2>1. Become(w, Idle) /\ Idle.op = "none" /\ Idle.job = NoJob
      BY <1>5 DEF PublishEvents, Acknowledge, Idle
    <2>2. QED
      BY <1>1, <1>2, <1>3, <1>5, <2>1, Becoming
  <1>6. QED
    BY <1>4, <1>5

\* Appending to nothing gives the sequence of one.
LEMMA AppendFirst ==
  ASSUME NEW s, s = <<>>, NEW e
  PROVE  Append(s, e) = <<e>>
  OBVIOUS

\* Appending one event to another gives the sequence of the two.
LEMMA AppendSecond ==
  ASSUME NEW S, NEW a \in S, NEW e \in S
  PROVE  Append(<<a>>, e) = <<a, e>>
  <1> DEFINE s == Append(<<a>>, e)
             t == <<a, e>>
  <1>1. <<a>> \in Seq(S) /\ Len(<<a>>) = 1 /\ <<a>>[1] = a
    OBVIOUS
  <1>2. s \in Seq(S) /\ Len(s) = 2 /\ s[1] = a /\ s[2] = e
    <2>1. s \in Seq(S) /\ Len(s) = 2
      BY <1>1
    <2>2. QED
      BY <1>1, <2>1
  <1>3. t \in Seq(S) /\ Len(t) = 2 /\ t[1] = a /\ t[2] = e
    OBVIOUS
  <1> HIDE DEF s, t
  <1>4. \A i \in 1..2 : s[i] = t[i]
    <2>1. 1..2 = {1, 2}
      OBVIOUS
    <2>2. QED
      BY <1>2, <1>3, <2>1
  <1>5. s = t
    BY <1>2, <1>3, <1>4, SeqEqual
  <1>6. QED
    BY <1>5 DEF s, t

\* What the runner of a job announces follows what it has announced before.
LEMMA AnnouncementInOrder ==
  ASSUME TypeInv, NEW w \in Worker, PublishEvents(w), InOrder(JobOf(w))
  PROVE  /\ proc[w].op = "start" => published'[JobOf(w)] = <<"JobStarted">>
         /\ proc[w].op # "start" =>
              published'[JobOf(w)] \in {<<"JobStarted", "JobCompleted">>, <<"JobStarted", "JobFailed">>}
  <1> DEFINE j == JobOf(w)
  <1>1. published[j] = IF proc[w].op = "start" THEN <<>> ELSE <<"JobStarted">>
    BY DEF InOrder, Holds
  <1>2. published'[j] = Append(published[j], PulledEvent(proc[w].op))
    BY Announcement
  <1>3. /\ PulledEvent("start") = "JobStarted"
        /\ proc[w].op # "start" => PulledEvent(proc[w].op) \in {"JobCompleted", "JobFailed"}
    BY DEF PulledEvent
  <1> HIDE DEF j
  <1>4. CASE proc[w].op = "start"
    <2>1. published'[j] = Append(<<>>, "JobStarted")
      BY <1>1, <1>2, <1>3, <1>4
    <2>2. Append(<<>>, "JobStarted") = <<"JobStarted">>
      BY AppendFirst
    <2>3. QED
      BY <1>4, <2>1, <2>2 DEF j
  <1>5. CASE proc[w].op # "start"
    <2>1. PICK e \in {"JobCompleted", "JobFailed"} : published'[j] = Append(<<"JobStarted">>, e)
      BY <1>1, <1>2, <1>3, <1>5
    <2>2. "JobStarted" \in Event /\ e \in Event
      BY DEF Event
    <2>3. published'[j] = <<"JobStarted", e>>
      BY <2>1, <2>2, AppendSecond
    <2>4. QED
      BY <1>5, <2>3 DEF j
  <1>6. QED
    BY <1>4, <1>5

LEMMA AnnouncingStep ==
  TypeInv /\ Recording /\ StartPlaced /\ DeliveredOnce /\ Announcing /\ [Next]_vars => Announcing'
  <1> SUFFICES ASSUME TypeInv, Recording, StartPlaced, DeliveredOnce, Announcing, [Next]_vars
               PROVE  Announcing'
    OBVIOUS
  <1>1. CASE UNCHANGED vars
    BY <1>1 DEF vars, Announcing, InOrder, Holds, JobOf
  <1>2. CASE Next
    <2> SUFFICES ASSUME NEW j \in Job, j \notin redelivered' PROVE InOrder(j)'
      BY DEF Announcing
    <2>i. InOneHand(j) /\ InOrder(j) /\ ready[j] \in Nat
      BY RedeliveredStays DEF DeliveredOnce, Announcing, TypeInv, TypeOK, BrokerTypeOK
    <2>p. /\ \A w \in Worker : w \in Process
          /\ \A q \in Request : q \in Process /\ q \notin Worker
          /\ NoJob \notin Job
      BY PipelineAssumption DEF PipelineAssumption, Process
    <2>1. CASE Created(j)
      BY <2>i, <2>p, <2>1 DEF Created, InOneHand, InOrder
    <2>2. CASE Sent(j)
      BY <2>i, <2>p, <2>2 DEF Sent, InOneHand, InOrder
    <2>3. CASE Taken(j)
      BY <2>i, <2>p, <2>3 DEF Taken, InOneHand, InOrder, Starting
    <2>4. ASSUME Rests(j), NEW v \in Worker, PublishEvents(v), JobOf(v) = j PROVE InOrder(j)'
      <3>1. /\ v \in Process /\ Holds(v, j) /\ jobs' = jobs
            /\ proc'[v].op = "none"
            /\ proc[v].op # "start" => proc'[v].job = NoJob
        BY <2>4, Announcement DEF Holds
      <3>2. /\ proc[v].op = "start" => published'[j] = <<"JobStarted">>
            /\ proc[v].op # "start" =>
                 published'[j] \in {<<"JobStarted", "JobCompleted">>, <<"JobStarted", "JobFailed">>}
        BY <2>i, <2>4, AnnouncementInOrder
      <3>3. ready[j] = 0 /\ ready'[j] = 0 /\ jobs[j].status # "absent"
        BY <2>i, <2>4, <3>1 DEF InOneHand, Rests
      <3>4. \A p \in Process : Holds(p, j)' => p = v /\ proc[v].op = "start"
        BY <2>i, <2>p, <2>4, <3>1 DEF Rests, InOneHand, Holds, JobOf
      <3>5. QED
        BY <2>p, <3>1, <3>2, <3>3, <3>4 DEF InOrder
    <2>5. CASE Rests(j) /\ \A v \in Worker : PublishEvents(v) => JobOf(v) # j
      <3>1. published'[j] = published[j]
        BY <1>2, <2>5, Publishing
      <3>2. ASSUME NEW w \in Worker, Holds(w, j)'
            PROVE  Holds(w, j) /\ (proc'[w].op = "start" <=> proc[w].op = "start")
        <4>1. Holds(w, j) /\ proc[w].job = j /\ proc'[w].job = j
          BY <2>p, <2>5, <3>2 DEF Rests, Holds, JobOf
        <4>2. ~PublishEvents(w)
          BY <2>5, <4>1 DEF JobOf
        <4>3. ~Deliver(w, j)
          BY <2>i, <2>p, <4>1 DEF Deliver, Take, InOneHand
        <4>4. QED
          BY <1>2, <2>p, <4>1, <4>2, <4>3, WorkerMoves DEF WorkerMove, Starting
      <3>3. QED
        BY <2>i, <2>p, <2>5, <3>1, <3>2 DEF Rests, InOrder
    <2>6. QED
      BY <1>2, <2>1, <2>2, <2>3, <2>4, <2>5, MessageMoves
  <1>3. QED
    BY <1>1, <1>2

\* What is published of a job whose message was not redelivered comes in the
\* order of its life: it is started once and completed or failed at most once,
\* after that, whatever is lost on the way.
THEOREM EventsInOrder == Spec => []EventsFollowLifecycle
  <1> DEFINE Inv == TypeInv /\ Recording /\ StartPlaced /\ DeliveredOnce /\ Announcing
  <1>1. Init => Inv
    BY TypeInit, RecordingInit, DeliveryInit, AnnouncingInit
  <1>2. Inv /\ [Next]_vars => Inv'
    BY TypeStep, RecordingStep, StartPlacedStep, DeliveryStep, AnnouncingStep
  <1>3. Inv => EventsFollowLifecycle
    BY DEF Announcing, InOrder, EventsFollowLifecycle
  <1>4. QED
    BY <1>1, <1>2, <1>3, PTL DEF Spec

-----------------------------------------------------------------------------
(* What is stored, when directories are replaced.                          *)

\* A run that has handed its artifacts over, or has failed.
Ending(s) == s.op \in {"success", "failure"} /\ s.at \in {"get", "reload", "flush", "publish"}

RequestsUploadNothing ==
  \A q \in Request :
    /\ proc[q].at \notin {"upload", "copy"}
    /\ proc[q].at \in {"get", "reload", "flush"} => proc[q].op # "success"

\* Who has a job in hand that has its artifacts does not save them again, and
\* no one will take it up.
SavedOnce(j) ==
  jobs[j].artifacts > 0 =>
    /\ ready[j] = 0
    /\ \A q \in Request : ~Holds(q, j)
    /\ \A w \in Worker : Holds(w, j) => Ending(proc[w])

UploadsOnce == RequestsUploadNothing /\ \A j \in Job \ redelivered : SavedOnce(j)

\* A run that ends stays so until the worker has let the job go.
LEMMA EndingMoves ==
  ASSUME TypeInv, Next, NEW w \in Worker, Ending(proc[w])
  PROVE  Ending(proc'[w]) \/ proc'[w].job \notin Job
  <1> DEFINE Goal == Ending(proc'[w]) \/ proc'[w].job \notin Job
  <1>w. w \in Process /\ w \notin Request /\ proc[w] \in ProcState
    BY PipelineAssumption DEF PipelineAssumption, Process, TypeInv, TypeOK
  <1>u. ASSUME proc' = proc PROVE Goal
    BY <1>u
  <1>o. ASSUME NEW p \in Process, p # w, NEW s, Become(p, s) PROVE Goal
    BY <1>o, <1>w, Becoming
  <1>b. ASSUME NEW s, Become(w, s), Ending(s) PROVE Goal
    BY <1>b, <1>w, Becoming
  <1>i. ASSUME Acknowledge(w) PROVE Goal
    <2>1. proc'[w] = Idle
      BY <1>i, <1>w, Becoming DEF Acknowledge
    <2>2. Idle.job = NoJob
      BY DEF Idle
    <2>3. NoJob \notin Job
      BY PipelineAssumption DEF PipelineAssumption
    <2>4. QED
      BY <2>1, <2>2, <2>3
  <1> HIDE DEF Goal
  <1>r. ASSUME NEW p \in Process, Raise(p) PROVE Goal
    <2>1. CASE p # w
      BY <2>1, <1>r, <1>o DEF Raise, Goto, Acknowledge, Refuse
    <2>2. CASE p = w
      <3> DEFINE s == [proc[w] EXCEPT !.at = "get", !.op = "failure",
                                      !.new = AbsentRow, !.base = AbsentRow]
      <3>1. Become(w, s) \/ Acknowledge(w)
        BY <2>2, <1>r DEF Raise, Goto, Ending
      <3>2. Ending(s)
        BY <1>w DEF Ending, ProcState
      <3> HIDE DEF s
      <3>3. QED
        BY <3>1, <3>2, <1>b, <1>i
    <2>3. QED
      BY <2>1, <2>2
  <1>s. ASSUME NEW new, Stage(w, new) PROVE Goal
    <2> DEFINE s == [proc[w] EXCEPT !.at = "reload", !.new = new, !.base = RowOf(w)]
    <2>1. Ending(s)
      BY <1>w DEF Ending, ProcState
    <2>2. Become(w, s)
      BY <1>s DEF Stage
    <2> HIDE DEF s
    <2>3. QED
      BY <2>1, <2>2, <1>b
  <1>1. ASSUME NEW p \in Process, UpdateReload(p) PROVE Goal
    <2>1. ASSUME NEW seen, Become(p, [proc[p] EXCEPT !.at = "flush", !.base = seen])
          PROVE  Goal
      <3> DEFINE s == [proc[p] EXCEPT !.at = "flush", !.base = seen]
      <3>1. p = w => Ending(s)
        BY <1>w DEF Ending, ProcState
      <3> HIDE DEF s
      <3>2. QED
        BY <2>1, <3>1, <1>b, <1>o DEF s
    <2>2. QED
      BY <1>1, <2>1, <1>r DEF UpdateReload
  <1>2. ASSUME NEW p \in Process, Flush(p) PROVE Goal
    <2>1. CASE ~Writable(p)
      BY <1>2, <2>1, <1>r DEF Flush
    <2>2. CASE Writable(p) /\ p # w
      BY <1>2, <2>2, <1>o DEF Flush, Committed, Goto, Reply
    <2>3. CASE Writable(p) /\ p = w
      <3> DEFINE s == [proc[w] EXCEPT !.at = "publish", !.op = proc[w].op,
                                      !.new = AbsentRow, !.base = AbsentRow]
      <3>1. Become(w, s)
        BY <1>2, <2>3 DEF Flush, Committed, Goto, Ending
      <3>2. Ending(s)
        BY <1>w DEF Ending, ProcState
      <3> HIDE DEF s
      <3>3. QED
        BY <3>1, <3>2, <1>b
    <2>4. QED
      BY <2>1, <2>2, <2>3
  <1>3. ASSUME NEW q \in Request, ClientCall(q) \/ RequestStep(q) \/ EnqueueFails(q)
        PROVE  Goal
    <2>1. q \in Process /\ q # w
      BY <1>w DEF Process
    <2>2. PICK s : Become(q, s)
      BY <1>3 DEF ClientCall, Create, Call, RequestStep, Enqueue, RecordGet, CancelGet,
           DeleteGet, Purge, EnqueueFails, StageTransition, Stage, Raise, Goto, Reply,
           Acknowledge, Refuse
    <2>3. QED
      BY <2>1, <2>2, <1>o
  <1>4. ASSUME NEW v \in Worker, WorkerStep(v) PROVE Goal
    <2>1. v \in Process
      BY DEF Process
    <2>2. CASE v # w
      <3>1. \E s : Become(v, s)
        BY <1>4 DEF WorkerStep, StartGet, EngineReport, ProgressGet, EngineReturn, EngineRaise,
             UploadReplace, UploadSave, NextPart, SuccessGet, FailureGet, PublishEvents,
             StageTransition, Stage, Raise, Goto, Acknowledge, Refuse
      <3>2. QED
        BY <2>1, <2>2, <3>1, <1>o
    <2>3. CASE v = w
      <3>1. SuccessGet(w) \/ FailureGet(w) \/ PublishEvents(w)
        BY <1>4, <2>3 DEF WorkerStep, StartGet, EngineReport, ProgressGet, EngineReturn,
             EngineRaise, UploadReplace, UploadSave, Doing, Ending
      <3>2. Acknowledge(w) \/ Raise(w) \/ \E new : Stage(w, new)
        BY <3>1 DEF SuccessGet, FailureGet, PublishEvents, StageTransition, Ending
      <3>3. QED
        BY <3>2, <1>w, <1>i, <1>r, <1>s
    <2>4. QED
      BY <2>2, <2>3
  <1>5. ASSUME NEW v \in Worker,
               \/ Delivery(v) \/ Redeliver(v) \/ ChildLost(v) \/ HostLost(v)
               \/ HardTimeLimit(v) \/ \E j \in Job : RevokeArrives(v, j)
        PROVE  Goal
    <2>1. v \in Process
      BY DEF Process
    <2>2. CASE Delivery(v)
      <3>1. proc[v].at = "idle" /\ (proc' = proc \/ \E s : Become(v, s))
        BY <2>2 DEF Delivery, Deliver
      <3>2. v # w
        BY <3>1 DEF Ending
      <3>3. QED
        BY <2>1, <3>1, <3>2, <1>u, <1>o
    <2>3. CASE ~Delivery(v)
      <3>1. proc' = proc \/ Acknowledge(v)
        BY <1>5, <2>3 DEF Redeliver, ChildLost, HostLost, HardTimeLimit, RevokeArrives, Acknowledge
      <3>2. CASE v # w /\ Acknowledge(v)
        BY <2>1, <3>2, <1>o DEF Acknowledge
      <3>3. QED
        BY <3>1, <3>2, <1>u, <1>i
    <2>4. QED
      BY <2>2, <2>3
  <1>6. ASSUME NEW p \in Process, DatabaseFails(p) \/ CommitUnconfirmed(p) \/ StorageFails(p)
        PROVE  Goal
    <2>1. Raise(p) \/ (Reply(p) /\ proc[p].at = "purge")
      BY <1>6 DEF DatabaseFails, CommitUnconfirmed, StorageFails
    <2>2. CASE Reply(p) /\ proc[p].at = "purge"
      BY <2>2, <1>o DEF Reply, Ending
    <2>3. QED
      BY <2>1, <2>2, <1>r
  <1>7. Goal
    BY <1>1, <1>2, <1>3, <1>4, <1>5, <1>6 DEF Next, UnitOfWork, Environment
  <1>8. QED
    BY <1>7 DEF Goal

LEMMA UploadsOnceInit == Init => UploadsOnce
  <1> SUFFICES ASSUME Init PROVE UploadsOnce
    OBVIOUS
  <1>1. \A p \in Process : proc[p].at = "idle"
    BY DEF Init, Idle
  <1>2. \A j \in Job : jobs[j].artifacts = 0
    BY DEF Init, AbsentRow, NewJob
  <1>3. QED
    BY <1>1, <1>2 DEF UploadsOnce, RequestsUploadNothing, SavedOnce, Process

LEMMA RequestsUploadNothingStep ==
  ASSUME TypeInv, RequestsUploadNothing, Next
  PROVE  RequestsUploadNothing'
  <1> SUFFICES ASSUME NEW q \in Request
               PROVE  /\ proc'[q].at \notin {"upload", "copy"}
                      /\ proc'[q].at \in {"get", "reload", "flush"} => proc'[q].op # "success"
    BY DEF RequestsUploadNothing
  <1> DEFINE Goal == /\ proc'[q].at \notin {"upload", "copy"}
                     /\ proc'[q].at \in {"get", "reload", "flush"} => proc'[q].op # "success"
  <1>q. /\ q \in Process /\ q \notin Worker /\ proc[q] \in ProcState
        /\ proc[q].at \notin {"upload", "copy"}
        /\ proc[q].at \in {"get", "reload", "flush"} => proc[q].op # "success"
    BY PipelineAssumption
    DEF PipelineAssumption, Process, TypeInv, TypeOK, RequestsUploadNothing
  <1>u. ASSUME proc' = proc PROVE Goal
    BY <1>u, <1>q
  <1>b. ASSUME NEW p \in Process, NEW s, Become(p, s),
               p = q => /\ s.at \notin {"upload", "copy"}
                        /\ s.at \in {"get", "reload", "flush"} => s.op # "success"
        PROVE  Goal
    BY <1>b, <1>q, Becoming
  <1> HIDE DEF Goal
  <1>k. ASSUME NEW p \in Process, NEW s, Become(p, s), proc[p].at \in {"get", "reload", "flush"},
               s.op = proc[p].op, s.at \in {"reload", "flush", "publish", "purge"}
        PROVE  Goal
    BY <1>b, <1>k, <1>q
  <1>1. ASSUME NEW p \in Process, Calm(p) \/ Commits(p) PROVE Goal
    <2>1. PICK s : /\ Become(p, s)
                   /\ s.at \notin {"upload", "copy"}
                   /\ s.at \in {"get", "reload", "flush"} => s.op # "success"
      BY <1>1 DEF Calm, Commits, Settled, Resting
    <2>2. QED
      BY <2>1, <1>b
  <1>2. ASSUME NEW p \in Process, Stages(p) PROVE Goal
    <2>1. PICK new : Stage(p, new)
      BY <1>2 DEF Stages
    <2> DEFINE s == [proc[p] EXCEPT !.at = "reload", !.new = new, !.base = RowOf(p)]
    <2>2. s.at = "reload" /\ s.op = proc[p].op
      BY DEF TypeInv, TypeOK, ProcState
    <2>3. Become(p, s) /\ proc[p].at = "get"
      BY <1>2, <2>1 DEF Stage, Stages
    <2> HIDE DEF s
    <2>4. QED
      BY <2>2, <2>3, <1>k
  <1>3. ASSUME NEW p \in Process, Reloads(p) \/ AcceptsDelete(p) PROVE Goal
    <2>1. PICK seen : Become(p, [proc[p] EXCEPT !.at = "flush", !.base = seen])
      BY <1>3 DEF Reloads, AcceptsDelete
    <2> DEFINE s == [proc[p] EXCEPT !.at = "flush", !.base = seen]
    <2>2. s.at = "flush" /\ s.op = proc[p].op
      BY DEF TypeInv, TypeOK, ProcState
    <2>3. Become(p, s) /\ proc[p].at \in {"get", "reload"}
      BY <1>3, <2>1 DEF Reloads, AcceptsDelete, Doing
    <2> HIDE DEF s
    <2>4. QED
      BY <2>2, <2>3, <1>k
  <1>4. ASSUME NEW p \in Request, Purge(p) \/ \E j \in Job : Create(p, j) PROVE Goal
    <2> DEFINE a == [Idle EXCEPT !.at = "replied", !.op = proc[p].op, !.job = JobOf(p)]
               b(j) == [Idle EXCEPT !.at = "enqueue", !.op = "record", !.job = j]
    <2>1. p \in Process /\ (Become(p, a) \/ \E j \in Job : Become(p, b(j)))
      BY <1>4 DEF Purge, Reply, Create, Process
    <2>2. a.at = "replied" /\ \A j \in Job : b(j).at = "enqueue"
      BY DEF Idle
    <2> HIDE DEF a, b
    <2>3. QED
      BY <2>1, <2>2, <1>b
  <1>5. ASSUME NEW w \in Worker,
               EngineReturn(w) \/ UploadReplace(w) \/ Uploads(w) \/ PublishEvents(w)
        PROVE  Goal
    <2>1. w \in Process /\ w # q
      BY <1>q DEF Process
    <2>2. PICK s : Become(w, s)
      BY <1>5 DEF EngineReturn, UploadReplace, Uploads, NextPart, PublishEvents, Goto, Acknowledge
    <2>3. QED
      BY <2>1, <2>2, <1>b
  <1>6. Goal
    BY Cases, <1>u, <1>1, <1>2, <1>3, <1>4, <1>5 DEF StepCases, Process
  <1>7. QED
    BY <1>6 DEF Goal

\* Only the commit of the success path records artifacts.
LEMMA Recorded ==
  ASSUME TypeInv, Next, NEW j \in Job, jobs'[j].artifacts > 0
  PROVE  \/ jobs[j].artifacts > 0
         \/ \E p \in Process : Commits(p) /\ proc[p].op = "success" /\ JobOf(p) = j
  <1>1. CASE jobs' = jobs
    BY <1>1
  <1>2. ASSUME NEW p \in Process, Commits(p), jobs[j].artifacts = 0
        PROVE  proc[p].op = "success" /\ JobOf(p) = j
    <2>1. /\ JobOf(p) = j
          /\ proc[p].op # "delete" /\ proc[p].op # "success" => jobs'[j].artifacts = 0
      BY <1>2, Writing DEF Commits, RowOf
    <2>2. proc[p].op # "delete"
      <3>1. jobs' = [jobs EXCEPT ![j] = DeletedRow] \/ proc[p].op # "delete"
        BY <1>2, <2>1 DEF Commits, WriteRow
      <3>2. DeletedRow.artifacts = 0
        BY DEF DeletedRow, NewJob
      <3>3. jobs \in [Job -> Row]
        BY DEF TypeInv, TypeOK
      <3>4. QED
        BY <3>1, <3>2, <3>3
    <2>3. QED
      BY <2>1, <2>2
  <1>3. ASSUME NEW q \in Request, NEW i \in Job, Create(q, i)
        PROVE  jobs[j].artifacts > 0
    BY <1>3, Creating
  <1>4. jobs[j].artifacts \in Nat
    BY DEF TypeInv, TypeOK, Row
  <1>5. QED
    BY <1>1, <1>2, <1>3, <1>4, Cases, RowChanges

LEMMA UploadsOnceStep ==
  TypeInv /\ Recording /\ StartPlaced /\ DeliveredOnce /\ UploadsOnce /\ [Next]_vars
    => UploadsOnce'
  <1> SUFFICES ASSUME TypeInv, Recording, StartPlaced, DeliveredOnce, UploadsOnce, [Next]_vars
               PROVE  UploadsOnce'
    OBVIOUS
  <1>1. CASE UNCHANGED vars
    BY <1>1 DEF vars, UploadsOnce, RequestsUploadNothing, SavedOnce, Holds, JobOf
  <1>2. CASE Next
    <2> SUFFICES ASSUME NEW j \in Job, j \notin redelivered' PROVE SavedOnce(j)'
      BY <1>2, RequestsUploadNothingStep DEF UploadsOnce
    <2>i. InOneHand(j) /\ SavedOnce(j) /\ ready[j] \in Nat
      BY RedeliveredStays DEF DeliveredOnce, UploadsOnce, TypeInv, TypeOK, BrokerTypeOK
    <2>p. /\ \A w \in Worker : w \in Process
          /\ \A q \in Request : q \in Process /\ q \notin Worker
          /\ NoJob \notin Job
      BY PipelineAssumption DEF PipelineAssumption, Process
    <2>1. CASE Created(j)
      BY <2>1 DEF Created, SavedOnce
    <2>2. CASE Sent(j)
      BY <2>i, <2>2 DEF Sent, SavedOnce
    <2>3. CASE Taken(j)
      BY <2>i, <2>3 DEF Taken, SavedOnce
    <2>4. CASE Rests(j)
      <3> SUFFICES ASSUME jobs'[j].artifacts > 0
                   PROVE  /\ ready[j] = 0
                          /\ \A q \in Request : ~Holds(q, j)
                          /\ \A w \in Worker : Holds(w, j)' => Ending(proc'[w])
        BY <2>p, <2>4 DEF Rests, SavedOnce
      <3>e. ASSUME NEW w \in Worker, Holds(w, j)', Ending(proc[w]) PROVE Ending(proc'[w])
        BY <1>2, <3>e, EndingMoves DEF Holds, JobOf
      <3>1. CASE jobs[j].artifacts > 0
        BY <2>i, <2>p, <2>4, <3>1, <3>e DEF Rests, SavedOnce
      <3>2. ASSUME NEW p \in Process, Commits(p), proc[p].op = "success", JobOf(p) = j
            PROVE  /\ ready[j] = 0
                   /\ \A q \in Request : ~Holds(q, j)
                   /\ \A w \in Worker : Holds(w, j)' => Ending(proc'[w])
        <4>1. proc[p].at = "flush"
          BY <3>2 DEF Commits
        <4>2. p \in Worker /\ Ending(proc[p])
          BY <3>2, <4>1 DEF UploadsOnce, RequestsUploadNothing, Process, Ending
        <4>3. Holds(p, j)
          BY <3>2, <4>2 DEF Holds
        <4>4. ready[j] = 0 /\ \A r \in Process : Holds(r, j) => r = p
          BY <2>i, <4>3 DEF InOneHand
        <4>5. QED
          BY <2>p, <2>4, <3>e, <4>2, <4>4 DEF Rests
      <3>3. QED
        BY <1>2, <3>1, <3>2, Recorded
    <2>5. QED
      BY <1>2, <2>1, <2>2, <2>3, <2>4, MessageMoves
  <1>3. QED
    BY <1>1, <1>2

\* A directory is only replaced by the run that has yet to record it, or where
\* the message came back.
LEMMA ReplacingStep ==
  ASSUME TypeInv, DeliveredOnce, UploadsOnce, Storing, Next, NEW w \in Worker, UploadReplace(w)
  PROVE  Storing'
  <1> DEFINE job == JobOf(w)
             k == proc[w].part
             s == [proc[w] EXCEPT !.at = "copy"]
  <1>1. /\ w \in Process /\ proc[w] \in ProcState /\ proc[w].at = "upload"
        /\ job \in Job /\ k \in Artifacts /\ files \in [Job -> SUBSET Artifacts]
        /\ jobs' = jobs /\ Become(w, s)
        /\ files' = [files EXCEPT ![job] = files[job] \ {k}]
    BY DEF UploadReplace, RemoveOld, Process, TypeInv, TypeOK, Placed, StoreTypeOK
  <1>2. proc[w].op = "success" /\ (job \in Loose \/ 1..(k - 1) \subseteq files[job])
    BY <1>1 DEF Storing, UploadingInOrder
  <1>3. Holds(w, job) /\ ~Ending(proc[w])
    BY <1>1, <1>2 DEF Holds, Ending
  <1>4. s.at = "copy" /\ s.op = "success" /\ s.part = k /\ s.job = job
    BY <1>1, <1>2 DEF ProcState, JobOf
  <1>5. /\ files'[job] = files[job] \ {k}
        /\ \A j \in Job : j # job => files'[j] = files[j]
    BY <1>1
  <1> HIDE DEF s
  <1>6. proc'[w] = s /\ \A p \in Process : p # w => proc'[p] = proc[p]
    BY <1>1, Becoming
  <1>l. Loose \subseteq Loose' /\ Backend = "local"
    <2>1. Backend = "local"
      BY DEF UploadReplace, Replaces
    <2>2. QED
      BY <1>1, <2>1, RedeliveredStays DEF Loose, Deleted
  \* No one else is on the success path of the job.
  <1>7. ASSUME NEW p \in Process, p # w, proc[p].op = "success", job \notin Loose,
               proc[p].at \in {"get", "reload", "flush", "upload", "copy"}
        PROVE  JobOf(p) # job
    <2>1. p \in Worker
      BY <1>7 DEF UploadsOnce, RequestsUploadNothing, Process
    <2>2. JobOf(p) = job => Holds(p, job)
      BY <2>1 DEF Holds
    <2>3. InOneHand(job)
      BY <1>1, <1>7, <1>l DEF DeliveredOnce, Loose
    <2>4. QED
      BY <1>1, <1>3, <1>7, <2>2, <2>3 DEF InOneHand
  <1>8. UploadedIsStored'
    <2> SUFFICES ASSUME NEW p \in Process, proc'[p].at \in {"get", "reload", "flush"},
                        proc'[p].op = "success"
                 PROVE  proc'[p].job \in Loose' \/ files'[proc'[p].job] = Artifacts
      BY DEF UploadedIsStored, JobOf
    <2>1. p # w /\ proc'[p] = proc[p]
      BY <1>4, <1>6
    <2>2. JobOf(p) \in Job /\ (job \in Loose \/ JobOf(p) # job)
      BY <1>7, <2>1 DEF TypeInv, Placed
    <2>3. JobOf(p) \in Loose \/ files[JobOf(p)] = Artifacts
      BY <2>1 DEF Storing, UploadedIsStored
    <2>4. QED
      BY <1>5, <1>l, <2>1, <2>2, <2>3 DEF JobOf
  <1>9. UploadingInOrder'
    <2> SUFFICES ASSUME NEW p \in Process, proc'[p].at \in {"upload", "copy"}
                 PROVE  /\ proc'[p].op = "success"
                        /\ \/ proc'[p].job \in Loose'
                           \/ 1..(proc'[p].part - 1) \subseteq files'[proc'[p].job]
      BY DEF UploadingInOrder, JobOf
    <2>1. CASE p = w
      <3>1. k \in Nat /\ k \notin 1..(k - 1)
        BY <1>1, FirstArtifact DEF Artifacts
      <3>2. job \in Loose \/ 1..(k - 1) \subseteq files'[job]
        BY <1>2, <1>5, <3>1
      <3>3. QED
        BY <1>4, <1>6, <1>l, <2>1, <3>2
    <2>2. CASE p # w
      <3>1. proc'[p] = proc[p]
        BY <1>6, <2>2
      <3>2. /\ proc[p].op = "success"
            /\ JobOf(p) \in Loose \/ 1..(proc[p].part - 1) \subseteq files[JobOf(p)]
        BY <3>1 DEF Storing, UploadingInOrder
      <3>3. JobOf(p) \in Job /\ (job \in Loose \/ JobOf(p) # job)
        BY <1>7, <2>2, <3>1, <3>2 DEF TypeInv, Placed
      <3>4. QED
        BY <1>5, <1>l, <3>1, <3>2, <3>3 DEF JobOf
    <2>3. QED
      BY <2>1, <2>2
  <1>10. PurgeAfterDelete'
    BY <1>1, <1>4, <1>6 DEF Storing, PurgeAfterDelete, Deleted, JobOf
  <1>11. RecordedArtifactsStored'
    <2> SUFFICES ASSUME NEW j \in Job, Exists(jobs[j]), jobs[j].artifacts > 0,
                        j \notin redelivered
                 PROVE  files'[j] = Artifacts
      BY <1>1, <1>l, RedeliveredStays DEF RecordedArtifactsStored
    <2>1. SavedOnce(j)
      BY DEF UploadsOnce
    <2>2. j # job
      BY <1>3, <2>1 DEF SavedOnce
    <2>3. QED
      BY <1>5, <2>2 DEF Storing, RecordedArtifactsStored
  <1>12. QED
    BY <1>8, <1>9, <1>10, <1>11 DEF Storing

\* What a row records can be fetched: always on object storage, and on local
\* storage of every job whose message was not redelivered, because the run that
\* replaces a directory is the only one and comes before the commit that records
\* it.
THEOREM RecordedCanBeFetched == Spec => []RecordedArtifactsStored
  <1> DEFINE Inv == TypeInv /\ Recording /\ StartPlaced /\ DeliveredOnce /\ UploadsOnce /\ Storing
  <1>1. Init => Inv
    BY TypeInit, RecordingInit, DeliveryInit, UploadsOnceInit, StoringInit
  <1>2. Inv /\ [Next]_vars => Inv'
    <2> SUFFICES ASSUME Inv, [Next]_vars PROVE Inv'
      OBVIOUS
    <2>1. TypeInv' /\ Recording' /\ StartPlaced' /\ DeliveredOnce' /\ UploadsOnce'
      BY TypeStep, RecordingStep, StartPlacedStep, DeliveryStep, UploadsOnceStep
    <2>2. Storing'
      <3>1. CASE \A w \in Worker : ~UploadReplace(w)
        BY <2>1, <3>1, StoringStep
      <3>2. CASE \E w \in Worker : UploadReplace(w)
        <4>1. Next
          BY <3>2 DEF Next, WorkerStep
        <4>2. QED
          BY <3>2, <4>1, ReplacingStep
      <3>3. QED
        BY <3>1, <3>2
    <2>3. QED
      BY <2>1, <2>2
  <1>3. Inv => RecordedArtifactsStored
    BY DEF Storing
  <1>4. QED
    BY <1>1, <1>2, <1>3, PTL DEF Spec

-----------------------------------------------------------------------------
(* What is written follows the history of the row.                         *)

\* The history of a job knows the status of its row, and whether it was ever
\* created or has been deleted.
KnowsRows ==
  /\ had \in [Job -> SUBSET (JobStatus \cup NoRow)]
  /\ \A j \in Job :
       /\ jobs[j].status \in had[j]
       /\ jobs[j].status = "absent" => had[j] = {"absent"}
       /\ "deleted" \in had[j] => Deleted(j)

\* What a handler is about to write its job had, or is one legal transition
\* away from something the job had.
StagesFromHistory ==
  \A p \in Process :
    proc[p].at \in {"reload", "flush"} /\ proc[p].op # "delete" =>
      \/ proc[p].new.status \in had[JobOf(p)]
      \/ \E from \in had[JobOf(p)] \cap JobStatus :
           proc[p].new.status \in LegalTransitions[from]

\* delete_job removes a job that was terminal when it looked.
DeletesFromHistory ==
  \A p \in Process :
    proc[p].at \in {"reload", "flush"} /\ proc[p].op = "delete" =>
      had[JobOf(p)] \cap Terminal # {}

Knowing == KnowsRows /\ StagesFromHistory /\ DeletesFromHistory

LEMMA KnowingInit == HistoryInit => Knowing
  <1> SUFFICES ASSUME HistoryInit PROVE Knowing
    OBVIOUS
  <1>1. \A p \in Process : proc[p].at = "idle"
    BY DEF HistoryInit, Init, Idle
  <1>2. \A j \in Job : jobs[j].status = "absent" /\ had[j] = {"absent"}
    BY DEF HistoryInit, Init, AbsentRow, NewJob
  <1>3. had \in [Job -> SUBSET (JobStatus \cup NoRow)]
    BY <1>2 DEF HistoryInit, NoRow
  <1>4. QED
    BY <1>1, <1>2, <1>3
    DEF Knowing, KnowsRows, StagesFromHistory, DeletesFromHistory

\* What a step adds to the history.
LEMMA HistoryGrows ==
  ASSUME KnowsRows, HistoryNext, NEW j \in Job
  PROVE  had'[j] = had[j] \cup {jobs'[j].status}
  BY DEF HistoryNext

\* A write takes the status of the handler's job or leaves the row's own.
LEMMA WrittenStatus ==
  ASSUME TypeInv, Knowing, NEW p \in Process, Commits(p)
  PROVE  /\ JobOf(p) \in Job
         /\ \A i \in Job : i # JobOf(p) => jobs'[i] = jobs[i]
         /\ \/ /\ proc[p].op = "delete" /\ jobs'[JobOf(p)].status = "deleted"
               /\ had[JobOf(p)] \cap Terminal # {}
            \/ /\ Exists(RowOf(p))
               /\ \/ jobs'[JobOf(p)].status \in had[JobOf(p)]
                  \/ \E from \in had[JobOf(p)] \cap JobStatus :
                       jobs'[JobOf(p)].status \in LegalTransitions[from]
  <1>1. /\ JobOf(p) \in Job /\ proc[p].at = "flush"
        /\ \A i \in Job : i # JobOf(p) => jobs'[i] = jobs[i]
    BY Writing DEF Commits
  <1>2. CASE proc[p].op = "delete"
    BY <1>1, <1>2, Writing DEF Commits, Knowing, DeletesFromHistory
  <1>3. CASE proc[p].op # "delete"
    <2>1. /\ Exists(RowOf(p))
          /\ \/ jobs'[JobOf(p)].status = proc[p].new.status
             \/ jobs'[JobOf(p)].status = RowOf(p).status
      BY <1>1, <1>3, Writing DEF Commits, NetChange
    <2>2. \/ proc[p].new.status \in had[JobOf(p)]
          \/ \E from \in had[JobOf(p)] \cap JobStatus :
               proc[p].new.status \in LegalTransitions[from]
      BY <1>1, <1>3 DEF Knowing, StagesFromHistory
    <2>3. RowOf(p).status \in had[JobOf(p)]
      BY <1>1 DEF Knowing, KnowsRows, RowOf
    <2>4. QED
      BY <1>1, <2>1, <2>2, <2>3
  <1>4. QED
    BY <1>2, <1>3

\* The transitions of the graph lead to statuses of the graph.
LEMMA LegalTargets == \A from \in JobStatus : LegalTransitions[from] \subseteq JobStatus
  BY DEF LegalTransitions, JobStatus

\* What a step does to the history is a step of JobHistory.
LEMMA HistoryStep ==
  TypeInv /\ Knowing /\ [HistoryNext]_<<vars, had>> => [History!Next]_had
  <1> SUFFICES ASSUME TypeInv, Knowing, HistoryNext, had' # had PROVE History!Next
    OBVIOUS
  <1>g. /\ \A j \in Job : had'[j] = had[j] \cup {jobs'[j].status}
        /\ had' = [j \in Job |-> had[j] \cup {jobs'[j].status}]
        /\ had \in [Job -> SUBSET (JobStatus \cup NoRow)]
        /\ \A j \in Job : jobs[j].status \in had[j]
    BY HistoryGrows DEF HistoryNext, Knowing, KnowsRows
  <1>e. ASSUME NEW j \in Job, NEW to, \A i \in Job : i # j => jobs'[i] = jobs[i],
               jobs'[j].status = to
        PROVE  had' = [had EXCEPT ![j] = @ \cup {to}]
    <2>1. \A i \in Job : i # j => had'[i] = had[i]
      BY <1>e, <1>g
    <2>2. had'[j] = had[j] \cup {to}
      BY <1>e, <1>g
    <2>3. QED
      BY <1>g, <2>1, <2>2
  <1>s. /\ History!JobStatus = JobStatus /\ History!Terminal = Terminal
        /\ History!LegalTransitions = LegalTransitions
    BY DEF History!JobStatus, JobStatus, History!Terminal, Terminal, History!LegalTransitions,
       LegalTransitions
  <1>1. jobs' # jobs
    BY <1>g
  <1>2. ASSUME NEW q \in Request, NEW j \in Job, Create(q, j) PROVE History!Next
    <2>1. /\ jobs[j].status = "absent" /\ jobs'[j].status = "queued"
          /\ \A i \in Job : i # j => jobs'[i] = jobs[i]
      BY <1>2, Creating
    <2>2. had[j] = {"absent"}
      BY <2>1 DEF Knowing, KnowsRows
    <2>3. History!Create(j)
      BY <1>e, <2>1, <2>2 DEF History!Create
    <2>4. QED
      BY <2>3 DEF History!Next
  <1>3. ASSUME NEW p \in Process, Commits(p) PROVE History!Next
    <2> DEFINE j == JobOf(p)
               to == jobs'[j].status
    <2>1. j \in Job /\ \A i \in Job : i # j => jobs'[i] = jobs[i]
      BY <1>3, WrittenStatus
    <2>2. \/ to = "deleted" /\ had[j] \cap Terminal # {}
          \/ /\ Exists(jobs[j])
             /\ \/ to \in had[j]
                \/ \E from \in had[j] \cap JobStatus : to \in LegalTransitions[from]
      BY <1>3, WrittenStatus DEF RowOf
    <2> HIDE DEF j
    <2>3. had' = [had EXCEPT ![j] = @ \cup {to}]
      BY <1>e, <2>1
    <2> HIDE DEF to
    <2>4. CASE to = "deleted" /\ had[j] \cap Terminal # {}
      BY <1>s, <2>1, <2>3, <2>4 DEF History!Delete, History!Next
    <2>5. CASE to \in had[j]
      <3>1. had' = had
        BY <1>g, <2>1, <2>3, <2>5
      <3>2. QED
        BY <3>1
    <2>6. ASSUME Exists(jobs[j]), NEW from \in had[j] \cap JobStatus,
                 to \in LegalTransitions[from]
          PROVE  History!Next
      <3>1. "deleted" \notin had[j]
        BY <2>1, <2>6 DEF Knowing, KnowsRows, Deleted, Exists, NoRow
      <3>2. from \in JobStatus /\ to \in JobStatus
        BY <2>6, LegalTargets
      <3>3. History!Advance(j, from, to)
        BY <1>s, <2>3, <2>6, <3>1 DEF History!Advance
      <3>4. QED
        BY <1>s, <2>1, <3>2, <3>3 DEF History!Next
    <2>7. QED
      BY <2>2, <2>4, <2>5, <2>6
  <1>4. QED
    BY <1>1, <1>2, <1>3, Cases, RowChanges DEF HistoryNext

LEMMA KnowingStep ==
  TypeInv /\ TypeInv' /\ Recording /\ Knowing /\ [HistoryNext]_<<vars, had>> => Knowing'
  <1> SUFFICES ASSUME TypeInv, TypeInv', Recording, Knowing, [HistoryNext]_<<vars, had>>
               PROVE  Knowing'
    OBVIOUS
  <1>1. CASE UNCHANGED <<vars, had>>
    BY <1>1 DEF vars, Knowing, KnowsRows, StagesFromHistory, DeletesFromHistory, JobOf, Deleted
  <1>2. CASE HistoryNext
    <2>n. Next
      BY <1>2 DEF HistoryNext
    <2>g. /\ \A j \in Job : had'[j] = had[j] \cup {jobs'[j].status}
          /\ \A j \in Job : jobs'[j].status \in JobStatus \cup NoRow
          /\ had \in [Job -> SUBSET (JobStatus \cup NoRow)]
          /\ had' = [j \in Job |-> had[j] \cup {jobs'[j].status}]
      BY <1>2, HistoryGrows DEF Knowing, KnowsRows, HistoryNext, TypeInv, TypeOK, Row
    <2>t. \A p \in Process : /\ proc[p] \in ProcState
                             /\ proc[p].at \notin {"idle", "error"} => JobOf(p) \in Job
      BY DEF TypeInv, TypeOK, Placed
    <2>1. KnowsRows'
      <3>1. had' \in [Job -> SUBSET (JobStatus \cup NoRow)]
        BY <2>g
      <3>2. ASSUME NEW j \in Job PROVE jobs'[j].status = "absent" => had'[j] = {"absent"}
        BY <2>g, <2>n, AbsentStays DEF Knowing, KnowsRows
      <3>3. ASSUME NEW j \in Job, "deleted" \in had'[j] PROVE jobs'[j].status = "deleted"
        BY <2>g, <2>n, <3>3, DeletedStep DEF Knowing, KnowsRows
      <3>4. QED
        BY <2>g, <3>1, <3>2, <3>3 DEF KnowsRows, Deleted
    \* A process that is about to write was about to write the same, or looks
    \* at the row now.
    <2>2. ASSUME NEW p \in Process, NEW s, Become(p, s),
                 s.at \in {"reload", "flush"} /\ s.op # "delete" =>
                   /\ s.job \in Job
                   /\ \/ s.new.status \in had[s.job]
                      \/ \E from \in had[s.job] \cap JobStatus :
                           s.new.status \in LegalTransitions[from],
                 s.at \in {"reload", "flush"} /\ s.op = "delete" =>
                   s.job \in Job /\ had[s.job] \cap Terminal # {}
          PROVE  StagesFromHistory' /\ DeletesFromHistory'
      <3>b. proc'[p] = s /\ \A q \in Process : q # p => proc'[q] = proc[q]
        BY <2>2, Becoming
      <3>1. StagesFromHistory'
        <4> SUFFICES ASSUME NEW q \in Process, proc'[q].at \in {"reload", "flush"},
                            proc'[q].op # "delete"
                     PROVE  \/ proc'[q].new.status \in had'[proc'[q].job]
                            \/ \E from \in had'[proc'[q].job] \cap JobStatus :
                                 proc'[q].new.status \in LegalTransitions[from]
          BY DEF StagesFromHistory, JobOf
        <4>1. /\ proc'[q].job \in Job
              /\ \/ proc'[q].new.status \in had[proc'[q].job]
                 \/ \E from \in had[proc'[q].job] \cap JobStatus :
                      proc'[q].new.status \in LegalTransitions[from]
          <5>1. CASE q = p
            BY <2>2, <3>b, <5>1
          <5>2. CASE q # p
            BY <2>t, <3>b, <5>2 DEF Knowing, StagesFromHistory, JobOf
          <5>3. QED
            BY <5>1, <5>2
        <4>2. QED
          BY <2>g, <4>1
      <3>2. DeletesFromHistory'
        <4> SUFFICES ASSUME NEW q \in Process, proc'[q].at \in {"reload", "flush"},
                            proc'[q].op = "delete"
                     PROVE  had'[proc'[q].job] \cap Terminal # {}
          BY DEF DeletesFromHistory, JobOf
        <4>1. proc'[q].job \in Job /\ had[proc'[q].job] \cap Terminal # {}
          <5>1. CASE q = p
            BY <2>2, <3>b, <5>1
          <5>2. CASE q # p
            BY <2>t, <3>b, <5>2 DEF Knowing, DeletesFromHistory, JobOf
          <5>3. QED
            BY <5>1, <5>2
        <4>2. QED
          BY <2>g, <4>1
      <3>3. QED
        BY <3>1, <3>2
    <2> DEFINE Goal == StagesFromHistory' /\ DeletesFromHistory'
    <2>c. ASSUME NEW p \in Process, NEW s, Become(p, s), s.at \notin {"reload", "flush"} PROVE Goal
      BY <2>2, <2>c
    <2> HIDE DEF Goal
    <2>3. ASSUME proc' = proc PROVE Goal
      <3>1. StagesFromHistory'
        BY <2>3, <2>g, <2>t DEF Knowing, StagesFromHistory, JobOf
      <3>2. DeletesFromHistory'
        BY <2>3, <2>g, <2>t DEF Knowing, DeletesFromHistory, JobOf
      <3>3. QED
        BY <3>1, <3>2 DEF Goal
    <2>4. ASSUME NEW p \in Process, Calm(p) \/ Commits(p) PROVE Goal
      <3>1. PICK s \in ProcState : Become(p, s) /\ s.at \notin {"reload", "flush"}
        BY <2>4 DEF Calm, Commits, Settled, Resting
      <3>2. QED
        BY <3>1, <2>c
    <2>5. ASSUME NEW p \in Process, Stages(p) PROVE Goal
      <3>1. PICK new \in Row :
              /\ Stage(p, new)
              /\ new.status = RowOf(p).status \/ CanTransition(RowOf(p), new.status)
        BY <2>5 DEF Stages
      <3> DEFINE s == [proc[p] EXCEPT !.at = "reload", !.new = new, !.base = RowOf(p)]
      <3>2. /\ Become(p, s) /\ proc[p].op # "delete" /\ JobOf(p) \in Job
            /\ Exists(RowOf(p))
        BY <2>5, <2>t, <3>1 DEF Stage, Stages
      <3>3. s.at = "reload" /\ s.op = proc[p].op /\ s.job = JobOf(p) /\ s.new = new
        BY <2>t DEF ProcState, JobOf
      <3>4. RowOf(p).status \in had[JobOf(p)] \cap JobStatus
        BY <3>2 DEF RowOf, Knowing, KnowsRows, TypeInv, TypeOK, Row, Exists
      <3> HIDE DEF s
      <3>5. QED
        BY <2>2, <3>1, <3>2, <3>3, <3>4 DEF Goal, CanTransition
    <2>6. ASSUME NEW p \in Process, Reloads(p) PROVE Goal
      <3>1. PICK seen : Become(p, [proc[p] EXCEPT !.at = "flush", !.base = seen])
        BY <2>6 DEF Reloads
      <3> DEFINE s == [proc[p] EXCEPT !.at = "flush", !.base = seen]
      <3>2. /\ s.at = "flush" /\ s.op = proc[p].op /\ s.job = JobOf(p) /\ s.new = proc[p].new
            /\ JobOf(p) \in Job /\ proc[p].at = "reload"
        BY <2>6, <2>t DEF ProcState, JobOf, Reloads
      <3>3. /\ proc[p].op # "delete" =>
                 \/ proc[p].new.status \in had[JobOf(p)]
                 \/ \E from \in had[JobOf(p)] \cap JobStatus :
                      proc[p].new.status \in LegalTransitions[from]
            /\ proc[p].op = "delete" => had[JobOf(p)] \cap Terminal # {}
        BY <3>2 DEF Knowing, StagesFromHistory, DeletesFromHistory
      <3>4. Become(p, s)
        BY <3>1
      <3> HIDE DEF s
      <3>5. QED
        BY <2>2, <3>2, <3>3, <3>4 DEF Goal
    <2>7. ASSUME NEW q \in Request, AcceptsDelete(q) PROVE Goal
      <3> DEFINE s == [proc[q] EXCEPT !.at = "flush", !.base = RowOf(q)]
      <3>1. /\ q \in Process /\ Become(q, s) /\ JobOf(q) \in Job
            /\ Exists(RowOf(q)) /\ RowOf(q).status \notin Active
        BY <2>7, <2>t DEF Process, AcceptsDelete, Doing
      <3>2. s.at = "flush" /\ s.op = "delete" /\ s.job = JobOf(q)
        BY <2>7, <2>t, <3>1 DEF ProcState, JobOf, AcceptsDelete, Doing
      <3>3. RowOf(q).status \in had[JobOf(q)] \cap Terminal
        BY <3>1 DEF RowOf, Knowing, KnowsRows, TypeInv, TypeOK, Row, Exists, NoRow, JobStatus,
           Active, Terminal
      <3> HIDE DEF s
      <3>4. QED
        BY <2>2, <3>1, <3>2, <3>3 DEF Goal
    <2>8. ASSUME NEW q \in Request, Purge(q) \/ \E j \in Job : Create(q, j) PROVE Goal
      <3> DEFINE a == [Idle EXCEPT !.at = "replied", !.op = proc[q].op, !.job = JobOf(q)]
                 b(j) == [Idle EXCEPT !.at = "enqueue", !.op = "record", !.job = j]
      <3>1. q \in Process /\ (Become(q, a) \/ \E j \in Job : Become(q, b(j)))
        BY <2>8 DEF Purge, Reply, Create, Process
      <3>2. a.at = "replied" /\ \A j \in Job : b(j).at = "enqueue"
        BY DEF Idle
      <3> HIDE DEF a, b
      <3>3. QED
        BY <3>1, <3>2, <2>c
    <2>9. ASSUME NEW w \in Worker,
                 EngineReturn(w) \/ UploadReplace(w) \/ Uploads(w) \/ PublishEvents(w)
          PROVE  Goal
      <3> DEFINE a == [proc[w] EXCEPT !.at = "upload", !.op = "success", !.part = 1]
                 b == [proc[w] EXCEPT !.at = "copy"]
                 c == [proc[w] EXCEPT !.at = "upload", !.part = proc[w].part + 1]
                 d == [proc[w] EXCEPT !.at = "get", !.part = 0]
                 e == [proc[w] EXCEPT !.at = "engine", !.op = "none",
                                      !.new = AbsentRow, !.base = AbsentRow]
      <3>1. /\ w \in Process
            /\ \/ Become(w, a) \/ Become(w, b) \/ Become(w, c) \/ Become(w, d) \/ Become(w, e)
               \/ Become(w, Idle)
        BY <2>9 DEF EngineReturn, UploadReplace, Uploads, NextPart, PublishEvents, Goto,
           Acknowledge, Process
      <3>2. proc[w] \in ProcState
        BY <2>t, <3>1
      <3>3. a.at = "upload" /\ b.at = "copy" /\ c.at = "upload"
        BY <3>2 DEF ProcState
      <3>4. d.at = "get" /\ e.at = "engine"
        BY <3>2 DEF ProcState
      <3>5. Idle.at = "idle"
        BY DEF Idle
      <3> HIDE DEF a, b, c, d, e
      <3>6. QED
        BY <3>1, <3>3, <3>4, <3>5, <2>c
    <2>10. Goal
      <3>1. StepCases /\ \A q \in Request : q \in Process
        BY <2>n, Cases DEF Process
      <3>2. QED
        BY <3>1, <2>3, <2>4, <2>5, <2>6, <2>7, <2>8, <2>9 DEF StepCases
    <2>11. QED
      BY <2>1, <2>10 DEF Goal, Knowing
  <1>3. QED
    BY <1>1, <1>2

\* The pipeline implements JobHistory: whatever is lost or repeated, what a
\* handler writes is one legal transition away from a status its row has had, a
\* job is deleted only after it was terminal, and nothing is written after that.
THEOREM WritesImplementHistory == HistorySpec => WritesFollowHistory
  <1> DEFINE Inv == TypeInv /\ Recording /\ Knowing
  <1>1. HistoryInit => Inv /\ History!Init
    <2> SUFFICES ASSUME HistoryInit PROVE Inv /\ History!Init
      OBVIOUS
    <2>1. TypeInv /\ Recording /\ Knowing
      BY TypeInit, RecordingInit, KnowingInit DEF HistoryInit
    <2>2. History!Init
      BY DEF HistoryInit, Init, AbsentRow, NewJob, History!Init
    <2>3. QED
      BY <2>1, <2>2
  <1>2. Inv /\ [HistoryNext]_<<vars, had>> => Inv'
    <2>1. [HistoryNext]_<<vars, had>> => [Next]_vars
      BY DEF HistoryNext
    <2>2. QED
      BY <2>1, TypeStep, RecordingStep, KnowingStep
  <1>3. Inv /\ [HistoryNext]_<<vars, had>> => [History!Next]_had
    BY HistoryStep
  <1>4. QED
    BY <1>1, <1>2, <1>3, PTL DEF HistorySpec, WritesFollowHistory, History!Spec
=============================================================================
