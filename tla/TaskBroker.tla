----------------------------- MODULE TaskBroker -----------------------------
(***************************************************************************)
(* The Celery queue between the API and the workers, as the code           *)
(* configures and uses it (infrastructure/queue): one task per job, late   *)
(* acknowledgement, redelivery when a worker is lost, and a revocation     *)
(* that is broadcast to the workers and acts when it arrives.  A task id   *)
(* belongs to exactly one job, so the job stands for it.                   *)
(***************************************************************************)
EXTENDS DistillationJob

CONSTANT Worker    \* pool slots of the Celery workers

VARIABLES ready,       \* ready[j]: deliverable copies of the message for job j
          redelivered, \* jobs whose message has come back to the queue
          control,     \* revocations on their way: <<worker, job>>
          revoked      \* revoked[w]: task ids the worker has been told to discard

brokerVars == <<ready, redelivered, control, revoked>>

BrokerTypeOK ==
  /\ ready \in [Job -> Nat]
  /\ redelivered \subseteq Job
  /\ control \subseteq Worker \X Job
  /\ revoked \in [Worker -> SUBSET Job]

BrokerInit ==
  /\ ready = [j \in Job |-> 0]
  /\ redelivered = {}
  /\ control = {}
  /\ revoked = [w \in Worker |-> {}]

\* The task is sent.
Publish(j) ==
  /\ ready' = [ready EXCEPT ![j] = @ + 1]
  /\ UNCHANGED <<redelivered, control, revoked>>

\* A copy that was delivered and not acknowledged is deliverable again; the
\* message carries a mark that says so.
PutBack(j) ==
  /\ ready' = [ready EXCEPT ![j] = @ + 1]
  /\ redelivered' = redelivered \cup {j}

\* Mutant: a copy that is not there is taken.
TakeMissing(j) ==
  /\ ready' = [ready EXCEPT ![j] = @ - 1]
  /\ UNCHANGED <<redelivered, control, revoked>>

\* A worker takes a copy.
Take(j) ==
  /\ ready[j] > 0
  /\ ready' = [ready EXCEPT ![j] = @ - 1]
  /\ UNCHANGED <<redelivered, control, revoked>>

\* control.revoke(task_id, terminate=True): fire and forget to every worker.
Revoke(j) ==
  /\ control' = control \cup (Worker \X {j})
  /\ UNCHANGED <<ready, redelivered, revoked>>

\* The broadcast reaches worker w, which remembers the id.
HearRevoke(w, j) ==
  /\ <<w, j>> \in control
  /\ control' = control \ {<<w, j>>}
  /\ revoked' = [revoked EXCEPT ![w] = @ \cup {j}]
  /\ UNCHANGED <<ready, redelivered>>

\* The host of worker w is lost: the unacknowledged copy returns to the queue,
\* the ids the worker held in memory and the broadcasts sent to it are gone.
LoseHost(w, j) ==
  /\ PutBack(j)
  /\ control' = {c \in control : c[1] # w}
  /\ revoked' = [revoked EXCEPT ![w] = {}]
=============================================================================
