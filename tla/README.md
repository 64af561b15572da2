# Distillery in TLA+

Distillery distils large teacher models into small student models. An HTTP API
takes jobs, a Celery worker runs them, PostgreSQL holds what both know about
them, and a directory or an S3 bucket holds the results. These modules model
what the program does to that shared state, TLC checks them on small
instances, and TLAPS proves the results that matter most for every instance.
Paths below are relative to `src/distillery/` of the repository unless they
begin with `docs/` or `tests/`.

## Inventory

| Component | State it keeps | Operations | What makes it correct |
|---|---|---|---|
| Job aggregate (`domain/entities.py`, `enums.py`, `events.py`) | status, progress, timestamps, evaluation, error, artifacts, recorded events | `mark_queued`, `mark_running`, `update_progress`, `mark_succeeded`, `mark_failed`, `cancel` | only legal transitions; columns agree with the status |
| Job service (`application/services/job_service.py`) | none of its own | create, cancel, delete, get, list | a confirmed cancel sticks; a deleted job stays deleted; a queued job has a task; what of this does not hold is under Runs |
| Pipeline service (`application/services/pipeline_service.py`) | none of its own | `run_job`: start, progress, upload, success or failure | one run per job; a run ends; results are recorded before they are announced |
| Job persistence (`infrastructure/db`) | rows of jobs and artifacts, users, API keys | unit of work, `add`, `get`, `update`, `delete` | what a handler writes follows from a row that was committed; a deleted row is not written |
| Task queue (`infrastructure/queue`) | messages, revoked task ids | enqueue, cancel, deliver | redelivery does no harm |
| Artifact storage (`infrastructure/storage`) | files by job and type | save a file or a directory, delete a prefix | what is recorded can be fetched; what is deleted is gone |
| Event publisher (`infrastructure/events.py`) | the log | publish | events in the order of the life of a job |
| Training loop, engine, evaluation (`core/trainer.py`, `engine.py`, `evaluation.py`) | weights, gradients, schedule, best state | train, evaluate, serialise | no gradient lost; the best weights are the ones measured and shipped |
| LLM teacher (`teachers/llm`) | requests under way, rows, tokens | generate or label a corpus over a thread pool, retry | the corpus does not depend on the interleaving; bounded requests; a failed build leaves nothing behind |
| Rate limiter (`infrastructure/security/rate_limit.py`, `api/middleware.py`) | a count per key and window | check | the limit is kept, and nobody is refused before it is spent |
| Accounts (`auth_service.py`, `infrastructure/security`, `db/seed.py`) | users, API keys | create, authenticate, seed | what a caller was told stays true; every key has an owner; a seed is whole or absent, and replicas do not keep one another from it |
| Data and labels (`core/data.py`) | none | choose rows, resolve labels, tokenise | ids that do not depend on the order of the rows and mean the same in training and evaluation |
| Job configuration (`domain/value_objects.py`) | none | ranges of the fields, consistency of the strategy | what it lets through is all that the code behind it relies on |
| Models, losses, strategies (`core/models.py`, `losses.py`, `strategies/`) | the layer map, projections | build, map layers, compute a loss | a student that cannot learn what it is given is not shipped; layers are aligned |
| API (`api/app.py`, `middleware.py`, `deps.py`, `errors.py`, `routers/`) | none of its own | middleware, authentication, roles, routes of jobs and health, pages | answers are marked and counted; only owners see and act; a walk over the pages is as complete as it can be |
| Settings, command line, observability, composition root | settings, singletons | parse, wire, log | none of these orders anything |

**Interactions.** A request of the API calls the job service, which writes the
row in one unit of work, sends the message, and records the task id in a
second unit of work. The worker takes the message and calls `run_job`, which
opens a unit of work for the start, one for each progress report and one for
the end, and writes to the storage in between. Cancelling revokes the task by
a control message that terminates the worker child. Nothing else synchronises
them: each handler reads the row, decides, and writes its copy of it.

**What is hard here.** Two handlers that read the same row; a message
delivered twice; a worker lost before or after a commit; a commit that is
applied although its caller hears that it failed; the same directory replaced
by two runs; a clock read before the lock it is used under; answers of a pool
that come in out of order; transactions that wait for one another's keys; a
handler that authorises in one unit of work and acts in another; pages that
shift while they are read; an exception that passes the middleware by; and,
within a run, five places that each check a part of what a configuration, two
models and a dataset have to agree on.
`PROJECT.json` lists each hazard at its line.

## Modules

| Module | Models | Notes |
|---|---|---|
| `DistillationJob` | the job aggregate | rows as records, the status graph and one operator per method |
| `JobLifecycle` | abstract: the status of a job as its clients see it | what the documentation promises, and `JobPipeline` does not implement (`doc_lifecycle`) |
| `JobHistory` | abstract: the statuses a job has had | what is left of that promise when rows are written from stale reads; `JobPipeline` implements it |
| `TaskBroker` | Celery and Redis as configured | ready copies, control messages, revoked ids |
| `ArtifactStore` | local and S3 storage | directories are replaced in two steps on local storage |
| `JobPipeline` | requests, workers, table, broker, storage | composes the four above |
| `JobPipelineProperties` | what is claimed of it | |
| `JobPipelineHistory` | `JobPipeline` with a variable that remembers the statuses of each row, and the claim that it implements `JobHistory` | the variable constrains no step |
| `MCJobPipeline`, `MCJobHistory` | symmetry for TLC | |
| `JobPipeline_proofs`, `JobPipelineDelivery_proofs` | theorems about it | the second follows the message of a job and the statuses of its row |
| `DistillationTrainer`, `DistillationTrainer_proofs` | the training loop, the final evaluation and the serialisation | abstract: what `DistillationRun` implements |
| `JobConfig` | a job configuration and its validation: pure operators | |
| `LayerMap` | `default_layer_map`: pure operators, and what a map has to be | |
| `DistillationRun`, `MCDistillationRun`, `DistillationRun_proofs` | a configuration on its way through the engine: models, strategy, losses, training, evaluation | composes the three above |
| `Ascending` | `sorted` of a set, by what it returns | used by the two below |
| `LLMDataset` | generating or labelling a corpus over a thread pool with retries | |
| `LabelResolution` | `_resolve_labels` and `build_datasets`: pure operators | |
| `DistillationEngine`, `MCDistillationEngine`, `DistillationEngine_proofs` | how the engine comes to its data | composes the two above |
| `Accounts`, `MCAccounts`, `Accounts_proofs` | users and API keys under the constraints of the database | |
| `RateLimiter`, `MCRateLimiter`, `RateLimiter_proofs` | both rate limiters behind the middleware | |
| `ApiStack` | which layer answers, and which layers an answer passes: pure operators | |
| `JobListing` | the table as a list sees it, and a client that pages through it | |
| `ApiRequests`, `MCApiRequests`, `ApiRequests_proofs` | requests through middleware, authentication, roles and the routes of jobs | composes the two above |

### JobPipeline

A process is a request (one call of a client) or a worker. Its record says
which step is next (`at`), in which handler (`op`), with which copy of the job
(`new`) and of the row (`base`). A unit of work takes three steps, because
three statements of the code can be interleaved with commits of others:

1. `get`: the handler reads the row and decides (`CancelGet`, `DeleteGet`,
   `StartGet`, `ProgressGet`, `SuccessGet`, `FailureGet`, `RecordGet`);
2. `reload`: `JobRepository.update` reads the row again. The handler keeps a
   domain object and not the ORM object, so nothing holds the first read in
   the session, and `Session.get` selects anew;
3. `flush`: the columns that differ from that second read are written, and the
   commit follows.

The code sets no isolation level (`infrastructure/db/session.py`), so the
server's default applies, READ COMMITTED: every statement sees what is
committed when it starts, and the flush writes over whatever is there by then,
unless the row is gone (`Writable`). The SQLite of the tests behaves so here.
What a guard has decided on may be out of date when the write comes. Promises
of the documentation that overlook this are refuted by `doc_lifecycle` and
`doc_single_runner`; `JobHistory` says what remains of them.

The environment delivers messages at least once, loses a worker child or a
host, applies the hard time limit, fails a commit or leaves it unconfirmed,
fails a storage call or the broker. Each is an action that costs one of
`MaxFaults`. A message is redelivered only after the visibility timeout, which
at 25 hours exceeds the hard time limit of 24 (`config/settings.py:126-130`),
so a redelivery needs a fault. `redelivered` is the mark the
transport puts on a message that has come back; the code does not look at it,
and the properties of jobs that were delivered once do.

Timestamps and reports are present or absent. A job has `NumArtifacts` artifacts, of which those in
`Directories` are directories. Percentages are the numbers `0..MaxPercent`;
the callback's throttling means that any report may be left out.

### DistillationTrainer

A tensor is known by where it comes from: the weights by the number of
optimizer steps behind them, the gradient by the batches summed in it. That is
all that is needed to say that no gradient is lost and that the weights
measured are the weights shipped. An evaluation returns any metric. The engine
passes `epoch_eval` only with an evaluation split and a patience
(`core/engine.py:120-123`), and so does the model.

`TotalSteps` is `_total_optimizer_steps`, which the length of the schedule
comes from; the loops count their steps on their own, and end with the last
epoch or at `max_steps`, whichever comes first. The two agree as long as
`max_steps` is not more than the epochs are worth, which is what `RunsItsBudget`
says. Beyond that the schedule is made for `max_steps` and the loops end
before it, although the field says that it overrides the epochs: a divergence,
listed below, and nothing is claimed of that case.

### JobConfig, LayerMap and DistillationRun

`JobConfig` is the validation of a request: the ranges of the fields that a
run depends on, and `_validate_strategy_consistency`. Ratios and weights are
percentages, which are what the ranges and the rounding need.

`DistillationRun` takes a submitted job through `DefaultDistillationEngine.run`.
Its variable `stage` says what the engine does next; once it is `"train"`, the
variables of `DistillationTrainer` move. Of a model it keeps what a run can
trip over: classes, layers, width, vocabulary, positions, and the two numbers
that the code reads from the model's config object under fixed names, which are
0 where the object uses other names. Rows are class ids. A batch whose loss
would raise fails the run (`LossTrouble`): more positions than one of the
models has, token ids the teacher has no embedding of, logits of different
classes, hidden states of different width, a layer
that does not exist, a label without a class. Every pass of a shuffled loader
has an order of its own, of which the model takes the rotations by up to
`MaxShift`: two orders are enough to tell whether two passes were the same.

The student's tokenizer makes the token ids for both models. The student has an
embedding of each, as a tokenizer and its model come together. A teacher with a
smaller table lacks some, and whether a row has such an id is up to its text:
`foreign` is any set of rows if the student's vocabulary is the larger one
(`LargerVocabulary`), and empty otherwise. A batch raises when it has such a row
(`TeacherReads`), and so does the evaluation of the teacher
(`EvaluationRaises`); a run whose texts do not use the larger part goes through.
An index out of range raises on the CPU and ends the process's use of a CUDA
device; the model takes both for a failed run.

`LayerMap` has the rounding of Python, to the nearest and from halfway to the
even number, which is what the alignment of the layers rests on.

`DistillationEngine` below is another view of the same run: how it comes to
its data. `DistillationRun` takes its outcome (`BuildCorpus`, `PrepareData`)
and the fact that a corpus has only classes of the student (`StudentFitsCorpus`,
proved there, assumed in `RunAssumption`).

### LLMDataset

One thread collects; `threads` others, a number chosen at the start, make
requests in the order of the tasks. Generating, a request asks for examples of
one label and is answered with any number of them up to a few more than asked
for; labelling, it sends a batch of texts and is answered with a word, known
or not, for any of them. It may also be malformed, fail for good, or fail in a
way that is worth a retry. `pool.map` hands out the answers in the order of
the requests and cancels what has not begun when one raises; leaving the
`with` block waits for those under way. With one thread, or one request, there
is no pool. The rows are appended as the answers are handed out, where the
code appends them once it has all: nobody sees the difference. A row is its
label and the text it annotates; `exact` records whether every response had
what it was asked for.

### DistillationEngine and LabelResolution

`DistillationEngine` adds `stage` to the state of `LLMDataset`: with an LLM
teacher the corpus is built first, may come out empty, and is turned into an
inline dataset without evaluation rows whose table of names is that of the
configuration; otherwise the dataset is one of `Datasets`. `PrepareData` then
resolves the labels in one step, as `LabelResolution` defines it.

A raw label is a record of its kind, what `int()` and what `str()` make of it.
The order of texts is that of Python's strings as far as the instance needs
it: one-digit numerals come before `True`, and words behind both.

### Accounts

`users` and `keys` hold what is committed, `pending` what a transaction has
inserted, which only that transaction reads. `add` flushes, so an insertion
happens at once: one that collides with a committed value raises, one that
collides with another transaction's waits for it (`Waiting`), and transactions
that wait in a circle lose one of their number (`Abort`). Only a replica that
seeds holds one value while it waits for another. A `User` gets a random id
from its constructor, for which the process that creates it stands. Prefixes
of new keys are random and never those of the configuration. What is left out
is a function of the request alone: passwords, tokens, roles, expiry (nothing
in the program deactivates a user or a key).

### RateLimiter

A check reads the clock, which names the window, and counts itself up to
`MaxDelay` later: other checks, the turn of the window and the expiry of a
bucket come in between. `backend` is chosen at the start, as
`bootstrap.build_rate_limiter` does, once for the life of a process. In
"memory" the callers are threads of one process (in the API there is one, the
event loop; the class is documented as thread-safe, and two callers cover
both); in "redis" they are replicas, and the bucket has a time to live.

`admitted` counts the requests let through by the window they read, `timely`
those of them that were counted before that window was over. The budget is
claimed of the timely ones: a check that comes after its window may find the
bucket gone and start it again, which shows in the model and is harmless, as
the window it charges is past.

### ApiRequests, ApiStack and JobListing

A layer of middleware sees the answers that come from further in, and an
exception passes it by; `ApiStack` numbers the layers as `create_app` nests
them and derives which of them an answer has passed. The CORS middleware is
there only if origins are configured (`CorsOrigins`); it then answers a preflight
itself, 400 if it refuses it (`Preflight`). An unknown path or method is
answered inside them all (`NoRoute`), and so are the probes (`Probe`). `ApiRequests` gives each
client one request at a time, at one of these steps: authenticate (with the
role the route asks for and the validation of a body), load and authorise, act;
for a list, read the items and read their number. Loading and acting are two
units of work, as are the two statements of a page, and other requests and the
workers (`Finish`) come in between. Of a job only its owner,
`created_at` and a status of three values are kept, as a list and the
guards of the routes tell no more apart. A replica's clock (`Clock`) decides
where a new row comes in, so it may come in anywhere. A page is the set of the
rows whose place in descending order of `created_at` (`Position`) lies between
`offset` and `offset + limit`; the times are taken to be different, as the
column has microseconds.

`JobListing` keeps a walk: a client asks for page after page with the same
filter until `has_more` is false. What left the list and what came while it
walked is counted, for `WalkComplete` to compare with what it missed and what
it saw twice. Which jobs a caller may see is the code's decision
(`FilterChoice`, `Authorized`) and is checked by `OnlyOwnShown`.

What the routes do to a run, the broker and the storage is in `JobPipeline`;
there a request is one that has been authorised.

## Runs

`pass` runs:

| Run | Shows | Bounds, and why they suffice |
|---|---|---|
| `rc_faults` | the types; SUCCEEDED comes with artifacts, JobCompleted is announced of recorded results only, recorded artifacts are stored on object storage, a deleted job stays deleted; the events of a job that was delivered once come in order, and the pipeline implements `JobHistory` | one job (jobs share nothing but workers), two workers, so that a redelivered message meets a live run, two requests against the run, one fault of any kind; one artifact and one report keep the space small |
| `rc_local` | on local storage the recorded artifacts of a job that was delivered once are stored; a worker that took a message comes free, and without faults and cancellations no job stays RUNNING | two artifacts of which one is a directory, replaced in two steps; one worker, as the slots share nothing and a job that was delivered once is in one hand; two requests and one fault, so that the row changes or goes, and any call fails, at every point of a run. No symmetry, which is not sound for liveness |
| `distillation` | the loop loses no gradient, takes the steps it computed if its epochs are worth them, stops when it should, ships the best; the checks left to validation never fire; layers are aligned; what is shipped could learn what it was given; every step has a learning rate | four families of jobs: every configuration with up to 4 batches, accumulation up to 5 (more than a whole epoch), 4 epochs, `max_steps` up to 9, patience up to 2, three metrics, so that ties, improvements and relapses all occur; configurations of every strategy with and without a teacher, an LLM, a source, and with options out of range; a tiny student or one of up to 6 layers against teachers of up to 6, with other widths, vocabularies, lengths and names in the config object, and named layers in and out of range; rows with labels in and out of range and the one that is left out, and students with a larger vocabulary whose texts use it in any of the rows, in the evaluation split, or not at all, in batches of one and two, with limits that end the run before it meets them |
| `engine_data` | corpus, tokens and bounds of a build on a pool; every corpus that was built resolves to the student's classes; class ids do not depend on the order of the rows and mean the same in evaluation; the preparation ends | two labels and three samples: four requests to generate (two per label, the cut takes one row), two to label four texts cut to three in batches of two; one retry, one example too many; one thread (no pool: no request is made before the last is collected) and two. Without an LLM, 7,568 datasets: up to two training and two evaluation rows over three numbers, one of them negative, a flag and two words, with a table of names or none, cut or not. Two rows are enough for kinds to be mixed, and for order to matter |
| `accounts` | answers stay true (the owner of a key included), a seed is whole or absent, replicas that meet leave their common keys in place, nobody waits for ever | two replicas in the middle of a key rotation, with one key of their own and two in opposite orders, so that they deadlock; two callers, one of which may be the email of the system user; one restart |
| `rate_windows` | both limiters: no window lets through more than the limit before it is over, nobody is refused before it is spent | two callers and two keys, so that a check can be overtaken by one of its own key and of another; three windows of two ticks, checks late by a whole window, a limit of 1 tried twice |
| `api_requests` | a walk misses no more than left the list and repeats no more than came; answers show only what the caller may see; only owners with the role act | two clients, one that pages (pages of one job, so that a walk takes several) and one that gets, creates, cancels and deletes; two jobs; three pairs of roles, which between them have every role page or act, as owner or not |

`violation` runs, each a divergence of the code from what is written about it:

| Run | What is written | What the code does |
|---|---|---|
| `doc_lifecycle` | only legal transitions, terminal states are immutable (`docs/architecture/overview.md:198`) | `update` writes a stale copy over the row (`repositories.py:61`): already one create and its run take a job from RUNNING back to QUEUED, when the task id is recorded (`job_service.py:62`); the result of the run is then discarded |
| `doc_single_runner` | a redelivered task will not double-run work (`docs/decisions/0003-async-workers-celery-redis.md:33`) | `_start` reads, tests and writes without a lock (`pipeline_service.py:86`): two deliveries both read QUEUED |
| `doc_orphan_files` | deleting a job removes its artifacts (`docs/api/reference.md:143`) | a run that was cancelled past its last report keeps uploading after the deletion |
| `doc_agreement` | teacher agreement is the fraction of examples where student and teacher predict the same label (`domain/value_objects.py:207`) | without an evaluation split the train loader is used, which shuffles on every pass, and the two are collected in two passes (`core/engine.py:126`, `core/evaluation.py:108`, `:116`) |
| `doc_errors_counted` | the alert fires when more than 5% of the responses are 5xx (`docs/guides/administrator-guide.md:353`) | `RequestContextMiddleware` re-raises an unexpected exception before it counts (`api/middleware.py:46`); the 500 is made further out |

Other divergences, visible in the model or the code and given no run:

- The write of `doc_lifecycle` has two more consequences in the documentation. A
  job that stays queued "means the work was accepted but no worker picked it up"
  (`docs/guides/troubleshooting.md:132`), but one that was written back to QUEUED
  has no message left. A cancel request "moves the job to `cancelled`"
  (`docs/api/reference.md:140`), but a copy read before can be written over a
  cancellation that was confirmed, by the record of the task id or by a run.
- `max_steps` "Overrides epochs if set." (`domain/value_objects.py:89`), but the
  epochs bound the loop all the same (`core/trainer.py:120`): a `max_steps` beyond
  what they are worth is not reached, and the schedule and the reported progress,
  computed for it (`:74`), are left unfinished. `RunsItsBudget` leaves the case out.
- `X-Request-ID`, `X-Response-Time-ms` and the secure headers are "returned on
  every response" (`docs/api/reference.md:51`), but the 500 of an unexpected
  exception is made outside the middleware that sets them, as in
  `doc_errors_counted`, and so are the answers of the CORS middleware to preflights.
- `update_progress` records a JobProgressed event which the progress callback
  never pulls (`pipeline_service.py:145`), where `docs/security.md:92` lists it
  among the published events. `PublishEvents` shows it: no such event is ever
  appended.
- A check that comes after its window can start the bucket again
  (`rate_limit.py:48` in memory, `:86` in Redis), as said above.
- `reset_seconds` is 0 in the last second of a window (`rate_limit.py:35`), where
  `tests/unit/test_rate_limit.py:39` asserts that it is positive.
- Samples are to be "spread across the configured labels"
  (`dataset_builder.py:5`), but rounding up per label and cutting to
  `num_samples` (`:99`) takes from the last labels alone: 4 samples over 3
  labels leave none for the third.
- Training labels of mixed kinds, a number among words, are numbered by their
  texts; the evaluation rows are then resolved with that table, where a number
  is an id already (`core/data.py:144` against `:155`). The same row gets two
  classes, also if the rows are the same because the dataset is inline
  (`:115`). `SameClassInEvaluation` says for which datasets it cannot happen.
- Training labels that are all negative numbers infer an empty table
  (`core/data.py:150`), and the evaluation rows are then resolved as if they were
  the first (`:134`, `:200`): words among them get ids of their own.
  `SameClassInEvaluation` leaves this out (`bundle.names # <<>>`), as no such
  label is a class of the student.
- A label that only evaluation rows have fails the whole run (`:141`, `:200`),
  where an evaluation split that cannot be loaded is passed over (`:127`).
- The loser of a race between two `create_user` calls meets the unique
  constraint, not the check, and gets 500 where the check answers 409
  (`auth_service.py:42`, `api/errors.py:84`). `AnswersHold` covers both.
- A replica that loses a race or a deadlock when it seeds logs a warning and
  serves on (`api/app.py:55`): the keys only it was configured with are missing
  until it starts again. `CommonKeysArrive` is about the common keys for that
  reason, and makes an exception for a caller who has been given the email of the
  system user while the replicas were waiting for it.

- "Re-submitting a saved config snapshot reproduces the run"
  (`docs/architecture/data-flow.md:56-58`), but the seed is set when training
  begins (`core/trainer.py:101`), after `run` has built the models: the weights
  a new student starts with do not depend on it.
- The docstring of the middleware (`api/middleware.py:3-6`) has the rate limiter
  outside the request context; `create_app` nests them the other way
  (`api/app.py:76-84`), as `Stack` does. It is the code's order that lets
  refusals of the limiter be counted.
- "A single, consistent error envelope is returned for every failure"
  (`api/errors.py:3`), but a body that is too large is refused by the middleware
  without a request id, and an unknown route gets Starlette's own 404.
- Events are for "the outbox/event-bus pattern" (`domain/entities.py:6`,
  `domain/events.py:6`), but nothing stores them: they are published from memory
  after the commit, and a crash in between loses them.
- `jobs_finished_total` is incremented by the handler (`pipeline_service.py:107`)
  and not by the transition: two runs of one job count twice.
- A list is ordered by `created_at` alone (`repositories.py:87`): jobs of the same
  microsecond may change places between two pages. The model gives the rows one
  order; `WalkComplete` holds as far as the database does.
- Validation accepts the task of classifying tokens, and a classifier of
  sequences is built for it (`core/models.py`).
- For rows that are inline or in a file, the evaluation reads the training rows
  (`core/data.py:115`).
- `hidden_size` and `num_hidden_layers` are read from a model's config object
  under these names alone (`core/models.py:201`). Where neither model has the
  first, the identity takes the place of a projection (`core/losses.py:127`) and
  a batch raises if the widths differ (`WidthsMatch`); without the second there
  is no default map (`LayersKnown`). Both end the run after the models were
  loaded.

`CHECK_DEADLOCK FALSE` is set where the system may stop: requests are answered,
messages consumed, a run or the preparation of the data ends, and the bounded
clock stops. The API does not stop, and its runs check for deadlock.

### Fairness

`rc_local` assumes weak fairness of the steps of a unit of work, of the
requests and workers once they have begun, and of delivery: threads and
processes go on, and Celery consumes its queue. Clients are under no
obligation to call, and nothing obliges a fault. That the engine comes to an
end is assumed; the hard time limit of 24 hours is the code's own reason to.
`engine_data` assumes that a request is answered or times out
(`request_timeout_seconds`, 120 by default) and that the threads go on.
`accounts` assumes that a transaction that has begun goes on, that the database
ends deadlocks, and that a replica that is up seeds (`api/app.py:45`); callers are under
no obligation to call.

## Proofs

All theorems hold for every value of the constants that the named assumptions
of the modules allow.

| Theorem | Says | Argument |
|---|---|---|
| `TypeCorrect` (`JobPipeline_proofs`) | `TypeOK` of `JobPipeline` | `TypeInv` adds `Placed`: a process that is under way has a job, which the types of the row it reads rest on |
| `DeletionIsFinal` | a deleted job stays deleted | the only write to an absent row is an insertion by `create`, guarded by a row that never was; `Writable` refuses the rest |
| `SuccessHasArtifacts`, `ResultsAreRecorded` | SUCCEEDED comes with artifacts, JobCompleted with a recorded result | `Recording`: what a handler carries between its read and its flush has artifacts if it succeeded, so the copy it writes does |
| `RecordedCanBeFetched` (`JobPipelineDelivery_proofs`) | recorded artifacts are stored; on local storage, those of a job that was not redelivered | `Storing`: a run that has passed an artifact has stored it, and a purge is under way only for a job without a row. On local storage `UploadsOnce` adds that who runs such a job has recorded nothing yet, has handed everything over, or has failed; so the run that replaces a directory (`ReplacingStep`), the only one (`InOneHand`), comes before the record of it |
| `EventsInOrder` | the events of a job that was not redelivered come out in the order of its life | `InOneHand`: a job is not yet created, or one request is about to send its message, or one copy waits, or one worker has it, or it is done with, whatever the row says. `InOrder`: it is silent until that worker has started it, and from then on only that worker announces |
| `WritesImplementHistory` | `JobPipeline` implements `JobHistory` | `KnowsRows`: the history has the status of the row; `StagesFromHistory`, `DeletesFromHistory`: what a handler is about to write, from a copy however old, is one legal transition from a status in the history, which never loses one |
| `TrainerTypeCorrect` | types of the trainer | `Looping`: there is a batch to go on with |
| `GradientsAreApplied` | no gradient is lost | inductive with the types |
| `StopsInTime` | training stops early exactly when it is stale | `Monitored`: the counter of the code is the distance from the last evaluation to the first of the best |
| `ShipsTheBest` | what is shipped is the best that was measured | `Monitored` with `Followed`: which weights the student has at every step |
| `TakesItsSteps` | a run that does not stop early takes the steps its schedule was made for, if its epochs are worth `max_steps` or there is none | `Taken`: in the middle of an epoch the steps taken are those of the whole epochs and the whole groups of batches so far; lemmas on the ceiling of a quotient carry it over the end of an epoch, and a limit that was reached stays so |
| `RunImplementsTrainer` | every step of a run is one of the training loop or leaves it alone | by cases of `RunNext`: before the training the loop's variables do not change, and within it each step is one of the loop with an order or a row added |
| `RunsTrainAsProved` | the safety properties of the loop hold of every run, `RunsItsBudget` with its condition | from `RunImplementsTrainer` and the theorems about the loop |
| `RunTypeCorrect` | types of a run | with `RunInv`, which says what each stage has behind it: an accepted configuration, a student, a teacher of the strategy (`Prepared`) |
| `ValidationSuffices` | the checks left to validation never fire | `RunInv`: the stages are only reached by an accepted configuration, and the models have the classes it names |
| `DefaultMapAligned` | `default_layer_map` is right for every two depths | rounding is monotonic and moves by at most half; two student layers are apart by `T / S`, which is at least 1, and if it is exactly 1 nothing is rounded |
| `RunsAreAligned` | so is the map of every run that names no layers | `Mapped`, from the above |
| `StepsLearn` | no step but the first of a warm-up has a learning rate of zero | from `Taken`: the steps taken never exceed those the schedule was made for, whether or not the loops reach its end |
| `ShippedIsCompatible` | a shipped student could learn what it was given | `Learnt`: every batch behind the loop passed the loss; lemmas on the order of a pass (`RotationOnto`) and its batches (`BatchesCover`) show that a first epoch that was not broken off has covered all rows. Its parts (`Usable`, `AllUsable`) follow the rows whose tokens the teacher reads with those the student has a class for; `Tokened` types the rows it does not read, and without an evaluation split the evaluation has read all rows too |
| `TypeCorrect` (`Accounts_proofs`) | types of the accounts | `TypeInv` adds that a replica only adds a key its configuration still has |
| `AnswersStayTrue` | what a caller was told of users and keys stays so | `Uncommitted`: what is inserted and not committed is in no table and nobody else has inserted it, which is what a unique index does; `CallerState`: what a request has found out and inserted at every step, so that its commit makes its answer true |
| `SeedingIsAtomic` | a seed is whole or absent | `ReplicaState`: a replica commits only with every key of its configuration committed or its own, and the commits of others add whole configurations or keys of the API, which are never those of a configuration |
| `SeedingArrives` | replicas that collide leave the common keys | `SeedArrives`: when the last replica comes up, either somebody's configuration is complete or the email of the system user was taken by a caller; a replica is only beaten by one whose commit completes a configuration |
| `EngineTypeCorrect` | types of the engine's data | `Flow` with the lemmas about `Resolve`; the largest and the least of a finite set exist because it can be sorted |
| `PoolIsBounded` | no more requests under way than threads, in order, none left behind | `Pool`: what was collected was answered, nothing waits once the collecting is over, nothing runs once the build is |
| `CorpusIsTheAnswers` | a corpus is its answers in the order of the requests, of the right size, no text twice, with all the tokens | `Returned`: every answer fits its request (`Fits`); `Contents`: the rows are the answers so far (`Joined`), as many as those requests asked for (`AskedBy`, `SentBy`: lemmas on quotients and remainders), their texts before those of the next batch; `Costs`: as long as nothing failed, the tokens are as many as the answers |
| `CorpusTrains` | a corpus that is not empty resolves to classes of the student | `Contents`: every row is labelled with one of the labels, and those make the table (`CorpusResolves`) |
| `WordsAreNumbered` | inferred class ids depend on the set of the texts alone | `SortedPlace`: in an ascending sequence of a set, an element is behind as many as are less than it |
| `SameClassForSameRow` | equal rows, equal classes, in training and evaluation | by cases of the branch that resolved the training rows |
| `OwnersAct` | only its owner in the role of an operator, or an administrator, cancels or deletes a job | `ApiInv`: whoever is about to act on a job was authorised for it, and what authorisation found out, role and owner, no step changes |
| `ApiTypeCorrect` | types of the API | a page is a part of the list whose positions lie in an interval, so it has no more than `Limit` rows (`Position` numbers the list without a gap) |
| `OwnShown` | an answer shows only what its caller may see | every request is between two steps of its handler with a filter that fits its role or a job it was authorised for; owners never change |
| `WalksAreComplete` | a walk misses no more than left and repeats no more than came | `Explained`: what left the list accounts for what lies unseen behind the walk, and what came for what it has seen twice or will. It is kept by the walk as it stands and by the walk as the page on its way would leave it (`OnItsWay`), since a page may be read and never answered; a row that leaves or comes moves the others by one place (lemmas on `Position`) |
| `LimiterTypeCorrect` | types of the limiters | lemmas on integer division: windows are numbered in order, and the reset is within the window |
| `RefusalsAreEarned` | nobody is refused before the budget is spent | `Counted`: every check a bucket counts was let through, up to the limit; dropping a bucket only lowers the count |
| `BudgetIsKept` | no window lets through more than the limit before it is over | `Budgeted`: no check is older than the clock (`ReadBefore`), so no purge reaches the current window; a bucket expires after its window (`Outlives`); so while the window lasts the bucket remembers every timely request (`Remembered`) |

The prover cannot instantiate the induction theorems of the library, which take
an operator. Where an induction is needed, `InductiveSet` in
`DistillationEngine_proofs` does it with a set: a set of numbers with 0 and with
every successor is all of them, from the theorem that numbers are well-founded.
That the answers can be joined one after the other (`FlatExists`), and that
answers not yet collected play no part in it (`JoinedSame`), are proved so.

The split of a step of `JobPipeline` into cases (`Cases`) comes first in
`JobPipeline_proofs` and is shared by both modules. Strings in a module with proofs contain no blanks where
arithmetic is near, which the SMT encoding does not take.

The assumptions are those the modules name: `RunAssumption` (jobs that lead to
configurations of the loop, and a corpus of classes of the student),
`ConfigAssumption`, `ApiAssumption`, `ListingAssumption`, `AccountsAssumption`
(at least one replica and one prefix; requests and replicas are different
processes), `DatasetAssumption` (there are labels, samples, texts and threads,
as the validation of a job, `_label` and the settings require),
`EngineAssumption` (datasets of the right shape), and those of `JobPipeline`,
the trainer and the limiters. None of them bounds a number. What the proofs of
the API take from the model rather than from an assumption is that no two rows
of the table have the same `created_at`.

Every invariant and every action property of the passing runs, and the
refinement, is a theorem. Two of them are claimed of jobs whose message was not
redelivered, and say so: the order of events, and what is stored on local
storage, where two runs of one job can replace each other's directories. Only
model-checked are the liveness properties (`WorkersComeFree`,
`NothingStaysRunning`, `DataEnds`, `UnitsOfWorkEnd`), since liveness under
fairness is beyond the prover, and of course what the violation runs refute.

## Not modelled, and why

- Artifact downloads, and the reads of the auth router: they change nothing and
  decide nothing that other steps depend on.
- Metrics and logging, beyond which answers reach them: the program never reads
  them. `start_metrics_server` is never called.
- Settings: parsing of the environment. The limits that matter are constants.
- The command line, `bootstrap.py` and `domain/ports.py`: wiring of and commands
  over the services above.
- Migrations: schema scripts. The constraints they make are in `Accounts`.
- The soft time limit as an exception at any line. The engine may raise
  anywhere; the progress callback, which swallows it, may not yet.
- Tensor arithmetic, tokenisation, the hashing of words, file formats, metrics
  of a classifier: no order to check.
- Logins, tokens and passwords: functions of a request and of rows that are
  never updated. Authentication in `ApiRequests` succeeds or fails.
- Bootstrap keys too short to have a prefix, which are skipped.
- Eager mode (`InlineTaskQueue`), which is for development and tests: the
  request that creates a job runs it in its own thread, with the steps that
  `JobPipeline` has for a worker, one run per job and no redelivery.

## Plan

Done, in order of importance: the job pipeline with its history, the
trainer, the rate limiters, the engine's data with the LLM builder and the
resolution of labels, the accounts, the run of a job through the engine, and the
requests of the API, all with their proofs. Next:

1. Abstract specifications of what clients rely on, with the refinement proved: a
   corpus that appears at once (`LLMDataset`), a seed that is one step (`Accounts`).
2. `RunAssumption` takes from `DistillationEngine` what `CorpusTrains` proves; a
   theorem that composes the two would replace the assumption.
3. `RateLimiter`: a fleet in which some replicas have fallen back to memory.
