------------------------------ MODULE LLMDataset ------------------------------
(***************************************************************************)
(* Building a corpus with an LLM teacher (teachers/llm).  The requests of  *)
(* LLMDatasetBuilder._generate or _label fan out over a bounded thread     *)
(* pool, each of them retried by AnthropicLLMClient, while the building    *)
(* thread collects the answers in the order of the requests.               *)
(*                                                                         *)
(* A row is known by its label and by the text it annotates, which is 0    *)
(* for a text the teacher made up.  A response costs one token, whatever   *)
(* it says; an attempt that fails in the client costs none.                *)
(***************************************************************************)
EXTENDS Ascending

CONSTANTS Mode,           \* what cfg.label_existing may select: "generate", "label"
          Labels,         \* cfg.label_names
          NumSamples,     \* cfg.num_samples
          NumTexts,       \* texts of the dataset to label
          GenBatch,       \* _GEN_BATCH: examples asked for in one request
          LabelBatch,     \* _LABEL_BATCH: texts sent in one request
          Concurrency,    \* what settings.llm.max_concurrency may be
          MaxRetries,     \* settings.llm.max_retries
          MaxExtra        \* bound: examples in a response beyond the number asked for

ASSUME DatasetAssumption ==
  /\ Mode \subseteq {"generate", "label"} /\ Mode # {}
  /\ Labels \in Seq(STRING) /\ Labels # <<>>
  /\ NumSamples \in Nat \ {0}
  /\ NumTexts \in Nat \ {0}   \* _label raises if there are none
  /\ GenBatch \in Nat \ {0}
  /\ LabelBatch \in Nat \ {0}
  /\ Concurrency \subseteq Nat \ {0} /\ Concurrency # {}
  /\ MaxRetries \in Nat
  /\ MaxExtra \in Nat

VARIABLES mode,      \* what this build does
          threads,   \* settings.llm.max_concurrency of this build
          call,      \* call[t]: what has become of request t
          builder,   \* the building thread
          collected, \* requests whose answer it has collected
          rows,      \* the examples collected, in order
          tokens,    \* total_tokens
          spent,     \* tokens of all the responses there were
          exact      \* every response had what it was asked for, no more and no less

corpusVars == <<mode, threads, call, builder, collected, rows, tokens, spent, exact>>

CeilDiv(a, b) == (a + b - 1) \div b

PerLabel == CeilDiv(NumSamples, Len(Labels))

RequestsPerLabel == CeilDiv(PerLabel, GenBatch)

\* The texts that are labelled, and those of them that request t is about.
Texts == 1 .. IF NumTexts < NumSamples THEN NumTexts ELSE NumSamples

BatchOf(t) == {i \in Texts : (i - 1) \div LabelBatch + 1 = t}

Task ==
  1 .. IF mode = "generate" THEN Len(Labels) * RequestsPerLabel
                            ELSE CeilDiv(Cardinality(Texts), LabelBatch)

LabelOf(t) == Labels[(t - 1) \div RequestsPerLabel + 1]

\* The requests of a label ask for a full batch each, the last for the rest.
CountOf(t) ==
  LET asked == ((t - 1) % RequestsPerLabel) * GenBatch
  IN  IF PerLabel - asked < GenBatch THEN PerLabel - asked ELSE GenBatch

\* _map does without a pool if it may run one request at a time.
Sequential == threads = 1 \/ Cardinality(Task) <= 1

Row == [text : Nat, label : STRING]

CallState == [ state    : {"waiting", "calling", "answered", "failed", "cancelled"},
               attempts : 0 .. MaxRetries + 1,
               rows     : Seq(Row) ]

TypeOK ==
  /\ mode \in Mode
  /\ threads \in Concurrency
  /\ call \in [Task -> CallState]
  /\ builder \in {"collecting", "aborting", "failed", "done"}
  /\ collected \in 0 .. Cardinality(Task)
  /\ rows \in Seq(Row)
  /\ tokens \in Nat
  /\ spent \in Nat
  /\ exact \in BOOLEAN

Init ==
  /\ mode \in Mode
  /\ threads \in Concurrency
  /\ call = [t \in Task |-> [state |-> "waiting", attempts |-> 0, rows |-> <<>>]]
  /\ builder = "collecting"
  /\ collected = 0
  /\ rows = <<>>
  /\ tokens = 0 /\ spent = 0
  /\ exact = TRUE

-----------------------------------------------------------------------------
(* The pool.                                                               *)

Calling == {t \in Task : call[t].state = "calling"}

FreeThread == Cardinality(Calling) < threads

\* Requests are taken up in order; without a pool, when the one before has
\* been collected.
StartCall(t) ==
  /\ call[t].state = "waiting" /\ FreeThread
  /\ \A u \in 1 .. t - 1 : call[u].state # "waiting"
  /\ Sequential => builder = "collecting" /\ collected = t - 1
  /\ call' = [call EXCEPT ![t].state = "calling", ![t].attempts = 1]
  /\ UNCHANGED <<mode, threads, builder, collected, rows, tokens, spent, exact>>

\* The rows of _generate_one for a response with n examples.
Generated(t, n) == [i \in 1 .. n |-> [text |-> 0, label |-> LabelOf(t)]]

\* Mutant: the teacher's word is taken for a label.
CoerceNot(raw) == raw

\* A word that is no label becomes the first one.  (That the comparison ignores
\* case is part of what the word is taken to be.)
Coerce(raw) == IF raw \in ToSet(Labels) THEN raw ELSE Labels[1]

\* The rows of _label_one for a response that annotates some texts of the batch.
Annotated(words) ==
  LET texts == Sorted(DOMAIN words)
  IN  [i \in DOMAIN texts |-> [text |-> texts[i], label |-> Coerce(words[texts[i]])]]

Respond(t, answer, asIsAsked) ==
  /\ t \in Calling
  /\ call' = [call EXCEPT ![t].state = "answered", ![t].rows = answer]
  /\ spent' = spent + 1
  /\ exact' = (exact /\ asIsAsked)
  /\ UNCHANGED <<mode, threads, builder, collected, rows, tokens>>

Generate(t) ==
  /\ mode = "generate"
  /\ \E n \in 0 .. CountOf(t) + MaxExtra : Respond(t, Generated(t, n), n = CountOf(t))

Annotate(t) ==
  /\ mode = "label"
  /\ \E texts \in SUBSET BatchOf(t) : \E words \in [texts -> ToSet(Labels) \cup {"other"}] :
       Respond(t, Annotated(words), texts = BatchOf(t))

\* A response that is not JSON: _parse_json_object raises.
Malformed(t) ==
  /\ t \in Calling
  /\ call' = [call EXCEPT ![t].state = "failed"]
  /\ spent' = spent + 1
  /\ UNCHANGED <<mode, threads, builder, collected, rows, tokens, exact>>

\* An error that is not worth a retry: _call turns it into a TeacherError.
RequestFails(t) ==
  /\ t \in Calling
  /\ call' = [call EXCEPT ![t].state = "failed"]
  /\ UNCHANGED <<mode, threads, builder, collected, rows, tokens, spent, exact>>

\* Mutant: one attempt too many.
LastAttemptLate(t) == call[t].attempts > MaxRetries + 1

LastAttempt(t) == call[t].attempts >= MaxRetries + 1

\* A rate limit, a connection error, a timeout: the request is made again.
Transient(t) ==
  /\ t \in Calling
  /\ call' = IF LastAttempt(t)
               THEN [call EXCEPT ![t].state = "failed"]
               ELSE [call EXCEPT ![t].attempts = @ + 1]
  /\ UNCHANGED <<mode, threads, builder, collected, rows, tokens, spent, exact>>

-----------------------------------------------------------------------------
(* The building thread.                                                    *)

\* Mutant: answers are collected as they come in.
CollectAny ==
  /\ builder = "collecting"
  /\ \E t \in Task :
       /\ call[t].state = "answered"
       /\ call' = [call EXCEPT ![t].state = "cancelled"]
       /\ rows' = rows \o call[t].rows
  /\ collected' = collected + 1
  /\ tokens' = tokens + 1
  /\ UNCHANGED <<mode, threads, builder, spent, exact>>

\* The answer to the next request is there.
Collect ==
  /\ builder = "collecting" /\ collected < Cardinality(Task)
  /\ LET t == collected + 1
     IN  /\ call[t].state = "answered"
         /\ rows' = rows \o call[t].rows
  /\ collected' = collected + 1
  /\ tokens' = tokens + 1
  /\ UNCHANGED <<mode, threads, call, builder, spent, exact>>

\* Mutant: the requests that have not begun are not cancelled.
CancelNone(t) == call[t]

Cancel(t) == IF call[t].state = "waiting" THEN [call[t] EXCEPT !.state = "cancelled"] ELSE call[t]

\* Mutant: nobody asks a request for its exception.
AbortNever == FALSE

\* The next request has failed: pool.map cancels what has not begun, and the
\* pool is left when the requests under way have come to an end.
Abort ==
  /\ builder = "collecting" /\ collected < Cardinality(Task)
  /\ call[collected + 1].state = "failed"
  /\ call' = [t \in Task |-> Cancel(t)]
  /\ builder' = "aborting"
  /\ UNCHANGED <<mode, threads, collected, rows, tokens, spent, exact>>

LeavePool ==
  /\ builder = "aborting" /\ Calling = {}
  /\ builder' = "failed"
  /\ UNCHANGED <<mode, threads, call, collected, rows, tokens, spent, exact>>

\* A generated corpus is cut to size; for labelling, the texts were.
Truncate(s) ==
  IF mode = "generate" /\ Len(s) > NumSamples THEN SubSeq(s, 1, NumSamples) ELSE s

\* Nothing generated is an error, nothing annotated is an empty corpus.
Finish ==
  /\ builder = "collecting" /\ collected = Cardinality(Task)
  /\ IF mode = "generate" /\ rows = <<>>
       THEN builder' = "failed" /\ UNCHANGED rows
       ELSE builder' = "done" /\ rows' = Truncate(rows)
  /\ UNCHANGED <<mode, threads, call, collected, tokens, spent, exact>>

PoolStep(t) ==
  Generate(t) \/ Annotate(t) \/ Malformed(t) \/ RequestFails(t) \/ Transient(t)

BuilderStep == Collect \/ Abort \/ LeavePool \/ Finish

BuildStep == (\E t \in Task : StartCall(t) \/ PoolStep(t)) \/ BuilderStep

-----------------------------------------------------------------------------
Ended == builder \in {"failed", "done"}

\* The corpus and its cost do not depend on the order in which the answers come
\* in: it is what the requests returned, in the order of the requests, cut to
\* size, full if the teacher does what it is asked; a labelled corpus has each
\* text at most once, in the order of the dataset; and the tokens are those of
\* all the responses, also of the ones that added nothing.
CorpusFollowsRequests ==
  builder = "done" =>
    LET full == IF mode = "generate" THEN NumSamples ELSE Cardinality(Texts)
    IN  /\ rows = SubSeq(FlattenSeq([t \in Task |-> call[t].rows]), 1, Len(rows))
        /\ Len(rows) <= full
        /\ mode = "generate" => rows # <<>>
        /\ exact => Len(rows) = full
        /\ mode = "label" =>
             /\ Len(rows) = Len(FlattenSeq([t \in Task |-> call[t].rows]))
             /\ \A i, j \in DOMAIN rows : i < j => rows[i].text < rows[j].text
        /\ tokens = spent

\* The teacher is never asked for more than the pool allows, and for nothing
\* once the build is over: at most max_concurrency requests are under way, those
\* behind them have not been made, and a build that has failed leaves none
\* behind, what had not begun is cancelled and what was under way has ended.
RequestsBounded ==
  /\ Cardinality(Calling) <= threads
  /\ \A t \in Task : \A u \in 1 .. t - 1 :
       call[t].state = "calling" => call[u].state # "waiting"
  /\ Ended => Calling = {}
  /\ builder # "collecting" => \A t \in Task : call[t].state # "waiting"
=============================================================================
