-------------------------- MODULE DistillationEngine --------------------------
(***************************************************************************)
(* How DefaultDistillationEngine.run comes to its data (core/engine.py):   *)
(* with an LLM teacher it has a corpus built first (LLMDataset), with any  *)
(* other it takes the dataset of the job; then the labels are resolved     *)
(* (LabelResolution) and the training begins (DistillationTrainer).        *)
(***************************************************************************)
EXTENDS LLMDataset, LabelResolution

CONSTANTS Strategy,  \* the strategies to consider: "llm", "kd"
          Datasets   \* the datasets a job without an LLM teacher may have

ASSUME EngineAssumption == Strategy \subseteq {"llm", "kd"} /\ Datasets \subseteq DatasetSpec

VARIABLES strategy,  \* config.strategy
          stage,     \* what run does next
          dataset,   \* dataset_spec
          bundle     \* what build_datasets has returned

engineVars == <<strategy, stage, dataset, bundle>>

vars == <<corpusVars, engineVars>>

NoDataset == [ train |-> <<>>, evaluated |-> FALSE, eval |-> <<>>, names |-> <<>>,
               maxTrain |-> 0, maxEval |-> 0 ]

\* The name of a label of the corpus as a raw label; words sort behind numerals.
NameOf(label) ==
  [ kind  |-> "str",
    value |-> 0,
    text  |-> 10 + Min({i \in DOMAIN Labels : Labels[i] = label} \cup {Len(Labels) + 1}) ]

\* The dataset that _build_llm_dataset makes of the rows.
CorpusDataset ==
  [NoDataset EXCEPT !.train = [i \in DOMAIN rows |-> NameOf(rows[i].label)],
                    !.names = [i \in DOMAIN Labels |-> NameOf(Labels[i]).text]]

EngineTypeOK ==
  /\ TypeOK
  /\ strategy \in Strategy
  /\ stage \in {"corpus", "data", "training", "failed"}
  /\ dataset \in DatasetSpec
  /\ bundle.train \in Seq(Int) /\ bundle.eval \in Seq(Int)

\* Without an LLM teacher its configuration plays no part.
EngineInit ==
  /\ Init
  /\ strategy \in Strategy
  /\ IF strategy = "llm"
       THEN stage = "corpus" /\ dataset = NoDataset
       ELSE /\ stage = "data" /\ dataset \in Datasets
            /\ <<mode, threads>> = CHOOSE c \in Mode \X Concurrency : TRUE
  /\ bundle = NoBundle

\* The builder raises, or the corpus is empty, which is an error here.
CorpusFails ==
  /\ stage = "corpus"
  /\ builder = "failed" \/ (builder = "done" /\ rows = <<>>)
  /\ stage' = "failed"
  /\ UNCHANGED <<corpusVars, strategy, dataset, bundle>>

CorpusReady ==
  /\ stage = "corpus" /\ builder = "done" /\ rows # <<>>
  /\ dataset' = CorpusDataset
  /\ stage' = "data"
  /\ UNCHANGED <<corpusVars, strategy, bundle>>

PrepareData ==
  /\ stage = "data"
  /\ bundle' = BuildDatasets(dataset)
  /\ stage' = IF bundle'.ok THEN "training" ELSE "failed"
  /\ UNCHANGED <<corpusVars, strategy, dataset>>

EngineStep == CorpusFails \/ CorpusReady \/ PrepareData

EngineNext == (stage = "corpus" /\ BuildStep /\ UNCHANGED engineVars) \/ EngineStep

EngineSpec == EngineInit /\ [][EngineNext]_vars

\* A request is answered or times out, and the threads go on.
EngineFairSpec ==
  /\ EngineSpec
  /\ \A t \in 1 .. Len(Labels) * RequestsPerLabel + NumTexts :
       /\ WF_vars(t \in Task /\ stage = "corpus" /\ StartCall(t) /\ UNCHANGED engineVars)
       /\ WF_vars(t \in Task /\ stage = "corpus" /\ PoolStep(t) /\ UNCHANGED engineVars)
  /\ WF_vars(stage = "corpus" /\ BuilderStep /\ UNCHANGED engineVars)
  /\ WF_vars(EngineStep)

-----------------------------------------------------------------------------
\* The preparation of the data comes to an end: retries are bounded, and a
\* request that fails is noticed even if the builder waits for an earlier one.
DataEnds == <>(stage \in {"training", "failed"})

\* Whatever the teacher answers, a corpus that was built can be trained on: the
\* run fails only if the build did or came to nothing, and every label resolves
\* to a class that the student has (the configuration requires
\* student.num_labels = len(llm.label_names)).
StudentFitsCorpus ==
  strategy = "llm" =>
    /\ stage = "failed" => builder = "failed" \/ rows = <<>>
    /\ stage = "training" =>
         /\ Len(bundle.train) = Len(rows)
         /\ \A i \in DOMAIN bundle.train : bundle.train[i] \in 0 .. Len(Labels) - 1

\* The classes of words do not depend on the order of the rows: they are
\* numbered from 0 without a gap, in the order of the words.
ClassesInOrder ==
  stage = "training" /\ dataset.names = <<>> =>
    LET train == Cut(dataset.train, dataset.maxTrain)
    IN  (\E i \in DOMAIN train : train[i].kind # "int") =>
          \A i \in DOMAIN train :
            bundle.train[i] = Cardinality({text \in TextsOf(train) : text < train[i].text})

\* A row means the same class in training and in evaluation, if the training
\* labels are of one kind, words or numbers, or the names were given.  (Negative
\* numbers alone leave the table empty, and the evaluation rows are then resolved
\* on their own; but no label is a class of the student then.)
SameClassInEvaluation ==
  LET train == Cut(dataset.train, dataset.maxTrain)
      eval  == Cut(dataset.eval, dataset.maxEval)
      kinds == {train[i].kind : i \in DOMAIN train}
  IN  stage = "training" /\ dataset.evaluated /\ bundle.names # <<>>
      /\ (dataset.names # <<>> \/ kinds \in {{"str"}, {"int"}}) =>
        \A i \in DOMAIN train : \A j \in DOMAIN eval :
          train[i] = eval[j] => bundle.train[i] = bundle.eval[j]
=============================================================================
