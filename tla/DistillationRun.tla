---------------------------- MODULE DistillationRun ----------------------------
(***************************************************************************)
(* A job configuration on its way through DefaultDistillationEngine.run    *)
(* (core/engine.py): validation (JobConfig), the models, the data, the     *)
(* strategy and its losses (core/models.py, core/strategies, losses.py),   *)
(* the training (DistillationTrainer) and the evaluation of the student    *)
(* against its teacher (core/evaluation.py).                               *)
(*                                                                         *)
(* Of a model only what a run can trip over is kept: its classes, layers   *)
(* and widths, and the tokens it can read.  Rows are the class ids that    *)
(* LabelResolution makes of the labels.                                    *)
(***************************************************************************)
EXTENDS DistillationTrainer, JobConfig, LayerMap

CONSTANTS Jobs,       \* the jobs to consider
          Checkpoint, \* what the pretrained models of the hub may look like
          Devices,    \* the accelerators of this host
          MaxShift    \* bound on how far a shuffled pass may be rotated

\* evaluated tells whether build_datasets finds an evaluation split.
JobType == [ spec : DistillationConfig, rows : Seq(Int), evaluated : BOOLEAN ]

\* A model and what its config object says of it, 0 if the name is not there.
ModelBundle ==
  [ labels    : Nat, layers : Nat, width : Nat,
    hidden    : Nat,   \* hidden_size as read
    numLayers : Nat,   \* num_hidden_layers as read
    vocab     : Nat, positions : Nat ]

CheckpointType ==
  [ layers : Nat, width : Nat, hidden : Nat, numLayers : Nat, vocab : Nat, positions : Nat ]

TrainingOf(j) ==
  [ batches  |-> CeilDiv(Len(j.rows), j.spec.training.batchSize),
    accum    |-> j.spec.training.accum,
    epochs   |-> j.spec.training.epochs,
    maxSteps |-> j.spec.training.maxSteps,
    patience |-> j.spec.training.patience,
    evalData |-> j.evaluated ]

\* A corpus of an LLM teacher only has classes of the student: StudentFitsCorpus
\* of DistillationEngine.
ASSUME RunAssumption ==
  /\ Jobs \subseteq JobType
  /\ \A j \in Jobs :
       /\ TrainingOf(j) \in Config
       /\ j.spec.strategy = "llm_teacher" =>
            /\ ~j.evaluated
            /\ \A i \in DOMAIN j.rows : j.rows[i] \in 0 .. j.spec.student.labels - 1
  /\ Checkpoint \subseteq CheckpointType
  /\ Devices \subseteq {"cuda", "mps"}
  /\ MaxShift \in Nat
  /\ NoModel \notin ModelBundle

VARIABLES job,         \* what was submitted
          stage,       \* what run does next
          student,     \* the bundle of the student
          teacher,     \* the bundle of the teacher
          layerMap,    \* FeatureDistillationLoss.layer_map
          foreign,     \* the rows with a token id the teacher has no embedding of
          evalForeign, \* whether the evaluation split has such a row
          order,       \* the order of the rows in this pass of the train loader
          studentRows, \* the rows behind the student's predictions, in their order
          teacherRows, \* the rows behind the teacher's
          failure      \* why the run has failed

setupVars == <<student, teacher, layerMap>>
tokenVars == <<foreign, evalForeign>>
passVars == <<order, studentRows, teacherRows>>
runVars == <<vars, job, stage, setupVars, tokenVars, passVars, failure>>

spec == job.spec
NoMap == [s \in {} |-> 0]

RunTypeOK ==
  /\ TypeOK
  /\ job \in Jobs
  /\ stage \in {"submitted", "rejected", "student", "corpus", "teacher", "data", "setup",
                "train", "failed"}
  /\ student \in ModelBundle \cup {NoModel}
  /\ teacher \in ModelBundle \cup {NoModel}
  /\ foreign \subseteq DOMAIN job.rows
  /\ evalForeign \in BOOLEAN
  /\ failure \subseteq {"device", "student", "teacher", "teacher missing", "llm missing",
                        "corpus", "data", "loss options", "layers unknown",
                        "positions", "tokens", "classes", "widths", "layer", "label"}

RunInit ==
  /\ job \in Jobs
  /\ config = TrainingOf(job)
  /\ Init
  /\ stage = "submitted"
  /\ student = NoModel /\ teacher = NoModel
  /\ layerMap = NoMap
  /\ foreign = {} /\ evalForeign = FALSE
  /\ order = <<>> /\ studentRows = <<>> /\ teacherRows = <<>>
  /\ failure = {}

-----------------------------------------------------------------------------
(* Before the training.                                                    *)

Fail(reasons) == stage' = "failed" /\ failure' = reasons

Validate ==
  /\ stage = "submitted"
  /\ stage' = IF Accepted(spec) THEN "student" ELSE "rejected"
  /\ UNCHANGED <<vars, job, setupVars, tokenVars, passVars, failure>>

\* resolve_device: "auto" always finds one.
DeviceThere(device) == device \in {"auto", "cpu"} \cup Devices

\* build_tiny_classifier; vocabularies are counted in units of the tiny one's.
Tiny(labels) ==
  [ labels |-> labels, layers |-> 2, width |-> 32, hidden |-> 32, numLayers |-> 2,
    vocab |-> 1, positions |-> 512 ]

Loaded(checkpoint, labels) ==
  [ labels |-> labels, layers |-> checkpoint.layers, width |-> checkpoint.width,
    hidden |-> checkpoint.hidden, numLayers |-> checkpoint.numLayers,
    vocab |-> checkpoint.vocab, positions |-> checkpoint.positions ]

\* build_model
Models(m) ==
  IF m.configOnly THEN {Tiny(m.labels)} ELSE {Loaded(c, m.labels) : c \in Checkpoint}

BuildStudent ==
  /\ stage = "student"
  /\ IF ~DeviceThere(spec.device)
       THEN Fail({"device"}) /\ UNCHANGED student
       ELSE \/ ~spec.student.configOnly /\ Fail({"student"}) /\ UNCHANGED student
            \/ /\ student' \in Models(spec.student)
               /\ stage' = IF spec.strategy = "llm_teacher" THEN "corpus" ELSE "teacher"
               /\ UNCHANGED failure
  /\ UNCHANGED <<vars, job, teacher, layerMap, tokenVars, passVars>>

\* _build_llm_dataset, in detail in DistillationEngine.
BuildCorpus ==
  /\ stage = "corpus"
  /\ IF spec.llmLabels = 0
       THEN Fail({"llm missing"})
       ELSE Fail({"corpus"}) \/ (stage' = "data" /\ UNCHANGED failure)
  /\ UNCHANGED <<vars, job, setupVars, tokenVars, passVars>>

BuildTeacher ==
  /\ stage = "teacher"
  /\ IF spec.teacher = NoModel
       THEN Fail({"teacher missing"}) /\ UNCHANGED teacher
       ELSE \/ ~spec.teacher.configOnly /\ Fail({"teacher"}) /\ UNCHANGED teacher
            \/ /\ teacher' \in Models(spec.teacher)
               /\ stage' = "data" /\ UNCHANGED failure
  /\ UNCHANGED <<vars, job, student, layerMap, tokenVars, passVars>>

\* Every text is tokenised by the student's tokenizer, whose ids its own table
\* has; which of those of a larger vocabulary occur is up to the texts.
LargerVocabulary == teacher # NoModel /\ student.vocab > teacher.vocab

\* The rows may be missing or unusable, in detail in LabelResolution.
PrepareData ==
  /\ stage = "data"
  /\ \/ Fail({"data"}) /\ UNCHANGED tokenVars
     \/ /\ stage' = "setup" /\ UNCHANGED failure
        /\ foreign' \in IF LargerVocabulary THEN SUBSET DOMAIN job.rows ELSE {{}}
        /\ evalForeign' \in IF LargerVocabulary /\ job.evaluated THEN BOOLEAN ELSE {FALSE}
  /\ UNCHANGED <<vars, job, setupVars, passVars>>

NeedsTeacher == spec.strategy # "llm_teacher"

\* ResponseDistillationLoss.__init__
LossOptionsValid == spec.kd.alpha \in 0..100 /\ spec.kd.temperature > 0

\* default_layer_map raises if a number of layers is not known.
LayersKnown == student.numLayers > 0 /\ teacher.numLayers > 0

Feature == spec.strategy = "feature_based"

MapOf(pairs) == [s \in {p[1] : p \in pairs} |-> (CHOOSE p \in pairs : p[1] = s)[2]]

ChosenMap ==
  IF spec.kd.layerMap # {} THEN MapOf(spec.kd.layerMap)
                           ELSE DefaultLayerMap(student.numLayers, teacher.numLayers)

\* build_strategy, the checks of train, and strategy.setup.
SetUpTrouble ==
  (IF NeedsTeacher /\ ~LossOptionsValid THEN {"loss options"} ELSE {})
    \cup (IF NeedsTeacher /\ teacher = NoModel THEN {"teacher missing"} ELSE {})

SetUp ==
  /\ stage = "setup"
  /\ IF SetUpTrouble # {}
       THEN Fail(SetUpTrouble) /\ UNCHANGED layerMap
       ELSE IF Feature /\ spec.kd.layerMap = {} /\ ~LayersKnown
              THEN Fail({"layers unknown"}) /\ UNCHANGED layerMap
              ELSE /\ stage' = "train" /\ UNCHANGED failure
                   /\ layerMap' = IF Feature THEN ChosenMap ELSE NoMap
  /\ UNCHANGED <<vars, job, student, teacher, tokenVars, passVars>>

-----------------------------------------------------------------------------
(* The training: the steps of DistillationTrainer, each batch through the  *)
(* loss of the strategy.                                                   *)

\* Of the orders a shuffled loader may give, the rotations by up to MaxShift.
Orders(n) ==
  {[i \in 1..n |-> ((i + k - 1) % n) + 1] : k \in 0 .. IF MaxShift < n THEN MaxShift ELSE n - 1}

BatchRows(b) ==
  LET size == spec.training.batchSize
  IN  {order[i] : i \in {k \in DOMAIN order : (b - 1) * size < k /\ k <= b * size}}

\* The label cross_entropy leaves out.
IgnoreIndex == -100

HasClass(label) == label = IgnoreIndex \/ label \in 0 .. student.labels - 1

HardTerm == spec.strategy = "llm_teacher" \/ spec.kd.alpha < 100

\* _tokenize pads every text to the length of the student's spec.
HasPositions(m) == spec.student.seqLength <= m.positions

\* A batch goes through the student and through its teacher.
BothHavePositions == HasPositions(student) /\ (NeedsTeacher => HasPositions(teacher))

\* An embedding table raises on an id it does not have.
TeacherReads(rows) == NeedsTeacher => rows \cap foreign = {}

\* soft_target_kl of the two logits.
SameClasses == student.labels = teacher.labels

\* FeatureDistillationLoss: identity if the sizes read are the same, or a
\* linear projection from one to the other.
WidthsMatch ==
  IF student.hidden = teacher.hidden
    THEN student.width = teacher.width
    ELSE student.hidden = student.width /\ teacher.hidden = teacher.width

\* Mutant: one past the end.
InHiddenStatesLoose(i, m) == -(m.layers + 1) <= i /\ i <= m.layers + 1

\* _check_index: a model has one hidden state more than layers.
InHiddenStates(i, m) == -(m.layers + 1) <= i /\ i < m.layers + 1

LayersMatch ==
  \A s \in DOMAIN layerMap : InHiddenStates(s, student) /\ InHiddenStates(layerMap[s], teacher)

\* What makes compute_loss raise on a batch.
LossTrouble(b) ==
  {t \in {"positions", "tokens", "classes", "widths", "layer", "label"} :
     \/ t = "positions" /\ ~BothHavePositions
     \/ t = "tokens" /\ ~TeacherReads(BatchRows(b))
     \/ t = "classes" /\ NeedsTeacher /\ ~SameClasses
     \/ t = "widths" /\ Feature /\ ~WidthsMatch
     \/ t = "layer" /\ Feature /\ ~LayersMatch
     \/ t = "label" /\ HardTerm /\ \E r \in BatchRows(b) : ~HasClass(job.rows[r])}

LossRaises ==
  /\ at = "trainBatch"
  /\ LossTrouble(batch + 1) # {}
  /\ Fail(LossTrouble(batch + 1))
  /\ UNCHANGED <<vars, passVars>>

\* An epoch begins with a pass of its own over the rows.
TrainStep ==
  /\ \/ BeginEpoch /\ order' \in Orders(Len(job.rows))
     \/ TrainBatch /\ LossTrouble(batch + 1) = {} /\ UNCHANGED order
     \/ (EndEpoch \/ (\E metric \in Metric : EvaluateEpoch(metric)) \/ Restore) /\ order' = <<>>
  /\ UNCHANGED <<stage, failure, studentRows, teacherRows>>

-----------------------------------------------------------------------------
(* The evaluation and the end of the run.                                  *)

\* evaluation_loader: the train loader shuffles anew on every pass.
PassOrders ==
  IF job.evaluated THEN {[i \in 1 .. Len(job.rows) |-> i]} ELSE Orders(Len(job.rows))

CollectStudent ==
  /\ at = "evaluate" /\ studentRows = <<>>
  /\ studentRows' \in PassOrders
  /\ UNCHANGED <<vars, stage, failure, order, teacherRows>>

\* Without an evaluation split the pass is over the rows of the training.
TeacherReadsEvaluation ==
  IF job.evaluated THEN ~evalForeign ELSE TeacherReads(DOMAIN job.rows)

EvaluationRaises ==
  /\ at = "evaluate" /\ studentRows # <<>>
  /\ ~TeacherReadsEvaluation
  /\ Fail({"tokens"})
  /\ UNCHANGED <<vars, passVars>>

CollectTeacher ==
  /\ at = "evaluate" /\ studentRows # <<>>
  /\ TeacherReadsEvaluation
  /\ IF teacher = NoModel THEN UNCHANGED teacherRows ELSE teacherRows' \in PassOrders
  /\ Evaluate
  /\ UNCHANGED <<stage, failure, order, studentRows>>

Train ==
  /\ stage = "train"
  /\ \/ LossRaises
     \/ TrainStep
     \/ CollectStudent
     \/ EvaluationRaises
     \/ CollectTeacher
     \/ Serialise /\ UNCHANGED <<stage, failure, passVars>>
  /\ UNCHANGED <<job, setupVars, tokenVars>>

RunNext ==
  Validate \/ BuildStudent \/ BuildCorpus \/ BuildTeacher \/ PrepareData \/ SetUp \/ Train

RunSpec == RunInit /\ [][RunNext]_runVars

-----------------------------------------------------------------------------
\* Whatever passed validation, the checks that the code leaves to it never
\* fire: no strategy misses its teacher or its LLM, no loss gets options it
\* refuses, and the logits of the two models have the same classes.  The checks
\* are spread over engine.py, trainer.py, the strategies and losses.py.
ValidationIsEnough ==
  failure \cap {"teacher missing", "llm missing", "loss options", "classes"} = {}

\* The layers the student imitates when the job does not name them: in order,
\* up to the last, and of a deeper teacher each the nearest.
LayersAligned ==
  stage = "train" /\ Feature /\ spec.kd.layerMap = {} =>
    Aligned(layerMap, student.numLayers, teacher.numLayers)

\* No max_steps breaks off the first pass over the rows.
Unbroken == config.maxSteps = 0 \/ config.maxSteps >= CeilDiv(config.batches, config.accum)

\* A student that was shipped could learn what it was given: both models have a
\* position for every token, every layer it imitates exists, its teacher knew
\* every token it was compared on, and of the rows it has a class for each, if the
\* true labels count and the first pass was not broken off.  A vocabulary larger
\* than the teacher's is no obstacle as long as the texts do not use it; a row
\* that does and that no batch reached still fails the run in the evaluation,
\* unless that has a split of its own.  Nothing compares the models and the data
\* before the training; the run has to fail instead.
OnlyCompatibleIsShipped ==
  at = "done" =>
    /\ BothHavePositions
    /\ Feature => \A s \in DOMAIN layerMap :
         s \in -1 - student.layers .. student.layers
           /\ layerMap[s] \in -1 - teacher.layers .. teacher.layers
    /\ ~evalForeign
    /\ Unbroken \/ ~job.evaluated => foreign = {}
    /\ HardTerm /\ Unbroken => \A i \in DOMAIN job.rows : HasClass(job.rows[i])

\* _build_scheduler
WarmupSteps == (spec.training.warmup * TotalSteps(config)) \div 100

\* The learning rate of get_linear_schedule_with_warmup is zero for the
\* optimizer step that comes after k others.
RateIsZero(k) == IF k < WarmupSteps THEN k = 0 ELSE k >= TotalSteps(config)

\* Every optimizer step moves the weights, except the first of a warm-up: the
\* schedule is not over before the steps the loops take.
EveryStepLearns ==
  \A k \in 0 .. step - 1 : RateIsZero(k) => k = 0 /\ WarmupSteps > 0

\* The agreement of the student with its teacher compares their predictions of
\* the same examples.
AgreementIsPerExample ==
  teacherRows # <<>> => studentRows = teacherRows
=============================================================================
