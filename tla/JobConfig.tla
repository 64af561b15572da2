------------------------------ MODULE JobConfig ------------------------------
(***************************************************************************)
(* A job configuration and its validation (domain/value_objects.py): the   *)
(* ranges of the fields, and _validate_strategy_consistency.  It stands    *)
(* between a request and every run; code behind it relies on what it says. *)
(*                                                                         *)
(* Ratios and weights are percentages, an option that is None is 0, and a  *)
(* model that is not given is NoModel.                                     *)
(***************************************************************************)
EXTENDS Integers, Sequences

CONSTANT NoModel

Strategies == {"response_based", "feature_based", "llm_teacher"}

ModelSpec ==
  [ labels     : Int,      \* num_labels
    seqLength  : Int,      \* max_seq_length
    configOnly : BOOLEAN ]

ASSUME ConfigAssumption == NoModel \notin ModelSpec

TrainingConfig ==
  [ batchSize : Int,       \* train_batch_size
    accum     : Int,       \* gradient_accumulation_steps
    epochs    : Int,
    maxSteps  : Int,
    patience  : Int,       \* early_stopping_patience
    warmup    : Int ]      \* warmup_ratio

KDHyperParams ==
  [ temperature   : Int,
    alpha         : Int,
    featureWeight : Int,                   \* feature_loss_weight
    layerMap      : SUBSET (Int \X Int) ]  \* feature_layer_map, student layer to teacher layer

DistillationConfig ==
  [ strategy    : Strategies,
    teacherType : {"huggingface", "llm"},
    student     : ModelSpec,
    teacher     : ModelSpec \cup {NoModel},
    llmLabels   : Nat,     \* the number of llm.label_names, 0 if llm is None
    sourced     : BOOLEAN, \* the dataset has its rows, or a reference to them
    training    : TrainingConfig,
    kd          : KDHyperParams,
    device      : {"auto", "cpu", "cuda", "mps"} ]

-----------------------------------------------------------------------------
MaxLabels == 100000
MaxLength == 8192
MaxBatchSize == 4096
MaxAccumulation == 1024
MaxTemperature == 10000 \* 100, of which a percent is a unit
MaxWeight == 10000

ModelInRange(m) == m.labels \in 1..MaxLabels /\ m.seqLength \in 8..MaxLength

TrainingInRange(t) ==
  /\ t.batchSize \in 1..MaxBatchSize /\ t.accum \in 1..MaxAccumulation /\ t.epochs \in 1..1000
  /\ t.maxSteps >= 0 /\ t.patience >= 0
  /\ t.warmup \in 0..100

KDInRange(kd) ==
  /\ kd.temperature \in 1..MaxTemperature
  /\ kd.alpha \in 0..100
  /\ kd.featureWeight \in 0..MaxWeight

InRange(c) ==
  /\ ModelInRange(c.student)
  /\ c.teacher # NoModel => ModelInRange(c.teacher)
  /\ TrainingInRange(c.training)
  /\ KDInRange(c.kd)
  /\ c.sourced

\* Mutant: who plays the teacher is not compared with the strategy's needs.
StrategyConsistentLoose(c) ==
  IF c.strategy = "llm_teacher"
    THEN c.teacherType = "llm" /\ c.student.labels = c.llmLabels
    ELSE c.teacherType = "huggingface" /\ (c.teacher # NoModel => c.teacher.labels = c.student.labels)

\* _validate_strategy_consistency
StrategyConsistent(c) ==
  /\ IF c.strategy = "llm_teacher"
       THEN /\ c.teacherType = "llm"
            /\ c.llmLabels # 0
            /\ c.student.labels = c.llmLabels
       ELSE /\ c.teacherType = "huggingface"
            /\ c.teacher # NoModel
            /\ c.teacher.labels = c.student.labels
  /\ c.strategy = "feature_based" => c.kd.featureWeight > 0

Accepted(c) == InRange(c) /\ StrategyConsistent(c)
=============================================================================
