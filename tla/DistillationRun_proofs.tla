------------------------ MODULE DistillationRun_proofs ------------------------
(***************************************************************************)
(* Proofs about DistillationRun for every job and every pretrained model:  *)
(* that the training within a run is DistillationTrainer, so that what is  *)
(* proved of the training holds of the run; that validation makes the      *)
(* later checks of the code superfluous; that the default layer map is     *)
(* aligned for every number of layers; and that no step is taken after the *)
(* schedule has ended.                                                     *)
(***************************************************************************)
EXTENDS DistillationRun, DistillationTrainer_proofs

-----------------------------------------------------------------------------
(* The training within the run.                                            *)

LEMMA TrainIsTrainer == Train => [Next]_vars
<1> SUFFICES ASSUME Train PROVE [Next]_vars
  OBVIOUS
<1>1. CASE LossRaises
  BY <1>1 DEF LossRaises
<1>2. CASE TrainStep
  BY <1>2 DEF TrainStep, Next
<1>3. CASE CollectStudent
  BY <1>3 DEF CollectStudent
<1>4. CASE CollectTeacher
  BY <1>4 DEF CollectTeacher, Next
<1>5. CASE Serialise
  BY <1>5 DEF Next
<1>6. CASE EvaluationRaises
  BY <1>6 DEF EvaluationRaises
<1> QED
  BY <1>1, <1>2, <1>3, <1>4, <1>5, <1>6 DEF Train

LEMMA StepIsTrainer == [RunNext]_runVars => [Next]_vars
<1> SUFFICES ASSUME [RunNext]_runVars PROVE [Next]_vars
  OBVIOUS
<1>1. CASE Validate \/ BuildStudent \/ BuildCorpus \/ BuildTeacher \/ PrepareData \/ SetUp
  BY <1>1 DEF Validate, BuildStudent, BuildCorpus, BuildTeacher, PrepareData, SetUp
<1>2. CASE Train
  BY <1>2, TrainIsTrainer
<1>3. CASE UNCHANGED runVars
  BY <1>3 DEF runVars
<1> QED
  BY <1>1, <1>2, <1>3 DEF RunNext

\* The steps of a run that touch the weights are those of the training loop: a
\* run is a training that may wait, and may be broken off.
THEOREM RunImplementsTrainer == RunSpec => Spec
<1>1. RunInit => Init
  BY DEF RunInit
<1> QED
  BY <1>1, StepIsTrainer, PTL DEF RunSpec, Spec

\* What a run ships is the first of the best evaluations and what its report
\* was measured on; it trains on every batch, as long as it should, and stops
\* when it should: whatever validation, models, data and losses are.
THEOREM RunsTrainAsProved ==
  RunSpec => [](NoGradientLost /\ RunsItsBudget /\ StopsWhenStale /\ ShippedIsBest)
  BY RunImplementsTrainer, GradientsAreApplied, TakesItsSteps, StopsInTime, ShipsTheBest, PTL

-----------------------------------------------------------------------------
(* The schedule.                                                           *)

\* No optimizer step but the first of a warm-up has a learning rate of zero, in
\* every run: the loops never take more steps than the schedule was made for.
THEOREM StepsLearn == RunSpec => []EveryStepLearns
<1>1. TypeInv /\ Taken => EveryStepLearns
  <2> SUFFICES ASSUME TypeInv, Taken, NEW k \in 0 .. step - 1, RateIsZero(k)
               PROVE  k = 0 /\ WarmupSteps > 0
    BY DEF EveryStepLearns
  <2>1. step <= TotalSteps(config) /\ step \in Nat /\ TotalSteps(config) \in Nat
    BY WithinSchedule
  <2>2. ~(k >= TotalSteps(config))
    BY <2>1
  <2>3. k < WarmupSteps /\ k = 0
    BY <2>2 DEF RateIsZero
  <2> QED
    BY <2>3
<1> QED
  BY <1>1, RunImplementsTrainer, Typed, TakenAlways, PTL

-----------------------------------------------------------------------------
(* The default layer map.                                                  *)

\* Rounding is off by half at most, and exact where there is nothing to round.
LEMMA Rounded ==
  ASSUME NEW a \in Nat, NEW b \in Nat \ {0}
  PROVE  /\ Round(a, b) \in Nat
         /\ 2 * (b * Round(a, b)) - 2 * a \in -b .. b
<1> DEFINE q == a \div b
           r == a % b
<1>1. q \in Nat /\ r \in 0 .. b - 1 /\ a = b * q + r
  BY Division
<1> HIDE DEF q, r
<1>2. /\ Round(a, b) = q \/ Round(a, b) = q + 1
      /\ Round(a, b) = q => 2 * r <= b
      /\ Round(a, b) = q + 1 => 2 * r >= b
  BY <1>1 DEF Round, q, r
<1>3. CASE Round(a, b) = q
  BY <1>1, <1>2, <1>3
<1>4. CASE Round(a, b) = q + 1
  <2>1. b * (q + 1) = b * q + b
    BY <1>1
  <2> QED
    BY <1>1, <1>2, <1>4, <2>1
<1> QED
  BY <1>2, <1>3, <1>4

\* Of the places of a layer and the next one, before they are clamped.
LEMMA Places ==
  ASSUME NEW S \in Nat \ {0}, NEW T \in Nat \ {0}, NEW s \in 1..S
  PROVE  LET r == Round(s * T, S) IN
         /\ r \in Nat /\ 2 * (S * r) - 2 * (s * T) \in -S .. S
         /\ S <= T => r \in 1..T
         /\ s = S => r = T
<1> DEFINE r == Round(s * T, S)
<1>1. s * T \in Nat
  OBVIOUS
<1>2. r \in Nat /\ 2 * (S * r) - 2 * (s * T) \in -S .. S
  BY <1>1, Rounded
<1> HIDE DEF r
<1>3. T <= s * T /\ s * T <= S * T /\ S * T \in Nat /\ S * r \in Nat
  BY <1>2
<1>4. ASSUME S <= T PROVE r \in 1..T
  <2>1. r # 0
    BY <1>2, <1>3, <1>4
  <2>2. CASE r >= T + 1
    <3>1. S * r >= S * (T + 1) /\ S * (T + 1) = S * T + S
      BY <1>2, <2>2
    <3> QED
      BY <1>2, <1>3, <3>1
  <2> QED
    BY <1>2, <2>1, <2>2
<1>5. ASSUME s = S PROVE r = T
  <2>1. CASE r >= T + 1
    <3>1. S * r >= S * (T + 1) /\ S * (T + 1) = S * T + S
      BY <1>2, <2>1
    <3> QED
      BY <1>2, <1>3, <1>5, <3>1
  <2>2. CASE r + 1 <= T
    <3>1. S * T >= S * (r + 1) /\ S * (r + 1) = S * r + S
      BY <1>2, <2>2
    <3> QED
      BY <1>2, <1>3, <1>5, <3>1
  <2> QED
    BY <1>2, <2>1, <2>2
<1> QED
  BY <1>2, <1>4, <1>5 DEF r

\* A later layer has a later place, if there are places enough.
LEMMA PlacesGrow ==
  ASSUME NEW S \in Nat \ {0}, NEW T \in Nat \ {0}, NEW s \in 1 .. S - 1
  PROVE  /\ Round(s * T, S) <= Round((s + 1) * T, S)
         /\ S <= T => Round(s * T, S) < Round((s + 1) * T, S)
<1> DEFINE r == Round(s * T, S)
           u == Round((s + 1) * T, S)
<1>1. s \in 1..S /\ s + 1 \in 1..S
  OBVIOUS
<1>2. /\ r \in Nat /\ 2 * (S * r) - 2 * (s * T) \in -S .. S
      /\ u \in Nat /\ 2 * (S * u) - 2 * ((s + 1) * T) \in -S .. S
  BY <1>1, Places
<1> HIDE DEF r, u
<1>3. /\ (s + 1) * T = s * T + T /\ s * T \in Nat
      /\ S * r \in Nat /\ S * u \in Nat
  BY <1>2
<1>4. ~(r >= u + 1)
  <2>1. SUFFICES ASSUME r >= u + 1 PROVE FALSE
    OBVIOUS
  <2>2. S * r >= S * (u + 1) /\ S * (u + 1) = S * u + S
    BY <1>2, <2>1
  <2> QED
    BY <1>2, <1>3, <2>2
<1>5. ASSUME S <= T, r = u PROVE FALSE
  <2>1. S * r = S * u
    BY <1>5
  <2>2. S = T
    BY <1>2, <1>3, <1>5, <2>1
  <2> DEFINE d == r - s
  <2>3. d \in Int /\ S * r = S * s + S * d /\ s * T = S * s /\ S * s \in Nat /\ S * d \in Int
    BY <1>2, <2>2
  <2>4. 2 * (S * d) \in -S .. S /\ 2 * (S * d) - 2 * S \in -S .. S
    BY <1>2, <1>3, <2>1, <2>2, <2>3
  <2> HIDE DEF d
  <2>5. d <= 0
    <3>1. SUFFICES ASSUME d >= 1 PROVE FALSE
      BY <2>3
    <3>2. S * d >= S
      BY <2>3, <3>1
    <3> QED
      BY <2>3, <2>4, <3>2
  <2>6. S * d <= 0
    BY <2>3, <2>5
  <2> QED
    BY <2>3, <2>4, <2>6
<1> QED
  BY <1>2, <1>4, <1>5 DEF r, u

\* default_layer_map is right for every number of student and teacher layers:
\* the last layer imitates the last, the order is kept, no teacher layer is
\* given out twice if there are enough, and each is the nearest to its place.
THEOREM DefaultMapAligned ==
  ASSUME NEW S \in Nat \ {0}, NEW T \in Nat \ {0}
  PROVE  Aligned(DefaultLayerMap(S, T), S, T)
<1> DEFINE map == DefaultLayerMap(S, T)
           r(s) == Round(s * T, S)
<1>1. /\ DOMAIN map = 1..S
      /\ \A s \in 1..S : map[s] = IF r(s) < 1 THEN 1 ELSE IF r(s) > T THEN T ELSE r(s)
  BY DEF DefaultLayerMap, TeacherLayer
<1>2. \A s \in 1..S : /\ r(s) \in Nat /\ 2 * (S * r(s)) - 2 * (s * T) \in -S .. S
                      /\ S <= T => r(s) \in 1..T
                      /\ s = S => r(s) = T
  BY Places
<1>3. \A s \in 1 .. S - 1 : r(s) <= r(s + 1) /\ (S <= T => r(s) < r(s + 1))
  BY PlacesGrow
<1> HIDE DEF map, r
<1>a. \A s \in 1..S : r(s) \in Nat /\ (S <= T => r(s) \in 1..T)
  BY <1>2
<1>4. ASSUME NEW s \in 1..S PROVE map[s] \in 1..T
  <2>1. map[s] = IF r(s) < 1 THEN 1 ELSE IF r(s) > T THEN T ELSE r(s)
    BY <1>1
  <2>2. r(s) \in Nat
    BY <1>a
  <2> QED
    BY <2>1, <2>2
<1>5. map[S] = T
  BY <1>1, <1>2
<1>6. ASSUME NEW s \in 1 .. S - 1 PROVE IF S <= T THEN map[s] < map[s + 1] ELSE map[s] <= map[s + 1]
  <2>1. s \in 1..S /\ s + 1 \in 1..S
    OBVIOUS
  <2>2. /\ map[s] = IF r(s) < 1 THEN 1 ELSE IF r(s) > T THEN T ELSE r(s)
        /\ map[s + 1] = IF r(s + 1) < 1 THEN 1 ELSE IF r(s + 1) > T THEN T ELSE r(s + 1)
    BY <1>1, <2>1
  <2>3. /\ r(s) \in Nat /\ r(s + 1) \in Nat
        /\ S <= T => r(s) \in 1..T /\ r(s + 1) \in 1..T
        /\ r(s) <= r(s + 1) /\ (S <= T => r(s) < r(s + 1))
    BY <1>3, <1>a, <2>1
  <2> QED
    BY <2>2, <2>3
<1>7. ASSUME S <= T, NEW s \in 1..S
      PROVE  LET d == S * map[s] - s * T IN 2 * d <= S /\ -S <= 2 * d
  <2>1. map[s] = r(s) /\ r(s) \in Nat
    <3>1. map[s] = IF r(s) < 1 THEN 1 ELSE IF r(s) > T THEN T ELSE r(s)
      BY <1>1
    <3>2. r(s) \in 1..T
      BY <1>7, <1>a
    <3> QED
      BY <3>1, <3>2
  <2>2. 2 * (S * r(s)) - 2 * (s * T) \in -S .. S
    BY <1>2
  <2>3. S * map[s] \in Nat /\ s * T \in Nat /\ S * map[s] = S * r(s)
    BY <2>1
  <2> QED
    BY <2>2, <2>3
<1> QED
  BY <1>1, <1>4, <1>5, <1>6, <1>7 DEF Aligned, map

-----------------------------------------------------------------------------
(* What a run knows of its job and its models.                             *)

\* After validation a job is as it should be, and every model that was built
\* has the classes it was asked for.
Prepared ==
  /\ job \in Jobs
  /\ stage \in {"submitted", "rejected", "student", "corpus", "teacher", "data", "setup",
                "train", "failed"}
  /\ stage \notin {"submitted", "rejected"} => Accepted(spec)
  /\ stage = "corpus" => ~NeedsTeacher
  /\ stage = "teacher" => NeedsTeacher
  /\ student = NoModel \/ (student \in ModelBundle /\ student.labels = spec.student.labels)
  /\ teacher = NoModel \/ (/\ teacher \in ModelBundle /\ NeedsTeacher /\ spec.teacher # NoModel
                           /\ teacher.labels = spec.teacher.labels)
  /\ stage \in {"corpus", "teacher", "data", "setup", "train"} => student # NoModel
  /\ stage \in {"data", "setup", "train"} /\ NeedsTeacher => teacher # NoModel

\* What a run may fail for.
Reasons == {"device", "student", "teacher", "corpus", "data", "layers unknown",
            "positions", "tokens", "widths", "layer", "label"}

Mapped ==
  stage = "train" /\ Feature /\ spec.kd.layerMap = {} =>
    LayersKnown /\ layerMap = DefaultLayerMap(student.numLayers, teacher.numLayers)

RunInv == Prepared /\ failure \subseteq Reasons /\ Mapped

LEMMA AcceptedMeans ==
  ASSUME job \in Jobs, Accepted(spec)
  PROVE  /\ spec.student \in ModelSpec /\ spec.student.labels \in Nat
         /\ spec.teacher # NoModel => spec.teacher \in ModelSpec /\ spec.teacher.labels \in Nat
         /\ NeedsTeacher => /\ spec.teacher # NoModel
                            /\ spec.teacher.labels = spec.student.labels
                            /\ LossOptionsValid
         /\ ~NeedsTeacher => spec.llmLabels # 0
<1>1. spec \in DistillationConfig
  BY RunAssumption DEF JobType, spec
<1>2. spec.student \in ModelSpec /\ spec.teacher \in ModelSpec \cup {NoModel}
      /\ spec.kd \in KDHyperParams
  BY <1>1 DEF DistillationConfig
<1>3. InRange(spec) /\ StrategyConsistent(spec)
  BY DEF Accepted
<1>4. spec.student.labels \in Nat /\ (spec.teacher # NoModel => spec.teacher.labels \in Nat)
  <2>1. ModelInRange(spec.student) /\ (spec.teacher # NoModel => ModelInRange(spec.teacher))
    BY <1>3 DEF InRange
  <2>2. spec.student.labels \in 1..MaxLabels
        /\ (spec.teacher # NoModel => spec.teacher.labels \in 1..MaxLabels)
    BY <2>1 DEF ModelInRange
  <2> QED
    BY <2>2
<1>5. LossOptionsValid
  <2>1. KDInRange(spec.kd)
    BY <1>3 DEF InRange
  <2>2. spec.kd.temperature \in 1..MaxTemperature /\ spec.kd.alpha \in 0..100
    BY <2>1 DEF KDInRange
  <2> QED
    BY <2>2 DEF LossOptionsValid
<1>6. NeedsTeacher => spec.teacher # NoModel /\ spec.teacher.labels = spec.student.labels
  BY <1>3 DEF StrategyConsistent, NeedsTeacher
<1>7. ~NeedsTeacher => spec.llmLabels # 0
  BY <1>3 DEF StrategyConsistent, NeedsTeacher
<1> QED
  BY <1>2, <1>4, <1>5, <1>6, <1>7

LEMMA ModelTyped ==
  ASSUME NEW m \in ModelSpec, m.labels \in Nat, NEW b \in Models(m)
  PROVE  b \in ModelBundle /\ b.labels = m.labels
<1>1. CASE m.configOnly
  BY <1>1 DEF Models, Tiny, ModelBundle
<1>2. CASE ~m.configOnly
  <2>1. PICK c \in Checkpoint : b = Loaded(c, m.labels)
    BY <1>2 DEF Models
  <2>2. c \in CheckpointType
    BY RunAssumption
  <2> QED
    BY <2>1, <2>2 DEF Loaded, CheckpointType, ModelBundle
<1> QED
  BY <1>1, <1>2

LEMMA RunInvInit == RunInit => RunInv
<1> SUFFICES ASSUME RunInit PROVE RunInv
  OBVIOUS
<1> QED
  BY DEF RunInit, RunInv, Prepared, Mapped

LEMMA RunInvStep == RunInv /\ [RunNext]_runVars => RunInv'
<1> SUFFICES ASSUME RunInv, [RunNext]_runVars PROVE RunInv'
  OBVIOUS
<1>0. Prepared /\ failure \subseteq Reasons
  BY DEF RunInv
<1>j. stage # "submitted" /\ stage # "rejected" =>
        /\ spec.student \in ModelSpec /\ spec.student.labels \in Nat
        /\ spec.teacher # NoModel => spec.teacher \in ModelSpec /\ spec.teacher.labels \in Nat
        /\ NeedsTeacher => /\ spec.teacher # NoModel
                           /\ spec.teacher.labels = spec.student.labels
                           /\ LossOptionsValid
        /\ ~NeedsTeacher => spec.llmLabels # 0
  BY <1>0, AcceptedMeans DEF Prepared
<1> USE DEF NeedsTeacher, Feature
<1>1. CASE Validate
  BY <1>0, <1>1 DEF Validate, RunInv, Prepared, Mapped, setupVars, spec
<1>2. CASE BuildStudent
  <2>1. stage = "student" /\ job' = job /\ teacher' = teacher /\ layerMap' = layerMap
    BY <1>2 DEF BuildStudent
  <2>2. CASE stage' = "failed"
    <3>1. student' = student /\ failure' \subseteq Reasons
      BY <1>2, <2>2 DEF BuildStudent, Fail, Reasons
    <3> QED
      BY <1>0, <2>1, <2>2, <3>1 DEF RunInv, Prepared, Mapped, spec
  <2>3. CASE stage' # "failed"
    <3>1. /\ student' \in Models(spec.student) /\ failure' = failure
          /\ stage' = IF spec.strategy = "llm_teacher" THEN "corpus" ELSE "teacher"
      BY <1>2, <2>3 DEF BuildStudent, Fail
    <3>2. student' \in ModelBundle /\ student'.labels = spec.student.labels
      BY <1>j, <2>1, <3>1, ModelTyped
    <3>3. student' # NoModel
      BY <3>2, RunAssumption
    <3> QED
      BY <1>0, <2>1, <3>1, <3>2, <3>3 DEF RunInv, Prepared, Mapped, spec
  <2> QED
    BY <2>2, <2>3
<1>3. CASE BuildCorpus
  <2>1. stage = "corpus" /\ UNCHANGED <<job, student, teacher, layerMap>>
    BY <1>3 DEF BuildCorpus, setupVars
  <2>2. ~NeedsTeacher /\ spec.llmLabels # 0
    BY <1>0, <1>j, <2>1 DEF Prepared
  <2>3. (stage' = "failed" \/ stage' = "data") /\ failure' \subseteq Reasons
    BY <1>0, <1>3, <2>2 DEF BuildCorpus, Fail, Reasons
  <2> QED
    BY <1>0, <2>1, <2>2, <2>3 DEF RunInv, Prepared, Mapped, spec
<1>4. CASE BuildTeacher
  <2>1. stage = "teacher" /\ UNCHANGED <<job, student, layerMap>>
    BY <1>4 DEF BuildTeacher
  <2>2. NeedsTeacher /\ spec.teacher # NoModel
    BY <1>0, <1>j, <2>1 DEF Prepared
  <2>3. CASE stage' = "failed"
    <3>1. teacher' = teacher /\ failure' \subseteq Reasons
      BY <1>4, <2>2, <2>3 DEF BuildTeacher, Fail, Reasons
    <3> QED
      BY <1>0, <2>1, <2>3, <3>1 DEF RunInv, Prepared, Mapped, spec
  <2>4. CASE stage' # "failed"
    <3>1. teacher' \in Models(spec.teacher) /\ failure' = failure /\ stage' = "data"
      BY <1>4, <2>2, <2>4 DEF BuildTeacher, Fail
    <3>2. teacher' \in ModelBundle /\ teacher'.labels = spec.teacher.labels
      BY <1>j, <2>1, <2>2, <3>1, ModelTyped
    <3>3. teacher' # NoModel
      BY <3>2, RunAssumption
    <3> QED
      BY <1>0, <2>1, <2>2, <3>1, <3>2, <3>3 DEF RunInv, Prepared, Mapped, spec
  <2> QED
    BY <2>3, <2>4
<1>5. CASE PrepareData
  <2>1. /\ stage = "data" /\ (stage' = "failed" \/ stage' = "setup")
        /\ failure' \subseteq Reasons /\ UNCHANGED <<job, student, teacher, layerMap>>
    BY <1>0, <1>5 DEF PrepareData, Fail, Reasons, setupVars
  <2> QED
    BY <1>0, <2>1 DEF RunInv, Prepared, Mapped, spec
<1>6. CASE SetUp
  <2>1. stage = "setup" /\ UNCHANGED <<job, student, teacher>>
    BY <1>6 DEF SetUp
  <2>2. SetUpTrouble = {}
    BY <1>0, <1>j, <2>1 DEF SetUpTrouble, Prepared
  <2>3. \/ stage' = "failed" /\ failure' \subseteq Reasons
        \/ /\ stage' = "train" /\ failure' = failure
           /\ Feature /\ spec.kd.layerMap = {} => LayersKnown
           /\ layerMap' = IF Feature THEN ChosenMap ELSE NoMap
    BY <1>6, <2>2 DEF SetUp, Fail, Reasons
  <2>4. Prepared' /\ failure' \subseteq Reasons
    BY <1>0, <2>1, <2>3 DEF Prepared, spec
  <2>5. Mapped'
    BY <2>1, <2>3 DEF Mapped, ChosenMap, LayersKnown, spec
  <2> QED
    BY <2>4, <2>5 DEF RunInv
<1>7. CASE Train
  <2>1. stage = "train" /\ UNCHANGED <<job, student, teacher, layerMap>>
    BY <1>7 DEF Train, setupVars
  <2>2. student \in ModelBundle /\ NeedsTeacher => student.labels = teacher.labels
    BY <1>0, <1>j, <2>1 DEF Prepared
  <2>3. (stage' = "failed" /\ failure' \subseteq Reasons) \/ UNCHANGED <<stage, failure>>
    <3>1. CASE LossRaises
      <4>1. stage' = "failed" /\ failure' = LossTrouble(batch + 1)
        BY <3>1 DEF LossRaises, Fail
      <4>2. NeedsTeacher => student.labels = teacher.labels
        BY <1>0, <1>j, <2>1 DEF Prepared
      <4>3. LossTrouble(batch + 1) \subseteq Reasons
        <5> SUFFICES ASSUME NEW t \in LossTrouble(batch + 1) PROVE t \in Reasons
          OBVIOUS
        <5>1. t \in {"positions", "tokens", "classes", "widths", "layer", "label"}
          BY DEF LossTrouble
        <5>2. t # "classes"
          BY <4>2 DEF LossTrouble, SameClasses
        <5> QED
          BY <4>2, <5>1, <5>2 DEF Reasons
      <4> QED
        BY <4>1, <4>3
    <3>2. CASE EvaluationRaises
      BY <3>2 DEF EvaluationRaises, Fail, Reasons
    <3>3. CASE ~LossRaises /\ ~EvaluationRaises
      BY <1>7, <3>3 DEF Train, TrainStep, CollectStudent, CollectTeacher
    <3> QED
      BY <3>1, <3>2, <3>3
  <2>4. Prepared' /\ failure' \subseteq Reasons
    BY <1>0, <2>1, <2>3 DEF Prepared, spec
  <2>5. Mapped'
    BY <2>1, <2>3 DEF RunInv, Mapped, LayersKnown, spec
  <2> QED
    BY <2>4, <2>5 DEF RunInv
<1>8. CASE UNCHANGED runVars
  BY <1>8 DEF runVars, setupVars, RunInv, Prepared, Mapped, LayersKnown, spec
<1> QED
  BY <1>1, <1>2, <1>3, <1>4, <1>5, <1>6, <1>7, <1>8 DEF RunNext

LEMMA RunInvAlways == RunSpec => []RunInv
  BY RunInvInit, RunInvStep, PTL DEF RunSpec

-----------------------------------------------------------------------------
(* Which tokens a run may meet.                                            *)

\* Only a teacher can miss a token, and only a split can hide one from training.
Tokened ==
  /\ foreign \subseteq DOMAIN job.rows
  /\ evalForeign \in BOOLEAN
  /\ foreign # {} => NeedsTeacher
  /\ evalForeign => job.evaluated

LEMMA TokenedStep == RunInv /\ Tokened /\ [RunNext]_runVars => Tokened'
<1> SUFFICES ASSUME RunInv, Tokened, [RunNext]_runVars PROVE Tokened'
  OBVIOUS
<1>1. job' = job
  BY DEF RunNext, runVars, Validate, BuildStudent, BuildCorpus, BuildTeacher, PrepareData, SetUp, Train
<1>2. CASE PrepareData /\ stage' = "setup"
  <2>1. /\ foreign' \in IF LargerVocabulary THEN SUBSET DOMAIN job.rows ELSE {{}}
        /\ evalForeign' \in IF LargerVocabulary /\ job.evaluated THEN BOOLEAN ELSE {FALSE}
    BY <1>2 DEF PrepareData, Fail
  <2>2. LargerVocabulary => NeedsTeacher
    BY DEF LargerVocabulary, RunInv, Prepared
  <2> QED
    BY <1>1, <2>1, <2>2 DEF Tokened, NeedsTeacher, spec
<1>3. CASE ~(PrepareData /\ stage' = "setup")
  <2>1. foreign' = foreign /\ evalForeign' = evalForeign
    BY <1>3 DEF RunNext, runVars, tokenVars, Validate, BuildStudent, BuildCorpus, BuildTeacher,
         PrepareData, SetUp, Train
  <2> QED
    BY <1>1, <2>1 DEF Tokened, NeedsTeacher, spec
<1> QED
  BY <1>2, <1>3

LEMMA TokenedAlways == RunSpec => []Tokened
<1>1. RunInit => Tokened
  BY DEF RunInit, Tokened
<1> QED
  BY <1>1, TokenedStep, RunInvAlways, PTL DEF RunSpec

\* The types of a run: no more of a model is known than that it has the classes
\* the job asks for.
THEOREM RunTypeCorrect == RunSpec => []RunTypeOK
<1>1. TypeOK /\ RunInv /\ Tokened => RunTypeOK
  BY DEF RunInv, Prepared, Reasons, Tokened, RunTypeOK
<1> QED
  BY <1>1, RunImplementsTrainer, TrainerTypeCorrect, RunInvAlways, TokenedAlways, PTL

\* For every job that passes validation, whatever the models turn out to be:
\* the checks behind it for a missing teacher, missing LLM settings, options
\* the losses refuse and logits of different classes never fire.
THEOREM ValidationSuffices == RunSpec => []ValidationIsEnough
<1>1. RunInv => ValidationIsEnough
  BY DEF RunInv, Reasons, ValidationIsEnough
<1> QED
  BY <1>1, RunInvAlways, PTL

\* Whatever depth two models have, a feature run that does not name its layers
\* trains with an aligned map.
THEOREM RunsAreAligned == RunSpec => []LayersAligned
<1>1. RunInv => LayersAligned
  <2> SUFFICES ASSUME RunInv, stage = "train", Feature, spec.kd.layerMap = {}
               PROVE  Aligned(layerMap, student.numLayers, teacher.numLayers)
    BY DEF LayersAligned
  <2>1. student \in ModelBundle /\ teacher \in ModelBundle
    BY DEF RunInv, Prepared, Feature, NeedsTeacher
  <2>2. student.numLayers \in Nat \ {0} /\ teacher.numLayers \in Nat \ {0}
    BY <2>1 DEF RunInv, Mapped, LayersKnown, ModelBundle
  <2> QED
    BY <2>2, DefaultMapAligned DEF RunInv, Mapped
<1> QED
  BY <1>1, RunInvAlways, PTL

-----------------------------------------------------------------------------
(* What is shipped could learn.                                            *)

\* The steps of train have begun, and gone through a batch.
Begun == epoch > 0 \/ at \notin {"beginEpoch", "trainBatch"}

Fits == BothHavePositions /\ (Feature => LayersMatch)

\* A row the models can be compared on: the teacher knows its tokens, and there
\* is a class for its label if that counts.
Usable(r) == (NeedsTeacher => r \notin foreign) /\ (HardTerm => HasClass(job.rows[r]))

AllUsable == \A r \in DOMAIN job.rows : Usable(r)

\* The rows up to a batch are usable.
UsableTo(n) == \A b \in 1..n : \A r \in BatchRows(b) : Usable(r)

Learnt ==
  /\ config = TrainingOf(job)
  /\ stage \notin {"train", "failed"} => at = "beginEpoch" /\ epoch = 0
  /\ stage = "failed" => at # "done"
  /\ Begun \/ (at = "trainBatch" /\ batch > 0) => Fits
  /\ at = "trainBatch" => order \in Orders(Len(job.rows))
  /\ at = "trainBatch" => UsableTo(batch)
  /\ Begun /\ Unbroken => AllUsable
  /\ at \in {"serialise", "done"} => TeacherReadsEvaluation

\* A rotation leaves no row out.
LEMMA RotationOnto ==
  ASSUME NEW n \in Nat, NEW o \in Orders(n), NEW r \in 1..n
  PROVE  \E i \in 1..n : o[i] = r /\ i \in DOMAIN o
<1>1. PICK k \in 0 .. IF MaxShift < n THEN MaxShift ELSE n - 1 :
        o = [i \in 1..n |-> ((i + k - 1) % n) + 1]
  BY DEF Orders
<1>2. k \in 0 .. n - 1 /\ n \in Nat \ {0}
  BY RunAssumption
<1>a. ASSUME NEW i \in 1..n, ((i + k - 1) % n) + 1 = r
      PROVE  \E j \in 1..n : o[j] = r /\ j \in DOMAIN o
  <2>1. o[i] = r /\ i \in DOMAIN o
    BY <1>1, <1>a
  <2> QED
    BY <2>1
<1>3. CASE r > k
  <2>1. r - k \in 1..n /\ (r - k) + k - 1 = r - 1 /\ r - 1 \in 0 .. n - 1
    BY <1>2, <1>3
  <2>2. (r - 1) % n = r - 1
    BY <1>2, <2>1
  <2>3. (((r - k) + k - 1) % n) + 1 = r
    BY <2>1, <2>2
  <2> QED
    BY <1>a, <2>1, <2>3
<1>4. CASE r <= k
  <2>1. (r - k) + n \in 1..n /\ ((r - k) + n) + k - 1 = n * 1 + (r - 1) /\ r - 1 \in 0 .. n - 1
    BY <1>2, <1>4
  <2>2. (n * 1 + (r - 1)) % n = r - 1
    <3> DEFINE x == n * 1 + (r - 1)
    <3>1. x \in Nat
      BY <1>2, <2>1
    <3>2. x = n * (x \div n) + (x % n) /\ x \div n \in Nat /\ x % n \in 0 .. n - 1
      BY <1>2, <3>1, Division
    <3>3. x = n * 1 + (r - 1)
      OBVIOUS
    <3> HIDE DEF x
    <3>4. r - 1 = x % n
      BY <1>2, <2>1, <3>2, <3>3, QuotientUnique
    <3> QED
      BY <3>3, <3>4
  <2>3. ((((r - k) + n) + k - 1) % n) + 1 = r
    BY <2>1, <2>2
  <2> QED
    BY <1>a, <2>1, <2>3
<1> QED
  BY <1>2, <1>3, <1>4

\* Every row is in one of the batches.
LEMMA BatchesCover ==
  ASSUME NEW n \in Nat, NEW size \in Nat \ {0}, NEW k \in 1..n
  PROVE  \E b \in 1 .. CeilDiv(n, size) : (b - 1) * size < k /\ k <= b * size
<1> DEFINE x == k + size - 1
           b == x \div size
<1>1. x \in Nat /\ n + size - 1 \in Nat /\ x <= n + size - 1
  OBVIOUS
<1>2. x = size * b + (x % size) /\ b \in Nat /\ x % size \in 0 .. size - 1
  BY <1>1, Division
<1>3. b <= CeilDiv(n, size) /\ CeilDiv(n, size) \in Nat
  BY <1>1, QuotientGrows, Division DEF CeilDiv
<1>4. k + size - 1 = size * b + (x % size)
  BY <1>2
<1> HIDE DEF x, b
<1>5. (b - 1) * size = size * b - size /\ b * size = size * b /\ size * b \in Nat
  BY <1>2
<1>6. b # 0
  <2>1. b = 0 => size * b = 0
    BY <1>2
  <2> QED
    BY <1>2, <1>4, <2>1
<1>7. b \in 1 .. CeilDiv(n, size)
  BY <1>2, <1>3, <1>6
<1>8. (b - 1) * size < k /\ k <= b * size
  BY <1>2, <1>4, <1>5
<1> QED
  BY <1>7, <1>8

LEMMA JobTyped ==
  ASSUME job \in Jobs
  PROVE  job.rows \in Seq(Int) /\ Len(job.rows) \in Nat /\ DOMAIN job.rows = 1 .. Len(job.rows)
  BY RunAssumption DEF JobType

LEMMA BatchSizeTyped ==
  ASSUME job \in Jobs, Accepted(spec)
  PROVE  spec.training.batchSize \in Nat \ {0}
<1>1. TrainingInRange(spec.training)
  BY DEF Accepted, InRange
<1>2. spec.training.batchSize \in 1..MaxBatchSize
  BY <1>1 DEF TrainingInRange
<1> QED
  BY <1>2

\* A pass over all batches is a pass over all rows.
LEMMA WholePass ==
  ASSUME RunInv, Learnt, stage = "train", at = "trainBatch",
         UsableTo(config.batches)
  PROVE  AllUsable
<1> DEFINE n == Len(job.rows)
           size == spec.training.batchSize
<1>1. job \in Jobs /\ Accepted(spec)
  BY DEF RunInv, Prepared
<1>2. n \in Nat /\ DOMAIN job.rows = 1..n /\ size \in Nat \ {0} /\ order \in Orders(n)
  BY <1>1, JobTyped, BatchSizeTyped DEF Learnt
<1>3. config.batches = CeilDiv(n, size)
  BY DEF Learnt, TrainingOf, spec
<1> SUFFICES ASSUME NEW i \in 1..n PROVE Usable(i)
  BY <1>2 DEF AllUsable
<1> HIDE DEF n, size
<1>4. PICK k \in 1..n : order[k] = i /\ k \in DOMAIN order
  BY <1>2, RotationOnto
<1>5. PICK b \in 1 .. CeilDiv(n, size) : (b - 1) * size < k /\ k <= b * size
  BY <1>2, BatchesCover
<1>6. i \in BatchRows(b)
  BY <1>4, <1>5 DEF BatchRows, size
<1> QED
  BY <1>3, <1>5, <1>6 DEF UsableTo

\* What the training leaves alone.
LEMMA TrainKeeps ==
  ASSUME UNCHANGED <<config, job, student, teacher, layerMap, foreign, evalForeign>>
  PROVE  /\ Fits' = Fits /\ Unbroken' = Unbroken
         /\ AllUsable' = AllUsable /\ \A r : Usable(r)' = Usable(r)
         /\ TeacherReadsEvaluation' = TeacherReadsEvaluation
         /\ TrainingOf(job)' = TrainingOf(job)
         /\ Orders(Len(job.rows))' = Orders(Len(job.rows))
<1>1. \A r : Usable(r)' = Usable(r)
  BY DEF Usable, NeedsTeacher, HardTerm, HasClass, spec
<1>2. AllUsable' = AllUsable
  BY DEF AllUsable, Usable, NeedsTeacher, HardTerm, HasClass, spec
<1>3. Fits' = Fits
  BY DEF Fits, BothHavePositions, HasPositions, NeedsTeacher, Feature, LayersMatch,
         InHiddenStates, spec
<1>4. TeacherReadsEvaluation' = TeacherReadsEvaluation
  BY DEF TeacherReadsEvaluation, TeacherReads, NeedsTeacher, spec
<1> QED
  BY <1>1, <1>2, <1>3, <1>4 DEF Unbroken, TrainingOf, Orders

\* A step of the training that neither begins an epoch nor takes a batch.
LEMMA LearntKept ==
  ASSUME Learnt, stage \in {"train", "failed"}, stage' \in {"train", "failed"},
         UNCHANGED <<config, job, student, teacher, layerMap, foreign, evalForeign>>,
         Begun' => Begun,
         stage' = "failed" => at' # "done",
         at' = "trainBatch" => at = "trainBatch" /\ UNCHANGED <<batch, order>>,
         at' \in {"serialise", "done"} => at \in {"serialise", "done"} \/ TeacherReadsEvaluation
  PROVE  Learnt'
<1>1. /\ Fits' = Fits /\ Unbroken' = Unbroken
      /\ AllUsable' = AllUsable /\ \A r : Usable(r)' = Usable(r)
      /\ TeacherReadsEvaluation' = TeacherReadsEvaluation
      /\ TrainingOf(job)' = TrainingOf(job)
      /\ Orders(Len(job.rows))' = Orders(Len(job.rows))
  BY TrainKeeps
<1>2. at' \in {"serialise", "done"} => TeacherReadsEvaluation'
  BY <1>1 DEF Learnt
<1>3. CASE at' = "trainBatch"
  <2>1. UsableTo(batch)' = UsableTo(batch)
    BY <1>1, <1>3 DEF UsableTo, BatchRows, spec
  <2> QED
    BY <1>1, <1>2, <1>3, <2>1 DEF Learnt
<1>4. CASE at' # "trainBatch"
  BY <1>1, <1>2, <1>4 DEF Learnt
<1> QED
  BY <1>3, <1>4

LEMMA LearntStep ==
  ASSUME TypeInv, Taken, RunInv, Learnt, [RunNext]_runVars
  PROVE  Learnt'
<1>0. job \in Jobs
  BY DEF RunInv, Prepared
<1>1. CASE Validate \/ BuildStudent \/ BuildCorpus \/ BuildTeacher \/ PrepareData \/ SetUp
  <2>1. stage \notin {"train", "failed"} /\ UNCHANGED <<vars, job>>
    BY <1>1 DEF Validate, BuildStudent, BuildCorpus, BuildTeacher, PrepareData, SetUp
  <2>2. at' = "beginEpoch" /\ epoch' = 0 /\ config' = TrainingOf(job)
    BY <2>1 DEF Learnt, vars
  <2>3. TrainingOf(job)' = TrainingOf(job)
    BY <2>1 DEF TrainingOf
  <2> QED
    BY <2>2, <2>3 DEF Learnt, Begun
<1>2. CASE Train
  <2>1. stage = "train" /\ UNCHANGED <<job, student, teacher, layerMap, foreign, evalForeign>>
    BY <1>2 DEF Train, setupVars, tokenVars
  <2>2. CASE LossRaises
    <3>1. UNCHANGED <<config, at, epoch, batch, order>> /\ stage' = "failed" /\ at = "trainBatch"
      BY <2>2 DEF LossRaises, Fail, vars, passVars
    <3> QED
      BY <2>1, <3>1, LearntKept DEF Begun
  <2>3. CASE TrainStep /\ BeginEpoch
    <3>1. /\ at = "beginEpoch" /\ at' = "trainBatch" /\ batch' = 0 /\ UNCHANGED <<config, epoch, stage>>
      BY <2>3 DEF TrainStep, BeginEpoch
    <3>2. order' \in Orders(Len(job.rows))
      BY <2>3, <3>1 DEF TrainStep, BeginEpoch, TrainBatch, EndEpoch, EvaluateEpoch, Restore
    <3>3. Begun' = Begun
      BY <3>1 DEF Begun
    <3>4. /\ Fits' = Fits /\ Unbroken' = Unbroken /\ AllUsable' = AllUsable
          /\ TrainingOf(job)' = TrainingOf(job)
          /\ Orders(Len(job.rows))' = Orders(Len(job.rows))
      BY <2>1, <3>1, TrainKeeps
    <3>6. UsableTo(batch)'
      BY <3>1 DEF UsableTo
    <3>7. config' = TrainingOf(job)' /\ stage' = "train"
      BY <2>1, <3>1, <3>4 DEF Learnt
    <3>8. (Begun' => Fits') /\ (Begun' /\ Unbroken' => AllUsable')
      BY <3>3, <3>4 DEF Learnt
    <3>9. ~(batch' > 0)
      BY <3>1
    <3> QED
      BY <3>1, <3>2, <3>4, <3>6, <3>7, <3>8, <3>9 DEF Learnt
  <2>4. CASE TrainStep /\ TrainBatch
    <3>1. /\ at = "trainBatch" /\ batch' = batch + 1 /\ UNCHANGED <<config, epoch, stage>>
          /\ at' \in {"trainBatch", "endEpoch"}
      BY <2>4 DEF TrainStep, TrainBatch
    <3>2. LossTrouble(batch + 1) = {} /\ order' = order
      BY <2>4, <3>1 DEF TrainStep, BeginEpoch, TrainBatch, EndEpoch, EvaluateEpoch, Restore
    <3>3. Fits
      <4>1. "positions" \notin LossTrouble(batch + 1) /\ "layer" \notin LossTrouble(batch + 1)
        BY <3>2
      <4> QED
        BY <4>1 DEF LossTrouble, Fits
    <3>4. \A r \in BatchRows(batch + 1) : Usable(r)
      <4>1. "label" \notin LossTrouble(batch + 1) /\ "tokens" \notin LossTrouble(batch + 1)
        BY <3>2
      <4>2. TeacherReads(BatchRows(batch + 1))
        BY <4>1 DEF LossTrouble
      <4>3. HardTerm => \A r \in BatchRows(batch + 1) : HasClass(job.rows[r])
        BY <4>1 DEF LossTrouble
      <4> QED
        BY <4>2, <4>3 DEF TeacherReads, Usable
    <3>5. batch \in Nat /\ batch < config.batches /\ config.batches \in Nat
          /\ config.accum \in Nat \ {0} /\ epoch \in Nat
      BY <3>1, ConfigTyped, Counters DEF TypeInv, TypeOK, Looping
    <3>6. UsableTo(batch + 1)
      <4>1. \A b \in 1 .. batch + 1 : b \in 1..batch \/ b = batch + 1
        BY <3>5
      <4> QED
        BY <3>1, <3>4, <4>1 DEF Learnt, UsableTo
    <3>7. Unbroken /\ at' = "endEpoch" => AllUsable
      <4> SUFFICES ASSUME Unbroken, at' = "endEpoch" PROVE AllUsable
        OBVIOUS
      <4>1. CASE epoch > 0
        BY <4>1 DEF Learnt, Begun
      <4>2. CASE batch + 1 = config.batches
        BY <2>1, <3>1, <3>6, <4>2, WholePass
      <4>3. CASE epoch = 0 /\ batch + 1 # config.batches
        <5>1. (batch + 1) % config.accum = 0 /\ LimitReached(step')
              /\ step' = step + 1
          BY <2>4, <4>3 DEF TrainBatch, IsStep
        <5>2. step = epoch * PerEpoch + (batch \div config.accum) /\ ~LimitReached(step)
          BY <3>1 DEF Taken
        <5>3. /\ (batch + 1) \div config.accum = (batch \div config.accum) + 1
              /\ batch \div config.accum \in Nat /\ PerEpoch \in Nat
          BY <3>5, <5>1, StepsOfBatches DEF PerEpoch
        <5>4. batch + 1 \in Nat /\ batch + 1 < config.batches
          BY <3>5, <4>3
        <5>5. PerEpoch >= ((batch + 1) \div config.accum) + 1
          BY <3>5, <5>4, StepsOfBatches DEF PerEpoch
        <5>6. step = batch \div config.accum
          BY <4>3, <5>2, <5>3
        <5>7. config.maxSteps # 0 /\ step' >= config.maxSteps /\ config.maxSteps \in Nat
          BY <5>1, ConfigTyped DEF LimitReached, TypeInv, TypeOK
        <5>8. config.maxSteps >= PerEpoch
          BY <5>7 DEF Unbroken, PerEpoch
        <5> QED
          BY <5>1, <5>3, <5>5, <5>6, <5>7, <5>8
      <4> QED
        BY <3>5, <4>1, <4>2, <4>3
    <3>8. /\ Fits' = Fits /\ Unbroken' = Unbroken
          /\ AllUsable' = AllUsable /\ \A r : Usable(r)' = Usable(r)
          /\ TrainingOf(job)' = TrainingOf(job)
          /\ Orders(Len(job.rows))' = Orders(Len(job.rows))
      BY <2>1, <3>1, TrainKeeps
    <3>9. UsableTo(batch)'
      BY <2>1, <3>1, <3>2, <3>6, <3>8 DEF UsableTo, BatchRows, spec
    <3>10. Begun' /\ Unbroken' => AllUsable'
      BY <3>1, <3>7, <3>8 DEF Learnt, Begun
    <3>11. config' = TrainingOf(job)' /\ stage' = "train"
           /\ (at' = "trainBatch" => order' \in Orders(Len(job.rows))')
      BY <2>1, <3>1, <3>2, <3>8 DEF Learnt
    <3> QED
      BY <3>1, <3>3, <3>8, <3>9, <3>10, <3>11 DEF Learnt
  <2>5. CASE TrainStep /\ ~BeginEpoch /\ ~TrainBatch
    <3>1. EndEpoch \/ (\E metric \in Metric : EvaluateEpoch(metric)) \/ Restore
      BY <2>5 DEF TrainStep
    <3>2. Begun /\ at' \notin {"trainBatch", "serialise", "done"} /\ config' = config
      BY <3>1 DEF EndEpoch, EvaluateEpoch, Restore, AfterEpoch, Begun
    <3>3. stage' = stage
      BY <2>5 DEF TrainStep
    <3> QED
      BY <2>1, <3>2, <3>3, LearntKept
  <2>6. CASE CollectStudent \/ CollectTeacher \/ Serialise
    <3>1. /\ Begun /\ at' # "trainBatch" /\ config' = config
          /\ at' \in {"serialise", "done"} => at \in {"serialise", "done"} \/ TeacherReadsEvaluation
      BY <2>6 DEF CollectStudent, CollectTeacher, Serialise, Evaluate, vars, Begun
    <3>2. stage' = stage
      BY <1>2, <2>6 DEF Train, LossRaises, EvaluationRaises, TrainStep, CollectStudent,
           CollectTeacher, Evaluate, Serialise, BeginEpoch, TrainBatch, EndEpoch, EvaluateEpoch, Restore
    <3> QED
      BY <2>1, <3>1, <3>2, LearntKept
  <2>7. CASE EvaluationRaises
    <3>1. UNCHANGED <<config, at, epoch, batch>> /\ stage' = "failed" /\ at = "evaluate"
      BY <2>7 DEF EvaluationRaises, Fail, vars
    <3> QED
      BY <2>1, <3>1, LearntKept DEF Begun
  <2> QED
    BY <1>2, <2>2, <2>3, <2>4, <2>5, <2>6, <2>7 DEF Train
<1>3. CASE UNCHANGED runVars
  <2>1. UNCHANGED <<config, at, epoch, batch, job, stage, student, teacher, layerMap, order,
                    foreign, evalForeign>>
    BY <1>3 DEF runVars, vars, setupVars, tokenVars, passVars
  <2>2. CASE stage \in {"train", "failed"}
    BY <2>1, <2>2, LearntKept DEF Begun, Learnt
  <2>3. CASE stage \notin {"train", "failed"}
    <3>1. TrainingOf(job)' = TrainingOf(job)
      BY <2>1 DEF TrainingOf
    <3> QED
      BY <2>1, <2>3, <3>1 DEF Learnt, Begun
  <2> QED
    BY <2>2, <2>3
<1> QED
  BY <1>1, <1>2, <1>3 DEF RunNext

\* The layers of a map are numbers.
LayersTyped == \A s \in DOMAIN layerMap : s \in Int /\ layerMap[s] \in Int

LEMMA LayersTypedStep == RunInv /\ LayersTyped /\ [RunNext]_runVars => LayersTyped'
<1> SUFFICES ASSUME RunInv, LayersTyped, [RunNext]_runVars PROVE LayersTyped'
  OBVIOUS
<1>1. CASE SetUp /\ Feature /\ stage' = "train"
  <2>1. layerMap' = ChosenMap
    BY <1>1 DEF SetUp, Fail
  <2>2. CASE spec.kd.layerMap # {}
    <3> DEFINE pairs == spec.kd.layerMap
    <3>1. pairs \in SUBSET (Int \X Int)
      BY RunAssumption DEF RunInv, Prepared, JobType, DistillationConfig, KDHyperParams, spec
    <3> HIDE DEF pairs
    <3>2. ASSUME NEW s \in {p[1] : p \in pairs}
          PROVE  s \in Int /\ (CHOOSE p \in pairs : p[1] = s)[2] \in Int
      <4>1. PICK p \in pairs : p[1] = s
        OBVIOUS
      <4>2. (CHOOSE q \in pairs : q[1] = s) \in pairs
        BY <4>1
      <4> QED
        BY <3>1, <4>1, <4>2
    <3>3. ChosenMap = [s \in {p[1] : p \in pairs} |-> (CHOOSE p \in pairs : p[1] = s)[2]]
      BY <2>2 DEF ChosenMap, MapOf, pairs
    <3> QED
      BY <2>1, <3>2, <3>3 DEF LayersTyped
  <2>3. CASE spec.kd.layerMap = {}
    <3>1. LayersKnown /\ stage = "setup"
      BY <1>1, <2>3 DEF SetUp, Fail
    <3>2. student \in ModelBundle /\ teacher \in ModelBundle
      BY <1>1, <3>1 DEF SetUp, SetUpTrouble, RunInv, Prepared, Feature, NeedsTeacher, Fail
    <3>3. student.numLayers \in Nat \ {0} /\ teacher.numLayers \in Nat \ {0}
      BY <3>1, <3>2 DEF LayersKnown, ModelBundle
    <3>4. layerMap' = DefaultLayerMap(student.numLayers, teacher.numLayers)
      BY <2>1, <2>3 DEF ChosenMap
    <3>5. Aligned(layerMap', student.numLayers, teacher.numLayers)
      BY <3>3, <3>4, DefaultMapAligned
    <3>6. /\ DOMAIN layerMap' = 1..student.numLayers
          /\ \A s \in 1..student.numLayers : layerMap'[s] \in 1..teacher.numLayers
      BY <3>5 DEF Aligned
    <3> QED
      BY <3>3, <3>6 DEF LayersTyped
  <2> QED
    BY <2>2, <2>3
<1>2. CASE SetUp /\ ~(Feature /\ stage' = "train")
  <2>1. layerMap' = layerMap \/ layerMap' = NoMap
    BY <1>2 DEF SetUp
  <2> QED
    BY <2>1 DEF LayersTyped, NoMap
<1>3. CASE ~SetUp
  <2>1. layerMap' = layerMap
    BY <1>3 DEF RunNext, runVars, setupVars, Validate, BuildStudent, BuildCorpus, BuildTeacher,
         PrepareData, Train
  <2> QED
    BY <2>1 DEF LayersTyped
<1> QED
  BY <1>1, <1>2, <1>3

\* Whatever the job, the models and the texts are, a student that was shipped
\* could learn what it was given: nothing compares the tokens, the layers and the
\* classes before the training, but a run that goes through a batch has compared
\* them, the first epoch goes through all rows unless a limit breaks it off, and
\* without an evaluation split the evaluation goes through all of them anyway.
THEOREM ShippedIsCompatible == RunSpec => []OnlyCompatibleIsShipped
<1>1. RunInit => Learnt
  BY DEF RunInit, Init, Learnt, Begun
<1>l. RunInit => LayersTyped
  BY DEF RunInit, LayersTyped, NoMap
<1>2. RunInv /\ Tokened /\ Learnt /\ LayersTyped => OnlyCompatibleIsShipped
  <2> SUFFICES ASSUME RunInv, Tokened, Learnt, LayersTyped, at = "done"
               PROVE  OnlyCompatibleIsShipped
    BY DEF OnlyCompatibleIsShipped
  <2>1. Begun
    BY DEF Begun
  <2>2. Fits /\ (Unbroken => AllUsable) /\ TeacherReadsEvaluation /\ stage = "train"
    BY <2>1 DEF Learnt
  <2>3. Feature => \A s \in DOMAIN layerMap : InHiddenStates(s, student)
                                              /\ InHiddenStates(layerMap[s], teacher)
    BY <2>2 DEF Fits, LayersMatch
  <2>4. ASSUME Feature, NEW s \in DOMAIN layerMap
        PROVE  s \in -1 - student.layers .. student.layers
                 /\ layerMap[s] \in -1 - teacher.layers .. teacher.layers
    <3>1. s \in Int /\ layerMap[s] \in Int
      BY DEF LayersTyped
    <3>2. NeedsTeacher
      BY <2>4 DEF Feature, NeedsTeacher
    <3>3. student.layers \in Nat /\ teacher.layers \in Nat
      BY <2>2, <3>2 DEF RunInv, Prepared, ModelBundle
    <3> QED
      BY <2>3, <2>4, <3>1, <3>3 DEF InHiddenStates
  <2>5. ~evalForeign
    BY <2>2 DEF Tokened, TeacherReadsEvaluation
  <2>6. AllUsable => foreign = {}
    BY DEF Tokened, AllUsable, Usable
  <2>7. ~job.evaluated => foreign = {}
    BY <2>2 DEF Tokened, TeacherReadsEvaluation, TeacherReads
  <2>8. HardTerm /\ AllUsable => \A i \in DOMAIN job.rows : HasClass(job.rows[i])
    BY DEF AllUsable, Usable
  <2> QED
    BY <2>2, <2>4, <2>5, <2>6, <2>7, <2>8 DEF OnlyCompatibleIsShipped, Fits
<1>3. TypeInv /\ Taken /\ RunInv /\ Learnt /\ [RunNext]_runVars => Learnt'
  BY LearntStep
<1> QED
  BY <1>1, <1>l, <1>2, <1>3, LayersTypedStep, RunInvAlways, TokenedAlways, RunImplementsTrainer,
     Typed, TakenAlways, PTL DEF RunSpec
=============================================================================
