---------------------- MODULE DistillationTrainer_proofs ----------------------
(***************************************************************************)
(* Proofs about DistillationTrainer for every configuration and every      *)
(* sequence of evaluations: the types, that no gradient is lost, that      *)
(* training stops when it should, and that what is shipped is the best.    *)
(***************************************************************************)
EXTENDS DistillationTrainer, TLAPS

Training == at \in {"beginEpoch", "trainBatch", "endEpoch"}

\* There is a batch to go on with, and an epoch.
Looping ==
  /\ at = "trainBatch" => batch < config.batches
  /\ Training => epoch < config.epochs

TypeInv == TypeOK /\ Looping

\* The first of the best evaluations was the last but waited.
Monitored ==
  IF scores = <<>>
    THEN best = NoScore /\ waited = 0
    ELSE /\ waited \in 0 .. Len(scores) - 1
         /\ best = scores[Len(scores) - waited]
         /\ best.metric \in Nat /\ best.weights \in Nat
         /\ \A k \in 1 .. Len(scores) : scores[k].metric \in Nat
         /\ \A k \in 1 .. Len(scores) : scores[k].metric <= best.metric
         /\ \A k \in 1 .. Len(scores) - waited - 1 : scores[k].metric < best.metric

Patient ==
  config.patience # 0 =>
    /\ Training => waited < config.patience
    /\ Trained /\ epoch < config.epochs /\ ~LimitReached(step) => waited >= config.patience

\* Which weights the student has, and which ones were measured and saved.
Followed ==
  /\ Training \/ at = "restore" => weights = step
  /\ at \in {"evaluate", "serialise", "done"} =>
       weights = IF best.weights # Unknown THEN best.weights ELSE step
  /\ at \in {"serialise", "done"} => report = weights
  /\ at = "done" => saved = weights

-----------------------------------------------------------------------------
(* Types.                                                                  *)

LEMMA ConfigTyped ==
  ASSUME config \in Config
  PROVE  /\ config.batches \in Nat \ {0} /\ config.accum \in Nat \ {0}
         /\ config.epochs \in Nat \ {0} /\ config.maxSteps \in Nat
         /\ config.patience \in Nat /\ config.evalData \in BOOLEAN
  BY TrainerAssumption DEF ConfigType

\* What TypeOK says of the counters, in numbers.
LEMMA Counters ==
  ASSUME TypeOK
  PROVE  /\ config.batches \in Nat \ {0} /\ config.epochs \in Nat \ {0} /\ config.patience \in Nat
         /\ epoch \in Nat /\ epoch <= config.epochs
         /\ batch \in Nat /\ batch <= config.batches
         /\ step \in Nat /\ weights \in Nat /\ waited \in Nat
<1>1. config.batches \in Nat \ {0} /\ config.epochs \in Nat \ {0} /\ config.patience \in Nat
  BY ConfigTyped DEF TypeOK
<1>2. epoch \in 0..config.epochs /\ batch \in 0..config.batches
  BY DEF TypeOK
<1>3. step \in Nat /\ weights \in Nat /\ waited \in Nat
  BY DEF TypeOK
<1> QED
  BY <1>1, <1>2, <1>3

LEMMA TypeInit == Init => TypeInv
<1> SUFFICES ASSUME Init PROVE TypeInv
  OBVIOUS
<1>1. config.batches \in Nat \ {0} /\ config.epochs \in Nat \ {0}
  BY ConfigTyped DEF Init
<1>2. best \in Score /\ scores \in Seq(Score)
  BY DEF Init, NoScore, Score
<1>3. /\ config \in Config /\ at = "beginEpoch" /\ mode = "train"
      /\ epoch = 0 /\ batch = 0 /\ step = 0 /\ weights = 0 /\ waited = 0
      /\ grads = {} /\ report = Unknown /\ saved = Unknown
  BY DEF Init
<1>4. epoch \in 0..config.epochs /\ epoch < config.epochs /\ batch \in 0..config.batches
  BY <1>1, <1>3
<1> QED
  BY <1>2, <1>3, <1>4 DEF TypeInv, TypeOK, Looping, Training

\* A score is kept and recorded as it was returned.
LEMMA ScoreTyped ==
  ASSUME TypeOK, NEW metric \in Metric, EvaluateEpoch(metric)
  PROVE  /\ best' \in Score
         /\ waited' \in Nat
         /\ scores' \in Seq(Score)
<1>1. [metric |-> metric, weights |-> weights] \in Score
  BY DEF TypeOK, Score
<1>2. best \in Score /\ waited \in Nat /\ scores \in Seq(Score)
  BY DEF TypeOK
<1>3. scores' = Append(scores, [metric |-> metric, weights |-> weights])
  BY DEF EvaluateEpoch
<1>4. /\ best' = best \/ best' = [metric |-> metric, weights |-> weights]
      /\ waited' = 0 \/ waited' = waited + 1
  BY DEF EvaluateEpoch, KeepBest
<1> QED
  BY <1>1, <1>2, <1>3, <1>4

\* After one more epoch there are epochs left, or training is over.
LEMMA EpochTyped ==
  ASSUME TypeInv, at = "endEpoch", config' = config, epoch' = epoch + 1,
         at' = "restore" \/ (at' = "beginEpoch" /\ epoch' # config.epochs)
  PROVE  epoch' \in 0..config'.epochs /\ (at' = "beginEpoch" => epoch' < config'.epochs)
<1>1. config.epochs \in Nat /\ epoch \in Nat
  BY Counters DEF TypeInv
<1>2. epoch < config.epochs
  BY DEF TypeInv, Looping, Training
<1> QED
  BY <1>1, <1>2

LEMMA TypeStep == TypeInv /\ [Next]_vars => TypeInv'
<1> SUFFICES ASSUME TypeInv, [Next]_vars PROVE TypeInv'
  OBVIOUS
<1>0. TypeOK /\ Looping
  BY DEF TypeInv
<1>1. CASE BeginEpoch
  BY <1>0, <1>1, ConfigTyped DEF BeginEpoch, TypeInv, TypeOK, Looping, Training
<1>2. CASE TrainBatch
  <2>1. config.batches \in Nat /\ batch \in Nat /\ batch < config.batches
        /\ step \in Nat /\ weights \in Nat
    BY <1>0, <1>2, Counters DEF Looping, TrainBatch
  <2>2. batch' = batch + 1 /\ config' = config /\ epoch' = epoch /\ mode' = mode /\ best' = best
        /\ waited' = waited /\ scores' = scores /\ report' = report /\ saved' = saved
    BY <1>2 DEF TrainBatch
  <2>3. batch' \in 1..config'.batches
    BY <2>1, <2>2
  <2>4. at' = "endEpoch" \/ (at' = "trainBatch" /\ batch' # config'.batches)
    BY <1>2, <2>2 DEF TrainBatch
  <2>5. grads' \subseteq 1..config'.batches
    BY <1>0, <1>2, <2>2, <2>3 DEF TypeOK, TrainBatch
  <2>6. step' \in Nat /\ weights' \in Nat
    BY <1>2, <2>1 DEF TrainBatch
  <2>7. batch' \in 0..config'.batches /\ (at' = "trainBatch" => batch' < config'.batches)
    BY <2>1, <2>2, <2>4
  <2>8. at = "trainBatch" /\ epoch < config.epochs
    BY <1>0, <1>2 DEF TrainBatch, Looping, Training
  <2> QED
    BY <1>0, <2>2, <2>4, <2>5, <2>6, <2>7, <2>8 DEF TypeInv, TypeOK, Looping, Training
<1>3. CASE EndEpoch
  <2>1. /\ at = "endEpoch" /\ epoch' = epoch + 1 /\ config' = config
        /\ UNCHANGED <<batch, step, grads, weights, mode, best, waited, scores, report, saved>>
    BY <1>3 DEF EndEpoch
  <2>2. at' = "restore" \/ (at' = "beginEpoch" /\ epoch' # config.epochs)
    BY <1>3 DEF EndEpoch, AfterEpoch
  <2>3. epoch' \in 0..config'.epochs /\ (at' = "beginEpoch" => epoch' < config'.epochs)
    BY <2>1, <2>2, EpochTyped
  <2> QED
    BY <1>0, <2>1, <2>2, <2>3 DEF TypeInv, TypeOK, Looping, Training
<1>4. ASSUME NEW metric \in Metric, EvaluateEpoch(metric) PROVE TypeInv'
  <2>1. /\ at = "endEpoch" /\ epoch' = epoch + 1 /\ config' = config /\ mode' = "eval"
        /\ UNCHANGED <<batch, step, grads, weights, report, saved>>
    BY <1>4 DEF EvaluateEpoch
  <2>2. at' = "restore" \/ (at' = "beginEpoch" /\ epoch' # config.epochs)
    BY <1>4 DEF EvaluateEpoch, AfterEpoch
  <2>3. epoch' \in 0..config'.epochs /\ (at' = "beginEpoch" => epoch' < config'.epochs)
    BY <2>1, <2>2, EpochTyped
  <2>4. best' \in Score /\ waited' \in Nat /\ scores' \in Seq(Score)
    BY <1>0, <1>4, ScoreTyped
  <2> QED
    BY <1>0, <2>1, <2>2, <2>3, <2>4 DEF TypeInv, TypeOK, Looping, Training
<1>5. CASE Restore
  BY <1>0, <1>5 DEF Restore, Score, TypeInv, TypeOK, Looping, Training
<1>6. CASE Evaluate
  BY <1>0, <1>6 DEF Evaluate, TypeInv, TypeOK, Looping, Training
<1>7. CASE Serialise
  BY <1>0, <1>7 DEF Serialise, TypeInv, TypeOK, Looping, Training
<1>8. CASE UNCHANGED vars
  BY <1>0, <1>8 DEF vars, TypeInv, TypeOK, Looping, Training
<1> QED
  BY <1>1, <1>2, <1>3, <1>4, <1>5, <1>6, <1>7, <1>8 DEF Next

\* The trainer keeps to its types: in particular no epoch and no batch is
\* gone through beyond those that train was given.
THEOREM TrainerTypeCorrect == Spec => []TypeOK
<1>1. TypeInv => TypeOK
  BY DEF TypeInv
<1> QED
  BY <1>1, TypeInit, TypeStep, PTL DEF Spec

LEMMA Typed == Spec => []TypeInv
  BY TypeInit, TypeStep, PTL DEF Spec

-----------------------------------------------------------------------------
(* Gradients.                                                              *)

LEMMA GradientStep == TypeInv /\ NoGradientLost /\ [Next]_vars => NoGradientLost'
<1> SUFFICES ASSUME TypeInv, NoGradientLost, [Next]_vars PROVE NoGradientLost'
  OBVIOUS
<1> USE DEF NoGradientLost
<1>1. CASE TrainBatch
  BY <1>1 DEF TrainBatch, IsStep
<1>2. CASE ~TrainBatch
  BY <1>2 DEF Next, BeginEpoch, EndEpoch, EvaluateEpoch, AfterEpoch, Restore, Evaluate, Serialise, vars
<1> QED
  BY <1>1, <1>2

\* Whatever the accumulation, the number of batches and max_steps are, every
\* backward pass reaches an optimizer step.
THEOREM GradientsAreApplied == Spec => []NoGradientLost
<1>1. Init => NoGradientLost
  BY DEF Init, NoGradientLost
<1> QED
  BY <1>1, Typed, GradientStep, PTL DEF Spec

-----------------------------------------------------------------------------
(* Early stopping.                                                         *)

\* Steps that are not evaluations between epochs leave the monitor alone.
LEMMA MonitorKept ==
  ASSUME [Next]_vars, \A metric \in Metric : ~EvaluateEpoch(metric)
  PROVE  config' = config /\ UNCHANGED <<best, waited, scores>>
  BY DEF Next, BeginEpoch, TrainBatch, EndEpoch, Restore, Evaluate, Serialise, vars

LEMMA MonitorStep == TypeInv /\ Monitored /\ [Next]_vars => Monitored'
<1> SUFFICES ASSUME TypeInv, Monitored, [Next]_vars PROVE Monitored'
  OBVIOUS
<1>1. ASSUME NEW metric \in Metric, EvaluateEpoch(metric) PROVE Monitored'
  <2> DEFINE e == [metric |-> metric, weights |-> weights]
  <2>1. metric \in Nat /\ weights \in Nat /\ scores \in Seq(Score) /\ waited \in Nat
    BY TrainerAssumption, Counters DEF TypeInv, TypeOK
  <2>2. e.metric = metric /\ e.weights = weights
    OBVIOUS
  <2>3. /\ scores' = Append(scores, e)
        /\ Len(scores') = Len(scores) + 1 /\ Len(scores) \in Nat
        /\ scores'[Len(scores) + 1] = e
        /\ \A k \in 1 .. Len(scores) : scores'[k] = scores[k]
        /\ scores' # <<>>
    BY <1>1, <2>1 DEF EvaluateEpoch
  <2>4. scores # <<>> => Len(scores) > 0
    BY <2>1
  <2>5. CASE metric > best.metric
    <3>1. best' = e /\ waited' = 0
      BY <1>1, <2>5 DEF EvaluateEpoch, KeepBest
    <3> HIDE DEF e
    <3>2. \A k \in 1 .. Len(scores) : scores[k].metric \in Nat /\ scores[k].metric < metric
      BY <2>1, <2>3, <2>5 DEF Monitored
    <3>3. /\ \A k \in 1 .. Len(scores') : scores'[k].metric \in Nat
          /\ \A k \in 1 .. Len(scores') : scores'[k].metric <= best'.metric
          /\ \A k \in 1 .. Len(scores') - waited' - 1 : scores'[k].metric < best'.metric
      BY <2>1, <2>2, <2>3, <3>1, <3>2
    <3>4. waited' \in 0 .. Len(scores') - 1 /\ best' = scores'[Len(scores') - waited']
          /\ best'.metric \in Nat /\ best'.weights \in Nat
      BY <2>1, <2>2, <2>3, <3>1
    <3> QED
      BY <2>3, <3>3, <3>4 DEF Monitored
  <2>6. CASE ~(metric > best.metric)
    <3>1. best' = best /\ waited' = waited + 1
      BY <1>1, <2>6 DEF EvaluateEpoch
    <3>2. scores # <<>>
      BY <2>1, <2>6 DEF Monitored, NoScore, Unknown
    <3> HIDE DEF e
    <3>3. /\ waited <= Len(scores) - 1
          /\ best = scores[Len(scores) - waited]
          /\ best.metric \in Nat /\ best.weights \in Nat
          /\ \A k \in 1 .. Len(scores) : scores[k].metric \in Nat
          /\ \A k \in 1 .. Len(scores) : scores[k].metric <= best.metric
          /\ \A k \in 1 .. Len(scores) - waited - 1 : scores[k].metric < best.metric
      BY <2>1, <2>3, <3>2 DEF Monitored
    <3>4. Len(scores') - waited' = Len(scores) - waited
          /\ Len(scores) - waited \in 1 .. Len(scores) /\ waited' \in 0 .. Len(scores') - 1
      BY <2>1, <2>3, <3>1, <3>3
    <3>5. best' = scores'[Len(scores') - waited']
      BY <2>3, <3>1, <3>3, <3>4
    <3>6. /\ \A k \in 1 .. Len(scores') : scores'[k].metric \in Nat
          /\ \A k \in 1 .. Len(scores') : scores'[k].metric <= best'.metric
      <4>1. metric <= best.metric
        BY <2>1, <2>6, <3>3
      <4>2. \A k \in 1 .. Len(scores') : k \in 1 .. Len(scores) \/ k = Len(scores) + 1
        BY <2>3
      <4> QED
        BY <2>1, <2>2, <2>3, <3>1, <3>3, <4>1, <4>2
    <3>7. \A k \in 1 .. Len(scores') - waited' - 1 : scores'[k].metric < best'.metric
      BY <2>1, <2>3, <3>1, <3>3, <3>4
    <3> QED
      BY <2>3, <3>1, <3>3, <3>4, <3>5, <3>6, <3>7 DEF Monitored
  <2> QED
    BY <2>5, <2>6
<1>2. ASSUME \A metric \in Metric : ~EvaluateEpoch(metric) PROVE Monitored'
  BY <1>2, MonitorKept DEF Monitored
<1> QED
  BY <1>1, <1>2

LEMMA PatientStep == TypeInv /\ Patient /\ [Next]_vars => Patient'
<1> SUFFICES ASSUME TypeInv, Patient, [Next]_vars PROVE Patient'
  OBVIOUS
<1>0. waited \in Nat /\ config.patience \in Nat
  BY Counters DEF TypeInv
<1>1. CASE BeginEpoch
  BY <1>1 DEF BeginEpoch, Patient, Training, Trained, LimitReached
<1>2. CASE TrainBatch
  BY <1>2 DEF TrainBatch, Patient, Training, Trained, LimitReached
<1>3. CASE EndEpoch
  <2>1. at' = "restore" => LimitReached(step) \/ epoch' = config.epochs
    BY <1>3 DEF EndEpoch, AfterEpoch
  <2>2. at = "endEpoch" /\ (at' = "restore" \/ at' = "beginEpoch")
        /\ UNCHANGED <<config, step, waited>>
    BY <1>3 DEF EndEpoch, AfterEpoch
  <2>3. epoch' = config.epochs => ~(epoch' < config.epochs)
    BY Counters DEF TypeInv
  <2> QED
    BY <2>1, <2>2, <2>3 DEF Patient, Training, Trained, LimitReached
<1>4. ASSUME NEW metric \in Metric, EvaluateEpoch(metric), config.patience # 0 PROVE Patient'
  <2>1. /\ at' = "restore" \/ at' = "beginEpoch"
        /\ UNCHANGED <<config, step>>
    BY <1>4 DEF EvaluateEpoch, AfterEpoch
  <2>2. at' = "beginEpoch" => waited' = 0 \/ ~PatienceReached(waited')
    BY <1>4 DEF EvaluateEpoch, AfterEpoch
  <2>3. at' = "restore" => LimitReached(step) \/ epoch' = config.epochs \/ PatienceReached(waited')
    BY <1>4 DEF EvaluateEpoch, AfterEpoch
  <2>4. waited' \in Nat
    BY <1>4, ScoreTyped DEF TypeInv
  <2>5. epoch' = config.epochs => ~(epoch' < config.epochs)
    BY Counters DEF TypeInv
  <2>6. Training' => waited' < config'.patience
    BY <1>0, <1>4, <2>1, <2>2, <2>4 DEF Training, PatienceReached
  <2>7. Trained' /\ epoch' < config'.epochs /\ ~LimitReached(step)' => waited' >= config'.patience
    BY <2>1, <2>3, <2>5 DEF Trained, PatienceReached, LimitReached
  <2> QED
    BY <2>6, <2>7 DEF Patient
<1>5. ASSUME NEW metric \in Metric, EvaluateEpoch(metric), config.patience = 0 PROVE Patient'
  BY <1>5 DEF EvaluateEpoch, Patient
<1>6. CASE Restore \/ Evaluate \/ Serialise
  BY <1>6 DEF Restore, Evaluate, Serialise, Patient, Training, Trained, LimitReached
<1>7. CASE UNCHANGED vars
  BY <1>7 DEF vars, Patient, Training, Trained, LimitReached
<1> QED
  BY <1>1, <1>2, <1>3, <1>4, <1>5, <1>6, <1>7 DEF Next

\* The last n evaluations were no improvement exactly if n have been waited.
LEMMA StaleIsWaited ==
  ASSUME TypeInv, Monitored, NEW n \in Nat \ {0}
  PROVE  Stale(n) <=> waited >= n
<1>0. scores \in Seq(Score) /\ waited \in Nat /\ Len(scores) \in Nat
  BY DEF TypeInv, TypeOK
<1>1. CASE scores = <<>>
  BY <1>0, <1>1 DEF Monitored, Stale
<1>2. CASE scores # <<>>
  <2> DEFINE i == Len(scores) - waited
  <2>1. /\ i \in 1 .. Len(scores)
        /\ \A k \in 1 .. Len(scores) : scores[k].metric \in Nat
        /\ \A k \in 1 .. Len(scores) : scores[k].metric <= scores[i].metric
        /\ \A k \in 1 .. i - 1 : scores[k].metric < scores[i].metric
    BY <1>0, <1>2 DEF Monitored
  <2>2. ASSUME waited >= n PROVE Stale(n)
    <3>1. i \in 1 .. Len(scores) - n /\ Len(scores) > n
      BY <1>0, <2>1, <2>2
    <3>2. \A k \in Len(scores) - n + 1 .. Len(scores) : scores[k].metric <= scores[i].metric
      BY <1>0, <2>1, <3>1
    <3> HIDE DEF i
    <3> QED
      BY <3>1, <3>2 DEF Stale
  <2>3. ASSUME Stale(n), ~(waited >= n) PROVE FALSE
    <3>1. PICK j \in 1 .. Len(scores) - n :
            \A k \in Len(scores) - n + 1 .. Len(scores) : scores[k].metric <= scores[j].metric
      BY <2>3 DEF Stale
    <3>2. i \in Len(scores) - n + 1 .. Len(scores) /\ j \in 1 .. i - 1
      BY <1>0, <2>1, <2>3, <3>1
    <3>3. scores[i].metric <= scores[j].metric /\ scores[j].metric < scores[i].metric
      BY <2>1, <3>1, <3>2
    <3>4. scores[i].metric \in Nat /\ scores[j].metric \in Nat
      BY <1>0, <2>1, <3>2
    <3> QED
      BY <3>3, <3>4
  <2> QED
    BY <2>2, <2>3
<1> QED
  BY <1>1, <1>2

\* Training stops early exactly when the evaluations have not improved for
\* early_stopping_patience epochs, for every patience and every sequence of
\* evaluations.
THEOREM StopsInTime == Spec => []StopsWhenStale
<1>1. Init => Monitored /\ Patient
  BY ConfigTyped DEF Init, Monitored, Patient, Training, Trained
<1>2. TypeInv /\ Monitored /\ Patient => StopsWhenStale
  <2> SUFFICES ASSUME TypeInv, Monitored, Patient, config.patience # 0
               PROVE  /\ ~Trained => ~Stale(config.patience)
                      /\ Trained /\ epoch < config.epochs /\ ~LimitReached(step) =>
                           Stale(config.patience)
    BY DEF StopsWhenStale
  <2>1. config.patience \in Nat \ {0} /\ waited \in Nat
    BY Counters DEF TypeInv
  <2>2. ~Trained => Training
    BY DEF TypeInv, TypeOK, Trained, Training
  <2>3. Stale(config.patience) <=> waited >= config.patience
    BY <2>1, StaleIsWaited
  <2> QED
    BY <2>1, <2>2, <2>3 DEF Patient
<1> QED
  BY <1>1, <1>2, Typed, MonitorStep, PatientStep, PTL DEF Spec

-----------------------------------------------------------------------------
(* What is shipped.                                                        *)

LEMMA FollowedStep == TypeInv /\ Followed /\ [Next]_vars => Followed'
<1> SUFFICES ASSUME TypeInv, Followed, [Next]_vars PROVE Followed'
  OBVIOUS
<1>1. CASE TrainBatch
  <2>1. at = "trainBatch" /\ at' \in {"trainBatch", "endEpoch"}
    BY <1>1 DEF TrainBatch
  <2>2. weights = step
    BY <2>1 DEF Followed, Training
  <2>3. weights' = step'
    BY <1>1, <2>2 DEF TrainBatch
  <2> QED
    BY <2>1, <2>3 DEF Followed, Training
<1>2. CASE BeginEpoch
  BY <1>2 DEF BeginEpoch, Followed, Training
<1>3. CASE EndEpoch
  BY <1>3 DEF EndEpoch, AfterEpoch, Followed, Training
<1>4. ASSUME NEW metric \in Metric, EvaluateEpoch(metric) PROVE Followed'
  <2>1. at = "endEpoch" /\ at' \in {"restore", "beginEpoch"} /\ UNCHANGED <<step, weights>>
    BY <1>4 DEF EvaluateEpoch, AfterEpoch
  <2> QED
    BY <2>1 DEF Followed, Training
<1>5. CASE Restore
  BY <1>5 DEF Restore, Followed, Training
<1>6. CASE Evaluate
  BY <1>6 DEF Evaluate, Followed, Training
<1>7. CASE Serialise
  BY <1>7 DEF Serialise, Followed, Training
<1>8. CASE UNCHANGED vars
  BY <1>8 DEF vars, Followed, Training
<1> QED
  BY <1>1, <1>2, <1>3, <1>4, <1>5, <1>6, <1>7, <1>8 DEF Next

\* The student that is written to disk is the one the report was measured on,
\* and the first of the best evaluations between the epochs if there were any:
\* for every configuration and every sequence of evaluations.
THEOREM ShipsTheBest == Spec => []ShippedIsBest
<1>1. Init => Monitored /\ Followed
  BY DEF Init, Monitored, Followed, Training
<1>2. TypeInv /\ Monitored /\ Followed => ShippedIsBest
  <2> SUFFICES ASSUME TypeInv, Monitored, Followed, at = "done" PROVE ShippedIsBest
    BY DEF ShippedIsBest
  <2>1. saved = report /\ saved = IF best.weights # Unknown THEN best.weights ELSE step
    BY DEF Followed
  <2>2. CASE scores = <<>>
    BY <2>1, <2>2 DEF ShippedIsBest, Monitored, NoScore
  <2>3. CASE scores # <<>>
    <3> DEFINE i == Len(scores) - waited
    <3>1. scores \in Seq(Score) /\ waited \in Nat /\ Len(scores) \in Nat
      BY DEF TypeInv, TypeOK
    <3>2. i \in DOMAIN scores /\ DOMAIN scores = 1 .. Len(scores)
      BY <2>3, <3>1 DEF Monitored
    <3>3. saved = scores[i].weights
      BY <2>1, <2>3 DEF Monitored, Unknown
    <3>4. /\ \A k \in DOMAIN scores : scores[k].metric <= scores[i].metric
          /\ \A k \in 1 .. i - 1 : scores[k].metric < scores[i].metric
      BY <2>3, <3>2 DEF Monitored
    <3> HIDE DEF i
    <3> QED
      BY <2>1, <2>3, <3>2, <3>3, <3>4 DEF ShippedIsBest
  <2> QED
    BY <2>2, <2>3
<1> QED
  BY <1>1, <1>2, Typed, MonitorStep, FollowedStep, PTL DEF Spec

-----------------------------------------------------------------------------
(* The length of the training.                                             *)

PerEpoch == CeilDiv(config.batches, config.accum)

\* After n epochs: their steps were taken, or max_steps if that is less.
AfterEpochs(n) ==
  \/ step = n * PerEpoch /\ ~LimitReached(step)
  \/ config.maxSteps # 0 /\ step = config.maxSteps /\ step <= n * PerEpoch

Taken ==
  /\ at = "beginEpoch" => step = epoch * PerEpoch /\ ~LimitReached(step)
  /\ at = "trainBatch" =>
       step = epoch * PerEpoch + (batch \div config.accum) /\ ~LimitReached(step)
  /\ at = "endEpoch" => AfterEpochs(epoch + 1)
  /\ Trained => AfterEpochs(epoch)

LEMMA Division ==
  ASSUME NEW x \in Nat, NEW a \in Nat \ {0}
  PROVE  /\ x \div a \in Nat /\ x % a \in 0 .. a - 1
         /\ x = a * (x \div a) + (x % a)
  OBVIOUS

LEMMA QuotientUnique ==
  ASSUME NEW a \in Nat \ {0}, NEW q \in Nat, NEW p \in Nat,
         NEW r \in 0 .. a - 1, NEW u \in 0 .. a - 1, a * q + r = a * p + u
  PROVE  q = p /\ r = u
<1>1. CASE q < p
  <2>1. a * p >= a * (q + 1)
    BY <1>1
  <2> QED
    BY <2>1
<1>2. CASE q > p
  <2>1. a * q >= a * (p + 1)
    BY <1>2
  <2> QED
    BY <2>1
<1> QED
  BY <1>1, <1>2

LEMMA QuotientGrows ==
  ASSUME NEW x \in Nat, NEW y \in Nat, NEW a \in Nat \ {0}, x <= y
  PROVE  x \div a <= y \div a
<1>1. CASE x \div a > y \div a
  <2>1. a * (x \div a) >= a * ((y \div a) + 1)
    BY <1>1, Division
  <2> QED
    BY <2>1, Division
<1> QED
  BY <1>1, Division

\* One more batch is one more step if it is a multiple of the accumulation or
\* the last one, and the steps of an epoch are those up to the last batch.
LEMMA StepsOfBatches ==
  ASSUME NEW b \in Nat, NEW n \in Nat, NEW a \in Nat \ {0}, b < n
  PROVE  /\ (b + 1) % a = 0 => (b + 1) \div a = (b \div a) + 1
         /\ (b + 1) % a # 0 => (b + 1) \div a = b \div a
         /\ b + 1 = n => CeilDiv(n, a) = (b \div a) + 1
         /\ CeilDiv(n, a) >= (b \div a) + 1
         /\ CeilDiv(n, a) \in Nat /\ b \div a \in Nat
<1>1. /\ b = a * (b \div a) + (b % a) /\ b % a \in 0 .. a - 1 /\ b \div a \in Nat
  BY Division
<1> DEFINE q == b \div a
           r == b % a
<1> HIDE DEF q, r
<1>2. /\ b = a * q + r /\ r \in 0 .. a - 1 /\ q \in Nat
  BY <1>1 DEF q, r
<1> DEFINE Divided(x) == x = a * (x \div a) + (x % a) /\ x \div a \in Nat /\ x % a \in 0 .. a - 1
<1>d. \A x \in Nat : Divided(x)
  BY Division
<1>3. Divided(b + 1)
  <2>1. b + 1 \in Nat
    OBVIOUS
  <2> QED
    BY <1>d, <2>1
<1>4. /\ (b + 1) % a = 0 => (b + 1) \div a = q + 1
      /\ (b + 1) % a # 0 => (b + 1) \div a = q
  <2>1. CASE r = a - 1
    <3>1. b + 1 = a * (q + 1) + 0
      BY <1>2, <2>1
    <3> QED
      BY <1>2, <1>3, <3>1, QuotientUnique
  <2>2. CASE r # a - 1
    <3>1. b + 1 = a * q + (r + 1) /\ r + 1 \in 0 .. a - 1
      BY <1>2, <2>2
    <3> QED
      BY <1>2, <1>3, <3>1, QuotientUnique
  <2> QED
    BY <2>1, <2>2
<1>5. (b + a) \div a = q + 1
  <2>1. b + a = a * (q + 1) + r
    BY <1>2
  <2>2. Divided(b + a)
    <3>1. b + a \in Nat
      OBVIOUS
    <3> QED
      BY <1>d, <3>1
  <2> QED
    BY <1>2, <2>1, <2>2, QuotientUnique
<1>6. (n + a - 1) \div a \in Nat /\ (n + a - 1) \div a >= (b + a) \div a
  BY QuotientGrows, Division
<1>7. b + 1 = n => (n + a - 1) \div a = q + 1
  BY <1>5
<1> QED
  BY <1>1, <1>2, <1>4, <1>5, <1>6, <1>7 DEF CeilDiv, q

\* What the rest needs to know of PerEpoch.
LEMMA PerEpochTyped ==
  ASSUME TypeInv
  PROVE  /\ PerEpoch \in Nat
         /\ \A n \in Nat : /\ n * PerEpoch \in Nat /\ PerEpoch * n = n * PerEpoch
                           /\ (n + 1) * PerEpoch = n * PerEpoch + PerEpoch
<1>1. config.batches \in Nat \ {0} /\ config.accum \in Nat \ {0}
  BY ConfigTyped DEF TypeInv, TypeOK
<1>2. config.batches - 1 \in Nat /\ config.batches - 1 < config.batches
  BY <1>1
<1>3. PerEpoch \in Nat
  BY <1>1, <1>2, StepsOfBatches DEF PerEpoch
<1> HIDE DEF PerEpoch
<1> QED
  BY <1>3

LEMMA TakenStep == TypeInv /\ Taken /\ [Next]_vars => Taken'
<1> SUFFICES ASSUME TypeInv, Taken, [Next]_vars PROVE Taken'
  OBVIOUS
<1>0. /\ config.batches \in Nat \ {0} /\ config.accum \in Nat \ {0} /\ config.maxSteps \in Nat
      /\ epoch \in Nat /\ batch \in Nat /\ step \in Nat
  BY ConfigTyped, Counters DEF TypeInv, TypeOK
<1>n. PerEpoch \in Nat /\ \A n \in Nat : n * PerEpoch \in Nat
                                     /\ (n + 1) * PerEpoch = n * PerEpoch + PerEpoch
  BY PerEpochTyped
<1>1. CASE BeginEpoch
  <2>1. 0 \div config.accum = 0
    BY <1>0
  <2>2. /\ at = "beginEpoch" /\ at' = "trainBatch" /\ batch' = 0
        /\ UNCHANGED <<config, epoch, step>>
    BY <1>1 DEF BeginEpoch
  <2>3. step = epoch * PerEpoch /\ ~LimitReached(step)
    BY <2>2 DEF Taken
  <2>4. step' = epoch' * PerEpoch' + (batch' \div config'.accum) /\ ~LimitReached(step)'
    BY <1>0, <1>n, <2>1, <2>2, <2>3 DEF PerEpoch, LimitReached
  <2> QED
    BY <2>2, <2>4 DEF Taken, Trained
<1>2. CASE TrainBatch
  <2> DEFINE q == batch \div config.accum
  <2>1. /\ at = "trainBatch" /\ batch' = batch + 1 /\ UNCHANGED <<config, epoch>>
        /\ step' = IF IsStep(batch + 1) THEN step + 1 ELSE step
        /\ at' = IF batch + 1 = config.batches \/ (IsStep(batch + 1) /\ LimitReached(step'))
                   THEN "endEpoch" ELSE "trainBatch"
    BY <1>2 DEF TrainBatch
  <2>2. step = epoch * PerEpoch + q /\ ~LimitReached(step)
    BY <2>1 DEF Taken
  <2>3. batch < config.batches
    BY <2>1 DEF TypeInv, Looping
  <2>4. /\ (batch + 1) % config.accum = 0 => (batch + 1) \div config.accum = q + 1
        /\ (batch + 1) % config.accum # 0 => (batch + 1) \div config.accum = q
        /\ batch + 1 = config.batches => PerEpoch = q + 1
        /\ PerEpoch >= q + 1 /\ q \in Nat
    BY <1>0, <2>3, StepsOfBatches DEF PerEpoch
  <2>5. PerEpoch' = PerEpoch
    BY <2>1 DEF PerEpoch
  <2>6. step' \in Nat
    BY <1>0, <2>1
  <2> HIDE DEF q
  <2>7. CASE at' = "trainBatch"
    <3>1. batch + 1 # config.batches /\ (IsStep(batch + 1) <=> (batch + 1) % config.accum = 0)
      BY <2>1, <2>7 DEF IsStep
    <3>2. step' = epoch * PerEpoch + ((batch + 1) \div config.accum)
      BY <1>0, <1>n, <2>1, <2>2, <2>4, <3>1
    <3>3. ~LimitReached(step')
      BY <2>1, <2>2, <2>7
    <3>4. ~LimitReached(step)'
      BY <2>1, <3>3 DEF LimitReached
    <3> QED
      BY <2>1, <2>5, <2>7, <3>2, <3>4 DEF Taken, Trained
  <2>8. CASE at' = "endEpoch"
    <3>1. IsStep(batch + 1) /\ step' = step + 1
      BY <2>1, <2>8 DEF IsStep
    <3>2. step' = epoch * PerEpoch + (q + 1)
      BY <1>0, <1>n, <2>2, <2>4, <3>1
    <3>3. step' <= (epoch + 1) * PerEpoch
      BY <1>0, <1>n, <2>4, <3>2
    <3>4. CASE LimitReached(step')
      <4>1. config.maxSteps # 0 /\ step' = config.maxSteps
        BY <1>0, <2>2, <3>1, <3>4 DEF LimitReached
      <4>2. AfterEpochs(epoch + 1)'
        BY <2>1, <2>5, <3>3, <4>1 DEF AfterEpochs
      <4> QED
        BY <2>8, <4>2 DEF Taken, Trained
    <3>5. CASE ~LimitReached(step')
      <4>1. batch + 1 = config.batches
        BY <2>1, <2>8, <3>5
      <4>2. step' = (epoch + 1) * PerEpoch
        BY <1>0, <1>n, <2>4, <3>2, <4>1
      <4>3. AfterEpochs(epoch + 1)'
        BY <2>1, <2>5, <3>5, <4>2 DEF AfterEpochs, LimitReached
      <4> QED
        BY <2>8, <4>3 DEF Taken, Trained
    <3> QED
      BY <3>4, <3>5
  <2> QED
    BY <2>1, <2>7, <2>8
<1>3. ASSUME at = "endEpoch", epoch' = epoch + 1, UNCHANGED <<config, step>>,
             at' = "restore" \/ (at' = "beginEpoch" /\ ~LimitReached(step))
      PROVE  Taken'
  <2>1. AfterEpochs(epoch + 1)
    BY <1>3 DEF Taken
  <2>2. AfterEpochs(epoch)'
    BY <1>3, <2>1 DEF AfterEpochs, PerEpoch, LimitReached
  <2>3. at' = "beginEpoch" => step = (epoch + 1) * PerEpoch
    BY <1>0, <1>3, <2>1 DEF AfterEpochs, LimitReached
  <2>4. at' = "beginEpoch" => step' = epoch' * PerEpoch' /\ ~LimitReached(step)'
    BY <1>3, <2>3 DEF PerEpoch, LimitReached
  <2> QED
    BY <1>3, <2>2, <2>4 DEF Taken, Trained
<1>4. CASE EndEpoch
  BY <1>3, <1>4 DEF EndEpoch, AfterEpoch
<1>5. ASSUME NEW metric \in Metric, EvaluateEpoch(metric) PROVE Taken'
  BY <1>3, <1>5 DEF EvaluateEpoch, AfterEpoch
<1>6. CASE Restore \/ Evaluate \/ Serialise \/ UNCHANGED vars
  <2>1. /\ UNCHANGED <<config, epoch, batch, step>>
        /\ at' = at \/ (Trained /\ Trained')
    BY <1>6 DEF Restore, Evaluate, Serialise, vars, Trained
  <2>2. Trained' => at' \notin {"beginEpoch", "trainBatch", "endEpoch"}
    BY DEF Trained
  <2>3. AfterEpochs(epoch)' = AfterEpochs(epoch) /\ AfterEpochs(epoch + 1)' = AfterEpochs(epoch + 1)
        /\ PerEpoch' = PerEpoch /\ LimitReached(step)' = LimitReached(step)
    BY <2>1 DEF AfterEpochs, PerEpoch, LimitReached
  <2> QED
    BY <2>1, <2>2, <2>3 DEF Taken, Trained
<1> QED
  BY <1>1, <1>2, <1>4, <1>5, <1>6 DEF Next

LEMMA TakenAlways == Spec => []Taken
<1>1. ASSUME Init PROVE Taken
  <2>1. TypeInv /\ at = "beginEpoch" /\ epoch = 0 /\ step = 0 /\ config.maxSteps \in Nat
    BY <1>1, TypeInit, ConfigTyped DEF Init
  <2>2. 0 * PerEpoch = 0
    BY <2>1, PerEpochTyped
  <2> QED
    BY <2>1, <2>2 DEF Taken, LimitReached, Trained
<1> QED
  BY <1>1, Typed, TakenStep, PTL DEF Spec

\* Unless it stops early, a run takes exactly the steps its schedule was made
\* for, whenever its epochs are worth max_steps or there is none: for every
\* number of batches, accumulation, epochs and limit, although the loops count
\* and _total_optimizer_steps computes.
THEOREM TakesItsSteps == Spec => []RunsItsBudget
<1>1. TypeInv /\ Taken => RunsItsBudget
  <2> DEFINE P == PerEpoch
  <2> SUFFICES ASSUME TypeInv, Taken, Trained, epoch = config.epochs \/ LimitReached(step),
                      config.maxSteps <= P * config.epochs
               PROVE  step = TotalSteps(config)
    BY DEF RunsItsBudget, EpochSteps, PerEpoch
  <2>1. /\ config.epochs \in Nat /\ config.maxSteps \in Nat
        /\ epoch \in Nat /\ step \in Nat /\ epoch <= config.epochs
    BY ConfigTyped, Counters DEF TypeInv, TypeOK
  <2>2. TotalSteps(config) = IF config.maxSteps # 0 THEN config.maxSteps ELSE P * config.epochs
    BY DEF TotalSteps, PerEpoch
  <2>p. P \in Nat
    BY PerEpochTyped
  <2>3. \/ step = epoch * P /\ ~LimitReached(step)
        \/ config.maxSteps # 0 /\ step = config.maxSteps
    BY DEF Taken, AfterEpochs
  <2> HIDE DEF P
  <2>4. CASE step = epoch * P /\ ~LimitReached(step)
    <3>1. step = P * config.epochs
      BY <2>1, <2>p, <2>4
    <3>2. config.maxSteps = 0
      BY <2>1, <2>4, <3>1 DEF LimitReached
    <3> QED
      BY <2>2, <3>1, <3>2
  <2>5. CASE config.maxSteps # 0 /\ step = config.maxSteps
    BY <2>2, <2>5
  <2> QED
    BY <2>3, <2>4, <2>5
<1> QED
  BY <1>1, Typed, TakenAlways, PTL

\* The loops never take more steps than the schedule has.
LEMMA WithinSchedule ==
  ASSUME TypeInv, Taken
  PROVE  step <= TotalSteps(config) /\ step \in Nat /\ TotalSteps(config) \in Nat
<1>1. /\ config.epochs \in Nat /\ config.maxSteps \in Nat
      /\ epoch \in Nat /\ step \in Nat /\ epoch <= config.epochs
      /\ config.batches \in Nat /\ config.accum \in Nat \ {0}
      /\ batch \in Nat /\ (at = "trainBatch" => batch < config.batches)
      /\ Training => epoch + 1 <= config.epochs
  BY ConfigTyped, Counters DEF TypeInv, TypeOK, Looping
<1> DEFINE P == PerEpoch
<1>p. P \in Nat
  BY PerEpochTyped
<1> HIDE DEF P
<1>2. /\ epoch * P \in Nat /\ config.epochs * P \in Nat
      /\ (epoch + 1) * P = epoch * P + P
      /\ P * config.epochs = config.epochs * P
  BY <1>1, <1>p
<1>3. epoch * P <= config.epochs * P /\ (Training => (epoch + 1) * P <= config.epochs * P)
  BY <1>1, <1>p
<1>4. step <= config.epochs * P
  <2>1. CASE at = "trainBatch"
    <3>1. step = epoch * P + (batch \div config.accum)
      BY <2>1 DEF Taken, P
    <3>2. P >= (batch \div config.accum) + 1 /\ batch \div config.accum \in Nat
      BY <1>1, <2>1, StepsOfBatches DEF P, PerEpoch
    <3> QED
      BY <1>1, <1>2, <1>3, <1>p, <2>1, <3>1, <3>2 DEF Training
  <2>2. CASE at # "trainBatch"
    BY <1>1, <1>2, <1>3, <1>p, <2>2 DEF P, Taken, AfterEpochs, Training, Trained, TypeInv, TypeOK
  <2> QED
    BY <2>1, <2>2
<1>5. config.maxSteps # 0 => step <= config.maxSteps
  BY <1>1 DEF Taken, AfterEpochs, LimitReached, Trained, TypeInv, TypeOK
<1>6. TotalSteps(config) = IF config.maxSteps # 0 THEN config.maxSteps ELSE P * config.epochs
  BY DEF TotalSteps, P, PerEpoch
<1> QED
  BY <1>1, <1>2, <1>4, <1>5, <1>6
=============================================================================
