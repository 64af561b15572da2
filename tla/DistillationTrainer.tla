------------------------- MODULE DistillationTrainer -------------------------
(***************************************************************************)
(* One engine run as far as the weights of the student are concerned:      *)
(* DistillationTrainer.train (core/trainer.py), the evaluation between the *)
(* epochs, and what DefaultDistillationEngine.run (core/engine.py) makes   *)
(* of the student afterwards.                                              *)
(*                                                                         *)
(* A tensor is known by where it comes from: the weights by the number of  *)
(* optimizer steps behind them, the gradient by the batches summed in it.  *)
(***************************************************************************)
EXTENDS Integers, Sequences

CONSTANTS Config, \* the configurations of training to consider
          Metric  \* what the evaluation between epochs may return

\* An option that is None is 0; evalData tells whether there is an evaluation
\* split.  The loader is never empty: build_datasets refuses an empty corpus.
ConfigType == [ batches  : Nat \ {0},
                accum    : Nat \ {0},
                epochs   : Nat \ {0},
                maxSteps : Nat,
                patience : Nat,
                evalData : BOOLEAN ]

ASSUME TrainerAssumption == Config \subseteq ConfigType /\ Metric \subseteq Nat

VARIABLES config,  \* the configuration of this run
          at,      \* the next step of the run
          epoch,   \* epochs run to their end
          batch,   \* batches of the epoch gone through
          step,    \* result.global_step
          grads,   \* batches whose gradient has not been applied
          weights, \* the steps behind the weights of the student
          mode,    \* student.model.train() or .eval()
          best,    \* best_metric with best_state, once there is one
          waited,  \* epochs_without_improvement
          scores,  \* what the evaluation between epochs returned, of which weights
          report,  \* the weights the final report was measured on
          saved    \* the weights written to the work directory

vars == <<config, at, epoch, batch, step, grads, weights, mode, best, waited,
          scores, report, saved>>

Unknown == -1

NoScore == [metric |-> Unknown, weights |-> Unknown]

Score == [metric : Metric \cup {Unknown}, weights : Nat \cup {Unknown}]

TypeOK ==
  /\ config \in Config
  /\ at \in {"beginEpoch", "trainBatch", "endEpoch", "restore", "evaluate", "serialise", "done"}
  /\ epoch \in 0..config.epochs
  /\ batch \in 0..config.batches
  /\ step \in Nat
  /\ grads \subseteq 1..config.batches
  /\ weights \in Nat
  /\ mode \in {"train", "eval"}
  /\ best \in Score
  /\ waited \in Nat
  /\ scores \in Seq(Score)
  /\ report \in Nat \cup {Unknown}
  /\ saved \in Nat \cup {Unknown}

Init ==
  /\ config \in Config
  /\ at = "beginEpoch"
  /\ epoch = 0 /\ batch = 0 /\ step = 0 /\ weights = 0 /\ waited = 0
  /\ grads = {}
  /\ mode = "train"
  /\ best = NoScore
  /\ scores = <<>>
  /\ report = Unknown /\ saved = Unknown

-----------------------------------------------------------------------------
CeilDiv(a, b) == (a + b - 1) \div b

\* Mutant: the steps of an epoch are rounded down.
TotalStepsFloor(c) ==
  IF c.maxSteps # 0 THEN c.maxSteps ELSE (c.batches \div c.accum) * c.epochs

\* _total_optimizer_steps: the length of the learning rate schedule, and the
\* total every progress report is a part of.
TotalSteps(c) ==
  IF c.maxSteps # 0 THEN c.maxSteps ELSE CeilDiv(c.batches, c.accum) * c.epochs

\* Mutant: the batches left over at the end of an epoch are not applied.
IsStepNoTail(b) == b % config.accum = 0

IsStep(b) == b % config.accum = 0 \/ b = config.batches

LimitReached(s) == config.maxSteps # 0 /\ s >= config.maxSteps

\* The engine hands over epoch_eval only if there is something to evaluate on
\* and an early stop to decide.
EpochEval == config.evalData /\ config.patience # 0

BeginEpoch ==
  /\ at = "beginEpoch"
  /\ at' = "trainBatch"
  /\ mode' = "train"
  /\ batch' = 0 /\ grads' = {}
  /\ UNCHANGED <<config, epoch, step, weights, best, waited, scores, report, saved>>

\* A backward pass, and the optimizer step when it is due.
TrainBatch ==
  /\ at = "trainBatch"
  /\ batch' = batch + 1
  /\ IF IsStep(batch')
       THEN grads' = {} /\ step' = step + 1 /\ weights' = weights + 1
       ELSE grads' = grads \cup {batch'} /\ UNCHANGED <<step, weights>>
  /\ at' = IF batch' = config.batches \/ (IsStep(batch') /\ LimitReached(step'))
             THEN "endEpoch" ELSE "trainBatch"
  /\ UNCHANGED <<config, epoch, mode, best, waited, scores, report, saved>>

\* Mutant: max_steps ends the epoch but not the training.
AfterEpochIgnoresLimit(stop) ==
  at' = IF stop \/ epoch' = config.epochs THEN "restore" ELSE "beginEpoch"

\* Mutant: one epoch too many.
AfterEpochOneMore(stop) ==
  at' = IF stop \/ LimitReached(step) \/ epoch' > config.epochs THEN "restore" ELSE "beginEpoch"

AfterEpoch(stop) ==
  at' = IF stop \/ LimitReached(step) \/ epoch' = config.epochs THEN "restore" ELSE "beginEpoch"

EndEpoch ==
  /\ at = "endEpoch" /\ ~EpochEval
  /\ epoch' = epoch + 1
  /\ AfterEpoch(FALSE)
  /\ UNCHANGED <<config, batch, step, grads, weights, mode, best, waited, scores, report, saved>>

\* Mutant: patience is exceeded, not reached.
PatienceExceeded(n) == n > config.patience

PatienceReached(n) == n >= config.patience

\* Mutant: best_state holds the live tensors instead of a copy of them.
KeepBestAliased(metric) == best' = [metric |-> metric, weights |-> Unknown]

KeepBest(metric) == best' = [metric |-> metric, weights |-> weights]

EvaluateEpoch(metric) ==
  /\ at = "endEpoch" /\ EpochEval
  /\ epoch' = epoch + 1
  /\ mode' = "eval"
  /\ scores' = Append(scores, [metric |-> metric, weights |-> weights])
  /\ IF metric > best.metric
       THEN KeepBest(metric) /\ waited' = 0 /\ AfterEpoch(FALSE)
       ELSE waited' = waited + 1 /\ AfterEpoch(PatienceReached(waited')) /\ UNCHANGED best
  /\ UNCHANGED <<config, batch, step, grads, weights, report, saved>>

\* load_state_dict(best_state); an alias of the live tensors changes nothing.
Restore ==
  /\ at = "restore"
  /\ at' = "evaluate"
  /\ weights' = IF best.weights # Unknown THEN best.weights ELSE weights
  /\ UNCHANGED <<config, epoch, batch, step, grads, mode, best, waited, scores, report, saved>>

Evaluate ==
  /\ at = "evaluate"
  /\ at' = "serialise"
  /\ mode' = "eval"
  /\ report' = weights
  /\ UNCHANGED <<config, epoch, batch, step, grads, weights, best, waited, scores, saved>>

Serialise ==
  /\ at = "serialise"
  /\ at' = "done"
  /\ saved' = weights
  /\ UNCHANGED <<config, epoch, batch, step, grads, weights, mode, best, waited, scores, report>>

Next ==
  \/ BeginEpoch \/ TrainBatch \/ EndEpoch
  \/ \E metric \in Metric : EvaluateEpoch(metric)
  \/ Restore \/ Evaluate \/ Serialise

Spec == Init /\ [][Next]_vars

-----------------------------------------------------------------------------
Trained == at \in {"restore", "evaluate", "serialise", "done"}

\* Every backward pass reaches an optimizer step before the gradients are
\* zeroed: the batches left over when accum does not divide an epoch, and those
\* before a break on max_steps, are not thrown away.
NoGradientLost == at # "trainBatch" => grads = {}

\* The optimizer steps the epochs are worth.
EpochSteps == CeilDiv(config.batches, config.accum) * config.epochs

\* Unless it stops early, a run takes exactly the steps its schedule was made
\* for and its progress is reported out of: those of its epochs, or max_steps if
\* the epochs are worth as many.  Nothing is claimed of a max_steps beyond that:
\* TrainingConfig says that it "Overrides epochs if set.", and the loops do not
\* reach it.
RunsItsBudget ==
  Trained /\ (epoch = config.epochs \/ LimitReached(step)) /\ config.maxSteps <= EpochSteps =>
    step = TotalSteps(config)

\* The last n evaluations did not beat an earlier one.
Stale(n) ==
  /\ Len(scores) > n
  /\ \E i \in 1 .. Len(scores) - n :
       \A k \in Len(scores) - n + 1 .. Len(scores) : scores[k].metric <= scores[i].metric

\* Training stops early exactly when the evaluations have not improved for
\* early_stopping_patience epochs: not an epoch later, and for no other reason.
StopsWhenStale ==
  config.patience # 0 =>
    /\ ~Trained => ~Stale(config.patience)
    /\ Trained /\ epoch < config.epochs /\ ~LimitReached(step) => Stale(config.patience)

\* What is shipped is what was measured, and it is the first of the best that
\* was seen: the epochs after the best one, the restored state, the final
\* evaluation and the serialisation all have to be about the same weights.
ShippedIsBest ==
  at = "done" =>
    /\ saved = report
    /\ IF scores = <<>>
         THEN saved = step
         ELSE \E i \in DOMAIN scores :
                /\ saved = scores[i].weights
                /\ \A k \in DOMAIN scores : scores[k].metric <= scores[i].metric
                /\ \A k \in 1 .. i - 1 : scores[k].metric < scores[i].metric
=============================================================================
