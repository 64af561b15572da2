--------------------------- MODULE MCDistillationRun ---------------------------
(* Small instances of DistillationRun for TLC. *)
EXTENDS DistillationRun

CONSTANTS MaxBatches, MaxAccum, MaxEpochs, MaxSteps, MaxPatience, \* bounds
          MaxLayers

Plain == [labels |-> 2, seqLength |-> 128, configOnly |-> TRUE]

Usual ==
  [ strategy |-> "response_based", teacherType |-> "huggingface",
    student |-> Plain, teacher |-> Plain, llmLabels |-> 0, sourced |-> TRUE,
    training |-> [ batchSize |-> 1, accum |-> 1, epochs |-> 1, maxSteps |-> 0,
                   patience |-> 0, warmup |-> 10 ],
    kd |-> [temperature |-> 200, alpha |-> 50, featureWeight |-> 0, layerMap |-> {}],
    device |-> "auto" ]

JobOf(s, r, e) == [spec |-> s, rows |-> r, evaluated |-> e]

\* Every small configuration of the training, on one pair of models.
TrainingJobs ==
  [ spec : [ strategy : {"response_based"}, teacherType : {"huggingface"},
             student : {Plain}, teacher : {Plain}, llmLabels : {0}, sourced : {TRUE},
             training : [ batchSize : {1}, accum : 1..MaxAccum, epochs : 1..MaxEpochs,
                          maxSteps : 0..MaxSteps, patience : 0..MaxPatience, warmup : {0, 50} ],
             kd : {Usual.kd}, device : {"auto"} ],
    rows : UNION {[1..n -> {0}] : n \in 1..MaxBatches},
    evaluated : BOOLEAN ]

\* Configurations of which validation has to refuse many.
ConfigJobs ==
  {JobOf([Usual EXCEPT !.strategy = s, !.teacherType = t, !.student.labels = n, !.teacher = m,
                       !.llmLabels = l, !.kd.alpha = a, !.kd.featureWeight = f,
                       !.device = d, !.sourced = o], <<0, 0>>, FALSE) :
     s \in Strategies, t \in {"huggingface", "llm"}, n \in {1, 2}, m \in {Plain, NoModel},
     l \in {0, 2}, a \in {50, 150}, f \in {0, 100}, d \in {"auto", "cuda", "mps"},
     o \in BOOLEAN}

Hub == [Plain EXCEPT !.configOnly = FALSE]

Maps == {{}, {<<1, 1>>}, {<<1, 2>>, <<2, 3>>}, {<<-1, -1>>}, {<<0, 4>>}}

\* Models from the hub, named layers, and texts too long for a tiny student.
ModelJobs ==
  {JobOf([Usual EXCEPT !.strategy = s, !.student = m, !.teacher = Hub,
                       !.kd.featureWeight = 100, !.kd.layerMap = p], <<0>>, TRUE) :
     s \in {"response_based", "feature_based"},
     m \in {Plain, [Plain EXCEPT !.seqLength = 1024], Hub}, p \in Maps}

\* Two models from the hub and rows that a limit may keep from the training.
TokenJobs ==
  {JobOf([Usual EXCEPT !.student = Hub, !.teacher = Hub, !.training.maxSteps = m], <<0, 0>>, e) :
     m \in 0..1, e \in BOOLEAN}

\* Labels the student has no class for, of every strategy.
LabelJobs ==
  {JobOf([Usual EXCEPT !.kd.alpha = a, !.training.maxSteps = m, !.training.batchSize = b,
                       !.training.epochs = 2], r, FALSE) :
     a \in {0, 50, 100}, m \in 0..2, b \in {1, 2},
     r \in [1..3 -> {0, 1, 2, IgnoreIndex}]}
  \cup
  {JobOf([Usual EXCEPT !.strategy = "llm_teacher", !.teacherType = "llm", !.teacher = NoModel,
                       !.llmLabels = 2, !.training.maxSteps = m], r, FALSE) :
     m \in 0..2, r \in [1..3 -> {0, 1}]}

MCJobs == TrainingJobs \cup ConfigJobs \cup ModelJobs \cup TokenJobs \cup LabelJobs

MCConfig == [ batches : 1..MaxBatches, accum : 1..MaxAccum, epochs : 1..MaxEpochs,
              maxSteps : 0..MaxSteps, patience : 0..MaxPatience, evalData : BOOLEAN ]

Bert == [ layers |-> 2, width |-> 32, hidden |-> 32, numLayers |-> 2, vocab |-> 2, positions |-> 512 ]

\* Models of every depth up to MaxLayers, one that is wider, one of a small
\* vocabulary, and ones whose config objects use other names.
MCCheckpoint ==
  {[Bert EXCEPT !.layers = n, !.numLayers = n] : n \in 1..MaxLayers}
    \cup {[Bert EXCEPT !.width = 64, !.hidden = 64], [Bert EXCEPT !.vocab = 1],
          [Bert EXCEPT !.hidden = 0], [Bert EXCEPT !.hidden = 0, !.width = 64],
          [Bert EXCEPT !.numLayers = 0], [Bert EXCEPT !.positions = 64]}
=============================================================================
