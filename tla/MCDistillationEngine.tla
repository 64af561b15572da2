------------------------- MODULE MCDistillationEngine -------------------------
(* Small instances of DistillationEngine for TLC. *)
EXTENDS DistillationEngine

TwoLabels == <<"neg", "pos">>

Word(text) == [kind |-> "str", value |-> 0, text |-> text]

Number(n) == [kind |-> "int", value |-> n, text |-> n]

Flag == [kind |-> "bool", value |-> 1, text |-> 10]

SmallLabels == {Number(-1), Number(0), Number(2), Flag, Word(11), Word(12)}

SomeTables == {<<>>, <<12, 11>>}

\* With rows of their own for evaluation (the hub), with the same rows (the
\* other formats), or without.
SmallDatasets ==
  LET trains == SeqOf(SmallLabels, 2)
      base(r, names, max) == [NoDataset EXCEPT !.train = r, !.names = names, !.maxTrain = max]
  IN  UNION {
        LET b == base(r, names, max)
        IN  {b, [b EXCEPT !.evaluated = TRUE, !.eval = r]}
            \cup {[b EXCEPT !.evaluated = TRUE, !.eval = e] : e \in SeqOf(SmallLabels, 2)}
        : r \in trains, names \in SomeTables, max \in {0, 1} }
=============================================================================
