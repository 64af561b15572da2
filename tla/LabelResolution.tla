--------------------------- MODULE LabelResolution ---------------------------
(***************************************************************************)
(* From raw labels to class ids (core/data.py).                            *)
(*                                                                         *)
(* A raw label has a kind ("str", "int" or "bool"), the number int() makes *)
(* of it and the text str() makes of it.  A text is a number here, in the  *)
(* order in which Python sorts the strings: a numeral of one digit is the  *)
(* number itself, and words come behind the numerals.  A table of names is *)
(* a sequence of texts.                                                    *)
(***************************************************************************)
EXTENDS Ascending

RawLabel == [kind : {"str", "int", "bool"}, value : Int, text : Int]

\* What of a dataset_spec decides on the labels.  maxTrain and maxEval are 0 for None.
DatasetSpec == [ train : Seq(RawLabel), evaluated : BOOLEAN, eval : Seq(RawLabel),
                 names : Seq(Int), maxTrain : Nat, maxEval : Nat ]

Failed == [ok |-> FALSE, ids |-> <<>>, names |-> <<>>]

Resolved(ids, names) == [ok |-> TRUE, ids |-> ids, names |-> names]

\* The index of a name, from 0; of a name given twice, that of the last one.
IndexOf(text, names) == Max({i \in DOMAIN names : names[i] = text}) - 1

TextsOf(raw) == {raw[i].text : i \in DOMAIN raw}

\* Mutant: the names in the order in which they appear.
NamesAsTheyCome(raw) ==
  LET first(text) == Min({i \in DOMAIN raw : raw[i].text = text})
  IN  SetToSortSeq(TextsOf(raw), LAMBDA a, b : first(a) < first(b))

SortedNames(raw) == Sorted(TextsOf(raw))

\* With a table of names, words are looked up and numbers are ids already.
ResolveByTable(raw, names) ==
  IF \E i \in DOMAIN raw : raw[i].kind = "str" /\ raw[i].text \notin ToSet(names)
    THEN Failed
    ELSE Resolved([i \in DOMAIN raw |-> IF raw[i].kind = "str" THEN IndexOf(raw[i].text, names)
                                                               ELSE raw[i].value],
                  names)

\* Numbers are ids, and the table has the numerals from 0 to the largest.
ResolveNumbers(raw) ==
  LET ids  == [i \in DOMAIN raw |-> raw[i].value]
      last == IF raw = <<>> THEN -1 ELSE Max(ToSet(ids))
  IN  Resolved(ids, [i \in 1 .. last + 1 |-> i - 1])

ResolveTexts(raw) ==
  LET names == SortedNames(raw)
  IN  Resolved([i \in DOMAIN raw |-> IndexOf(raw[i].text, names)], names)

\* _resolve_labels
Resolve(raw, names) ==
  IF names # <<>> THEN ResolveByTable(raw, names)
  ELSE IF \A i \in DOMAIN raw : raw[i].kind = "int" THEN ResolveNumbers(raw)
  ELSE ResolveTexts(raw)

Cut(rows, max) == IF max # 0 /\ Len(rows) > max THEN SubSeq(rows, 1, max) ELSE rows

NoBundle == [ok |-> FALSE, train |-> <<>>, eval |-> <<>>, names |-> <<>>, numLabels |-> 0]

\* Mutant: the evaluation rows are resolved on their own.
EvalOwnTable(spec, table) == spec.names

\* The evaluation rows are resolved with the table of the training rows.
EvalTable(spec, table) == table

\* build_datasets, as far as labels go.
BuildDatasets(spec) ==
  LET train == Cut(spec.train, spec.maxTrain)
      r     == Resolve(train, spec.names)
      eval  == IF spec.evaluated THEN Cut(spec.eval, spec.maxEval) ELSE <<>>
      e     == Resolve(eval, EvalTable(spec, r.names))
  IN  IF ~r.ok \/ train = <<>> \/ (spec.evaluated /\ ~e.ok)
        THEN NoBundle
        ELSE [ ok        |-> TRUE,
               train     |-> r.ids,
               eval      |-> e.ids,
               names     |-> r.names,
               numLabels |-> Max({Len(r.names), Max(ToSet(r.ids)) + 1}) ]
=============================================================================
