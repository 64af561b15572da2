------------------------------- MODULE Ascending -------------------------------
(***************************************************************************)
(* Sets of numbers in ascending order.                                     *)
(***************************************************************************)
EXTENDS Integers, SequencesExt

\* The elements of a finite set, each once, the smallest first.
Sorted(S) ==
  CHOOSE s \in [1 .. Cardinality(S) -> S] : \A i, j \in DOMAIN s : i < j => s[i] < s[j]
=============================================================================
