------------------------------- MODULE LayerMap -------------------------------
(***************************************************************************)
(* Which teacher layer a student layer is to imitate: default_layer_map    *)
(* (core/strategies/feature_based.py).  Layers are numbered from 1; the    *)
(* embeddings are layer 0 of the hidden states.                            *)
(***************************************************************************)
EXTENDS Integers

\* round(a / b) of Python: to the nearest integer, and from halfway to the even one.
Round(a, b) ==
  LET q == a \div b
      r == a % b
  IN  IF 2 * r < b \/ (2 * r = b /\ q % 2 = 0) THEN q ELSE q + 1

\* Mutant: rounded down.
TeacherLayerFloor(s, S, T) == (s * T) \div S

\* Of S student layers and T teacher layers, what layer s is mapped to.
TeacherLayer(s, S, T) ==
  LET t == Round(s * T, S)
  IN  IF t < 1 THEN 1 ELSE IF t > T THEN T ELSE t

DefaultLayerMap(S, T) == [s \in 1..S |-> TeacherLayer(s, S, T)]

-----------------------------------------------------------------------------
\* What a map of S layers to T layers has to be: the last layer imitates the
\* last, later layers imitate later ones, and each the one nearest to its place.
Aligned(map, S, T) ==
  /\ DOMAIN map = 1..S
  /\ \A s \in 1..S : map[s] \in 1..T
  /\ map[S] = T
  /\ \A s \in 1 .. S - 1 : IF S <= T THEN map[s] < map[s + 1] ELSE map[s] <= map[s + 1]
  /\ S <= T => \A s \in 1..S : LET d == S * map[s] - s * T IN 2 * d <= S /\ -S <= 2 * d
=============================================================================
