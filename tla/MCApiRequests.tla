----------------------------- MODULE MCApiRequests -----------------------------
(* Small instances of ApiRequests for TLC. *)
EXTENDS ApiRequests

LOCAL INSTANCE TLC

CONSTANTS c1, c2

\* The client that pages first.
SomeRoles ==
  {c1 :> r[1] @@ c2 :> r[2] :
     r \in {<<"operator", "operator">>, <<"viewer", "admin">>, <<"admin", "operator">>}}

\* One pages while the other changes what it pages through.
SomeCalls == c1 :> {"list", "create"} @@ c2 :> {"get", "create", "cancel", "delete"}

Symmetry == Permutations(Job)
=============================================================================
