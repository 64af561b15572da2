------------------------------ MODULE MCAccounts ------------------------------
(* Small instances of Accounts for TLC. *)
EXTENDS Accounts, TLC

CONSTANTS r1, r2, k1, k2, k3

\* The second replica is newer: it has another key, and another order.
Rotation == (r1 :> <<k1, k2>>) @@ (r2 :> <<k2, k1, k3>>)

Symmetry == Permutations(Caller)
=============================================================================
