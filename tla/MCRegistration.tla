-------------------------- MODULE MCRegistration --------------------------
(* Small instances of Registration for TLC. *)
EXTENDS Registration, TLC

CONSTANTS c1, c2, c3, snapA, snapB, alice, bob

Symmetry == Permutations(Calls)
=============================================================================
