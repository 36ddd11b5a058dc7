-------------------------- MODULE MCModelRegistry --------------------------
(***************************************************************************)
(* Calls on two versions of one model.                                     *)
(***************************************************************************)
EXTENDS ModelRegistry, TLC

CONSTANTS c1, c2, c3, c4, i1, i2

AllRequests == [op: {"register", "retrain", "promote", "rollback"}, version: {"v1", "v2"}]

Symmetry == Permutations(Calls) \cup Permutations(Ids)
=============================================================================
