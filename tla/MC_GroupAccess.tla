--------------------------- MODULE MC_GroupAccess ---------------------------
(* An instance of GroupAccess for TLC. *)
EXTENDS GroupAccess, TLC

Alike == Permutations(Others)
=============================================================================
