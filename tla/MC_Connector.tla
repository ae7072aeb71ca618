---------------------------- MODULE MC_Connector ----------------------------
(* Instances of Connector for TLC. *)
EXTENDS Connector, TLC

Alike == Permutations(Clients) \cup Permutations(Attempts)
=============================================================================
