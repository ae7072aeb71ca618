--------------------------- MODULE MC_Continuity ----------------------------
(* The checkpoint Store on one chat with two positions. *)
EXTENDS Continuity
=============================================================================
