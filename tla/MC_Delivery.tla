---------------------------- MODULE MC_Delivery -----------------------------
(* Message delivery on small instances. *)
EXTENDS Delivery
=============================================================================
