--------------------------- MODULE MC_BulkCatchUp ---------------------------
(* Small instances of BulkCatchUp.  Chats are numbers: pages list them in   *)
(* ascending order.                                                        *)
EXTENDS BulkCatchUp
=============================================================================
