------------------------- MODULE MC_ClientLifecycle -------------------------
(* Two users of the session, a committing goroutine and two that shut down. *)
EXTENDS ClientLifecycle
=============================================================================
