------------------------------- MODULE Viewing -------------------------------
(***************************************************************************)
(* Reaction sync of the room in view (reaction_resync.go).  Heartbeats of  *)
(* the viewed room create demand; one sync runs at a time, outside kc.mu,  *)
(* while pushes, failed lookups, a change of room and the operator's       *)
(* command go on changing the view it will report to.                      *)
(***************************************************************************)
EXTENDS Naturals

CONSTANTS Chats, None,
  MaxRevision,   \* reaction changes of a room
  MaxViews       \* views, and requests of one view

VARIABLES
  newest,    \* source: the newest reaction revision of each room
  cursor,    \* durable sync cursor of each room
  view,      \* kc.reactionView
  views,     \* views made so far
  run,       \* the sync under way (kc.reactionSyncBusy)
  asked      \* the view wants a read that has not been made since

vars == <<newest, cursor, view, views, run, asked>>

NoView == [id |-> 0, chat |-> None, pending |-> FALSE, initialized |-> FALSE, disabled |-> FALSE,
           running |-> FALSE, version |-> 0, latest |-> 0, synced |-> 0]
NoRun == [pc |-> "idle", id |-> 0, chat |-> None, initialized |-> FALSE, version |-> 0, got |-> 0]

Init ==
  /\ newest = [c \in Chats |-> 1] /\ cursor = [c \in Chats |-> 0]
  /\ view = NoView /\ views = 0 /\ run = NoRun /\ asked = FALSE

-----------------------------------------------------------------------------
\* A change whose push arrives (observeReactionRevision), or is lost
Change(c, pushed) ==
  /\ newest[c] < MaxRevision /\ newest' = [newest EXCEPT ![c] = @ + 1]
  /\ view' = IF pushed /\ view.chat = c THEN [view EXCEPT !.latest = newest[c] + 1] ELSE view
  /\ UNCHANGED <<cursor, views, run, asked>>

\* requestViewedReactionRefresh: a push that could not be applied
Request ==
  /\ view # NoView /\ view.version < MaxViews
  /\ view' = [view EXCEPT !.version = @ + 1, !.pending = TRUE] /\ asked' = TRUE
  /\ UNCHANGED <<newest, cursor, views, run>>

\* The view a heartbeat is about: a new one for another room or after a silence, its
\* capability checked again for the operator
Viewed(c, explicit, fresh) ==
  LET seen == IF fresh THEN [NoView EXCEPT !.id = views + 1, !.chat = c, !.pending = TRUE] ELSE view
  IN IF explicit THEN [seen EXCEPT !.initialized = FALSE, !.disabled = FALSE,
                                   !.pending = TRUE, !.version = @ + 1]
     ELSE seen

Due(v) == ~v.running /\ ~v.disabled /\ (v.pending \/ v.latest > v.synced)

\* handleReactionDemand up to its unlock: a new view waits for its interval; the operator
\* does not, and is refused while a sync runs
Heartbeat(c, explicit) ==
  /\ explicit => run = NoRun /\ view.version < MaxViews
  /\ \E fresh \in BOOLEAN :
       LET v == Viewed(c, explicit, fresh)
           starts == run = NoRun /\ Due(v) /\ (fresh => explicit)
       IN /\ (view.chat # c) => fresh
          /\ fresh => views < MaxViews
          /\ views' = IF fresh THEN views + 1 ELSE views
          /\ view' = [v EXCEPT !.running = @ \/ starts]
          /\ run' = IF starts THEN [pc |-> "enter", id |-> v.id, chat |-> c, initialized |-> v.initialized,
                                    version |-> v.version, got |-> 0]
                    ELSE run
          /\ asked' = (asked \/ fresh \/ explicit)
  /\ UNCHANGED <<newest, cursor>>

\* A heartbeat of no room
Leave ==
  /\ view # NoView /\ view' = NoView /\ asked' = FALSE
  /\ UNCHANGED <<newest, cursor, views, run>>

\* The room is entered, once per view
Enter ==
  /\ run.pc = "enter" /\ run' = [run EXCEPT !.pc = "read", !.initialized = TRUE]
  /\ UNCHANGED <<newest, cursor, view, views, asked>>

\* resyncChatReactions reads the changes after the cursor
Read ==
  /\ run.pc = "read" /\ run' = [run EXCEPT !.pc = "finish", !.got = newest[run.chat]]
  /\ cursor' = [cursor EXCEPT ![run.chat] = newest[run.chat]]
  /\ asked' = (asked /\ view.id # run.id)
  /\ UNCHANGED <<newest, view, views>>

\* A finished sync clears the demand of the view, whatever was asked for meanwhile.
MutantReported(ok, disabled) ==
  [view EXCEPT !.running = FALSE, !.initialized = run.initialized \/ disabled, !.disabled = disabled,
               !.pending = ~ok, !.synced = IF run.got > @ THEN run.got ELSE @]

\* What a sync reports to its view
Reported(ok, disabled) ==
  [view EXCEPT !.running = FALSE, !.initialized = run.initialized \/ disabled, !.disabled = disabled,
               !.pending = ~ok \/ view.version # run.version,
               !.synced = IF run.got > @ THEN run.got ELSE @]

\* handleReactionDemand after the read; a view replaced meanwhile is left alone
Finish(ok, disabled) ==
  /\ run # NoRun /\ (ok /\ ~disabled => run.pc = "finish")
  /\ disabled => ok /\ run.pc = "enter" /\ ~run.initialized
  /\ view' = IF view.id = run.id THEN Reported(ok, disabled) ELSE view
  /\ run' = NoRun
  /\ UNCHANGED <<newest, cursor, views, asked>>

Next ==
  \/ \E c \in Chats, b \in BOOLEAN : Change(c, b) \/ Heartbeat(c, b)
  \/ Request \/ Leave \/ Enter \/ Read
  \/ \E ok \in BOOLEAN, disabled \in BOOLEAN : Finish(ok, disabled)

Spec == Init /\ [][Next]_vars

-----------------------------------------------------------------------------
\* Demand is not lost to a sync that was already reading: whatever the viewed room was
\* asked for since the last read of it, the next admitted heartbeat serves
\* (refreshVersion, latest and synced in handleReactionDemand).
DemandKept ==
  (/\ view # NoView /\ ~view.running /\ ~view.disabled
   /\ asked \/ view.latest > cursor[view.chat])
  => Due(view)
==============================================================================
