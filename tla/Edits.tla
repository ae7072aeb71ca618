-------------------------------- MODULE Edits --------------------------------
(***************************************************************************)
(* Edits and deletions of the user's messages in one chat, in both         *)
(* directions (edits.go, outbound_edits.go, the edit and delete cases of   *)
(* handleEvent).  The source gives each edit and deletion a log of its     *)
(* own; the pump handles pushed and caught-up logs in order.  A Matrix     *)
(* edit or redaction holds the portal's event lock while its one request   *)
(* runs; the pump's checks are made before it waits for that lock.         *)
(***************************************************************************)
EXTENDS Naturals, Sequences

CONSTANTS
  Messages,
  None,
  MaxLogs, MaxFaults

VARIABLES
  src,       \* source: the revision of each message and whether it is deleted, or None
  logs,      \* source: the chat's logs
  inbox,     \* logs pushed or fetched and not yet handled
  cursor,    \* the committed position
  head,      \* the log in hand and where its handling is
  rows,      \* the message mapping: revision and type of each message, or None
  tombs,     \* kakao:matrix-deleted
  shown,     \* what the Matrix room shows of each message
  op,        \* the Matrix edit or redaction that holds the portal's lock
  online, faults

vars == <<src, logs, inbox, cursor, head, rows, tombs, shown, op, online, faults>>
source == <<src, logs>>
pump == <<inbox, cursor, head, online>>
Idle == [pc |-> "idle"]
Says(what) == [is |-> what, text |-> 0]
Shows(text) == [is |-> "text", text |-> text]

Init ==
  /\ src = [m \in Messages |-> None] /\ logs = <<>> /\ inbox = <<>> /\ cursor = 0 /\ head = Idle
  /\ rows = [m \in Messages |-> None] /\ tombs = {} /\ shown = [m \in Messages |-> Says("nothing")]
  /\ op = Idle /\ online = TRUE /\ faults = 0

Live(m) == src[m] # None /\ ~src[m].deleted
Row(m) == rows[m] # None
Bridged(m) == Row(m) /\ ~rows[m].deleted

-----------------------------------------------------------------------------
(* The source *)

\* A log as a page has it: the message as it is now, an edit without its text
Fetched(p) ==
  LET l == logs[p]
  IN CASE l.kind = "msg" -> [pos |-> p, kind |-> IF src[l.of].deleted THEN "deleted" ELSE "msg",
                             of |-> l.of, rev |-> src[l.of].rev, text |-> src[l.of].rev]
       [] l.kind = "edit" -> [pos |-> p, kind |-> "edit", of |-> l.of, rev |-> l.rev, text |-> 0]
       [] l.kind = "delete" -> [pos |-> p, kind |-> "delete", of |-> l.of, rev |-> 0, text |-> 0]

\* A new log, pushed with its content to a session that is up
Log(kind, m, rev) ==
  /\ Len(logs) < MaxLogs /\ logs' = Append(logs, [kind |-> kind, of |-> m, rev |-> rev])
  /\ inbox' = IF ~online THEN inbox
              ELSE Append(inbox, [pos |-> Len(logs) + 1, kind |-> kind, of |-> m, rev |-> rev, text |-> rev])
  /\ UNCHANGED <<cursor, head, online>>

\* A message written elsewhere, or sent from Matrix and mapped when its answer comes
Post(m, matrix) ==
  /\ src[m] = None /\ op = Idle /\ Log("msg", m, 1)
  /\ src' = [src EXCEPT ![m] = [rev |-> 1, deleted |-> FALSE]]
  /\ IF matrix THEN /\ rows' = [rows EXCEPT ![m] = [rev |-> 1, deleted |-> FALSE]]
                    /\ shown' = [shown EXCEPT ![m] = Shows(1)]
     ELSE UNCHANGED <<rows, shown>>
  /\ UNCHANGED <<tombs, op, faults>>

Modified(m) == Live(m) /\ src' = [src EXCEPT ![m].rev = @ + 1] /\ Log("edit", m, src[m].rev + 1)
Deleted(m) == Live(m) /\ src' = [src EXCEPT ![m].deleted = TRUE] /\ Log("delete", m, 0)

\* The user edits or deletes on another device.
Elsewhere(m) == (Modified(m) \/ Deleted(m)) /\ UNCHANGED <<rows, tombs, shown, op, faults>>

-----------------------------------------------------------------------------
(* The pump *)

\* The session ends: what is not committed is fetched again.
Drop ==
  /\ faults < MaxFaults /\ faults' = faults + 1
  /\ online' = FALSE /\ inbox' = <<>> /\ head' = Idle
  /\ UNCHANGED <<source, cursor, rows, tombs, shown, op>>

CatchUp ==
  /\ ~online /\ online' = TRUE
  /\ inbox' = [i \in 1 .. Len(logs) - cursor |-> Fetched(cursor + i)]
  /\ UNCHANGED <<source, cursor, head, rows, tombs, shown, op, faults>>

\* The text of an edit that came without it is not read.
MutantComplete(item) == item

\* completeEdit: GETMSGS reads the edited message as it is now
Complete(item) ==
  IF item.kind = "edit" /\ item.text = 0
  THEN [item EXCEPT !.text = IF Live(item.of) THEN src[item.of].rev ELSE 0]
  ELSE item

\* handleEvent before deliverRemote: a log deleted from Matrix and the delete feed of
\* a placeholder are committed as they are
Take ==
  /\ inbox # <<>> /\ head = Idle
  /\ LET item == Head(inbox)
         done == \/ item.kind = "deleted" /\ item.of \in tombs
                 \/ item.kind = "delete" /\ Row(item.of) /\ rows[item.of].deleted
     IN head' = [pc |-> IF done THEN "commit" ELSE "deliver", item |-> Complete(item)]
  /\ inbox' = Tail(inbox)
  /\ UNCHANGED <<source, cursor, online, rows, tombs, shown, op, faults>>

\* ConvertEdit: the edited text of a mapped message, newer than the stored revision
Applies(e) == Bridged(e.of) /\ e.text # 0 /\ rows[e.of].rev < e.rev

\* The framework under the portal's lock: a mapped message is not posted again, an edit
\* replaces it, a deletion redacts it
Deliver ==
  /\ head.pc = "deliver" /\ op = Idle /\ head' = [head EXCEPT !.pc = "commit"]
  /\ LET e == head.item
         new == e.kind \in {"msg", "deleted"} /\ ~Row(e.of)
         edit == e.kind = "edit" /\ Applies(e)
         gone == e.kind = "delete" /\ Row(e.of)
     IN /\ rows' = CASE new -> [rows EXCEPT ![e.of] = [rev |-> e.rev, deleted |-> e.kind = "deleted"]]
                     [] edit -> [rows EXCEPT ![e.of].rev = e.rev]
                     [] gone -> [rows EXCEPT ![e.of] = None]
                     [] OTHER -> rows
        /\ shown' = CASE new -> [shown EXCEPT ![e.of] =
                                                   IF e.kind = "deleted" THEN Says("placeholder") ELSE Shows(e.text)]
                      [] edit -> [shown EXCEPT ![e.of] = Shows(e.text)]
                      [] gone -> [shown EXCEPT ![e.of] = Says("redacted")]
                      [] OTHER -> shown
  /\ UNCHANGED <<source, inbox, cursor, online, tombs, op, faults>>

Commit ==
  /\ head.pc = "commit" /\ cursor' = head.item.pos /\ head' = Idle
  /\ UNCHANGED <<source, inbox, online, rows, tombs, shown, op, faults>>

-----------------------------------------------------------------------------
(* Matrix *)

\* HandleMatrixEdit: the room shows the user's edit at once
StartEdit(m) ==
  /\ op = Idle /\ Bridged(m) /\ shown[m].is # "redacted"
  /\ shown' = [shown EXCEPT ![m] = Says("typed")] /\ op' = [pc |-> "modify", of |-> m]
  /\ UNCHANGED <<source, pump, rows, tombs, faults>>

\* MODIFYMSG is applied or refused
Modify ==
  /\ op.pc = "modify"
  /\ \/ Modified(op.of) /\ op' = [pc |-> "modified", of |-> op.of, rev |-> src[op.of].rev + 1]
     \/ op' = Idle /\ UNCHANGED <<source, pump>>
  /\ UNCHANGED <<rows, tombs, shown, faults>>

\* The answer records the revision, or is lost.
Edited ==
  /\ op.pc = "modified" /\ op' = Idle
  /\ \/ /\ rows' = [rows EXCEPT ![op.of].rev = op.rev] /\ shown' = [shown EXCEPT ![op.of] = Shows(op.rev)]
        /\ UNCHANGED faults
     \/ faults < MaxFaults /\ faults' = faults + 1 /\ UNCHANGED <<rows, shown>>
  /\ UNCHANGED <<source, pump, tombs>>

\* HandleMatrixMessageRemove: a placeholder is removed locally
StartRemove(m) ==
  /\ op = Idle /\ Row(m) /\ shown[m].is # "redacted"
  /\ shown' = [shown EXCEPT ![m] = Says("redacted")]
  /\ IF rows[m].deleted THEN rows' = [rows EXCEPT ![m] = None] /\ UNCHANGED op
     ELSE op' = [pc |-> "delete", of |-> m] /\ UNCHANGED rows
  /\ UNCHANGED <<source, pump, tombs, faults>>

\* DELETEMSG: deleted now or before, or refused
Delete ==
  /\ op.pc = "delete"
  /\ \/ Deleted(op.of) /\ op' = [op EXCEPT !.pc = "deleted"]
     \/ ~Live(op.of) /\ op' = [op EXCEPT !.pc = "deleted"] /\ UNCHANGED <<source, pump>>
     \/ op' = Idle /\ UNCHANGED <<source, pump>>
  /\ UNCHANGED <<rows, tombs, shown, faults>>

\* The tombstone, then the framework drops the mapping; or the answer is lost.
Removed ==
  /\ op.pc = "deleted" /\ op' = Idle
  /\ \/ /\ tombs' = tombs \cup {op.of} /\ rows' = [rows EXCEPT ![op.of] = None] /\ UNCHANGED faults
     \/ faults < MaxFaults /\ faults' = faults + 1 /\ UNCHANGED <<rows, tombs>>
  /\ UNCHANGED <<source, pump, shown>>

Next ==
  \/ \E m \in Messages, b \in BOOLEAN : Post(m, b)
  \/ \E m \in Messages : Elsewhere(m) \/ StartEdit(m) \/ StartRemove(m)
  \/ Drop \/ CatchUp \/ Take \/ Deliver \/ Commit \/ Modify \/ Edited \/ Delete \/ Removed

Spec == Init /\ [][Next]_vars

-----------------------------------------------------------------------------
CaughtUp == online /\ inbox = <<>> /\ head = Idle /\ op = Idle

\* Once the pump is caught up, every message shows the source's current text or that it
\* is gone, whichever of the two sides edited or deleted it last and wherever the session
\* broke (the revision guard of ConvertEdit, completeEdit, the delete feed), unless the
\* source refused what the user did in Matrix.
Converged ==
  CaughtUp => \A m \in Messages : src[m] # None =>
    \/ shown[m].is \in {"typed", "redacted"}
    \/ src[m].deleted /\ shown[m].is = "placeholder"
    \/ ~src[m].deleted /\ shown[m] = Shows(src[m].rev)

\* "a durable tombstone keeps it from reappearing as a placeholder" (outbound_edits.go):
\* the log of a message whose deletion from Matrix succeeded posts nothing.  A log checked
\* against the tombstone while the deletion holds the portal's lock breaks it.
NoPlaceholder == \A m \in tombs : shown[m].is # "placeholder"
==============================================================================
