----------------------------- MODULE ReadState -----------------------------
(***************************************************************************)
(* Read state of one chat in both directions.  A Matrix receipt is         *)
(* coalesced (read_receipts.go) and acknowledged by MarkRead               *)
(* (client/read_state.go), a loop of SYNCMSG requests that declare how     *)
(* many logs are held; the server marks the chat read only when the count  *)
(* covers its own.  A member's watermark comes as a live notice or in the  *)
(* answer to entering the room, and moves the member's Matrix receipt.     *)
(***************************************************************************)
EXTENDS Naturals, FiniteSets

CONSTANTS
  MaxLog,      \* logs of the chat
  HeldCap,     \* readSyncHeldCap
  PageSize,    \* logs of a SYNCMSG answer
  MaxCrashes

VARIABLES
  logs,        \* logs of the chat on the server
  rows,        \* logs with a row in the bridge database
  serverRead,  \* the server's read position of the account
  checkpoint,  \* ReadWatermark of the continuity file
  pending,     \* readAcks: the position that waits, or 0
  mark,        \* the running MarkRead
  seen,        \* the member's watermark on the server
  notices,     \* DECUNREAD notices on their way
  entered,     \* a CHATONROOM answer on its way, or 0
  bridged,     \* the member's watermark in the bridge database
  receipt,     \* the member's receipt in the room
  crashes

vars == <<logs, rows, serverRead, checkpoint, pending, mark, seen, notices, entered, bridged,
          receipt, crashes>>
ackVars == <<serverRead, checkpoint, pending, mark>>
memberVars == <<seen, notices, entered, bridged, receipt>>

Idle == [pc |-> "idle", target |-> 0, cur |-> 0]
Between(S, after, upTo) == {l \in S : after < l /\ l <= upTo}
Oldest(S, k) == {l \in S : Cardinality({m \in S : m < l}) < k}
Largest(S) == CHOOSE l \in S : \A m \in S : m <= l
Larger(a, b) == IF a > b THEN a ELSE b

Init ==
  /\ logs \in SUBSET (1..MaxLog) /\ rows = {} /\ serverRead = 0 /\ checkpoint = 0 /\ pending = 0
  /\ mark = Idle /\ seen = 0 /\ notices = {} /\ entered = 0 /\ bridged = 0 /\ receipt = 0
  /\ crashes = 0

\* A log is delivered to the room, in any order (history and live delivery).
Bridge(l) ==
  /\ l \in logs \ rows /\ rows' = rows \cup {l}
  /\ UNCHANGED <<logs, ackVars, memberVars, crashes>>

-----------------------------------------------------------------------------
(* Acknowledgement *)

\* HandleMatrixReadReceipt and scheduleReadAck
Receipt(l) ==
  /\ l \in rows /\ pending' = Larger(pending, l)
  /\ UNCHANGED <<logs, rows, serverRead, checkpoint, mark, memberVars, crashes>>

\* flushReadAck or flushReadAcks takes the position; it is dropped without a
\* connection.  MarkRead starts at the confirmed position.
Flush(connected) ==
  /\ pending > 0 /\ mark.pc = "idle" /\ pending' = 0
  /\ mark' = IF connected /\ checkpoint < pending
               THEN [pc |-> "ask", target |-> pending, cur |-> checkpoint] ELSE Idle
  /\ UNCHANGED <<logs, rows, serverRead, checkpoint, memberVars, crashes>>

\* heldMessages: the first HeldCap logs held after cur, none without a row of the
\* target.
Held == IF mark.target \in rows THEN Oldest(Between(rows, mark.cur, mark.target), HeldCap) ELSE {}
AskMax == IF Held = {} THEN mark.target ELSE Largest(Held)

\* The server's rule (external): the count covers every log up to the maximum.
Accepts == Cardinality(Held) >= Cardinality(Between(logs, mark.cur, AskMax))

MutantCommitted(ok, max) == max

\* CommitReadWatermark: only a confirmed position.
Committed(ok, max) == IF ok THEN Larger(checkpoint, max) ELSE checkpoint

MutantContinues(max) == FALSE

\* A capped request that was accepted goes on.
Continues(max) == Cardinality(Held) >= HeldCap /\ max < mark.target

\* One SYNCMSG of the loop and its answer.
Ask ==
  /\ mark.pc = "ask" /\ checkpoint' = Committed(Accepts, AskMax)
  /\ serverRead' = IF Accepts THEN Larger(serverRead, AskMax) ELSE serverRead
  /\ mark' = IF Accepts
               THEN [mark EXCEPT !.pc = IF Continues(AskMax) THEN "ask" ELSE "done", !.cur = AskMax]
               ELSE [mark EXCEPT !.cur = Largest(Oldest(Between(logs, mark.cur, AskMax), PageSize))]
  /\ UNCHANGED <<logs, rows, pending, memberVars, crashes>>

\* The request fails: logged, not retried.
AskFails ==
  /\ mark.pc = "ask" /\ mark' = Idle
  /\ UNCHANGED <<logs, rows, serverRead, checkpoint, pending, memberVars, crashes>>

Return ==
  /\ mark.pc = "done" /\ mark' = Idle
  /\ UNCHANGED <<logs, rows, serverRead, checkpoint, pending, memberVars, crashes>>

-----------------------------------------------------------------------------
(* The member's receipt *)

MemberReads(l) ==
  /\ l \in logs /\ l > seen /\ seen' = l /\ notices' = notices \cup {l}
  /\ UNCHANGED <<logs, rows, ackVars, entered, bridged, receipt, crashes>>

\* ChatOnRoom: the room is viewed.
Enter ==
  /\ entered = 0 /\ seen > 0 /\ entered' = seen
  /\ UNCHANGED <<logs, rows, ackVars, seen, notices, bridged, receipt, crashes>>

MutantForward(w) == TRUE

\* A member's receipt only moves forward, including after a restart.
Forward(w) == w > bridged

\* handleReadState: the receipt goes to the newest bridged message up to the
\* watermark, and the watermark is stored; ok says whether it was bridged.
Apply(w, ok) ==
  LET targets == Between(rows, 0, w)
  IN  IF Forward(w) /\ targets # {} /\ ok
        THEN receipt' = Largest(targets) /\ bridged' = w
        ELSE UNCHANGED <<receipt, bridged>>

Notice(w, ok) ==
  /\ w \in notices /\ notices' = notices \ {w} /\ Apply(w, ok)
  /\ UNCHANGED <<logs, rows, ackVars, seen, entered, crashes>>

\* applyChatOnRoomWatermarks
Entered(ok) ==
  /\ entered > 0 /\ entered' = 0 /\ Apply(entered, ok)
  /\ UNCHANGED <<logs, rows, ackVars, seen, notices, crashes>>

-----------------------------------------------------------------------------
Crash ==
  /\ crashes < MaxCrashes /\ crashes' = crashes + 1
  /\ pending' = 0 /\ mark' = Idle /\ notices' = {} /\ entered' = 0
  /\ UNCHANGED <<logs, rows, serverRead, checkpoint, seen, bridged, receipt>>

Next ==
  \/ \E l \in 1..MaxLog : Bridge(l) \/ Receipt(l) \/ MemberReads(l)
  \/ Ask \/ AskFails \/ Return \/ Enter \/ Crash
  \/ \E b \in BOOLEAN : Flush(b) \/ Entered(b) \/ (\E w \in 1..MaxLog : Notice(w, b))

Spec == Init /\ [][Next]_vars

-----------------------------------------------------------------------------
\* The stored read position was confirmed by the server, and an acknowledgement
\* that ends without an error has marked everything up to its position read,
\* whatever part of the chat is held (MarkRead).
ReadAcknowledged ==
  checkpoint <= serverRead /\ (mark.pc = "done" => serverRead >= mark.target)

\* A member's receipt never moves back, with notices and room entries out of
\* order and across restarts (handleReadState).
ReceiptMoves == receipt' >= receipt
ReceiptForward == [][ReceiptMoves]_vars
=============================================================================
