------------------------------ MODULE Backfill ------------------------------
(***************************************************************************)
(* Delivery of old messages of one chat to its Matrix room.  FetchMessages *)
(* (history_pages.go) serves the framework's backward backfill task window *)
(* by window; a window that was handed out stays selected in the database  *)
(* until every part of it has a row there.  BackfillGroup                  *)
(* (group_history.go) imports an interval that the operator selected,      *)
(* message by message.  Sends and rows are separate steps, a send may lose *)
(* its acknowledgement and the bridge may crash anywhere.  Messages are    *)
(* numbered; a part of a message is a pair.                                *)
(***************************************************************************)
EXTENDS Naturals, FiniteSets

CONSTANTS
  Last,      \* the newest message
  Albums,    \* the messages of two parts
  Limit,     \* rows of a window or a page
  Budget,    \* messages the operator allows for one selection
  MaxCrashes

VARIABLES
  stored,    \* messages above this one are in the acquired store
  mapped,    \* parts with a row in the bridge database
  known,     \* transactions the homeserver has seen
  copies,    \* Matrix events per part that imports created
  batch,     \* the selection in the database: pending, through, first
  task,      \* the backfill task in the database: its cursor
  work,      \* the running FetchMessages: parts to send, expected, next cursor
  journal,   \* groupHistoryProgress in the database
  import,    \* the running BackfillGroup: its page and position
  crashes

vars == <<stored, mapped, known, copies, batch, task, work, journal, import, crashes>>

Messages == 1..Last
PartsOf(m) == {m} \X (IF m \in Albums THEN 1..2 ELSE {1})
Parts == UNION {PartsOf(m) : m \in Messages}
Smallest(S) == CHOOSE m \in S : \A n \in S : m <= n

\* The newest (oldest) Limit of a set of messages.
Newest(S) == {m \in S : Cardinality({n \in S : n > m}) < Limit}
Oldest(S, k) == {m \in S : Cardinality({n \in S : n < m}) < k}

Idle == [pc |-> "idle", send |-> {}, expect |-> {}, cursor |-> 0]
NoImport == [pc |-> "idle", page |-> {}]

Init ==
  /\ stored \in {0, Last - Limit} /\ mapped = {} /\ known = {}
  /\ copies = [p \in Parts |-> 0]
  /\ batch = [pending |-> FALSE, through |-> 0, first |-> 0] /\ task = Last + 1
  /\ work = Idle /\ crashes = 0
  /\ journal = [start |-> 0, after |-> 0, through |-> 0, remaining |-> 0] /\ import = NoImport

-----------------------------------------------------------------------------
(* FetchMessages and the framework's task *)

\* ReadStoredHistory is complete or a cached suffix.
Rows(through) == {m \in Messages : stored < m /\ m < through}

\* What a fetch serves: the pending selection before a new one.
Through == IF batch.pending THEN batch.through ELSE task

\* Nothing below the cursor is stored: pages are acquired from the source.
Acquire ==
  /\ work.pc = "idle" /\ stored > 0 /\ Rows(Through) = {}
  /\ stored' = 0
  /\ UNCHANGED <<mapped, known, copies, batch, task, work, journal, import, crashes>>

\* Completion requires the full part set, the parts already mapped included.
Expected(sel) == UNION {PartsOf(m) : m \in sel}

\* The selection is saved before it is handed out.
Fetch ==
  LET sel == {m \in Newest(Rows(Through)) : batch.pending => m >= batch.first}
  IN  /\ work.pc = "idle" /\ sel # {}
      /\ batch' = IF batch.pending THEN batch
                  ELSE [pending |-> TRUE, through |-> task, first |-> Smallest(sel)]
      /\ work' = [pc |-> "send", send |-> Expected(sel) \ mapped, expect |-> Expected(sel),
                  cursor |-> batch'.first]
      /\ UNCHANGED <<stored, mapped, known, copies, task, journal, import, crashes>>

\* The framework sends a part of the batch and inserts its row, or fails to.
SendPart(p, ok) ==
  /\ work.pc = "send" /\ p \in work.send
  /\ work' = [work EXCEPT !.send = @ \ {p}]
  /\ mapped' = IF ok THEN mapped \cup {p} ELSE mapped
  /\ UNCHANGED <<stored, known, copies, batch, task, journal, import, crashes>>

MutantConfirmed == TRUE

Confirmed == work.expect \subseteq mapped

\* CompleteCallback: the selection is settled once all rows are there; else the
\* task keeps its old cursor.
Complete ==
  /\ work.pc = "send" /\ work.send = {}
  /\ batch' = IF Confirmed THEN [batch EXCEPT !.pending = FALSE] ELSE batch
  /\ work' = [work EXCEPT !.pc = "save",
                          !.cursor = IF Confirmed THEN @ ELSE task]
  /\ UNCHANGED <<stored, mapped, known, copies, task, journal, import, crashes>>

\* The framework saves the task.
SaveTask ==
  /\ work.pc = "save" /\ task' = work.cursor /\ work' = Idle
  /\ UNCHANGED <<stored, mapped, known, copies, batch, journal, import, crashes>>

-----------------------------------------------------------------------------
(* BackfillGroup *)

Done == journal.through > 0 /\ journal.after = journal.through

\* A new interval, unless one is to be resumed.
Select(after, through) ==
  /\ import.pc = "idle" /\ after < through
  /\ journal.through > 0 /\ ~Done => journal.remaining = 0
  /\ journal' = [start |-> after, after |-> after, through |-> through, remaining |-> Budget]
  /\ import' = [NoImport EXCEPT !.pc = "ask"]
  /\ UNCHANGED <<stored, mapped, known, copies, batch, task, work, crashes>>

Resume ==
  /\ import.pc = "idle" /\ journal.through > 0 /\ ~Done /\ journal.remaining > 0
  /\ import' = [NoImport EXCEPT !.pc = "ask"]
  /\ UNCHANGED <<stored, mapped, known, copies, batch, task, work, journal, crashes>>

\* ReadHistoryPage answers with the next messages of the interval, or the
\* command ends with its progress retained.
Ask(ok) ==
  LET limit == IF journal.remaining < Limit THEN journal.remaining ELSE Limit
  IN  /\ import.pc = "ask"
      /\ import' = IF ok /\ limit > 0 /\ ~Done
                     THEN [pc |-> "deliver",
                           page |-> Oldest((journal.after + 1)..journal.through, limit)]
                     ELSE NoImport
      /\ UNCHANGED <<stored, mapped, known, copies, batch, task, work, journal, crashes>>

Head == Smallest(import.page)

MutantTransaction(m) == <<m, crashes>>

\* historyTransactionID: the identity of the send depends on the message alone.
Transaction(m) == <<m, 0>>

\* The framework sends the message, of one part, unless it has a row; ack says
\* whether the homeserver's answer arrives.
DeliverSend(ack) ==
  /\ import.pc = "deliver" /\ <<Head, 1>> \notin mapped
  /\ Head \notin Albums
  /\ copies' = [copies EXCEPT ![<<Head, 1>>] = IF Transaction(Head) \in known THEN @ ELSE @ + 1]
  /\ known' = known \cup {Transaction(Head)}
  /\ import' = IF ack THEN [import EXCEPT !.pc = "row"] ELSE NoImport
  /\ UNCHANGED <<stored, mapped, batch, task, work, journal, crashes>>

\* Several parts are refused before anything is sent, and a message with some of
\* its parts mapped is ignored by the framework and not confirmed.
DeliverRefused ==
  /\ import.pc = "deliver" /\ Head \in Albums /\ ~(PartsOf(Head) \subseteq mapped)
  /\ import' = NoImport
  /\ UNCHANGED <<stored, mapped, known, copies, batch, task, work, journal, crashes>>

InsertRow ==
  /\ import.pc = "row" /\ mapped' = mapped \cup {<<Head, 1>>}
  /\ import' = [import EXCEPT !.pc = "deliver"]
  /\ UNCHANGED <<stored, known, copies, batch, task, work, journal, crashes>>

MutantDelivered(m) == PartsOf(m) \cap mapped # {}

\* committable and ignoredMessageHasMapping: every expected part has a row.
Delivered(m) == PartsOf(m) \subseteq mapped

\* A message that has a row is journalled, and the page goes on.
Journalled ==
  /\ import.pc = "deliver" /\ Delivered(Head)
  /\ journal' = [journal EXCEPT !.after = Head, !.remaining = @ - 1]
  /\ import' = [pc |-> IF import.page = {Head} THEN "ask" ELSE "deliver",
                page |-> import.page \ {Head}]
  /\ UNCHANGED <<stored, mapped, known, copies, batch, task, work, crashes>>

-----------------------------------------------------------------------------
\* The bridge ends; the database stays.
Crash ==
  /\ crashes < MaxCrashes /\ crashes' = crashes + 1
  /\ work' = Idle /\ import' = NoImport
  /\ UNCHANGED <<stored, mapped, known, copies, batch, task, journal>>

Next ==
  \/ Acquire \/ Fetch \/ Complete \/ SaveTask \/ Resume \/ DeliverRefused \/ InsertRow
  \/ Journalled \/ Crash
  \/ \E p \in Parts, ok \in BOOLEAN : SendPart(p, ok)
  \/ \E after \in 0..Last, through \in Messages : Select(after, through)
  \/ \E ok \in BOOLEAN : Ask(ok) \/ DeliverSend(ok)

Spec == Init /\ [][Next]_vars

-----------------------------------------------------------------------------
\* Progress never passes a message that is not in the room: every part from the
\* task's cursor up has a row, and so has every message between the start of the
\* operator's interval and its position, after partial sends, lost answers and
\* crashes (CompleteCallback, BackfillGroup).
NoHole ==
  /\ \A m \in Messages : m >= task => PartsOf(m) \subseteq mapped
  /\ \A m \in Messages : journal.start < m /\ m <= journal.after => PartsOf(m) \subseteq mapped

\* A message that the operator imports appears once in the room, also when the
\* answer to its send was lost and the command was resumed (historyTransactionID).
ImportedOnce == \A p \in Parts : copies[p] <= 1
=============================================================================
