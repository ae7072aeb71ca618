---------------------------- MODULE HistoryStore ----------------------------
(***************************************************************************)
(* The acquired history of one chat (history_store.go, history_window.go,  *)
(* history_unavailable.go) under live edits and deletions.  A page is an   *)
(* immutable snapshot; an overlay per message keeps the newest revision or *)
(* the deletion known of it.  A page's overlays are written before the page*)
(* is, each to a file of its own, and the process may crash in between.    *)
(* Pages answered before an edit may be saved after it was seen live.      *)
(***************************************************************************)
EXTENDS AcquiredPages, Sequences

CONSTANTS
  Posted,     \* how many messages the chat may start with
  MaxLog,     \* bound on its log, with edits and deletions
  PageSize,   \* rows of one answer
  MaxPages,   \* bound on saved pages
  MaxUnavailable, \* historyUnavailableMaximum
  MaxCrashes

VARIABLES
  log,      \* the chat at the server: entry id -> its kind and target
  rev,      \* the current revision of a message
  deleted,  \* deleted messages
  live,     \* packets on their way to observeHistoryPacket
  answer,   \* the SYNCMSG answer held by syncMessages
  saving,   \* its row that observeRecords writes next, or 0
  pages, overlay, targets, \* the store; targets is not on disk
  unavailable, \* intervals with a fresh observation of a floor above them
  seen,     \* history: what the store was told of each message
  crashes

vars == <<log, rev, deleted, live, answer, saving, pages, overlay, targets,
          unavailable, seen, crashes>>

Ids == 1..MaxLog
NoAnswer == [cur |-> 0, max |-> 0, rows |-> <<>>]
Unseen == [rev |-> 0, deleted |-> FALSE]
\* The zero historyMutation; repl is the revision of its replacement, or -1.
NoOverlay == [known |-> FALSE, rev |-> 0, seq |-> 0, deleted |-> FALSE, repl |-> -1,
              acquired |-> FALSE]

Init ==
  /\ log \in {[i \in 1..n |-> [kind |-> "message", target |-> 0, rev |-> 0]] : n \in Posted}
  /\ rev = [i \in Ids |-> 0] /\ deleted = {}
  /\ live = <<>> /\ answer = NoAnswer /\ saving = 0
  /\ pages = {} /\ overlay = [i \in Ids |-> NoOverlay] /\ targets = {}
  /\ unavailable = {} /\ seen = [i \in Ids |-> Unseen] /\ crashes = 0

-----------------------------------------------------------------------------
(* The server *)

serverVars == <<log, rev, deleted>>
storeVars == <<pages, overlay, targets, unavailable>>

Messages == {i \in DOMAIN log : log[i].kind = "message"}

\* body: the packet carries modifiedChatLog.
Edit(t, body) ==
  /\ Len(log) < MaxLog /\ t \in Messages \ deleted
  /\ rev' = [rev EXCEPT ![t] = @ + 1]
  /\ log' = Append(log, [kind |-> "edit", target |-> t, rev |-> rev'[t]])
  /\ live' = Append(live, [id |-> Len(log'), body |-> body])
  /\ UNCHANGED <<deleted, answer, saving, storeVars, seen, crashes>>

Delete(t) ==
  /\ Len(log) < MaxLog /\ t \in Messages \ deleted
  /\ deleted' = deleted \cup {t}
  /\ log' = Append(log, [kind |-> "delete", target |-> t, rev |-> 0])
  /\ live' = Append(live, [id |-> Len(log'), body |-> FALSE])
  /\ UNCHANGED <<rev, answer, saving, storeVars, seen, crashes>>

\* A row of an answer: the entry as the server has it now.
Row(i) == [id |-> i, rev |-> rev[i], deleted |-> i \in deleted]

-----------------------------------------------------------------------------
(* observe and observeRecords *)

\* writeMutation
Written(m) == [m EXCEPT !.known = TRUE, !.acquired = @ \/ m.repl >= 0]

\* observe of MessageEdited: not behind the revision or the edit that is known.
Edited(old, id, r, body) ==
  IF old.deleted \/ id < old.seq \/ r < old.rev
     \/ (~body /\ id = old.seq /\ r = old.rev) THEN old
  ELSE Written([old EXCEPT !.seq = id, !.rev = r,
                  !.repl = IF body THEN r ELSE IF old.rev = r THEN @ ELSE -1])

\* observe of MessageDeleted and DeletedMessage.
Removed(old, id) ==
  IF old.deleted THEN old ELSE Written([old EXCEPT !.deleted = TRUE, !.seq = id])

\* What observe makes of log entry i.
Observe(o, i, body) ==
  LET e == log[i]
  IN  CASE e.kind = "edit" -> [o EXCEPT ![e.target] = Edited(@, i, e.rev, body)]
        [] e.kind = "delete" -> [o EXCEPT ![e.target] = Removed(@, i)]
        [] OTHER -> o

MutantRecorded(old, row) == Written([old EXCEPT !.rev = row.rev, !.repl = row.rev])

\* A row itself replaces what is not newer; a deleted message keeps some row.
Recorded(old, row) ==
  IF old.deleted THEN (IF old.repl = -1 THEN Written([old EXCEPT !.repl = row.rev]) ELSE old)
  ELSE IF row.rev >= old.rev THEN Written([old EXCEPT !.rev = row.rev, !.repl = row.rev])
  ELSE old

\* observeRecords of one row.
ObserveRow(o, row) ==
  LET o1 == Observe(o, row.id, FALSE)
      o2 == IF row.deleted THEN [o1 EXCEPT ![row.id] = Removed(@, row.id)] ELSE o1
  IN  [o2 EXCEPT ![row.id] = Recorded(@, row)]

Newer(s, r) == [s EXCEPT !.rev = IF r > @ THEN r ELSE @]
SeenEntry(s, i) ==
  LET e == log[i]
  IN  CASE e.kind = "edit" -> [s EXCEPT ![e.target] = Newer(@, e.rev)]
        [] e.kind = "delete" -> [s EXCEPT ![e.target].deleted = TRUE]
        [] OTHER -> s
SeenRow(s, row) ==
  [SeenEntry(s, row.id) EXCEPT ![row.id] = [Newer(@, row.rev) EXCEPT !.deleted = @ \/ row.deleted]]

\* The store's mutex is free: no save is between its writes.
Free == saving = 0

\* observePacket
Packet ==
  /\ Free /\ live # <<>> /\ live' = Tail(live)
  /\ overlay' = Observe(overlay, Head(live).id, Head(live).body)
  /\ targets' = targets \cup {i \in Ids : overlay'[i].acquired}
  /\ seen' = SeenEntry(seen, Head(live).id)
  /\ UNCHANGED <<serverVars, answer, saving, pages, unavailable, crashes>>

\* GetMessages and observeCurrentRecords, of one message.
GetMessage(i) ==
  /\ Free /\ i \in DOMAIN log
  /\ overlay' = ObserveRow(overlay, Row(i)) /\ seen' = SeenRow(seen, Row(i))
  /\ targets' = targets \cup {i} \cup {j \in Ids : overlay'[j].acquired}
  /\ UNCHANGED <<serverVars, live, answer, saving, pages, unavailable, crashes>>

-----------------------------------------------------------------------------
(* lookup *)

PageRows(a, b) == {r \in UNION {p.rows : p \in pages} : a < r.id /\ r.id <= b}

\* A target whose edit was seen without its text.
Unresolved(i) == overlay[i].known /\ ~overlay[i].deleted /\ overlay[i].repl = -1

\* apply
Projected(i) == [id |-> i, rev |-> overlay[i].repl, deleted |-> overlay[i].deleted]

\* The barrier of lookup.
Blocked(i) == Unresolved(i) /\ i \in targets

\* The connected acquired prefix of (cur, max], up to a message that cannot be
\* shown as it is now.  Every acquired row has an overlay.
Lookup(cur, max) ==
  LET end == CoveredThrough(pages, 1, cur, max)
      ids == {r.id : r \in PageRows(cur, end)}
               \cup {i \in Ids : cur < i /\ i <= end /\ overlay[i].repl >= 0}
      stops == {i \in Ids : cur < i /\ i <= end /\ (Blocked(i) \/ (i \in ids /\ Unresolved(i)))}
  IN  {Projected(i) : i \in {j \in ids : \A b \in stops : j < b}}

-----------------------------------------------------------------------------
(* syncMessages and save *)

First(n, s) == SubSeq(s, 1, IF Len(s) < n THEN Len(s) ELSE n)

\* What the store cannot answer is asked of the server.
Ask(cur, max) ==
  /\ answer = NoAnswer /\ Free /\ Cardinality(pages) < MaxPages
  /\ <<cur, max>> \notin unavailable /\ Lookup(cur, max) = {}
  /\ answer' = [cur |-> cur, max |-> max,
                rows |-> First(PageSize, [i \in 1..(max - cur) |-> Row(cur + i)])]
  /\ UNCHANGED <<serverVars, live, saving, storeVars, seen, crashes>>

\* saveUnavailable: an empty answer whose floor is above the interval.
BelowFloor(cur, max) ==
  /\ answer = NoAnswer /\ Free /\ Lookup(cur, max) = {}
  /\ Cardinality(unavailable) < MaxUnavailable
  /\ unavailable' = unavailable \cup {<<cur, max>>}
  /\ UNCHANGED <<serverVars, live, answer, saving, pages, overlay, targets, seen, crashes>>

\* Five minutes pass.
Expire(u) ==
  /\ unavailable' = unavailable \ {u}
  /\ UNCHANGED <<serverVars, live, answer, saving, pages, overlay, targets, seen, crashes>>

BeginSave ==
  /\ answer # NoAnswer /\ Free /\ saving' = 1
  /\ UNCHANGED <<serverVars, live, answer, storeVars, seen, crashes>>

\* One overlay file, or two when the row is an edit.
SaveRow ==
  /\ saving \in DOMAIN answer.rows /\ saving' = saving + 1
  /\ overlay' = ObserveRow(overlay, answer.rows[saving])
  /\ seen' = SeenRow(seen, answer.rows[saving])
  /\ UNCHANGED <<serverVars, live, answer, pages, targets, unavailable, crashes>>

Publish ==
  LET rows == {answer.rows[i] : i \in DOMAIN answer.rows}
      last == HighestOf({r.id : r \in rows})
  IN  /\ saving = Len(answer.rows) + 1 /\ saving' = 0 /\ answer' = NoAnswer
      /\ pages' = SavePage(pages, [chat |-> 1, cur |-> answer.cur, max |-> answer.max,
                                   last |-> last, rows |-> rows])
      /\ targets' = targets \cup {r.id : r \in rows} \cup {i \in Ids : overlay[i].acquired}
      /\ UNCHANGED <<serverVars, live, overlay, unavailable, seen, crashes>>

\* The process ends and reopens the store; packets on their way are lost to it.
Crash ==
  /\ crashes < MaxCrashes /\ crashes' = crashes + 1
  /\ live' = <<>> /\ answer' = NoAnswer /\ saving' = 0
  /\ targets' = {r.id : r \in PageRows(0, MaxLog)}
                  \cup {i \in Ids : overlay[i].acquired \/ overlay[i].repl >= 0}
  /\ UNCHANGED <<serverVars, pages, overlay, unavailable, seen>>

Next ==
  \/ \E t \in Ids, body \in BOOLEAN : Edit(t, body)
  \/ \E t \in Ids : Delete(t) \/ GetMessage(t)
  \/ Packet \/ BeginSave \/ SaveRow \/ Publish \/ Crash
  \/ \E u \in unavailable : Expire(u)
  \/ \E max \in DOMAIN log : \E cur \in 0..(max - 1) : Ask(cur, max) \/ BelowFloor(cur, max)

Spec == Init /\ [][Next]_vars

-----------------------------------------------------------------------------
(* window *)

\* The start of the connected acquired coverage that reaches through.
SuffixAfter(after, through) ==
  LET Reaches(p, s) == p.last >= s /\ p.cur < s /\ after < s
      starts == {through} \cup {IF p.cur > after THEN p.cur ELSE after : p \in pages}
  IN  HighestOf({s \in starts : s <= through /\ \A p \in pages : ~Reaches(p, s)})

MutantSelected(after, through) == {r.id : r \in PageRows(after, through)}

\* The rows to choose from: with a cached suffix, only those in it.
Selected(after, through) ==
  LET suffix == SuffixAfter(after, through)
      ids == {r.id : r \in PageRows(after, through)}
  IN  IF suffix < through THEN {i \in ids : i > suffix} ELSE ids

\* ReadStoredHistory, for the newest limit rows.
Window(after, through, limit) ==
  LET ids == Selected(after, through)
      complete == CoveredThrough(pages, 1, after, through) >= through
      suffix == SuffixAfter(after, through) < through /\ ids # {}
  IN  [ids |-> {i \in ids : Cardinality({j \in ids : j > i}) < limit},
       complete |-> complete, suffix |-> suffix,
       more |-> Cardinality(ids) > limit \/ (suffix /\ ~complete),
       unavailable |-> ~complete /\ ids = {} /\ <<after, through>> \in unavailable]

-----------------------------------------------------------------------------
\* What the store answers never falls behind what it was told: no deleted message
\* comes back and no text of an older revision, whatever the order in which
\* pages, edits and deletions arrive and wherever a crash cuts a save ("a crash
\* during acquisition cannot resurrect known deleted/edited content").
NoResurrection ==
  Free => \A max \in DOMAIN log : \A cur \in 0..(max - 1) : \A r \in Lookup(cur, max) :
            IF seen[r.id].deleted THEN r.deleted ELSE r.rev >= seen[r.id].rev

\* A window that says it is complete or a cached suffix shows every entry from
\* its first row up to the ceiling, and one that has no more shows them all, so
\* paging backwards leaves no hole (ReadStoredHistory).
WindowHonest ==
  Free => \A through \in DOMAIN log : \A after \in 0..(through - 1), limit \in 1..2 :
            LET w == Window(after, through, limit)
            IN  /\ (w.complete \/ w.suffix) /\ w.ids # {} =>
                     w.ids = LowestOf(w.ids)..through
                /\ w.complete /\ ~w.more => w.ids = (after + 1)..through
=============================================================================
