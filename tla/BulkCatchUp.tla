----------------------------- MODULE BulkCatchUp -----------------------------
(***************************************************************************)
(* CatchUpAll (client/bulk_catchup.go): one chain of MCHATLOGS pages per   *)
(* connect recovers what the chats of the profile missed and, with startup *)
(* history, also fills the acquired store for the other chats.  Log IDs of *)
(* a chat are dense: the predecessor (prevId) of l is l - 1.               *)
(***************************************************************************)
EXTENDS Checkpoint, AcquiredPages, Sequences

CONSTANTS
  Settings,      \* whether CatchUpOptions.StartupHistory may be set
  MaxChats,      \* mchatlogs.MaxChats: chats per request
  PageCap,       \* logs per page the server serves
  MaxPages,      \* maxBulkCatchUpPages
  HistoryPages,  \* StartupHistoryOptions.MaxPages
  ShortPages,    \* the server may cut a page before it is full
  MaxFaults,     \* bound: server omissions and failures of the client
  MaxConnects    \* bound: times the profile is opened

ASSUME BulkAssumption ==
  /\ Chats \subseteq Nat \ {0} /\ Settings \subseteq BOOLEAN /\ ShortPages \in BOOLEAN
  /\ {MaxChats, PageCap, MaxPages, HistoryPages} \subseteq Nat \ {0}
  /\ MaxFaults \in Nat /\ MaxConnects \in Nat

VARIABLES
  last,      \* the server's last log of each chat
  withheld,  \* logs the server no longer serves
  floor,     \* loginMinLogID
  mem, disk, \* the checkpoint Store and its file
  pages,     \* page files of the acquired store
  bulk,      \* historyStore.bulkCursors
  journal,   \* bulk.json
  phase,     \* "down", "open", "chain", "apply", "finish", "ready", "refused"
  rooms,     \* chainRoom of each chat
  pending,   \* chats the chain still requests
  history,   \* the acquisition budget is not spent
  used,      \* result.Pages
  resp,      \* the page being applied: served logs and eof
  todo,      \* its chats not yet applied, or chats not yet finished
  moved,     \* chats of the page that progressed
  queue,     \* Client.pendingCommits
  faults, connects

VARIABLES
  finished,  \* CaughtUpRoom of each finished chat
  blamed     \* chats something outside the chain kept from completing

chain == <<rooms, pending, history, used, resp, todo, moved>>
vars == <<last, withheld, floor, mem, disk, pages, bulk, journal, phase, chain,
          queue, faults, connects, finished, blamed>>

NoRoom == [in |-> FALSE, catchUp |-> FALSE, ceiling |-> 0, cursor |-> 0,
           gapStart |-> 0, events |-> {}, skipFrom |-> 0, skipThrough |-> 0,
           done |-> FALSE]
NoResponse == [served |-> [c \in Chats |-> {}], ids |-> {}, eof |-> FALSE]
NotFinished == [on |-> FALSE, from |-> 0, ceiling |-> 0, events |-> {},
                skipped |-> FALSE, unresolved |-> FALSE]

Phases == {"down", "open", "chain", "apply", "finish", "ready", "refused"}

(* Positions are the server's; a room's cursor lies between where it       *)
(* started and what the server has.                                        *)
TypeOK ==
  /\ last \in [Chats -> Positions] /\ floor \in Positions
  /\ mem \in CheckpointType /\ disk \in CheckpointType
  /\ phase \in Phases /\ pending \subseteq Chats /\ todo \subseteq Chats
  /\ history \in BOOLEAN /\ used \in 0..MaxPages
  /\ \A c \in Chats :
       /\ withheld[c] \subseteq 1..last[c]
       /\ rooms[c].events \subseteq 1..rooms[c].ceiling
       /\ rooms[c].cursor \in 0..last[c]
       /\ bulk[c] \in 0..last[c] /\ journal[c] \in 0..last[c]
  /\ \A p \in pages : p.rows \subseteq p.cur+1 .. p.last /\ p.last <= p.max

-----------------------------------------------------------------------------
\* Each chat was delivered through its first message, or never.
Init ==
  /\ last = [c \in Chats |-> 1] /\ withheld = [c \in Chats |-> {}]
  /\ floor = 0
  /\ \E delivered \in SUBSET Chats :
       mem = [Fresh EXCEPT !.cursor = [c \in Chats |-> IF c \in delivered THEN 1 ELSE 0],
                           !.known = [c \in Chats |-> 1]]
  /\ disk = mem
  /\ pages = {} /\ bulk = [c \in Chats |-> 0] /\ journal = bulk
  /\ phase = "down"
  /\ rooms = [c \in Chats |-> NoRoom] /\ pending = {} /\ history = FALSE
  /\ used = 0 /\ resp = NoResponse /\ todo = {} /\ moved = {}
  /\ queue = [c \in Chats |-> <<>>]
  /\ faults = 0 /\ connects = 0
  /\ finished = [c \in Chats |-> NotFinished] /\ blamed = {}

Fault == faults < MaxFaults /\ faults' = faults + 1

GoDown ==
  /\ phase' = "down" /\ mem' = disk' /\ bulk' = [c \in Chats |-> 0]
  /\ rooms' = [c \in Chats |-> NoRoom] /\ pending' = {} /\ history' = FALSE
  /\ used' = 0 /\ resp' = NoResponse /\ todo' = {} /\ moved' = {}
  /\ queue' = [c \in Chats |-> <<>>]
  /\ finished' = [c \in Chats |-> NotFinished]
  /\ blamed' = {c \in Chats : withheld[c] # {}}

-----------------------------------------------------------------------------
(* The server *)

ServerAppend(c) ==
  /\ last[c] < MaxLog /\ last' = [last EXCEPT ![c] = @ + 1]
  /\ UNCHANGED <<withheld, floor, mem, disk, pages, bulk, journal, phase,
                 chain, queue, faults, connects, finished, blamed>>

ServerWithholds(c, l) ==
  /\ Fault /\ l \in 1..last[c] \ withheld[c]
  /\ withheld' = [withheld EXCEPT ![c] = @ \cup {l}]
  /\ blamed' = blamed \cup {c}
  /\ UNCHANGED <<last, floor, mem, disk, pages, bulk, journal, phase, chain,
                 queue, connects, finished>>

-----------------------------------------------------------------------------
(* Opening the profile and logging in: the inventory and the floor. *)
Connect(f) ==
  /\ phase = "down" /\ connects < MaxConnects /\ connects' = connects + 1
  /\ IF ~Reopenable(pages, journal)
       THEN /\ phase' = "refused"
            /\ UNCHANGED <<mem, disk, bulk, floor, blamed, faults>>
       ELSE /\ phase' = "open" /\ floor' = f
            /\ IF f > 0 THEN Fault /\ blamed' = Chats ELSE UNCHANGED <<faults, blamed>>
            /\ bulk' = [c \in Chats |-> Larger(journal[c], PageHigh(pages, c))]
            /\ mem' = InstallSession(mem, last, {}, TRUE) /\ disk' = mem'
  /\ UNCHANGED <<last, withheld, pages, journal, chain, queue, finished>>

CatchUpRoom(c) ==
  LET cursor == ResumePosition(mem, c)
  IN  [NoRoom EXCEPT !.in = TRUE, !.catchUp = TRUE, !.ceiling = mem.known[c],
                     !.cursor = cursor, !.gapStart = cursor + 1,
                     !.done = mem.known[c] < floor]

\* bulkSnapshot: only connected coverage counts as startup progress.
HistoryCursor(c) == CoveredThrough(pages, c, 0, bulk[c])

HistoryRoom(c) ==
  [NoRoom EXCEPT !.in = TRUE, !.ceiling = mem.known[c], !.cursor = HistoryCursor(c)]

NeedsHistory(c) ==
  mem.known[c] > 0 /\ HistoryCursor(c) < mem.known[c] /\ mem.known[c] >= floor

\* selectBulkRooms
Select(startupHistory) ==
  /\ phase = "open" /\ phase' = "chain"
  /\ rooms' = [c \in Chats |-> IF NeedsCatchUp(mem, c) THEN CatchUpRoom(c)
                               ELSE IF startupHistory /\ NeedsHistory(c)
                                      THEN HistoryRoom(c) ELSE NoRoom]
  /\ pending' = {c \in Chats : rooms'[c].in /\ ~rooms'[c].done}
  /\ history' = startupHistory /\ used' = 0
  /\ UNCHANGED <<last, withheld, floor, mem, disk, pages, bulk, journal, resp,
                 todo, moved, queue, faults, connects, finished, blamed>>

-----------------------------------------------------------------------------
(* One page *)

\* The first MaxChats pending chats, by ID.
Batch == {c \in pending : Cardinality({d \in pending : d < c}) < MaxChats}

MutantBudgetKept ==
  /\ phase = "chain" /\ pending # {} /\ history
  /\ pending' = {c \in pending : rooms[c].catchUp}
  /\ UNCHANGED <<last, withheld, floor, mem, disk, pages, bulk, journal, phase,
                 rooms, used, resp, todo, moved, queue, faults, connects,
                 finished, blamed, history>>

\* The page or time budget of startup history is spent.
StopHistory ==
  /\ phase = "chain" /\ pending # {} /\ history
  /\ history' = FALSE
  /\ pending' = {c \in pending : rooms[c].catchUp}
  /\ UNCHANGED <<last, withheld, floor, mem, disk, pages, bulk, journal, phase,
                 rooms, used, resp, todo, moved, queue, faults, connects,
                 finished, blamed>>

(* What the server answers: the logs after each since (inclusive or not),  *)
(* chat by chat in ascending order, cut inside chat b.                     *)
Available(c, inclusive) ==
  {l \in 1..last[c] : l > rooms[c].cursor \/ (inclusive /\ l = rooms[c].cursor)}
    \ withheld[c]

Served(b, t, inclusive) ==
  [c \in Chats |-> IF c \notin Batch \/ c > b THEN {}
                   ELSE {l \in Available(c, inclusive) : c < b \/ l <= t}]

Size(served) == Cardinality(UNION {{<<c, l>> : l \in served[c]} : c \in Chats})

(* bulkChatLogs and bulkRuns.  A server that ends the list early, or sends *)
(* nothing new and does not end it, is at fault.                           *)
Fetch(b, t, inclusive, eof) ==
  LET served == Served(b, t, inclusive)
      all == \A c \in Batch : served[c] = Available(c, inclusive)
      new == \E c \in Batch : \E l \in served[c] : l > rooms[c].cursor
  IN  /\ phase = "chain" /\ b \in Batch /\ (history => used < HistoryPages)
      /\ used < MaxPages /\ used' = used + 1
      /\ Size(served) <= PageCap /\ (ShortPages \/ all \/ Size(served) = PageCap)
      /\ IF (eof /\ ~all) \/ (~eof /\ ~new)
           THEN ShortPages /\ Fault /\ blamed' = blamed \cup pending
           ELSE UNCHANGED <<faults, blamed>>
      /\ resp' = [served |-> served, ids |-> Batch, eof |-> eof]
      /\ todo' = Batch /\ moved' = {} /\ phase' = "apply"
      /\ UNCHANGED <<last, withheld, floor, mem, disk, pages, bulk, journal,
                     rooms, pending, history, queue, connects, finished>>

\* The page cap ends the chain with chats still pending.
PageLimit ==
  /\ phase = "chain" /\ pending # {} /\ used = MaxPages
  /\ (history => used < HistoryPages)
  /\ phase' = "finish" /\ todo' = {c \in Chats : rooms[c].catchUp}
  /\ blamed' = blamed \cup pending
  /\ UNCHANGED <<last, withheld, floor, mem, disk, pages, bulk, journal, rooms,
                 pending, history, used, resp, moved, queue, faults, connects,
                 finished>>

\* A run's first log skips (cursor, first].
WithSkip(room, first) ==
  LET through == Smaller(first, room.ceiling)
  IN  IF room.cursor + 1 > through THEN room
      ELSE [room EXCEPT !.skipFrom = IF @ = 0 THEN room.cursor + 1 ELSE @,
                        !.skipThrough = through]

Contiguous(run) == run = LowestOf(run)..HighestOf(run)

(* applyBulkRun of a nonempty run.  link says whether every log carries a  *)
(* prevId that continues the room ("ok"), or where it does not.  Such a    *)
(* run, or one with a hole, ends the catch-up of the chat; a skip before   *)
(* the run is noted even then.                                             *)
Applied(room, run, link) ==
  LET skipped == WithSkip(room, LowestOf(run) - 1)
  IN  IF ~room.catchUp THEN [room EXCEPT !.cursor = HighestOf(run)]
      ELSE IF link = "first" THEN [room EXCEPT !.done = TRUE]
      ELSE IF link = "later" \/ ~Contiguous(run) THEN [skipped EXCEPT !.done = TRUE]
      ELSE [skipped EXCEPT !.events = @ \cup {l \in run : l <= room.ceiling},
                           !.cursor = HighestOf(run)]

\* The page a run becomes: it starts after what the server skipped.
PageOf(c, room, run) ==
  AcquiredPage(c, IF room.catchUp THEN LowestOf(run) - 1 ELSE room.cursor,
               Larger(room.ceiling, HighestOf(run)), run)

\* The store saves the page before the room moves.
Apply(c, link) ==
  LET room == rooms[c]
      run == {l \in resp.served[c] : l > room.cursor}
      next == Applied(room, run, link)
  IN  /\ phase = "apply" /\ c \in todo /\ \A d \in todo : c <= d
      /\ todo' = todo \ {c}
      /\ IF link = "ok" THEN UNCHANGED <<faults, blamed>>
         ELSE Fault /\ room.catchUp /\ run # {} /\ blamed' = blamed \cup {c}
      /\ IF run = {} THEN UNCHANGED <<rooms, pages, bulk, moved>>
         ELSE /\ rooms' = [rooms EXCEPT ![c] = next]
              /\ moved' = IF next.cursor > room.cursor \/ next.done # room.done
                            THEN moved \cup {c} ELSE moved
              /\ IF next.cursor > room.cursor
                   THEN /\ pages' = SavePage(pages, PageOf(c, room, run))
                        /\ bulk' = [bulk EXCEPT ![c] = Larger(@, HighestOf(run))]
                   ELSE UNCHANGED <<pages, bulk>>
      /\ UNCHANGED <<last, withheld, floor, mem, disk, journal, phase, pending,
                     history, used, resp, queue, connects, finished>>

MutantRetiresBoundary ==
  IF resp.eof THEN resp.ids
  ELSE {c \in resp.ids : \E d \in resp.ids : d >= c /\ resp.served[d] # {}}

\* All chats of the batch at eof, else those below the last log's chat.
Retired ==
  IF resp.eof THEN resp.ids
  ELSE {c \in resp.ids : \E d \in resp.ids : d > c /\ resp.served[d] # {}}

\* Neither retirement nor progress.
Stuck == Retired = {} /\ moved = {}

(* The end of a page: commitBulk for the acquisition rooms that advanced,  *)
(* then retirement.                                                        *)
EndPage ==
  LET left == {c \in pending : ~rooms[c].done /\ c \notin Retired}
  IN  /\ phase = "apply" /\ todo = {}
      /\ journal' = IF \E c \in moved : ~rooms[c].catchUp THEN bulk ELSE journal
      /\ pending' = IF Stuck THEN pending ELSE left
      /\ IF Stuck \/ left = {}
           THEN phase' = "finish" /\ todo' = {c \in Chats : rooms[c].catchUp}
           ELSE phase' = "chain" /\ UNCHANGED todo
      /\ resp' = NoResponse /\ moved' = {}
      /\ UNCHANGED <<last, withheld, floor, mem, disk, pages, bulk, rooms,
                     history, used, queue, faults, connects, finished, blamed>>

\* Nothing was selected, or only acquisition rooms whose budget is spent.
NothingPending ==
  /\ phase = "chain" /\ pending = {}
  /\ phase' = "finish" /\ todo' = {c \in Chats : rooms[c].catchUp}
  /\ UNCHANGED <<last, withheld, floor, mem, disk, pages, bulk, journal, rooms,
                 pending, history, used, resp, moved, queue, faults, connects,
                 finished, blamed>>

-----------------------------------------------------------------------------
(* The result *)

\* A chat whose events the acquired store cannot project recovered nothing.
Projected(room, ok) ==
  IF ok THEN room
  ELSE [room EXCEPT !.events = {}, !.cursor = room.gapStart - 1, !.skipFrom = 0]

MutantUnresolved(room) == room.done /\ room.cursor < room.ceiling

Unresolved(room) == room.cursor < room.ceiling
Skipped(room) == room.skipFrom > 0

GapOfSkip(cp, c, room) ==
  IF Skipped(room) THEN RecordGap(cp, c, room.skipFrom, room.skipThrough) ELSE cp

GapOfRest(cp, c, room) ==
  IF Unresolved(room) THEN RecordGap(cp, c, room.cursor + 1, room.ceiling)
  ELSE IF ~Skipped(room) /\ HasGapThrough(cp, c, room.ceiling)
    THEN ResolveGapThrough(cp, c, room.ceiling) ELSE cp

Ascending(S) == CHOOSE s \in [1..Cardinality(S) -> S] :
                  \A i, j \in 1..Cardinality(S) : i < j => s[i] < s[j]

\* finishBulkRooms, for the lowest chat left.
FinishRoom(c, ok) ==
  LET room == Projected(rooms[c], ok)
  IN  /\ phase = "finish" /\ c \in todo /\ \A d \in todo : c <= d
      /\ todo' = todo \ {c}
      /\ IF ok THEN UNCHANGED <<faults, blamed>> ELSE Fault /\ blamed' = blamed \cup {c}
      /\ mem' = GapOfRest(GapOfSkip(mem, c, room), c, room) /\ disk' = mem'
      /\ queue' = [queue EXCEPT ![c] = @ \o Ascending(room.events)]
      /\ finished' = [finished EXCEPT ![c] =
           [on |-> TRUE, from |-> rooms[c].gapStart, ceiling |-> room.ceiling,
            events |-> room.events, skipped |-> Skipped(room),
            unresolved |-> Unresolved(room)]]
      /\ UNCHANGED <<last, withheld, floor, pages, bulk, journal, phase, rooms,
                     pending, history, used, resp, moved, connects>>

\* A checkpoint write fails, before or after replacing the file; CatchUpAll
\* fails and the session is abandoned.
FinishFails(c) ==
  LET skip == GapOfSkip(mem, c, rooms[c])
  IN  /\ phase = "finish" /\ c \in todo /\ \A d \in todo : c <= d
      /\ Fault /\ disk' \in {disk, skip, GapOfRest(skip, c, rooms[c])}
      /\ GoDown
      /\ UNCHANGED <<last, withheld, floor, pages, journal, connects>>

Ready ==
  /\ phase = "finish" /\ todo = {} /\ phase' = "ready"
  /\ UNCHANGED <<last, withheld, floor, mem, disk, pages, bulk, journal, chain,
                 queue, faults, connects, finished, blamed>>

\* The caller delivered the next event of a chat: CommitEvent.
Commit(c) ==
  /\ phase = "ready" /\ queue[c] # <<>>
  /\ mem' = CommitMessage(mem, c, Head(queue[c])) /\ disk' = mem'
  /\ queue' = [queue EXCEPT ![c] = Tail(@)]
  /\ UNCHANGED <<last, withheld, floor, pages, bulk, journal, phase, chain,
                 faults, connects, finished, blamed>>

\* The session ends after the chain.
EndSession ==
  /\ phase = "ready" /\ UNCHANGED disk /\ GoDown
  /\ UNCHANGED <<last, withheld, floor, pages, journal, faults, connects>>

\* A failed request, a failed save or a crash anywhere in the chain.
Abort ==
  /\ phase \in {"open", "chain", "apply", "finish"} /\ Fault
  /\ UNCHANGED disk /\ GoDown
  /\ UNCHANGED <<last, withheld, floor, pages, journal, connects>>

ClientStep ==
  \/ \E startupHistory \in Settings : Select(startupHistory)
  \/ StopHistory \/ PageLimit \/ EndPage \/ NothingPending \/ Ready
  \/ \E b \in Chats, t \in Positions, inclusive, eof \in BOOLEAN :
       Fetch(b, t, inclusive, eof)
  \/ \E c \in Chats :
       \/ \E link \in {"ok", "first", "later"} : Apply(c, link)
       \/ \E ok \in BOOLEAN : FinishRoom(c, ok)

Next ==
  \/ ClientStep
  \/ Abort \/ EndSession
  \/ \E f \in Positions : Connect(f)
  \/ \E c \in Chats :
       \/ ServerAppend(c) \/ FinishFails(c) \/ Commit(c)
       \/ \E l \in LogIDs : ServerWithholds(c, l)

Spec == Init /\ [][Next]_vars

\* The chain runs in the connecting goroutine; its requests answer or fail.
FairSpec == Spec /\ WF_vars(ClientStep)

-----------------------------------------------------------------------------
(* Whatever ended the chain of a chat (eof, the page cap, a hole, an        *)
(* unlinked run, a skip, a failed projection), each position of its        *)
(* interval is handed to the caller or lies in the gap the checkpoint      *)
(* records (CatchUpAll, finishBulkRooms).                                   *)
IntervalAccounted ==
  \A c \in Chats : finished[c].on =>
    \A l \in finished[c].from .. finished[c].ceiling :
      l \in finished[c].events \/ InGap(disk, c, l)

(* A server that serves every log and ends the list only when it is        *)
(* complete leaves no chat unresolved: retiring the batch at eof, and the  *)
(* chats below the last log of a capped page, never retires one too early. *)
FaithfulComplete ==
  \A c \in Chats : finished[c].on /\ c \notin blamed =>
    ~finished[c].skipped /\ ~finished[c].unresolved

(* A chain hands over or reports every position of the interval it closes, *)
(* and gives none up that the server would have served (CatchUpAll).       *)
IntervalClosed == IntervalAccounted /\ FaithfulComplete

(* An acquired page holds every log the server serves in the interval it   *)
(* vouches for, so startup history never resumes past a log it did not     *)
(* acquire (applyBulkRun's save, bulkSnapshot).                             *)
CoverageHonest ==
  \A p \in pages : (p.cur + 1 .. p.last) \ withheld[p.chat] \subseteq p.rows

(* A chain that was started ends: each page retires, progresses or is the  *)
(* last, and pages are bounded (CatchUpAll's loop).                        *)
ChainEnds == (phase \in {"chain", "apply"}) ~> (phase \notin {"chain", "apply"})

(* The store that a chain and its crashes leave behind can be opened again *)
(* by the next connect: openHistoryStore finds no journal entry ahead of   *)
(* the pages, which are never replaced by less.                            *)
StoreReopens == Reopenable(pages, journal)
=============================================================================
