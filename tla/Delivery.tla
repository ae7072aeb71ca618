------------------------------ MODULE Delivery ------------------------------
(***************************************************************************)
(* How a message reaches Matrix exactly in order and at least once: login, *)
(* seeding, catch-up and the live stream feed one event pump; an event is  *)
(* committed only after Matrix confirmed it; a chat whose event failed is  *)
(* held while the others flow (connector/client.go, delivery_hold.go,      *)
(* seed.go; client/client.go, sync.go, bulk_catchup.go).                   *)
(*                                                                         *)
(* The server's log IDs of a chat are dense here.  A session ending and a  *)
(* process crash differ only in when memory is lost, so both are EndSession.*)
(***************************************************************************)
EXTENDS Checkpoint, Sequences

CONSTANTS
  Notices,          \* positions that carry a membership change
  StartupHistory,   \* history acquisition is on: the chain runs first
  MaxHeld,          \* maxHeldEvents
  Retries,          \* number of heldChatRetryDelays
  SeenLimit,        \* observedPositionLimit
  MaxFaults,        \* bound: failed deliveries, reads and writes
  MaxLookupFaults,  \* bound: failed reads of a chat's access state
  MaxEnds           \* bound: sessions the environment ends

ASSUME DeliveryAssumption ==
  /\ Notices \subseteq LogIDs /\ StartupHistory \in BOOLEAN
  /\ MaxHeld \in Nat \ {0} /\ Retries \in Nat /\ SeenLimit \in Nat \ {0}
  /\ MaxFaults \in Nat /\ MaxLookupFaults \in Nat /\ MaxEnds \in Nat

VARIABLES
  last,       \* the server's last log of each chat
  access,     \* not blocked: no unconverged membership (persisted)
  mem, disk,  \* the checkpoint Store and its file
  phase,      \* "down", the bootstrap stages, "live", "closing"
  todo,       \* chats the current bootstrap stage has not handled
  base,       \* each chat's last log at login: what pushes come after
  caught,     \* CaughtUpRoom of each chat
  queue,      \* Client.pendingCommits
  pushes,     \* undecoded pushes
  seen,       \* positions the decoder remembers, oldest first
  out,        \* decoded events the pump has not taken
  held,       \* deliveryHolds
  retrying,   \* chats the pump's current retry loop has left
  resume      \* a token in deliveryResume

session == <<phase, todo, base, caught, queue, pushes, seen, out, held, retrying>>

VARIABLES
  bridged,    \* positions Matrix confirmed
  noticed,    \* positions a gap notice covers
  first,      \* lowest position the profile answers for: admitted, committed
              \* or found in the file when a session starts; 0 before
  faults, lookups, ends

vars == <<last, access, mem, disk, session, resume, bridged, noticed, first,
          faults, lookups, ends>>

Phases == {"down", "chain", "discover", "seed", "deliver", "live", "closing"}

NotHeld == [on |-> FALSE, events |-> <<>>, attempts |-> 0, due |-> FALSE,
            paused |-> FALSE, missed |-> 0]
NotCaught == [events |-> <<>>, missing |-> {}, skipped |-> FALSE, gap |-> FALSE]

Elements(s) == {s[i] : i \in DOMAIN s}

(* All positions are the server's, buffers hold what they may hold. *)
TypeOK ==
  /\ last \in [Chats -> Positions] /\ base \in [Chats -> Positions]
  /\ access \in [Chats -> BOOLEAN]
  /\ mem \in CheckpointType /\ disk \in CheckpointType
  /\ phase \in Phases /\ todo \subseteq Chats /\ retrying \subseteq Chats
  /\ resume \in BOOLEAN
  /\ \A c \in Chats :
       /\ Elements(queue[c]) \cup Elements(pushes[c]) \cup Elements(out[c])
            \cup bridged[c] \cup noticed[c] \cup caught[c].missing
            \cup Elements(caught[c].events) \subseteq 1..last[c]
       /\ Elements(held[c].events) \subseteq 1..last[c]
       /\ first[c] \in 0..last[c]
  /\ Len(seen) <= SeenLimit

-----------------------------------------------------------------------------
Init ==
  /\ last = [c \in Chats |-> 0] /\ base = [c \in Chats |-> 0]
  /\ access = [c \in Chats |-> TRUE]
  /\ mem = Fresh /\ disk = Fresh
  /\ phase = "down" /\ todo = {} /\ retrying = {} /\ resume = FALSE
  /\ caught = [c \in Chats |-> NotCaught]
  /\ queue = [c \in Chats |-> <<>>] /\ pushes = [c \in Chats |-> <<>>]
  /\ out = [c \in Chats |-> <<>>] /\ seen = <<>>
  /\ held = [c \in Chats |-> NotHeld]
  /\ bridged = [c \in Chats |-> {}] /\ noticed = [c \in Chats |-> {}]
  /\ first = [c \in Chats |-> 0]
  /\ faults = 0 /\ lookups = 0 /\ ends = 0

Fault == faults < MaxFaults /\ faults' = faults + 1

(* Store.update as its caller sees it: a failed write leaves memory alone  *)
(* but may have replaced the file.                                         *)
Write(next, ok) ==
  \/ ok /\ mem' = next /\ disk' = next /\ UNCHANGED faults
  \/ ~ok /\ Fault /\ UNCHANGED mem /\ disk' \in {disk, next}

(* The Client is shut down and its memory dropped.  The next session opens *)
(* the file the last one left.                                             *)
GoDown ==
  /\ phase' = "down" /\ todo' = {} /\ retrying' = {}
  /\ base' = [c \in Chats |-> 0]
  /\ caught' = [c \in Chats |-> NotCaught]
  /\ queue' = [c \in Chats |-> <<>>] /\ pushes' = [c \in Chats |-> <<>>]
  /\ out' = [c \in Chats |-> <<>>] /\ seen' = <<>>
  /\ held' = [c \in Chats |-> NotHeld]
  /\ mem' = disk /\ UNCHANGED disk

EndSession ==
  /\ phase # "down" /\ ends < MaxEnds /\ ends' = ends + 1
  /\ GoDown
  /\ UNCHANGED <<last, access, resume, bridged, noticed, first, faults, lookups>>

(* A terminal failure closed the Client; the pump sees the stream close.   *)
CloseSession ==
  /\ phase = "closing"
  /\ GoDown
  /\ UNCHANGED <<last, access, resume, bridged, noticed, first, faults, lookups, ends>>

-----------------------------------------------------------------------------
(* Handling one event *)

(* CommitEvent: only the head of the chat's queue q may be committed. *)
CommitEvent(c, l, q, ok) ==
  IF phase # "closing" /\ q # <<>> /\ Head(q) = l
    THEN /\ Write(CommitMessage(mem, c, l), ok)
         /\ queue' = [queue EXCEPT ![c] = IF ok THEN Tail(q) ELSE q]
         /\ first' = IF ok /\ (first[c] = 0 \/ l < first[c])
                       THEN [first EXCEPT ![c] = l] ELSE first
    ELSE /\ ~ok
         /\ queue' = [queue EXCEPT ![c] = q]
         /\ UNCHANGED <<mem, disk, faults, first>>

(* handleEvent, with its result: blocked by the chat's access state, failed *)
(* in Matrix or in the roster read of a membership notice (which leaves the *)
(* chat blocked), or confirmed by Matrix and then committed or not.         *)
HandleEvent(c, l, q, ok) ==
  \/ /\ ~ok /\ ~access[c] /\ l \notin Notices
     /\ queue' = [queue EXCEPT ![c] = q]
     /\ UNCHANGED <<mem, disk, faults, first, access, bridged>>
  \/ /\ ~ok /\ Fault
     /\ access' = [access EXCEPT ![c] = access[c] /\ l \notin Notices]
     /\ queue' = [queue EXCEPT ![c] = q]
     /\ UNCHANGED <<mem, disk, first, bridged>>
  \/ /\ access[c] \/ l \in Notices
     /\ access' = [access EXCEPT ![c] = TRUE]
     /\ bridged' = [bridged EXCEPT ![c] = bridged[c] \cup {l}]
     /\ CommitEvent(c, l, q, ok)

-----------------------------------------------------------------------------
(* Holding a chat *)

MutantAddDrops(h, l) ==
  IF Len(h.events) < MaxHeld THEN [h EXCEPT !.events = Append(h.events, l)]
  ELSE h

(* heldChat.add *)
Add(h, l) ==
  IF h.missed = 0 /\ Len(h.events) < MaxHeld
    THEN [h EXCEPT !.events = Append(h.events, l)]
    ELSE [h EXCEPT !.missed = Larger(h.missed, l)]

MutantHoldFirstOnly(events) ==
  [NotHeld EXCEPT !.on = TRUE, !.events = <<Head(events)>>]

(* hold, before its retry is scheduled: events is in ascending order. *)
HoldOf(events) ==
  [NotHeld EXCEPT
    !.on = TRUE,
    !.events = SubSeq(events, 1, Smaller(Len(events), MaxHeld)),
    !.missed = IF Len(events) > MaxHeld THEN events[Len(events)] ELSE 0]

MutantPauseLate(h, accessible) ==
  [h EXCEPT
    !.due = accessible /\ h.attempts < Retries,
    !.paused = h.paused \/ (accessible /\ h.attempts > Retries)]

(* scheduleHeld: a timed retry while attempts are left, else a pause; no   *)
(* timer for a chat whose access check reports an error.  The check reads  *)
(* the store and may fail for a chat that is not blocked.                  *)
Scheduled(h, accessible) ==
  [h EXCEPT
    !.due = accessible /\ h.attempts < Retries,
    !.paused = h.paused \/ (accessible /\ h.attempts >= Retries)]

ScheduleHeld(c, h) ==
  \/ held' = [held EXCEPT ![c] = Scheduled(h, access'[c])] /\ UNCHANGED lookups
  \/ /\ access'[c] /\ lookups < MaxLookupFaults /\ lookups' = lookups + 1
     /\ held' = [held EXCEPT ![c] = Scheduled(h, FALSE)]

(* The chat's delivery failed once more. *)
ScheduleAgain(c) == ScheduleHeld(c, [held[c] EXCEPT !.attempts = @ + 1])

-----------------------------------------------------------------------------
(* Bootstrap: connectAndSubscribe *)

Successor(p) ==
  CASE p = "discover" -> "seed"
    [] p = "seed" -> IF StartupHistory THEN "deliver" ELSE "chain"
    [] p = "chain" -> IF StartupHistory THEN "discover" ELSE "deliver"
    [] p = "deliver" -> "live"

Finished(c) ==
  IF todo = {c}
    THEN /\ phase' = Successor(phase)
         /\ todo' = IF phase = "deliver" THEN {} ELSE Chats
    ELSE UNCHANGED phase /\ todo' = todo \ {c}

(* Connect and adoptSession: the file is opened and the login's inventory  *)
(* installed.  A write that fails here ends the session.                   *)
Connect ==
  LET observed == [c \in Chats |-> IF last[c] > 0 THEN last[c] ELSE NoTarget]
      next == InstallSession(disk, observed, {}, TRUE)
  IN  /\ phase = "down"
      /\ phase' = IF StartupHistory THEN "chain" ELSE "discover"
      /\ mem' = next /\ disk' = next
      /\ todo' = Chats /\ base' = last
      /\ first' = [c \in Chats |-> IF first[c] > 0 THEN first[c]
                                   ELSE Larger(disk.cursor[c], disk.start[c])]
      /\ UNCHANGED <<last, access, caught, queue, pushes, seen, out, held,
                     retrying, resume, bridged, noticed, faults, lookups, ends>>

(* discoverGroups converges every group of the inventory or fails the      *)
(* bootstrap.                                                              *)
Discover ==
  /\ phase = "discover"
  /\ access' = [c \in Chats |-> TRUE]
  /\ phase' = Successor(phase) /\ todo' = Chats
  /\ UNCHANGED <<last, mem, disk, base, caught, queue, pushes, seen, out, held,
                 retrying, resume, bridged, noticed, first, faults, lookups, ends>>

(* seedLastMessages for one chat: the inventory's last message of a chat   *)
(* never delivered from is handled as an event of its own.                 *)
Seed(c) ==
  LET l == mem.known[c]
  IN  /\ phase = "seed" /\ c \in todo
      /\ IF mem.cursor[c] = 0 /\ mem.start[c] = 0 /\ l > 0 /\ l \notin Notices
              /\ queue[c] = <<>>
           THEN \E ok \in BOOLEAN :
                  /\ HandleEvent(c, l, <<l>>, ok)
                  /\ IF ok THEN UNCHANGED <<held, lookups>>
                           ELSE ScheduleHeld(c, HoldOf(<<l>>))
           ELSE UNCHANGED <<access, mem, disk, queue, held, bridged, first,
                            faults, lookups>>
      /\ Finished(c)
      /\ UNCHANGED <<last, base, caught, pushes, seen, out, retrying, resume,
                     noticed, ends>>

(* What CatchUpAll's chain may recover of from..ceiling: the pages end at  *)
(* some position, and of the positions up to there the server returns all  *)
(* or skips some.                                                          *)
Ascending(from, to) ==
  {s \in UNION {[1..n -> from..to] : n \in 0..(to + 1 - from)} :
     \A i, j \in DOMAIN s : i < j => s[i] < s[j]}
Recoveries(from, ceiling) ==
  {r \in [upto : (from - 1)..ceiling, events : Ascending(from, ceiling)] :
     /\ Elements(r.events) \subseteq from..r.upto
     /\ r.upto \in Elements(r.events) \cup {from - 1, ceiling}}

(* finishBulkRooms: the skipped interval and the unrecovered tail become   *)
(* the chat's gap; a fully recovered chat's gap is resolved.               *)
GapAfterChain(cp, c, skips, upto, ceiling) ==
  LET low == CHOOSE p \in skips : \A q \in skips : p <= q
      high == CHOOSE p \in skips : \A q \in skips : p >= q
      skipped == IF skips = {} THEN cp ELSE RecordGap(cp, c, low, high)
  IN  IF upto < ceiling THEN RecordGap(skipped, c, upto + 1, ceiling)
      ELSE IF skips = {} /\ HasGapThrough(cp, c, ceiling)
        THEN ResolveGapThrough(cp, c, ceiling) ELSE skipped

(* CatchUpAll for one chat; one that needs no catch-up is passed over.     *)
Chain(c) ==
  LET from == ResumePosition(mem, c) + 1
      ceiling == mem.known[c]
  IN  /\ phase = "chain" /\ c \in todo
      /\ \/ ~NeedsCatchUp(mem, c) /\ UNCHANGED <<mem, disk, caught, queue, faults>>
         \/ /\ NeedsCatchUp(mem, c)
            /\ \E r \in Recoveries(from, ceiling) :
                 LET skips == (from..r.upto) \ Elements(r.events)
                     missing == (from..ceiling) \ Elements(r.events)
                     next == GapAfterChain(mem, c, skips, r.upto, ceiling)
                 IN  /\ IF missing = {} THEN UNCHANGED faults ELSE Fault
                     /\ mem' = next /\ disk' = IF next = mem THEN disk ELSE next
                     /\ queue' = [queue EXCEPT ![c] = queue[c] \o r.events]
                     /\ caught' = [caught EXCEPT ![c] =
                          [events |-> r.events, missing |-> missing,
                           skipped |-> skips # {}, gap |-> missing # {}]]
      /\ Finished(c)
      /\ UNCHANGED <<last, access, base, pushes, seen, out, held, retrying,
                     resume, bridged, noticed, first, lookups, ends>>

(* catchUp's notice: before the events when some were skipped, else after  *)
(* them.  A notice Matrix does not confirm ends the session.               *)
Notice(c) ==
  /\ phase = "deliver" /\ c \in todo
  /\ caught[c].missing # {}
  /\ caught[c].skipped \/ caught[c].events = <<>>
  /\ noticed' = [noticed EXCEPT ![c] = noticed[c] \cup caught[c].missing]
  /\ caught' = [caught EXCEPT ![c].missing = {}]
  /\ UNCHANGED <<last, access, mem, disk, phase, todo, base, queue, pushes, seen,
                 out, held, retrying, resume, bridged, first, faults, lookups, ends>>

(* catchUp's loop over the chat's events; the first failure holds the rest. *)
DeliverCaught(c) ==
  /\ phase = "deliver" /\ c \in todo
  /\ caught[c].events # <<>>
  /\ ~caught[c].skipped \/ caught[c].missing = {}
  /\ \E ok \in BOOLEAN :
       /\ HandleEvent(c, Head(caught[c].events), queue[c], ok)
       /\ caught' = [caught EXCEPT ![c].events = IF ok THEN Tail(@) ELSE <<>>]
       /\ IF ok THEN UNCHANGED <<held, lookups>>
                ELSE ScheduleHeld(c, HoldOf(caught[c].events))
  /\ UNCHANGED <<last, phase, todo, base, pushes, seen, out, retrying, resume,
                 noticed, ends>>

(* The chat is done; rosterFallback reads a managed group's roster when    *)
(* its interval was not recovered or never covered.                        *)
FinishRoom(c) ==
  /\ phase = "deliver" /\ c \in todo
  /\ caught[c].events = <<>> /\ caught[c].missing = {}
  /\ IF caught[c].gap \/ (mem.known[c] > 0 /\ mem.cursor[c] = 0 /\ mem.start[c] = 0)
       THEN \/ UNCHANGED <<access, faults>>
            \/ access' = [access EXCEPT ![c] = FALSE] /\ Fault
       ELSE UNCHANGED <<access, faults>>
  /\ Finished(c)
  /\ UNCHANGED <<last, mem, disk, base, caught, queue, pushes, seen, out, held,
                 retrying, resume, bridged, noticed, first, lookups, ends>>

-----------------------------------------------------------------------------
(* Live *)

(* A message arrives.  A connected session buffers its push from login on. *)
ServerAppend(c) ==
  /\ last[c] < MaxLog
  /\ last' = [last EXCEPT ![c] = last[c] + 1]
  /\ pushes' = IF phase \in {"down", "closing"} THEN pushes
               ELSE [pushes EXCEPT ![c] = Append(pushes[c], last[c] + 1)]
  /\ UNCHANGED <<access, mem, disk, phase, todo, base, caught, queue, seen, out,
                 held, retrying, resume, bridged, noticed, first, faults, lookups, ends>>

(* The server repeats a push of this session. *)
RepeatPush(c, l) ==
  /\ phase = "live" /\ l \in (base[c] + 1)..last[c]
  /\ Fault
  /\ pushes' = [pushes EXCEPT ![c] = Append(pushes[c], l)]
  /\ UNCHANGED <<last, access, mem, disk, phase, todo, base, caught, queue, seen,
                 out, held, retrying, resume, bridged, noticed, first, lookups, ends>>

Remember(c, l) ==
  LET longer == Append(seen, <<c, l>>)
  IN  IF Len(longer) > SeenLimit THEN Tail(longer) ELSE longer

MutantNoFloor(c, l, ok) ==
  ok /\ UNCHANGED <<mem, disk, faults>>

(* RecordDeliveryStart; an unchanged floor is not written again. *)
AdmitStart(c, l, ok) ==
  LET next == RecordDeliveryStart(mem, c, l)
  IN  IF next = mem THEN ok /\ UNCHANGED <<mem, disk, faults>> ELSE Write(next, ok)

(* One step of decodeEventStreamWithTerminalStop: a position committed or  *)
(* seen before is dropped; otherwise its floor is recorded, its commit     *)
(* queued and the event emitted.  A failed floor closes the Client.        *)
Decode(c) ==
  LET l == Head(pushes[c])
  IN  /\ phase = "live" /\ pushes[c] # <<>>
      /\ pushes' = [pushes EXCEPT ![c] = Tail(pushes[c])]
      /\ IF IsCommitted(mem, c, l) \/ <<c, l>> \in Elements(seen)
           THEN UNCHANGED <<mem, disk, phase, queue, seen, out, first, faults>>
           ELSE \E ok \in BOOLEAN :
                  /\ AdmitStart(c, l, ok)
                  /\ IF ok
                       THEN /\ seen' = Remember(c, l)
                            /\ queue' = [queue EXCEPT ![c] = Append(queue[c], l)]
                            /\ out' = [out EXCEPT ![c] = Append(out[c], l)]
                            /\ first' = IF first[c] = 0 THEN [first EXCEPT ![c] = l]
                                        ELSE first
                            /\ UNCHANGED phase
                       ELSE phase' = "closing" /\ UNCHANGED <<seen, queue, out, first>>
      /\ UNCHANGED <<last, access, todo, base, caught, held, retrying, resume,
                     bridged, noticed, lookups, ends>>

MutantPumpingUnlessPaused ==
  phase \in {"live", "closing"} /\ \A c \in Chats : ~held[c].paused

(* The pump serves an open stream, and one that is about to close. *)
Pumping == phase \in {"live", "closing"}

(* The pump takes one event: deliver. *)
Pump(c) ==
  LET l == Head(out[c])
  IN  /\ Pumping /\ retrying = {} /\ out[c] # <<>>
      /\ out' = [out EXCEPT ![c] = Tail(out[c])]
      /\ IF held[c].on
           THEN /\ held' = [held EXCEPT ![c] = Add(held[c], l)]
                /\ UNCHANGED <<access, mem, disk, queue, bridged, first, faults, lookups>>
           ELSE \E ok \in BOOLEAN :
                  /\ HandleEvent(c, l, queue[c], ok)
                  /\ IF ok THEN UNCHANGED <<held, lookups>>
                           ELSE ScheduleHeld(c, HoldOf(<<l>>))
      /\ UNCHANGED <<last, phase, todo, base, caught, pushes, seen, retrying,
                     resume, noticed, ends>>

-----------------------------------------------------------------------------
(* Retrying held chats.  One retry loop runs at a time, on the pump.       *)

Waiting(c) == held[c].on /\ ~held[c].due

(* The chat's retry timer fires. *)
RetryDue(c) ==
  /\ Pumping /\ retrying = {} /\ held[c].on /\ held[c].due
  /\ retrying' = {c}
  /\ UNCHANGED <<last, access, mem, disk, phase, todo, base, caught, queue, pushes,
                 seen, out, held, resume, bridged, noticed, first, faults, lookups, ends>>

(* The operator's reconnect command while a chat is paused:                *)
(* requestDeliveryResume.                                                  *)
RequestResume ==
  /\ \E c \in Chats : held[c].paused
  /\ resume' = TRUE
  /\ UNCHANGED <<last, access, mem, disk, session, bridged, noticed, first,
                 faults, lookups, ends>>

(* resumeHeld(0): every chat without a timer starts over. *)
ResumeAll ==
  /\ Pumping /\ retrying = {} /\ resume
  /\ resume' = FALSE
  /\ retrying' = {c \in Chats : Waiting(c)}
  /\ held' = [c \in Chats |-> IF Waiting(c) THEN [held[c] EXCEPT !.attempts = 0]
                              ELSE held[c]]
  /\ UNCHANGED <<last, access, mem, disk, phase, todo, base, caught, queue, pushes,
                 seen, out, bridged, noticed, first, faults, lookups, ends>>

(* applyMetadataRefresh: the membership retry of a blocked chat converges  *)
(* and the chat resumes.                                                   *)
Converge(c) ==
  /\ Pumping /\ retrying = {} /\ ~access[c]
  /\ access' = [access EXCEPT ![c] = TRUE]
  /\ IF Waiting(c)
       THEN retrying' = {c} /\ held' = [held EXCEPT ![c].attempts = 0]
       ELSE UNCHANGED <<retrying, held>>
  /\ UNCHANGED <<last, mem, disk, phase, todo, base, caught, queue, pushes, seen,
                 out, resume, bridged, noticed, first, faults, lookups, ends>>

(* retryHeld takes the chat's next buffered event. *)
RetryEvent(c) ==
  /\ c \in retrying /\ held[c].events # <<>>
  /\ \E ok \in BOOLEAN :
       /\ HandleEvent(c, Head(held[c].events), queue[c], ok)
       /\ IF ok THEN /\ held' = [held EXCEPT ![c].events = Tail(@)]
                     /\ UNCHANGED <<retrying, lookups>>
                ELSE ScheduleAgain(c) /\ retrying' = retrying \ {c}
  /\ UNCHANGED <<last, phase, todo, base, caught, pushes, seen, out, resume,
                 noticed, ends>>

(* Client.CatchUp through SYNCMSG, its result, and the interval it queues. *)
CatchUp(c, target, ok, events) ==
  LET current == ResumePosition(mem, c)
      resolved == IF HasGapThrough(mem, c, target)
                    THEN ResolveGapThrough(mem, c, target) ELSE mem
      interval == [i \in 1..(target - current) |-> current + i]
  IN  \/ /\ ok /\ phase # "closing"
         /\ events = IF current >= target THEN <<>> ELSE interval
         /\ mem' = resolved /\ disk' = IF resolved = mem THEN disk ELSE resolved
         /\ queue' = [queue EXCEPT ![c] = queue[c] \o events]
         /\ UNCHANGED faults
      \/ /\ ~ok /\ events = <<>>
         /\ IF phase = "closing" THEN UNCHANGED <<mem, disk, faults>>
            ELSE /\ Fault
                 /\ \/ UNCHANGED <<mem, disk>>
                    \/ /\ current < target
                       /\ mem' = RecordGap(mem, c, current + 1, target)
                       /\ disk' = mem'
         /\ UNCHANGED queue

(* retryHeld reads what the full buffer dropped. *)
RetryCatchUp(c) ==
  /\ c \in retrying /\ held[c].events = <<>> /\ held[c].missed > 0
  /\ LET interval == [i \in 1..(held[c].missed - ResumePosition(mem, c)) |->
                        ResumePosition(mem, c) + i]
     IN  \E ok \in BOOLEAN, events \in {<<>>, interval} :
           /\ CatchUp(c, held[c].missed, ok, events)
           /\ UNCHANGED access
           /\ IF ok THEN /\ held' = [held EXCEPT ![c].events = events, ![c].missed = 0]
                         /\ UNCHANGED <<retrying, lookups>>
                    ELSE ScheduleAgain(c) /\ retrying' = retrying \ {c}
  /\ UNCHANGED <<last, phase, todo, base, caught, pushes, seen, out, resume,
                 bridged, noticed, first, ends>>

(* retryHeld delivered everything. *)
Release(c) ==
  /\ c \in retrying /\ held[c].events = <<>> /\ held[c].missed = 0
  /\ held' = [held EXCEPT ![c] = NotHeld]
  /\ retrying' = retrying \ {c}
  /\ UNCHANGED <<last, access, mem, disk, phase, todo, base, caught, queue, pushes,
                 seen, out, resume, bridged, noticed, first, faults, lookups, ends>>

-----------------------------------------------------------------------------
Bootstrap(c) == Seed(c) \/ Chain(c) \/ Notice(c) \/ DeliverCaught(c) \/ FinishRoom(c)
Retry(c) == RetryEvent(c) \/ RetryCatchUp(c) \/ Release(c)

Next ==
  \/ Connect \/ Discover \/ EndSession \/ CloseSession
  \/ RequestResume \/ ResumeAll
  \/ \E c \in Chats :
       \/ Bootstrap(c) \/ Retry(c)
       \/ ServerAppend(c) \/ Decode(c) \/ Pump(c) \/ RetryDue(c) \/ Converge(c)
       \/ \E l \in LogIDs : RepeatPush(c, l)

Spec == Init /\ [][Next]_vars

(* The goroutines keep running, recovery reconnects, timers fire and a     *)
(* blocked group's membership retry, which has no attempt limit, ends up   *)
(* converging.  Nothing is assumed of the operator.                        *)
Fairness ==
  /\ WF_vars(Connect) /\ WF_vars(Discover) /\ WF_vars(CloseSession)
  /\ WF_vars(ResumeAll)
  /\ \A c \in Chats :
       /\ WF_vars(Bootstrap(c)) /\ WF_vars(Decode(c)) /\ SF_vars(Pump(c))
       /\ SF_vars(RetryDue(c)) /\ WF_vars(Retry(c)) /\ SF_vars(Converge(c))

FairSpec == Spec /\ Fairness

-----------------------------------------------------------------------------
Accounted(c) == bridged[c] \cup noticed[c]

(* No cursor, in memory or in the file, passes a promised position that    *)
(* Matrix never got and no gap notice covers: delivery is at least once    *)
(* from the first admitted message on (CommitEvent's queue order, catch-up *)
(* before the live stream, the replay floor).                              *)
NoLoss ==
  \A c \in Chats :
    first[c] > 0 =>
      \A cp \in {mem, disk} : first[c]..cp.cursor[c] \subseteq Accounted(c)

(* A chat's messages reach Matrix in order: when a promised position is    *)
(* there, every earlier promised one is there or was reported (the pump    *)
(* holds a failed chat's later events, catch-up precedes live events).     *)
InOrder ==
  \A c \in Chats : \A p \in bridged[c] :
    first[c] > 0 => first[c]..p \subseteq Accounted(c)

(* Delivery loses nothing and keeps the order of each chat, through        *)
(* crashes, holds and catch-up (handleEvent and CommitEvent).              *)
LosslessInOrder == NoLoss /\ InOrder

(* In a live session every promised position is accounted for or still     *)
(* somewhere the pump will find it: pushed, decoded, held, or dropped by a *)
(* full buffer and noted in missedThrough.                                 *)
NothingForgotten ==
  phase = "live" =>
    \A c \in Chats : \A p \in first[c]..last[c] :
      first[c] > 0 =>
        \/ p \in Accounted(c) \cup Elements(pushes[c]) \cup Elements(out[c])
                  \cup Elements(held[c].events)
        \/ p <= held[c].missed

(* A held chat always has something that will wake it: its timer, the      *)
(* operator's command offered for a paused chat, or the membership retry   *)
(* of a blocked one (scheduleHeld).  A failed read of the access state is  *)
(* the exception: it is treated as blocked and nothing retries it.         *)
HeldHasWakeup ==
  \A c \in Chats :
    held[c].on /\ lookups = 0
      => held[c].due \/ held[c].paused \/ ~access[c] \/ c \in retrying

(* Every unreported, unbridged position stays in the stored gap once a     *)
(* notice covered it: only recovery may resolve a gap.                     *)
GapKeptUntilRecovered ==
  \A c \in Chats : \A p \in noticed[c] \ bridged[c] :
    p <= disk.cursor[c] => InGap(disk, c, p)

(* However often faults and session ends put delivery back, a moment comes *)
(* when every promised position is in Matrix or reported, except in a chat *)
(* that used up its retries and waits for the operator: a failing or       *)
(* paused chat keeps no other chat waiting (one goroutine pumps all).      *)
EventuallyAccounted ==
  []<>(\A c \in Chats :
         first[c] > 0 /\ ~held[c].paused => first[c]..last[c] \subseteq Accounted(c))

(* What a reader of the durable state sees is at-least-once delivery:      *)
(* every step of the bridge is a step of AtLeastOnce or changes nothing    *)
(* there.                                                                  *)
Promise == INSTANCE AtLeastOnce WITH
  settled <- [c \in Chats |-> Accounted(c)], cursor <- disk.cursor

ImplementsAtLeastOnce == Promise!Spec
=============================================================================
