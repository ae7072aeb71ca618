------------------------------- MODULE Session -------------------------------
(***************************************************************************)
(* One authenticated LOCO connection (internal/client/session.go) with its *)
(* keepalive timer (ping_timer_owner.go): goroutines that send requests    *)
(* and wait for the reply, the one reader that correlates replies and      *)
(* routes pushes, one receive-header timer per written request, and the    *)
(* ways a session closes.  It starts with the reader running, LOGINLIST    *)
(* answered (so the keepalive is armed) and the bootstrap still buffering  *)
(* pushes.                                                                 *)
(*                                                                         *)
(* A critical section of s.mu or lifecycleMu is one step.  Writing a frame *)
(* is one step because writeGate admits one writer.  A timer callback that *)
(* was superseded (a stale generation, a timer no longer in headerTimers)  *)
(* returns at once and is not a step.                                      *)
(***************************************************************************)
EXTENDS Integers, Sequences

CONSTANTS
  Callers,     \* goroutines that issue requests
  Pings,       \* keepalive callbacks that can run at the same time
  Methods,     \* method of each caller, never a push's; a ping's is "PING"
  MaxID,       \* bound: request IDs are 1..MaxID (requestIDMin..requestIDMax-1)
  Workloads,   \* bounds: requests of each goroutine, pushes of the server
  PushBuffer,  \* requestLimit, the capacity of the push channel
  LateCancel,  \* a context may end after the last byte, before it is checked
  PeerMayDie,  \* the peer may fall silent without closing the connection
  Refusals     \* encoding a request may fail before anything is written

Procs == Callers \cup Pings
IDs == 1..MaxID
Loads == [calls : [Procs -> Nat], pushes : Nat]

ASSUME SessionAssumption ==
  /\ Callers \cap Pings = {} /\ Procs \cap {"none", "no reply", "failed"} = {}
  /\ Methods \in [Callers -> STRING \ {"MSG"}]
  /\ {MaxID, PushBuffer} \subseteq Nat \ {0} /\ Workloads \subseteq Loads
  /\ {LateCancel, PeerMayDie, Refusals} \subseteq BOOLEAN

\* One call of request: the goroutine and how many calls it had left after it.
Calls == [proc : Procs, use : Nat]
NoCall == [proc |-> "none", use |-> 0]
NoReply == [proc |-> "no reply", use |-> 0]
Failed == [proc |-> "failed", use |-> 0]

VARIABLES
  pc,          \* where each goroutine is in requestRaw
  use,         \* calls each goroutine has left
  id,          \* packet ID of its current call
  result,      \* its result channel: NoReply, Failed or the call replied to
  nextID,
  pending,     \* s.pending: call waiting on each packet ID
  timers,      \* s.headerTimers: call whose timer holds each packet ID
  ping,        \* the keepalive timer is armed
  stopped,     \* lifecycleStopped, and the ping owner shut down
  closing, closed,
  wantClose,   \* a timer or PING callback is about to call Close
  tearing,     \* closing was set; stopLifecycle and wire.close still to run
  wire,        \* the connection is up
  reader,      \* where the read loop is
  packet,      \* the packet it holds
  failing,     \* calls finishRead took from pending and has yet to fail
  bootDone, boot, chan, got,  \* pushes: bootstrap buffer, channel, consumed
  pushesClosed,
  \* The server and the history the properties speak of.
  unanswered,  \* requests that reached the server whole and have no reply yet
  sent,        \* pushes sent so far, and how many there will be
  silent,      \* the peer is dead: nothing more arrives
  refused      \* the last keepalive change was by a request never encoded

callVars == <<pc, use, id, result>>
tableVars == <<nextID, pending, timers>>
closeVars == <<closing, closed, wantClose, tearing, wire>>
readVars == <<reader, packet, failing>>
pushVars == <<bootDone, boot, chan, got, pushesClosed>>
peerVars == <<unanswered, sent, silent>>
keepVars == <<ping, stopped, refused>>
vars == <<callVars, tableVars, closeVars, readVars, pushVars, peerVars, keepVars>>

CallOf(p) == [proc |-> p, use |-> use[p]]
MethodOf(call) == IF call.proc \in Pings THEN "PING" ELSE Methods[call.proc]
Open == ~closed /\ ~closing

\* The reader holds a reply or a push; a push has no call.
Packet(i, method, call, push) == [id |-> i, method |-> method, call |-> call, push |-> push]
NoPacket == Packet(0, "none", NoCall, 0)

Init ==
  /\ pc = [p \in Procs |-> "idle"]
  /\ \E load \in Workloads : use = load.calls /\ sent = [n |-> 0, of |-> load.pushes]
  /\ id = [p \in Procs |-> 0] /\ result = [p \in Procs |-> NoReply]
  /\ nextID = 1 /\ pending = [i \in IDs |-> NoCall] /\ timers = [i \in IDs |-> NoCall]
  /\ ping = TRUE /\ stopped = FALSE /\ refused = FALSE
  /\ closing = FALSE /\ closed = FALSE /\ wantClose = FALSE /\ tearing = FALSE
  /\ wire = TRUE
  /\ reader = "read" /\ packet = NoPacket /\ failing = {}
  /\ bootDone = FALSE /\ boot = <<>> /\ chan = <<>> /\ got = <<>>
  /\ pushesClosed = FALSE
  /\ unanswered = {} /\ silent = FALSE

-----------------------------------------------------------------------------
(* The keepalive timer *)

queueSchedule ==
  /\ ping' = ~stopped
  /\ refused' = FALSE
  /\ UNCHANGED stopped

queueCancelRequest ==
  /\ ping' = FALSE
  /\ refused' = FALSE
  /\ UNCHANGED stopped

stopLifecycle == ping' = FALSE /\ stopped' = TRUE /\ UNCHANGED refused

-----------------------------------------------------------------------------
(* requestRaw *)

MutantReusesArmedID(i) == pending[i] = NoCall

FreeID(i) == pending[i] = NoCall /\ timers[i] = NoCall

\* allocateRequestIDLocked: the first free ID from nextID on, wrapping.
Wrapped(n) == ((n - 1) % MaxID) + 1
FreeIDs == {i \in IDs : FreeID(i)}
Allocated(i) ==
  \E d \in 0..(MaxID - 1) :
     /\ i = Wrapped(nextID + d) /\ FreeID(i)
     /\ \A e \in 0..(d - 1) : ~FreeID(Wrapped(nextID + e))

Register(p) ==
  \E i \in IDs :
     /\ Allocated(i)
     /\ nextID' = Wrapped(i + 1)
     /\ pending' = [pending EXCEPT ![i] = [proc |-> p, use |-> use[p] - 1]]
     /\ use' = [use EXCEPT ![p] = @ - 1]
     /\ id' = [id EXCEPT ![p] = i]
     /\ result' = [result EXCEPT ![p] = NoReply]
     /\ pc' = [pc EXCEPT ![p] = "cancel"]
     /\ UNCHANGED timers

\* A refused request (closed session, no free ID) returns without a change.
Begin(p) ==
  /\ p \in Callers /\ pc[p] = "idle" /\ use[p] > 0
  /\ Open /\ FreeIDs # {}
  /\ Register(p)
  /\ UNCHANGED <<closeVars, readVars, pushVars, peerVars, keepVars>>

CancelPing(p) ==
  /\ pc[p] = "cancel"
  /\ pc' = [pc EXCEPT ![p] = "write"]
  /\ IF stopped THEN UNCHANGED keepVars ELSE queueCancelRequest
  /\ UNCHANGED <<use, id, result, tableVars, closeVars, readVars, pushVars, peerVars>>

\* writeRequest.  how is what becomes of the frame: "none" (the context ended
\* or the session closed first, nothing written), "refused" (not encoded),
\* "whole", "late" (whole, but the context has ended), "part" (an error after
\* some bytes: framing is lost) or "dead" (an error before any byte).
Write(p, how) ==
  /\ pc[p] = "write"
  /\ how = "refused" => Refusals
  /\ how = "late" => LateCancel
  /\ how \in {"whole", "late", "part", "dead"} => Open
  /\ pc' = [pc EXCEPT ![p] = CASE how = "whole" -> "arm"
                               [] how \in {"refused", "dead", "part"} -> "undo"
                               [] how = "none" -> IF Open THEN "undoCtx" ELSE "undo"
                               [] OTHER -> "undoCtx"]
  /\ unanswered' = IF how \in {"whole", "late"}
                      THEN unanswered \cup {[call |-> CallOf(p), id |-> id[p]]}
                      ELSE unanswered
  /\ closing' = (closing \/ how = "part")
  /\ tearing' = (tearing \/ how = "part")
  /\ wire' = (wire /\ how # "dead")
  /\ refused' = (refused \/ how = "refused")
  /\ UNCHANGED <<use, id, result, tableVars, closed, wantClose, readVars, pushVars,
                 sent, silent, ping, stopped>>

MutantArmsAnswered(p) ==
  /\ pc[p] = "arm"
  /\ pc' = [pc EXCEPT ![p] = "wait"]
  /\ timers' = IF Open THEN [timers EXCEPT ![id[p]] = CallOf(p)] ELSE timers
  /\ UNCHANGED <<use, id, result, nextID, pending, closeVars, readVars, pushVars,
                 peerVars, keepVars>>

\* armHeaderTimeout: only while the request is still pending.
Arm(p) ==
  /\ pc[p] = "arm"
  /\ pc' = [pc EXCEPT ![p] = "wait"]
  /\ timers' = IF Open /\ pending[id[p]] = CallOf(p)
                 THEN [timers EXCEPT ![id[p]] = CallOf(p)] ELSE timers
  /\ UNCHANGED <<use, id, result, nextID, pending, closeVars, readVars, pushVars,
                 peerVars, keepVars>>

\* The outcome arrived.  A PING callback that failed closes the session.
Return(p) ==
  /\ pc[p] = "wait" /\ result[p] # NoReply
  /\ pc' = [pc EXCEPT ![p] = "idle"]
  /\ wantClose' = (wantClose \/ (p \in Pings /\ result[p] = Failed))
  /\ UNCHANGED <<use, id, result, tableVars, closing, closed, tearing, wire, readVars,
                 pushVars, peerVars, keepVars>>

\* The caller's context ended while it waited.
Abandon(p) ==
  /\ pc[p] = "wait"
  /\ pc' = [pc EXCEPT ![p] = "undoCtx"]
  /\ UNCHANGED <<use, id, result, tableVars, closeVars, readVars, pushVars, peerVars,
                 keepVars>>

MutantUndoDisarms(p) ==
  /\ pc[p] \in {"undo", "undoCtx"}
  /\ pc' = [pc EXCEPT ![p] = IF pc[p] = "undo" THEN "fail" ELSE "rearm"]
  /\ pending' = IF pending[id[p]] = CallOf(p)
                  THEN [pending EXCEPT ![id[p]] = NoCall] ELSE pending
  /\ timers' = [timers EXCEPT ![id[p]] = NoCall]
  /\ UNCHANGED <<use, id, result, nextID, closeVars, readVars, pushVars, peerVars,
                 keepVars>>

\* removePending
Undo(p) ==
  /\ pc[p] \in {"undo", "undoCtx"}
  /\ pc' = [pc EXCEPT ![p] = IF pc[p] = "undo" THEN "fail" ELSE "rearm"]
  /\ pending' = IF pending[id[p]] = CallOf(p)
                  THEN [pending EXCEPT ![id[p]] = NoCall] ELSE pending
  /\ UNCHANGED <<use, id, result, nextID, timers, closeVars, readVars, pushVars,
                 peerVars, keepVars>>

MutantForgetsRearm(p) ==
  /\ pc[p] \in {"fail", "rearm"}
  /\ pc' = [pc EXCEPT ![p] = "idle"]
  /\ wantClose' = (wantClose \/ p \in Pings)
  /\ UNCHANGED <<use, id, result, tableVars, closing, closed, tearing, wire, readVars,
                 pushVars, peerVars, keepVars>>

\* rearmAfterAbandon asks whether the context has ended by now, which it may
\* have after any failure.  A PING that failed closes the session instead.
Rearm(p) ==
  /\ pc[p] \in {"fail", "rearm"}
  /\ pc' = [pc EXCEPT ![p] = "idle"]
  /\ wantClose' = (wantClose \/ p \in Pings)
  /\ \/ p \notin Pings /\ queueSchedule
     \/ (p \in Pings \/ pc[p] = "fail") /\ UNCHANGED keepVars
  /\ UNCHANGED <<use, id, result, tableVars, closing, closed, tearing, wire, readVars,
                 pushVars, peerVars>>

-----------------------------------------------------------------------------
(* Timers *)

\* pingTimerOwner.fire and the start of its callback: a PING request.
PingFires(p) ==
  /\ ping /\ p \in Pings /\ pc[p] = "idle" /\ use[p] > 0
  /\ ping' = FALSE /\ UNCHANGED <<stopped, refused>>
  /\ IF Open /\ FreeIDs # {}
       THEN Register(p) /\ UNCHANGED wantClose
       ELSE wantClose' = TRUE /\ UNCHANGED <<callVars, tableVars>>
  /\ UNCHANGED <<closing, closed, tearing, wire, readVars, pushVars, peerVars>>

\* fireHeaderTimeout
HeaderTimeout(i) ==
  /\ timers[i] # NoCall /\ Open
  /\ timers' = [timers EXCEPT ![i] = NoCall]
  /\ wantClose' = TRUE
  /\ UNCHANGED <<callVars, nextID, pending, closing, closed, tearing, wire, readVars,
                 pushVars, peerVars, keepVars>>

-----------------------------------------------------------------------------
(* Closing *)

\* Close, called by a timer or PING callback (wantClose) or by the owner.
Close ==
  /\ Open
  /\ closing' = TRUE /\ tearing' = TRUE /\ wantClose' = FALSE
  /\ timers' = [i \in IDs |-> NoCall]
  /\ UNCHANGED <<callVars, nextID, pending, closed, wire, readVars, pushVars, peerVars,
                 keepVars>>

\* The rest of Close, or of a write that lost framing.
TearDown ==
  /\ tearing
  /\ stopLifecycle
  /\ tearing' = FALSE /\ wire' = FALSE
  /\ UNCHANGED <<callVars, tableVars, closing, closed, wantClose, readVars, pushVars,
                 peerVars>>

-----------------------------------------------------------------------------
(* The read loop *)

\* The pair (packet ID, method) names the request a packet completes.
Completes(pkt) ==
  /\ pkt.id \in IDs /\ pending[pkt.id] # NoCall
  /\ MethodOf(pending[pkt.id]) = pkt.method

Disarmed(pkt) ==
  IF pkt.id \in IDs /\ timers[pkt.id] # NoCall /\ MethodOf(timers[pkt.id]) = pkt.method
    THEN [timers EXCEPT ![pkt.id] = NoCall] ELSE timers

MutantDispatchKeepsPending(pkt) ==
  /\ reader = "read" /\ wire /\ ~silent
  /\ timers' = Disarmed(pkt)
  /\ IF Completes(pkt)
       THEN failing' = {pending[pkt.id]} /\ reader' = "complete"
       ELSE reader' = "push" /\ UNCHANGED failing
  /\ packet' = pkt
  /\ UNCHANGED <<callVars, nextID, pending, closeVars, pushVars, silent, keepVars>>

\* wire.read, then the locked part of dispatchPacket.  The reader goes on to
\* complete the call it took from pending, or to the push path.
Dispatch(pkt) ==
  /\ reader = "read" /\ wire /\ ~silent
  /\ timers' = Disarmed(pkt)
  /\ IF Completes(pkt)
       THEN /\ pending' = [pending EXCEPT ![pkt.id] = NoCall]
            /\ failing' = {pending[pkt.id]}
            /\ reader' = "complete"
       ELSE reader' = "push" /\ UNCHANGED <<pending, failing>>
  /\ packet' = pkt
  /\ UNCHANGED <<callVars, nextID, closeVars, pushVars, silent, keepVars>>

ReadReply(request) ==
  /\ unanswered' = unanswered \ {request} /\ UNCHANGED sent
  /\ Dispatch(Packet(request.id, MethodOf(request.call), request.call, 0))

\* A push; the server numbers packets itself, so its ID may be one of ours.
ReadPush(i) ==
  /\ sent.n < sent.of
  /\ sent' = [sent EXCEPT !.n = @ + 1] /\ UNCHANGED unanswered
  /\ Dispatch(Packet(i, "MSG", NoCall, sent.n + 1))

\* A result channel belongs to one call: a goroutine that has moved on to its
\* next call no longer listens to the old one.
Deliver(calls, outcome) ==
  result' = [p \in Procs |-> IF CallOf(p) \in calls /\ pc[p] # "idle"
                               THEN outcome ELSE result[p]]

\* The rest of dispatchPacket.
Complete ==
  /\ reader = "complete"
  /\ queueSchedule
  /\ Deliver(failing, packet.call)
  /\ failing' = {} /\ reader' = "read" /\ packet' = NoPacket
  /\ UNCHANGED <<pc, use, id, tableVars, closeVars, pushVars, peerVars>>

MutantRouteDropsFull ==
  /\ reader = "push"
  /\ IF ~bootDone THEN boot' = Append(boot, packet.push) /\ UNCHANGED chan
     ELSE /\ chan' = IF Len(chan) < PushBuffer THEN Append(chan, packet.push) ELSE chan
          /\ UNCHANGED boot
  /\ reader' = "read" /\ packet' = NoPacket
  /\ UNCHANGED <<callVars, tableVars, closeVars, failing, bootDone, got, pushesClosed,
                 peerVars, keepVars>>

\* The push path; a full channel ends the session.
RoutePush ==
  /\ reader = "push"
  /\ \/ /\ ~bootDone
        /\ boot' = Append(boot, packet.push) /\ UNCHANGED chan
        /\ reader' = "read" /\ packet' = NoPacket
     \/ /\ bootDone /\ Len(chan) < PushBuffer
        /\ chan' = Append(chan, packet.push) /\ UNCHANGED boot
        /\ reader' = "read" /\ packet' = NoPacket
     \/ /\ bootDone /\ Len(chan) >= PushBuffer
        /\ reader' = "finish" /\ UNCHANGED <<packet, boot, chan>>
  /\ UNCHANGED <<callVars, tableVars, closeVars, failing, bootDone, got, pushesClosed,
                 peerVars, keepVars>>

ReadFails ==
  /\ reader = "read" /\ ~wire
  /\ reader' = "finish"
  /\ UNCHANGED <<callVars, tableVars, closeVars, packet, failing, pushVars, peerVars,
                 keepVars>>

MutantFinishKeepsPending ==
  /\ reader = "finish"
  /\ closed' = TRUE /\ failing' = {}
  /\ pending' = [i \in IDs |-> NoCall] /\ timers' = [i \in IDs |-> NoCall]
  /\ reader' = "end"
  /\ UNCHANGED <<callVars, nextID, closing, wantClose, tearing, wire, packet, pushVars,
                 peerVars, keepVars>>

\* finishRead, locked part.
FinishRead ==
  /\ reader = "finish"
  /\ closed' = TRUE
  /\ failing' = {pending[i] : i \in IDs} \ {NoCall}
  /\ pending' = [i \in IDs |-> NoCall] /\ timers' = [i \in IDs |-> NoCall]
  /\ reader' = "end"
  /\ UNCHANGED <<callVars, nextID, closing, wantClose, tearing, wire, packet, pushVars,
                 peerVars, keepVars>>

\* The rest of finishRead, and wire.close after a full channel.
FailPending ==
  /\ reader = "end"
  /\ stopLifecycle
  /\ Deliver(failing, Failed)
  /\ failing' = {} /\ reader' = "done"
  /\ pushesClosed' = TRUE /\ wire' = FALSE
  /\ UNCHANGED <<pc, use, id, tableVars, closing, closed, wantClose, tearing, packet,
                 bootDone, boot, chan, got, peerVars>>

\* The channel is made at least as long as what the bootstrap buffered.
finishBootstrap ==
  /\ ~bootDone /\ Open
  /\ bootDone' = TRUE /\ chan' = boot /\ boot' = <<>>
  /\ UNCHANGED <<got, pushesClosed, callVars, tableVars, closeVars, readVars, peerVars,
                 keepVars>>

\* The consumer of pushStream; it ignores a late reply (a packet with no push).
TakePush ==
  /\ bootDone /\ chan # <<>>
  /\ got' = IF Head(chan) = 0 THEN got ELSE Append(got, Head(chan))
  /\ chan' = Tail(chan)
  /\ UNCHANGED <<bootDone, boot, pushesClosed, callVars, tableVars, closeVars, readVars,
                 peerVars, keepVars>>

-----------------------------------------------------------------------------
(* The connection *)

WireDrops ==
  /\ wire /\ wire' = FALSE
  /\ UNCHANGED <<callVars, tableVars, closing, closed, wantClose, tearing, readVars,
                 pushVars, peerVars, keepVars>>

PeerDies ==
  /\ PeerMayDie /\ ~silent /\ silent' = TRUE
  /\ UNCHANGED <<callVars, tableVars, closeVars, readVars, pushVars, unanswered, sent,
                 keepVars>>

-----------------------------------------------------------------------------
Outcomes == {"none", "refused", "whole", "late", "part", "dead"}

ClientStep ==
  \/ \E p \in Procs : \/ CancelPing(p)
                      \/ \E how \in Outcomes : Write(p, how)
                      \/ Arm(p) \/ Return(p) \/ Undo(p) \/ Rearm(p)
  \/ \E p \in Pings : PingFires(p)
  \/ \E i \in IDs : HeaderTimeout(i)
  \/ wantClose /\ Close
  \/ TearDown \/ Complete \/ RoutePush \/ ReadFails \/ FinishRead \/ FailPending

Next ==
  \/ ClientStep
  \/ \E p \in Callers : Begin(p)
  \/ \E p \in Procs : Abandon(p)
  \/ Close
  \/ \E request \in unanswered : ReadReply(request)
  \/ \E i \in IDs \cup {0} : ReadPush(i)
  \/ finishBootstrap \/ TakePush \/ WireDrops \/ PeerDies

Spec == Init /\ [][Next]_vars

\* Go runs every goroutine that can run, and an armed timer expires.  Nothing
\* is assumed of callers' contexts, of the server or of the consumer.
FairSpec ==
  /\ Spec
  /\ \A p \in Procs :
       /\ WF_vars(CancelPing(p)) /\ WF_vars(\E how \in Outcomes : Write(p, how))
       /\ WF_vars(Arm(p)) /\ WF_vars(Return(p)) /\ WF_vars(Undo(p)) /\ WF_vars(Rearm(p))
  /\ WF_vars(\E p \in Pings : PingFires(p))
  /\ \A i \in IDs : WF_vars(HeaderTimeout(i))
  /\ WF_vars(wantClose /\ Close) /\ WF_vars(TearDown)
  /\ WF_vars(Complete \/ RoutePush \/ ReadFails \/ FinishRead \/ FailPending)

-----------------------------------------------------------------------------
(* Properties *)

\* Types of the session's tables and of the goroutines' positions.
TypeOK ==
  /\ pc \in [Procs -> {"idle", "cancel", "write", "arm", "wait", "undo", "undoCtx",
                         "fail", "rearm"}]
  /\ use \in [Procs -> Nat] /\ id \in [Procs -> 0..MaxID] /\ nextID \in IDs
  /\ result \in [Procs -> {NoReply, Failed} \cup Calls]
  /\ pending \in [IDs -> Calls \cup {NoCall}] /\ timers \in [IDs -> Calls \cup {NoCall}]
  /\ unanswered \subseteq [call : Calls, id : IDs] /\ failing \subseteq Calls
  /\ {ping, stopped, refused, closing, closed, wantClose, tearing, wire, bootDone,
      pushesClosed, silent} \subseteq BOOLEAN
  /\ reader \in {"read", "complete", "push", "finish", "end", "done"}
  /\ \A q \in {boot, chan, got} : q \in Seq(0..sent.of)

\* A goroutine only ever receives the reply to the very request it sent, across
\* ID wraparound, abandoned requests, late replies and packets that reuse an ID
\* (dispatchPacket and allocateRequestIDLocked).  fireHeaderTimeout frees its ID
\* just before it calls Close; reusing it there takes a whole lap of the ID
\* range, so a session a callback is about to close is left out.
OwnReply ==
  Open /\ ~wantClose =>
    \A p \in Procs : pc[p] # "idle" => result[p] \in {NoReply, Failed, CallOf(p)}

\* A call is completed at most once: a call that has its outcome, or that the
\* reader is about to complete, is no longer in pending.  The result channel
\* has room for one value, so a second completion would block the read loop.
OneCompletion ==
  \A p \in Procs :
    LET waiting == {pending[i] : i \in IDs}
    IN  pc[p] # "idle" =>
          /\ CallOf(p) \in failing => result[p] = NoReply
          /\ CallOf(p) \in waiting => result[p] = NoReply /\ CallOf(p) \notin failing

\* A receive-header timer is only armed for a request the server has yet to
\* answer, so a reply that raced armHeaderTimeout cannot close the session.
TimerUnanswered ==
  \A i \in IDs : timers[i] # NoCall => [call |-> timers[i], id |-> i] \in unanswered

\* On an open session every request that was written whole and not answered has
\* its receive-header timer, abandoned or not (comments of rearmAfterAbandon,
\* armHeaderTimeout and allocateRequestIDLocked).
WrittenHasTimer ==
  Open /\ ~wantClose =>
    \A request \in unanswered :
      \/ timers[request.id] = request.call
      \/ pc[request.call.proc] = "arm" /\ CallOf(request.call.proc) = request.call

\* Receive-header timers are those of the written, unanswered requests, in every
\* order of the write, its reply, the arming and an abandoned call (armHeaderTimeout).
TimersMatch == TimerUnanswered /\ WrittenHasTimer

\* A session on which nothing is in progress has its keepalive armed: no order
\* of requests that cancel it, replies and abandoned calls leaves an idle
\* session without one (queueCancelRequest, queueSchedule, rearmAfterAbandon).
\* A request that could not be encoded is the exception.
IdleHasKeepalive ==
  Open /\ wire /\ ~wantClose /\ ~refused /\ reader # "complete"
    /\ (\A p \in Procs : pc[p] = "idle") => ping

\* Pushes reach the consumer in the order they were read, each once, through the
\* bootstrap buffer, its hand-over and the bounded channel; only the push that
\* ended the session on a full channel is missing.
PushesInOrder ==
  LET held == IF reader = "push" THEN <<packet.push>> ELSE <<>>
      line == got \o chan \o boot \o held
  IN  /\ \A i \in DOMAIN line : line[i] \in 0..sent.n
      /\ \A i, j \in DOMAIN line : i < j /\ line[i] # 0 /\ line[j] # 0 => line[i] < line[j]
      /\ \A n \in 1..sent.n : \/ \E i \in DOMAIN line : line[i] = n
                              \/ n = sent.n /\ reader \in {"finish", "end", "done"}

\* Every request returns, with no deadline of its own and a server that may
\* never answer: the receive-header timer closes the session and finishRead
\* fails what is pending.
CallsReturn == \A p \in Procs : (pc[p] # "idle") ~> (pc[p] = "idle")

\* A dead peer is noticed even when nothing is being sent: the keepalive sends a
\* PING, and the unanswered PING closes the session and its push stream.
PeerIsDead == silent /\ \E p \in Pings : pc[p] = "idle" /\ use[p] > 0
Noticed == pushesClosed
DeadPeerNoticed == PeerIsDead ~> Noticed

==============================================================================
