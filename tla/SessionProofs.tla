--------------------------- MODULE SessionProofs ---------------------------
(***************************************************************************)
(* What holds of Session for any number of goroutines, packet IDs,         *)
(* requests and pushes: a call in pending belongs to a goroutine that      *)
(* waits for it (OnceInv), and the packets on their way to the consumer    *)
(* stay in line (PushInv).  The receive-header timers keep the IDs of      *)
(* requests the server may still answer from being reused (TimerInv), so   *)
(* that a reply meets its own call (ReplyInv); and a keepalive that is not *)
(* armed is owed by somebody (KeepInv).                                    *)
(***************************************************************************)
EXTENDS Session, TLAPS

\* Every table holds calls of goroutines; the reader completes a call with the
\* reply to a call, never with a push.
Typed ==
  /\ pc \in [Procs -> {"idle", "cancel", "write", "arm", "wait", "undo", "undoCtx",
                         "fail", "rearm"}]
  /\ use \in [Procs -> Nat] /\ id \in [Procs -> 0..MaxID] /\ nextID \in IDs
  /\ \A p \in Procs : pc[p] # "idle" => id[p] \in IDs
  /\ result \in [Procs -> {NoReply, Failed} \cup Calls]
  /\ pending \in [IDs -> Calls \cup {NoCall}] /\ timers \in [IDs -> Calls \cup {NoCall}]
  /\ unanswered \subseteq [call : Calls, id : IDs] /\ failing \subseteq Calls
  /\ reader = "complete" => packet.call \in Calls

\* What separates calls from the three values that stand for none.
LEMMA Constants ==
  /\ MaxID \in Nat /\ MaxID > 0 /\ IDs \subseteq Nat
  /\ \A c \in Calls : c \notin {NoCall, NoReply, Failed} /\ c.proc \in Procs /\ c.use \in Nat
  /\ NoReply # Failed
<1>1. MaxID \in Nat /\ MaxID > 0 /\ IDs \subseteq Nat
  <2>1. MaxID \in Nat \ {0}
    BY SessionAssumption, Zenon DEF SessionAssumption
  <2> QED BY <2>1 DEF IDs
<1>2. \A p \in Procs : p \notin {"none", "no reply", "failed"}
  BY SessionAssumption, Zenon DEF SessionAssumption
<1>3. NoReply.proc = "no reply" /\ NoCall.proc = "none" /\ Failed.proc = "failed"
  BY Zenon DEF NoReply, NoCall, Failed
<1>4. \A c \in Calls : c.proc \in Procs /\ c.use \in Nat
  BY Zenon DEF Calls
<1> QED BY <1>1, <1>2, <1>3, <1>4, Zenon

\* The ID after an ID.
LEMMA WrappedIsID ==
  ASSUME NEW n \in Nat \ {0}
  PROVE  Wrapped(n) \in IDs
<1>1. (n - 1) % MaxID \in 0..(MaxID - 1)
  BY Constants
<1> QED BY <1>1, Constants DEF Wrapped, IDs

-----------------------------------------------------------------------------
(* Types *)

\* A goroutine's current call.
LEMMA CurrentCall ==
  ASSUME Typed, NEW p \in Procs
  PROVE  /\ CallOf(p) \in Calls /\ CallOf(p).proc = p /\ CallOf(p).use = use[p]
         /\ CallOf(p) \notin {NoCall, NoReply, Failed}
<1>1. CallOf(p) \in Calls /\ CallOf(p).proc = p /\ CallOf(p).use = use[p]
  BY Zenon DEF CallOf, Calls, Typed
<1> QED BY <1>1, Constants, Zenon

\* Registering a call.
LEMMA RegisterTyped ==
  ASSUME Typed, NEW p \in Procs, use[p] > 0, Register(p),
         UNCHANGED <<unanswered, failing, reader, packet>>
  PROVE  Typed'
<1>1. PICK a \in IDs : /\ nextID' = Wrapped(a + 1) /\ use' = [use EXCEPT ![p] = use[p] - 1]
                       /\ pending' = [pending EXCEPT ![a] = [proc |-> p, use |-> use[p] - 1]]
                       /\ id' = [id EXCEPT ![p] = a] /\ result' = [result EXCEPT ![p] = NoReply]
                       /\ pc' = [pc EXCEPT ![p] = "cancel"] /\ UNCHANGED timers
  BY Zenon DEF Register
<1>2. Wrapped(a + 1) \in IDs
  BY WrappedIsID, Constants
<1>3. use[p] - 1 \in Nat /\ [proc |-> p, use |-> use[p] - 1] \in Calls
  BY DEF Typed, Calls
<1>4. a \in 0..MaxID
  BY Constants DEF IDs
<1> QED BY <1>1, <1>2, <1>3, <1>4, Zenon DEF Typed

\* A step of a goroutine that has begun its call.
LEMMA PlaceTyped ==
  ASSUME Typed, NEW p \in Procs, pc[p] # "idle",
         NEW x \in {"idle", "write", "arm", "wait", "undo", "undoCtx", "fail", "rearm"},
         pc' = [pc EXCEPT ![p] = x],
         UNCHANGED <<use, id, result, nextID, failing, reader, packet>>,
         pending' \in [IDs -> Calls \cup {NoCall}], timers' \in [IDs -> Calls \cup {NoCall}],
         unanswered' \subseteq [call : Calls, id : IDs]
  PROVE  Typed'
BY Zenon DEF Typed

\* The outcome of calls.
LEMMA DeliverTyped ==
  ASSUME Typed, NEW calls, NEW outcome \in {Failed} \cup Calls, Deliver(calls, outcome)
  PROVE  result' \in [Procs -> {NoReply, Failed} \cup Calls]
BY Zenon DEF Typed, Deliver

\* No request has the method of a push, so a push completes no call.
LEMMA PushCompletesNone ==
  ASSUME Typed, NEW i, NEW n
  PROVE  ~Completes(Packet(i, "MSG", NoCall, n))
<1>1. \A c \in Calls : MethodOf(c) # "MSG"
  BY Constants, SessionAssumption, Zenon DEF SessionAssumption, MethodOf, Procs
<1> QED BY <1>1, Zenon DEF Completes, Packet, Typed

\* A packet read.
LEMMA DispatchTyped ==
  ASSUME Typed, NEW pkt, Dispatch(pkt), Completes(pkt) => pkt.call \in Calls,
         unanswered' \subseteq unanswered
  PROVE  Typed'
<1>1. timers' \in [IDs -> Calls \cup {NoCall}]
  BY Zenon DEF Typed, Dispatch, Disarmed
<1>2. /\ pending' \in [IDs -> Calls \cup {NoCall}] /\ failing' \subseteq Calls
      /\ reader' = "complete" => packet'.call \in Calls
  BY DEF Typed, Dispatch, Completes
<1> QED BY <1>1, <1>2, Zenon DEF Typed, Dispatch, callVars

\* Every step keeps the types.
LEMMA TypedStep ==
  ASSUME Typed, Next
  PROVE  Typed'
<1>1. ASSUME NEW p \in Procs, CancelPing(p) PROVE Typed'
  BY <1>1, PlaceTyped, Zenon DEF CancelPing, Typed, tableVars, readVars, peerVars
<1>2. ASSUME NEW p \in Procs, NEW how \in Outcomes, Write(p, how) PROVE Typed'
  <2>1. /\ pc[p] # "idle" /\ UNCHANGED <<use, id, result, tableVars, readVars>>
        /\ \E x \in {"arm", "undo", "undoCtx"} : pc' = [pc EXCEPT ![p] = x]
    BY <1>2, Zenon DEF Write, Outcomes
  <2>2. [call |-> CallOf(p), id |-> id[p]] \in [call : Calls, id : IDs]
    BY <2>1, Zenon DEF Typed, CallOf, Calls
  <2>3. unanswered' \subseteq [call : Calls, id : IDs]
    BY <1>2, <2>2, Zenon DEF Write, Typed
  <2> QED BY <2>1, <2>3, PlaceTyped, Zenon DEF Typed, tableVars, readVars
<1>3. ASSUME NEW p \in Procs, Arm(p) PROVE Typed'
  <2>1. CallOf(p) \in Calls /\ id[p] \in IDs
    BY <1>3, Zenon DEF Arm, Typed, CallOf, Calls
  <2>2. timers' \in [IDs -> Calls \cup {NoCall}]
    BY <1>3, <2>1, Zenon DEF Arm, Typed
  <2> QED BY <1>3, <2>2, PlaceTyped, Zenon DEF Arm, Typed, readVars, peerVars
<1>4. ASSUME NEW p \in Procs, Return(p) PROVE Typed'
  BY <1>4, PlaceTyped, Zenon DEF Return, Typed, tableVars, readVars, peerVars
<1>5. ASSUME NEW p \in Procs, Undo(p) PROVE Typed'
  <2>1. pending' \in [IDs -> Calls \cup {NoCall}]
    BY <1>5, Zenon DEF Undo, Typed
  <2>2. \E x \in {"fail", "rearm"} : pc' = [pc EXCEPT ![p] = x]
    BY <1>5, Zenon DEF Undo
  <2> QED BY <1>5, <2>1, <2>2, PlaceTyped, Zenon DEF Undo, Typed, readVars, peerVars
<1>6. ASSUME NEW p \in Procs, Rearm(p) PROVE Typed'
  BY <1>6, PlaceTyped, Zenon DEF Rearm, Typed, tableVars, readVars, peerVars
<1>7. ASSUME NEW p \in Procs, Abandon(p) PROVE Typed'
  BY <1>7, PlaceTyped, Zenon DEF Abandon, Typed, tableVars, readVars, peerVars
<1>8. ASSUME NEW p \in Callers, Begin(p) PROVE Typed'
  BY <1>8, RegisterTyped, Zenon DEF Begin, Procs, readVars, peerVars
<1>9. ASSUME NEW p \in Pings, PingFires(p) PROVE Typed'
  <2>1. p \in Procs
    BY Zenon DEF Procs
  <2>2. CASE Register(p) /\ FreeIDs # {}
    BY <1>9, <2>1, <2>2, RegisterTyped, Zenon DEF PingFires, readVars, peerVars
  <2>3. CASE UNCHANGED <<callVars, tableVars>>
    BY <1>9, <2>3, Zenon DEF PingFires, Typed, callVars, tableVars, readVars, peerVars
  <2> QED BY <1>9, <2>2, <2>3, Zenon DEF PingFires
<1>10. ASSUME NEW i \in IDs, HeaderTimeout(i) PROVE Typed'
  BY <1>10, Zenon DEF HeaderTimeout, Typed, callVars, readVars, peerVars
<1>11. CASE Close
  BY <1>11, Zenon DEF Close, Typed, callVars, readVars, peerVars
<1>12. CASE TearDown
  BY <1>12, Zenon DEF TearDown, Typed, callVars, tableVars, readVars, peerVars
<1>13. CASE Complete
  <2>1. result' \in [Procs -> {NoReply, Failed} \cup Calls]
    BY <1>13, DeliverTyped, Zenon DEF Complete, Typed
  <2> QED BY <1>13, <2>1, Zenon DEF Complete, Typed, tableVars, peerVars
<1>14. CASE FailPending
  <2>1. result' \in [Procs -> {NoReply, Failed} \cup Calls]
    BY <1>14, DeliverTyped, Zenon DEF FailPending
  <2> QED BY <1>14, <2>1, Zenon DEF FailPending, Typed, tableVars, peerVars
<1>15. CASE RoutePush
  BY <1>15, Zenon DEF RoutePush, Typed, callVars, tableVars, peerVars
<1>16. CASE ReadFails
  BY <1>16, Zenon DEF ReadFails, Typed, callVars, tableVars, peerVars
<1>17. CASE FinishRead
  BY <1>17, Zenon DEF FinishRead, Typed, callVars, peerVars
<1>18. ASSUME NEW request \in unanswered, ReadReply(request) PROVE Typed'
  <2>1. request.call \in Calls
    BY Zenon DEF Typed
  <2> DEFINE pkt == Packet(request.id, MethodOf(request.call), request.call, 0)
  <2>2. pkt.call \in Calls
    BY <2>1, Zenon DEF Packet
  <2>3. Dispatch(pkt) /\ unanswered' \subseteq unanswered
    BY <1>18, Zenon DEF ReadReply
  <2> HIDE DEF pkt
  <2> QED BY <2>2, <2>3, DispatchTyped, Zenon
<1>19. ASSUME NEW i \in IDs \cup {0}, ReadPush(i) PROVE Typed'
  <2> DEFINE pkt == Packet(i, "MSG", NoCall, sent.n + 1)
  <2>1. Dispatch(pkt) /\ ~Completes(pkt) /\ unanswered' = unanswered
    BY <1>19, PushCompletesNone, Zenon DEF ReadPush
  <2> HIDE DEF pkt
  <2> QED BY <2>1, DispatchTyped, Zenon
<1>20. CASE finishBootstrap \/ TakePush \/ WireDrops \/ PeerDies
  BY <1>20, Zenon DEF finishBootstrap, TakePush, WireDrops, PeerDies, Typed, callVars, tableVars,
               readVars, peerVars
<1> QED BY <1>1, <1>2, <1>3, <1>4, <1>5, <1>6, <1>7, <1>8, <1>9, <1>10, <1>11, <1>12, <1>13,
           <1>14, <1>15, <1>16, <1>17, <1>18, <1>19, <1>20, Zenon DEF Next, ClientStep

-----------------------------------------------------------------------------
(* A call is completed once *)

\* The places between registering a call and removing it.
InCall == {"cancel", "write", "arm", "wait", "undo", "undoCtx"}

\* A call in pending is its goroutine's current one, under the ID the goroutine
\* holds, and has no outcome yet.
PendingOwned ==
  \A i \in IDs : pending[i] # NoCall =>
    /\ pending[i] = CallOf(pending[i].proc)
    /\ id[pending[i].proc] = i /\ result[pending[i].proc] = NoReply
    /\ pc[pending[i].proc] \in InCall

\* A call the reader took from pending is in pending no more, and has no outcome
\* as long as its goroutine is in it.
TakenOnce ==
  \A f \in failing :
    /\ f.use >= use[f.proc]
    /\ f = CallOf(f.proc) /\ pc[f.proc] # "idle" => result[f.proc] = NoReply
    /\ \A i \in IDs : pending[i] # f

\* The inductive invariant for OneCompletion.
OnceInv == Typed /\ PendingOwned /\ TakenOnce

\* Nothing pending is changed by a goroutine that moves on within its call, or
\* that leaves a call no longer pending.
LEMMA PlaceOnce ==
  ASSUME OnceInv, NEW p \in Procs, pc[p] # "idle", NEW x,
         pc' = [pc EXCEPT ![p] = x],
         x \in InCall \/ (\A i \in IDs : pending[i] # CallOf(p)),
         UNCHANGED <<use, id, result, pending, failing>>
  PROVE  PendingOwned' /\ TakenOnce'
<1>1. PendingOwned'
  <2> SUFFICES ASSUME NEW i \in IDs, pending[i] # NoCall
               PROVE  /\ pending[i] = CallOf(pending[i].proc)
                      /\ id[pending[i].proc] = i /\ result[pending[i].proc] = NoReply
                      /\ pc'[pending[i].proc] \in InCall
    BY Zenon DEF PendingOwned, CallOf
  <2>1. /\ pending[i] = CallOf(pending[i].proc) /\ pending[i].proc \in Procs
        /\ id[pending[i].proc] = i /\ result[pending[i].proc] = NoReply
        /\ pc[pending[i].proc] \in InCall
    BY DEF OnceInv, PendingOwned, Typed, Calls
  <2> QED BY <2>1, Zenon DEF OnceInv, Typed
<1>2. TakenOnce'
  <2> SUFFICES ASSUME NEW f \in failing
               PROVE  /\ f.use >= use[f.proc]
                      /\ f = CallOf(f.proc) /\ pc'[f.proc] # "idle" => result[f.proc] = NoReply
                      /\ \A i \in IDs : pending[i] # f
    BY Zenon DEF TakenOnce, CallOf
  <2>1. f.proc \in Procs
    BY Zenon DEF OnceInv, Typed, Calls
  <2> QED BY <2>1, Zenon DEF OnceInv, TakenOnce, Typed
<1> QED BY <1>1, <1>2, Zenon

\* A new call: its ID is free, and no earlier call is the same one.
LEMMA RegisterOnce ==
  ASSUME OnceInv, NEW p \in Procs, pc[p] = "idle", use[p] > 0, Register(p),
         UNCHANGED failing
  PROVE  PendingOwned' /\ TakenOnce'
<1> DEFINE c == [proc |-> p, use |-> use[p] - 1]
<1>0. PICK a \in IDs :
        /\ pending[a] = NoCall /\ pending' = [pending EXCEPT ![a] = c]
        /\ use' = [use EXCEPT ![p] = use[p] - 1] /\ id' = [id EXCEPT ![p] = a]
        /\ result' = [result EXCEPT ![p] = NoReply] /\ pc' = [pc EXCEPT ![p] = "cancel"]
  BY Zenon DEF Register, Allocated, FreeID
<1>1. a \in IDs /\ pending[a] = NoCall
  BY <1>0, Zenon
<1>2. c \in Calls /\ c # NoCall /\ use[p] \in Nat
  BY Constants DEF OnceInv, Typed, Calls
<1>3. /\ pending' = [pending EXCEPT ![a] = c] /\ use' = [use EXCEPT ![p] = use[p] - 1]
      /\ id' = [id EXCEPT ![p] = a] /\ result' = [result EXCEPT ![p] = NoReply]
      /\ pc' = [pc EXCEPT ![p] = "cancel"]
  BY <1>0, Zenon
<1>4. c.proc = p /\ c.use = use[p] - 1 /\ c = [proc |-> p, use |-> use'[p]]
  BY <1>3, Zenon DEF OnceInv, Typed
<1> HIDE DEF c
<1>5. \A i \in IDs : pending[i] # NoCall => pending[i].proc # p
  BY Zenon DEF OnceInv, PendingOwned, InCall
<1>6. PendingOwned'
  <2> SUFFICES ASSUME NEW i \in IDs, pending'[i] # NoCall
               PROVE  /\ pending'[i] = [proc |-> pending'[i].proc, use |-> use'[pending'[i].proc]]
                      /\ id'[pending'[i].proc] = i /\ result'[pending'[i].proc] = NoReply
                      /\ pc'[pending'[i].proc] \in InCall
    BY Zenon DEF PendingOwned, CallOf
  <2>1. CASE i = a
    BY <1>1, <1>2, <1>3, <1>4, <2>1, Zenon DEF OnceInv, Typed, InCall
  <2>2. CASE i # a
    <3>1. pending'[i] = pending[i] /\ pending[i].proc \in Procs /\ pending[i].proc # p
      BY <1>3, <1>5, <2>2, Zenon DEF OnceInv, Typed, Calls
    <3> QED BY <1>3, <3>1 DEF OnceInv, PendingOwned, Typed, CallOf
  <2> QED BY <2>1, <2>2, Zenon
<1>7. TakenOnce'
  <2> SUFFICES ASSUME NEW f \in failing
               PROVE  /\ f.use >= use'[f.proc]
                      /\ f = [proc |-> f.proc, use |-> use'[f.proc]] /\ pc'[f.proc] # "idle"
                           => result'[f.proc] = NoReply
                      /\ \A i \in IDs : pending'[i] # f
    BY Zenon DEF TakenOnce, CallOf
  <2>1. f.proc \in Procs /\ f.use \in Nat /\ f.use >= use[f.proc]
    BY Zenon DEF OnceInv, TakenOnce, Typed, Calls
  <2>2. f # c
    <3> SUFFICES ASSUME f = c PROVE FALSE
      BY Zenon
    <3>1. f.proc = p /\ f.use = use[p] - 1
      BY <1>4, Zenon
    <3> QED BY <1>2, <2>1, <3>1
  <2>3. f.use >= use'[f.proc]
    BY <1>2, <1>3, <2>1 DEF OnceInv, Typed
  <2>4. f = [proc |-> f.proc, use |-> use'[f.proc]] /\ pc'[f.proc] # "idle" => result'[f.proc] = NoReply
    <3>1. CASE f.proc = p
      BY <1>3, <3>1, Zenon DEF OnceInv, Typed
    <3>2. CASE f.proc # p
      BY <1>3, <2>1, <3>2, Zenon DEF OnceInv, TakenOnce, Typed, CallOf
    <3> QED BY <3>1, <3>2, Zenon
  <2>5. \A i \in IDs : pending'[i] # f
    BY <1>1, <1>3, <2>2, Zenon DEF OnceInv, TakenOnce, Typed
  <2> QED BY <2>3, <2>4, <2>5, Zenon
<1> QED BY <1>6, <1>7, Zenon

\* removePending leaves nothing of the call.
LEMMA UndoOnce ==
  ASSUME OnceInv, NEW p \in Procs, Undo(p)
  PROVE  PendingOwned' /\ TakenOnce'
<1>1. /\ id[p] \in IDs /\ UNCHANGED <<use, id, result, failing>>
      /\ pending' = IF pending[id[p]] = CallOf(p) THEN [pending EXCEPT ![id[p]] = NoCall] ELSE pending
      /\ \E x \in {"fail", "rearm"} : pc' = [pc EXCEPT ![p] = x]
  BY Zenon DEF Undo, OnceInv, Typed, readVars
<1>2. \A i \in IDs : pending'[i] \in {pending[i], NoCall}
  BY <1>1, Zenon DEF OnceInv, Typed
<1>3. \A i \in IDs : pending'[i] # NoCall => pending'[i].proc # p
  <2> SUFFICES ASSUME NEW i \in IDs, pending'[i] # NoCall, pending'[i].proc = p
               PROVE  FALSE
    BY Zenon
  <2>1. pending[i] = CallOf(p) /\ id[p] = i
    BY <1>2, Zenon DEF OnceInv, PendingOwned
  <2> QED BY <1>1, <2>1, Zenon DEF OnceInv, Typed
<1>4. PendingOwned'
  <2> SUFFICES ASSUME NEW i \in IDs, pending'[i] # NoCall
               PROVE  /\ pending'[i] = CallOf(pending'[i].proc)
                      /\ id[pending'[i].proc] = i /\ result[pending'[i].proc] = NoReply
                      /\ pc'[pending'[i].proc] \in InCall
    BY <1>1 DEF PendingOwned, CallOf
  <2>1. pending'[i] = pending[i] /\ pending[i].proc \in Procs /\ pending[i].proc # p
    BY <1>2, <1>3, Zenon DEF OnceInv, Typed, Calls
  <2> QED BY <1>1, <2>1, Zenon DEF OnceInv, PendingOwned, Typed
<1>5. TakenOnce'
  <2> SUFFICES ASSUME NEW f \in failing
               PROVE  /\ f.use >= use[f.proc]
                      /\ f = CallOf(f.proc) /\ pc'[f.proc] # "idle" => result[f.proc] = NoReply
                      /\ \A i \in IDs : pending'[i] # f
    BY <1>1, Zenon DEF TakenOnce, CallOf
  <2>1. f.proc \in Procs /\ f # NoCall
    BY Constants, Zenon DEF OnceInv, Typed
  <2>2. pc'[f.proc] # "idle" => pc[f.proc] # "idle"
    BY <1>1, <2>1, Zenon DEF OnceInv, Typed, Undo
  <2>3. \A i \in IDs : pending'[i] # f
    BY <1>2, <2>1, Zenon DEF OnceInv, TakenOnce
  <2> QED BY <2>2, <2>3, Zenon DEF OnceInv, TakenOnce
<1> QED BY <1>4, <1>5, Zenon

\* The reader takes at most the one call the packet completes.  A reply it
\* still holds when it reads again would be forgotten, but it holds none.
LEMMA DispatchOnce ==
  ASSUME OnceInv, NEW pkt, Dispatch(pkt)
  PROVE  PendingOwned' /\ TakenOnce'
<1>1. UNCHANGED <<pc, use, id, result>>
  BY Zenon DEF Dispatch, callVars
<1>2. CASE Completes(pkt)
  <2>1. /\ pkt.id \in IDs /\ pending[pkt.id] # NoCall /\ failing' = {pending[pkt.id]}
        /\ pending' = [pending EXCEPT ![pkt.id] = NoCall]
    BY <1>2, Zenon DEF Dispatch, Completes
  <2>2. \A i \in IDs : pending'[i] # NoCall => pending'[i] = pending[i] /\ i # pkt.id
    BY <2>1, Zenon DEF OnceInv, Typed
  <2>3. PendingOwned'
    BY <1>1, <2>2, Zenon DEF OnceInv, PendingOwned, CallOf
  <2>4. TakenOnce'
    <3> DEFINE f == pending[pkt.id]
    <3>1. f \in Calls /\ f = CallOf(f.proc) /\ id[f.proc] = pkt.id /\ result[f.proc] = NoReply
      BY <2>1 DEF OnceInv, Typed, PendingOwned
    <3>2. f.use >= use[f.proc]
      BY <3>1, Constants DEF CallOf
    <3>3. \A i \in IDs : pending'[i] # f
      <4> SUFFICES ASSUME NEW i \in IDs, pending'[i] = f PROVE FALSE
        BY Zenon
      <4>1. pending[i] = f /\ i # pkt.id
        BY <2>1, <2>2, Zenon
      <4> QED BY <2>1, <3>1, <4>1, Zenon DEF OnceInv, PendingOwned
    <3> QED BY <1>1, <2>1, <3>1, <3>2, <3>3, Zenon DEF TakenOnce, CallOf
  <2> QED BY <2>3, <2>4, Zenon
<1>3. CASE ~Completes(pkt)
  BY <1>1, <1>3, Zenon DEF Dispatch, OnceInv, PendingOwned, TakenOnce, CallOf
<1> QED BY <1>2, <1>3, Zenon

\* Outcomes go only to calls the reader took, which are not pending.
LEMMA DeliverOnce ==
  ASSUME OnceInv, NEW outcome, Deliver(failing, outcome), failing' = {},
         UNCHANGED <<pc, use, id, pending>>
  PROVE  PendingOwned' /\ TakenOnce'
<1>1. TakenOnce'
  BY Zenon DEF TakenOnce
<1>2. PendingOwned'
  <2> SUFFICES ASSUME NEW i \in IDs, pending[i] # NoCall
               PROVE  /\ pending[i] = CallOf(pending[i].proc)
                      /\ id[pending[i].proc] = i /\ result'[pending[i].proc] = NoReply
                      /\ pc[pending[i].proc] \in InCall
    BY Zenon DEF PendingOwned, CallOf
  <2>1. pending[i].proc \in Procs
    BY Zenon DEF OnceInv, Typed, Calls
  <2>2. /\ pending[i] = CallOf(pending[i].proc)
        /\ id[pending[i].proc] = i /\ result[pending[i].proc] = NoReply
        /\ pc[pending[i].proc] \in InCall
    BY Zenon DEF OnceInv, PendingOwned
  <2>3. pending[i] \notin failing
    BY Zenon DEF OnceInv, TakenOnce
  <2>4. result'[pending[i].proc] = result[pending[i].proc]
    BY <2>1, <2>2, <2>3, Zenon DEF Deliver
  <2> QED BY <2>2, <2>4, Zenon
<1> QED BY <1>1, <1>2, Zenon

\* finishRead takes every call that was still pending.
LEMMA FinishOnce ==
  ASSUME OnceInv, FinishRead
  PROVE  PendingOwned' /\ TakenOnce'
<1>1. /\ UNCHANGED <<pc, use, id, result>> /\ \A i \in IDs : pending'[i] = NoCall
      /\ failing' = {pending[i] : i \in IDs} \ {NoCall}
  BY Zenon DEF FinishRead, callVars
<1>2. PendingOwned'
  BY <1>1, Zenon DEF PendingOwned
<1>3. TakenOnce'
  <2> SUFFICES ASSUME NEW f \in failing'
               PROVE  /\ f.use >= use[f.proc]
                      /\ f = CallOf(f.proc) /\ pc[f.proc] # "idle" => result[f.proc] = NoReply
                      /\ \A i \in IDs : pending'[i] # f
    BY <1>1, Zenon DEF TakenOnce, CallOf
  <2>1. PICK j \in IDs : f = pending[j] /\ f # NoCall
    BY <1>1, Zenon
  <2>2. f \in Calls /\ f = CallOf(f.proc) /\ result[f.proc] = NoReply
    BY <2>1 DEF OnceInv, Typed, PendingOwned
  <2>3. f.use >= use[f.proc]
    BY <2>2, Constants DEF CallOf
  <2> QED BY <1>1, <2>1, <2>2, <2>3, Zenon
<1> QED BY <1>2, <1>3, Zenon

\* Every step keeps the invariant.
LEMMA OnceStep ==
  ASSUME OnceInv, Next
  PROVE  OnceInv'
<1> SUFFICES PendingOwned' /\ TakenOnce'
  BY TypedStep, Zenon DEF OnceInv
<1>1. ASSUME NEW p \in Procs, pc[p] \notin InCall PROVE \A i \in IDs : pending[i] # CallOf(p)
  <2>1. CallOf(p).proc = p /\ CallOf(p) # NoCall
    BY CurrentCall, Zenon DEF OnceInv
  <2> QED BY <1>1, <2>1, Zenon DEF OnceInv, PendingOwned
<1>2. ASSUME UNCHANGED <<callVars, pending, failing>> PROVE PendingOwned' /\ TakenOnce'
  BY <1>2, Zenon DEF OnceInv, PendingOwned, TakenOnce, CallOf, callVars
<1>3. ASSUME NEW p \in Procs, CancelPing(p) \/ Arm(p) \/ Abandon(p) \/ Return(p) \/ Rearm(p)
      PROVE  PendingOwned' /\ TakenOnce'
  <2>1. /\ pc[p] # "idle" /\ UNCHANGED <<use, id, result, pending, failing>>
        /\ \E x : /\ pc' = [pc EXCEPT ![p] = x]
                  /\ x \in InCall \/ pc[p] \notin InCall \/ result[p] # NoReply
    BY <1>3, Zenon DEF CancelPing, Arm, Abandon, Return, Rearm, tableVars, readVars, InCall
  <2>2. result[p] # NoReply => \A i \in IDs : pending[i] # CallOf(p)
    <3>1. CallOf(p).proc = p /\ CallOf(p) # NoCall
      BY CurrentCall, Zenon DEF OnceInv
    <3> QED BY <3>1 DEF OnceInv, PendingOwned
  <2> QED BY <1>1, <2>1, <2>2, PlaceOnce, Zenon
<1>4. ASSUME NEW p \in Procs, NEW how \in Outcomes, Write(p, how) PROVE PendingOwned' /\ TakenOnce'
  <2>1. /\ pc[p] # "idle" /\ UNCHANGED <<use, id, result, pending, failing>>
        /\ \E x \in InCall : pc' = [pc EXCEPT ![p] = x]
    BY <1>4, Zenon DEF Write, Outcomes, tableVars, readVars, InCall
  <2> QED BY <2>1, PlaceOnce, Zenon
<1>5. ASSUME NEW p \in Callers, Begin(p) PROVE PendingOwned' /\ TakenOnce'
  BY <1>5, RegisterOnce, Zenon DEF Begin, Procs, readVars
<1>6. ASSUME NEW p \in Pings, PingFires(p) PROVE PendingOwned' /\ TakenOnce'
  <2>1. CASE Register(p) /\ FreeIDs # {}
    BY <1>6, <2>1, RegisterOnce, Zenon DEF PingFires, Procs, readVars
  <2>2. CASE UNCHANGED <<callVars, tableVars>>
    BY <1>2, <1>6, <2>2, Zenon DEF PingFires, tableVars, readVars
  <2> QED BY <1>6, <2>1, <2>2, Zenon DEF PingFires
<1>7. CASE Complete
  BY <1>7, DeliverOnce, Zenon DEF Complete, tableVars
<1>8. CASE FailPending
  BY <1>8, DeliverOnce, Zenon DEF FailPending, tableVars
<1>9. CASE \/ \E i \in IDs : HeaderTimeout(i)
           \/ Close \/ TearDown \/ RoutePush \/ ReadFails
           \/ finishBootstrap \/ TakePush \/ WireDrops \/ PeerDies
  <2>1. UNCHANGED <<callVars, pending, failing>>
    BY <1>9, Zenon DEF HeaderTimeout, Close, TearDown, RoutePush, ReadFails, finishBootstrap, TakePush,
                WireDrops, PeerDies, tableVars, readVars
  <2> QED BY <1>2, <2>1, Zenon
<1> QED BY <1>3, <1>4, <1>5, <1>6, <1>7, <1>8, <1>9, UndoOnce, DispatchOnce, FinishOnce, Zenon
        DEF Next, ClientStep, ReadReply, ReadPush

\* The session starts with nothing pending.
LEMMA OnceStart ==
  ASSUME Init
  PROVE  OnceInv
<1>1. 1 \in IDs /\ 0 \in 0..MaxID
  BY Constants DEF IDs
<1>2. use \in [Procs -> Nat]
  BY SessionAssumption, Zenon DEF SessionAssumption, Init, Loads
<1>3. Typed
  BY <1>1, <1>2, Zenon DEF Init, Typed
<1> QED BY <1>3, Zenon DEF Init, OnceInv, PendingOwned, TakenOnce

\* Nor does a step that changes nothing.
LEMMA SameOnce ==
  ASSUME OnceInv, UNCHANGED vars
  PROVE  OnceInv'
<1>1. UNCHANGED <<pc, use, id, result, nextID, pending, timers, reader, packet, failing, unanswered>>
  BY Zenon DEF vars, callVars, tableVars, readVars, peerVars
<1>2. Typed'
  BY <1>1, Zenon DEF OnceInv, Typed
<1>3. PendingOwned'
  BY <1>1, Zenon DEF OnceInv, PendingOwned, CallOf
<1>4. TakenOnce'
  BY <1>1, Zenon DEF OnceInv, TakenOnce, CallOf
<1> QED BY <1>2, <1>3, <1>4, Zenon DEF OnceInv

\* A call is completed at most once, with contexts that end at any moment: its
\* result channel, which has room for one value, never blocks the read loop
\* (dispatchPacket, removePending and finishRead take a call from pending under
\* the lock before they complete it).
THEOREM CompletedOnce == Spec => []OneCompletion
<1>1. ASSUME OnceInv, UNCHANGED vars PROVE OnceInv'
  BY <1>1, SameOnce, Zenon
<1>2. OnceInv => OneCompletion
  <2> SUFFICES ASSUME OnceInv, NEW p \in Procs, pc[p] # "idle"
               PROVE  /\ CallOf(p) \in failing => result[p] = NoReply
                      /\ CallOf(p) \in {pending[i] : i \in IDs} =>
                           result[p] = NoReply /\ CallOf(p) \notin failing
    BY Zenon DEF OneCompletion
  <2>1. CallOf(p).proc = p /\ CallOf(p) # NoCall
    BY CurrentCall, Zenon DEF OnceInv
  <2>2. CallOf(p) \in failing => result[p] = NoReply
    BY <2>1, Zenon DEF OnceInv, TakenOnce
  <2>3. ASSUME NEW i \in IDs, pending[i] = CallOf(p) PROVE result[p] = NoReply /\ CallOf(p) \notin failing
    <3>1. result[p] = NoReply
      BY <2>1, <2>3 DEF OnceInv, PendingOwned
    <3>2. CallOf(p) \notin failing
      BY <2>3, Zenon DEF OnceInv, TakenOnce
    <3> QED BY <3>1, <3>2, Zenon
  <2> QED BY <2>2, <2>3, Zenon
<1> QED BY <1>1, <1>2, OnceStart, OnceStep, PTL DEF Spec

-----------------------------------------------------------------------------
(* Pushes *)

\* The numbers of q that are not 0 ascend, and are at most n.
Ascends(q, n) ==
  /\ \A i \in 1..Len(q) : q[i] <= n
  /\ \A i, j \in 1..Len(q) : i < j /\ q[i] # 0 /\ q[j] # 0 => q[i] < q[j]

\* q has the number m.
Has(q, m) == \E i \in 1..Len(q) : q[i] = m

\* A number at the end of a line.
LEMMA LastInLine ==
  ASSUME NEW q \in Seq(Nat), NEW x \in Nat
  PROVE  /\ q \o <<x>> \in Seq(Nat) /\ Len(q \o <<x>>) = Len(q) + 1 /\ Len(q) \in Nat
         /\ \A i \in 1..Len(q) : (q \o <<x>>)[i] = q[i] /\ q[i] \in Nat
         /\ (q \o <<x>>)[Len(q) + 1] = x
<1>1. <<x>> \in Seq(Nat) /\ Len(<<x>>) = 1 /\ <<x>>[1] = x
  OBVIOUS
<1>2. Len(q) \in Nat /\ \A i \in 1..Len(q) : q[i] \in Nat
  OBVIOUS
<1>3. /\ q \o <<x>> \in Seq(Nat) /\ Len(q \o <<x>>) = Len(q) + 1
      /\ \A i \in 1..(Len(q) + 1) : (q \o <<x>>)[i] = IF i <= Len(q) THEN q[i] ELSE <<x>>[i - Len(q)]
  BY <1>1
<1>4. Len(q) + 1 - Len(q) = 1 /\ Len(q) + 1 \in 1..(Len(q) + 1) /\ ~(Len(q) + 1 <= Len(q))
  BY <1>2
<1>5. (q \o <<x>>)[Len(q) + 1] = x
  BY <1>1, <1>3, <1>4
<1>6. ASSUME NEW i \in 1..Len(q) PROVE (q \o <<x>>)[i] = q[i]
  BY <1>2, <1>3
<1> QED BY <1>2, <1>3, <1>5, <1>6, Zenon

\* The next push joins the line, or a late reply does.
LEMMA JoinsLine ==
  ASSUME NEW q \in Seq(Nat), NEW n \in Nat, NEW k \in Nat, NEW x \in Nat,
         Ascends(q, n), \A m \in 1..n : Has(q, m),
         (x = 0 /\ k = n) \/ (x = n + 1 /\ k = n + 1)
  PROVE  Ascends(q \o <<x>>, k) /\ \A m \in 1..k : Has(q \o <<x>>, m)
<1> DEFINE r == q \o <<x>>
<1>1. /\ Len(r) = Len(q) + 1 /\ Len(q) \in Nat /\ r[Len(q) + 1] = x
      /\ \A i \in 1..Len(q) : r[i] = q[i] /\ q[i] \in Nat
  BY LastInLine, Zenon
<1> HIDE DEF r
<1>2. \A i \in 1..Len(r) : r[i] <= k
  BY <1>1 DEF Ascends
<1>3. ASSUME NEW i \in 1..Len(r), NEW j \in 1..Len(r), i < j, r[i] # 0, r[j] # 0 PROVE r[i] < r[j]
  <2>1. CASE j \in 1..Len(q)
    <3>1. i \in 1..Len(q)
      BY <1>1, <1>3, <2>1
    <3> QED BY <1>1, <1>3, <2>1, <3>1, Zenon DEF Ascends
  <2>2. CASE j = Len(q) + 1
    <3>1. i \in 1..Len(q) /\ x = n + 1
      BY <1>1, <1>3, <2>2
    <3>2. q[i] <= n
      BY <3>1, Zenon DEF Ascends
    <3> QED BY <1>1, <2>2, <3>1, <3>2
  <2> QED BY <1>1, <2>1, <2>2
<1>4. ASSUME NEW m \in 1..k PROVE Has(r, m)
  <2>1. CASE m \in 1..n
    <3>1. PICK i \in 1..Len(q) : q[i] = m
      BY <2>1, Zenon DEF Has
    <3> QED BY <1>1, <3>1 DEF Has
  <2>2. CASE m = x
    <3>1. Len(q) + 1 \in 1..Len(r)
      BY <1>1
    <3> QED BY <1>1, <2>2, <3>1, Zenon DEF Has
  <2> QED BY <2>1, <2>2
<1>5. Ascends(r, k)
  BY <1>2, <1>3, Zenon DEF Ascends
<1> QED BY <1>4, <1>5, Zenon DEF r

\* The packet at the end of a line leaves it: at most the last push is gone.
LEMMA LeavesLine ==
  ASSUME NEW q \in Seq(Nat), NEW n \in Nat, NEW x \in Nat,
         Ascends(q \o <<x>>, n), \A m \in 1..n : Has(q \o <<x>>, m)
  PROVE  Ascends(q, n) /\ \A m \in 1..n : m = n \/ Has(q, m)
<1> DEFINE r == q \o <<x>>
<1>1. /\ Len(r) = Len(q) + 1 /\ Len(q) \in Nat /\ r[Len(q) + 1] = x
      /\ \A i \in 1..Len(q) : r[i] = q[i] /\ q[i] \in Nat
  BY LastInLine, Zenon
<1>2. Ascends(r, n) /\ \A m \in 1..n : Has(r, m)
  BY Zenon
<1> HIDE DEF r
<1>3. Ascends(q, n)
  <2>1. \A i \in 1..Len(q) : i \in 1..Len(r) /\ r[i] = q[i]
    BY <1>1
  <2> QED BY <1>2, <2>1, Zenon DEF Ascends
<1>4. ASSUME NEW m \in 1..n, m # n PROVE Has(q, m)
  <2>1. PICK i \in 1..Len(r) : r[i] = m
    BY <1>2, Zenon DEF Has
  <2>2. CASE i \in 1..Len(q)
    BY <1>1, <2>1, <2>2, Zenon DEF Has
  <2>3. CASE i = Len(q) + 1
    <3>1. x = m
      BY <1>1, <2>1, <2>3, Zenon
    <3>2. PICK j \in 1..Len(r) : r[j] = n
      BY <1>2, <1>4 DEF Has
    <3>3. j < Len(q) + 1
      BY <1>1, <1>4, <3>1, <3>2
    <3>4. n < m
      <4>1. j < i /\ r[j] # 0 /\ r[i] # 0
        BY <1>4, <2>1, <2>3, <3>2, <3>3
      <4>2. r[j] < r[i]
        BY <1>2, <4>1, Zenon DEF Ascends
      <4> QED BY <2>1, <3>2, <4>2, Zenon
    <3> QED BY <1>4, <3>4
  <2> QED BY <1>1, <2>2, <2>3
<1> QED BY <1>3, <1>4, Zenon

\* The two parts of a line.
LEMMA PartsOfLine ==
  ASSUME NEW s \in Seq(Nat), NEW t \in Seq(Nat)
  PROVE  /\ Len(s) \in Nat /\ Len(t) \in Nat
         /\ s \o t \in Seq(Nat) /\ Len(s \o t) = Len(s) + Len(t)
         /\ \A i \in 1..Len(s) : (s \o t)[i] = s[i]
         /\ \A i \in 1..Len(t) : (s \o t)[Len(s) + i] = t[i]
<1>1. Len(s) \in Nat /\ Len(t) \in Nat
  OBVIOUS
<1>2. /\ s \o t \in Seq(Nat) /\ Len(s \o t) = Len(s) + Len(t)
      /\ \A i \in 1..(Len(s) + Len(t)) : (s \o t)[i] = IF i <= Len(s) THEN s[i] ELSE t[i - Len(s)]
  OBVIOUS
<1>3. ASSUME NEW i \in 1..Len(s) PROVE (s \o t)[i] = s[i]
  <2>1. i \in 1..(Len(s) + Len(t)) /\ i <= Len(s)
    BY <1>1
  <2> QED BY <1>2, <2>1, Zenon
<1>4. ASSUME NEW i \in 1..Len(t) PROVE (s \o t)[Len(s) + i] = t[i]
  <2>1. Len(s) + i \in 1..(Len(s) + Len(t)) /\ ~(Len(s) + i <= Len(s)) /\ Len(s) + i - Len(s) = i
    BY <1>1
  <2> QED BY <1>2, <2>1
<1> QED BY <1>1, <1>2, <1>3, <1>4, Zenon

\* A late reply inside the line leaves it.
LEMMA ZeroLeavesLine ==
  ASSUME NEW g \in Seq(Nat), NEW t \in Seq(Nat), NEW n \in Nat,
         Ascends(g \o (<< 0 >> \o t), n)
  PROVE  /\ Ascends(g \o t, n)
         /\ \A m \in Nat \ {0} : Has(g \o (<< 0 >> \o t), m) => Has(g \o t, m)
<1> DEFINE z == << 0 >> \o t
           u == g \o z
           v == g \o t
<1>1. PICK a \in Nat, b \in Nat : a = Len(g) /\ b = Len(t)
  BY PartsOfLine, Zenon
<1>2. << 0 >> \in Seq(Nat) /\ Len(<< 0 >>) = 1 /\ << 0 >>[1] = 0
  OBVIOUS
<1>3. z \in Seq(Nat) /\ Len(z) = 1 + b /\ z[1] = 0 /\ \A i \in 1..b : z[1 + i] = t[i]
  <2>1. /\ z \in Seq(Nat) /\ Len(z) = Len(<< 0 >>) + Len(t)
        /\ \A i \in 1..Len(<< 0 >>) : z[i] = << 0 >>[i]
        /\ \A i \in 1..Len(t) : z[Len(<< 0 >>) + i] = t[i]
    BY <1>2, PartsOfLine, Zenon
  <2> HIDE DEF z
  <2>2. 1 \in 1..Len(<< 0 >>)
    BY <1>2
  <2>3. z[1] = 0
    BY <1>2, <2>1, <2>2, Zenon
  <2> QED BY <1>1, <1>2, <2>1, <2>3, Zenon
<1> HIDE DEF z
<1>4. /\ Len(u) = a + (1 + b) /\ \A i \in 1..a : u[i] = g[i]
      /\ \A i \in 1..(1 + b) : u[a + i] = z[i]
  <2>1. /\ Len(u) = Len(g) + Len(z) /\ \A i \in 1..Len(g) : u[i] = g[i]
        /\ \A i \in 1..Len(z) : u[Len(g) + i] = z[i]
    BY <1>3, PartsOfLine, Zenon
  <2> QED BY <1>1, <1>3, <2>1, Zenon
<1>5. /\ Len(v) = a + b /\ \A i \in 1..a : v[i] = g[i]
      /\ \A i \in 1..b : v[a + i] = t[i]
  BY <1>1, PartsOfLine, Zenon
<1>6. Ascends(u, n)
  BY Zenon DEF z
<1> HIDE DEF u, v
<1>7. \A i \in 1..a : v[i] = u[i]
  BY <1>4, <1>5, Zenon
<1>8. u[a + 1] = 0
  BY <1>3, <1>4
<1>9. \A i \in (a + 1)..(a + b) : v[i] = u[i + 1]
  <2> SUFFICES ASSUME NEW i \in (a + 1)..(a + b) PROVE v[i] = u[i + 1]
    BY Zenon
  <2>1. PICK k \in 1..b : i = a + k
    <3>1. i - a \in 1..b /\ i = a + (i - a)
      OBVIOUS
    <3> QED BY <3>1, Zenon
  <2>2. 1 + k \in 1..(1 + b) /\ i + 1 = a + (1 + k)
    BY <2>1
  <2>3. v[a + k] = t[k] /\ z[1 + k] = t[k]
    BY <1>3, <1>5, Zenon
  <2>4. u[a + (1 + k)] = z[1 + k]
    BY <1>4, <2>2, SMTT(20)
  <2> QED BY <2>1, <2>2, <2>3, <2>4, Zenon
<1>10. \A i \in 1..Len(v) : \E j \in 1..Len(u) : v[i] = u[j] /\ ((j = i /\ i <= a) \/ (j = i + 1 /\ i > a))
  <2> SUFFICES ASSUME NEW i \in 1..Len(v)
               PROVE  \E j \in 1..Len(u) : v[i] = u[j] /\ ((j = i /\ i <= a) \/ (j = i + 1 /\ i > a))
    BY Zenon
  <2>1. CASE i <= a
    <3>1. i \in 1..a /\ i \in 1..Len(u)
      BY <1>4, <1>5, <2>1
    <3>2. v[i] = u[i]
      BY <1>7, <3>1, Zenon
    <3> QED BY <2>1, <3>1, <3>2, Zenon
  <2>2. CASE i > a
    <3>1. i \in (a + 1)..(a + b) /\ i + 1 \in 1..Len(u)
      BY <1>4, <1>5, <2>2
    <3>2. v[i] = u[i + 1]
      BY <1>9, <3>1, Zenon
    <3> QED BY <2>2, <3>1, <3>2, Zenon
  <2> QED BY <1>5, <2>1, <2>2
<1>11. Ascends(v, n)
  <2>1. ASSUME NEW i \in 1..Len(v) PROVE v[i] <= n
    BY <1>6, <1>10, SMTT(20) DEF Ascends
  <2>2. ASSUME NEW i \in 1..Len(v), NEW j \in 1..Len(v), i < j, v[i] # 0, v[j] # 0 PROVE v[i] < v[j]
    <3>1. PICK k \in 1..Len(u) : v[i] = u[k] /\ ((k = i /\ i <= a) \/ (k = i + 1 /\ i > a))
      BY <1>10, Zenon
    <3>2. PICK l \in 1..Len(u) : v[j] = u[l] /\ ((l = j /\ j <= a) \/ (l = j + 1 /\ j > a))
      BY <1>10, Zenon
    <3>3. k < l
      BY <1>5, <2>2, <3>1, <3>2
    <3> QED BY <1>6, <2>2, <3>1, <3>2, <3>3, Zenon DEF Ascends
  <2> QED BY <2>1, <2>2, Zenon DEF Ascends
<1>12. ASSUME NEW m \in Nat \ {0}, NEW i \in 1..Len(u), u[i] = m PROVE Has(v, m)
  <2>1. CASE i <= a
    <3>1. i \in 1..a /\ i \in 1..Len(v)
      BY <1>4, <1>5, <2>1
    <3> QED BY <1>7, <1>12, <3>1, SMTT(20) DEF Has
  <2>2. CASE i > a
    <3>1. i - 1 \in (a + 1)..(a + b) /\ i - 1 \in 1..Len(v) /\ (i - 1) + 1 = i
      BY <1>4, <1>5, <1>8, <1>12, <2>2
    <3>2. v[i - 1] = m
      BY <1>9, <1>12, <3>1, Zenon
    <3> QED BY <3>1, <3>2, Zenon DEF Has
  <2> QED BY <1>4, <2>1, <2>2
<1>13. \A m \in Nat \ {0} : Has(u, m) => Has(v, m)
  BY <1>12, Zenon DEF Has
<1> QED BY <1>11, <1>13, Zenon DEF u, v, z

\* A line that is not empty is its first element and the rest.
LEMMA FirstOfLine ==
  ASSUME NEW s \in Seq(Nat), s # <<>>
  PROVE  Head(s) \in Nat /\ Tail(s) \in Seq(Nat) /\ s = <<Head(s)>> \o Tail(s)
<1>1. Head(s) \in Nat /\ Tail(s) \in Seq(Nat) /\ Head(s) = s[1]
  OBVIOUS
<1>2. Len(s) \in Nat \ {0} /\ Tail(s) = SubSeq(s, 2, Len(s)) /\ SubSeq(s, 1, Len(s)) = s
  OBVIOUS
<1>3. SubSeq(s, 1, Len(s)) = <<s[1]>> \o SubSeq(s, 2, Len(s))
  BY <1>2
<1> QED BY <1>1, <1>2, <1>3, Zenon

\* Lines can be regrouped.
Regrouped(s, t, u) == (s \o t) \o u = s \o (t \o u)

\* Of sequences this is always so.
LEMMA Regroup ==
  ASSUME NEW s \in Seq(Nat), NEW t \in Seq(Nat), NEW u \in Seq(Nat)
  PROVE  Regrouped(s, t, u)
BY SMTT(40) DEF Regrouped

\* Nothing added to a line, and one packet added.
LEMMA Added ==
  ASSUME NEW s \in Seq(Nat)
  PROVE  /\ s \o <<>> = s /\ <<>> \o s = s /\ <<>> \in Seq(Nat)
         /\ \A x \in Nat : Append(s, x) = s \o <<x>> /\ Append(s, x) \in Seq(Nat)
OBVIOUS

\* The packets read and not yet consumed, behind those consumed.
Held == IF reader = "push" THEN <<packet.push>> ELSE <<>>
Line == got \o chan \o boot \o Held

Over == {"finish", "end", "done"}

PushTyped ==
  /\ got \in Seq(Nat) /\ chan \in Seq(Nat) /\ boot \in Seq(Nat) /\ sent \in [n : Nat, of : Nat]
  /\ reader = "push" => packet.push \in Nat
  /\ IF bootDone THEN boot = <<>> ELSE chan = <<>>

\* The inductive invariant for PushesInOrder: bootstrap buffer and channel are
\* never in use together.
PushInv ==
  /\ PushTyped
  /\ Ascends(Line, sent.n)
  /\ \A m \in 1..sent.n : Has(Line, m) \/ (m = sent.n /\ reader \in Over)

\* A step that leaves the line as it is.
LEMMA SameLine ==
  ASSUME PushInv, PushTyped', Line' = Line, sent' = sent, reader \in Over => reader' \in Over
  PROVE  PushInv'
BY Zenon DEF PushInv

\* The line is a sequence.
LEMMA LineTyped ==
  ASSUME PushTyped
  PROVE  /\ Held \in Seq(Nat) /\ got \o chan \in Seq(Nat) /\ got \o chan \o boot \in Seq(Nat)
         /\ Line \in Seq(Nat) /\ sent.n \in Nat
<1>1. Held \in Seq(Nat)
  BY DEF PushTyped, Held
<1>2. got \o chan \in Seq(Nat)
  BY PartsOfLine, Zenon DEF PushTyped
<1>3. got \o chan \o boot \in Seq(Nat)
  BY <1>2, PartsOfLine, Zenon DEF PushTyped
<1>4. Line \in Seq(Nat)
  BY <1>1, <1>3, PartsOfLine, Zenon DEF Line
<1> QED BY <1>1, <1>2, <1>3, <1>4, Zenon DEF PushTyped

\* A packet read goes to the end of the line, unless it completed a call.
LEMMA ReadLine ==
  ASSUME PushInv, NEW pkt, Dispatch(pkt), pkt.push \in Nat, sent' \in [n : Nat, of : Nat],
         \/ sent' = sent /\ pkt.push = 0
         \/ sent'.n = sent.n + 1 /\ pkt.push = sent.n + 1 /\ ~Completes(pkt)
  PROVE  PushInv'
<1>1. reader = "read" /\ UNCHANGED <<got, chan, boot, bootDone>> /\ packet' = pkt
  BY Zenon DEF Dispatch, pushVars
<1>2. PushTyped'
  BY <1>1, Zenon DEF PushInv, PushTyped
<1>3. Held = <<>>
  BY <1>1, Zenon DEF Held
<1>4. got \o chan \o boot \in Seq(Nat) /\ sent.n \in Nat
  BY LineTyped, Zenon DEF PushInv
<1>5. Line = got \o chan \o boot
  BY <1>3, <1>4, Added, Zenon DEF Line
<1>6. CASE Completes(pkt)
  <2>1. reader' = "complete" /\ sent' = sent
    BY <1>4, <1>6, Zenon DEF Dispatch
  <2>2. Line' = Line
    BY <1>1, <1>3, <2>1, Zenon DEF Line, Held
  <2> QED BY <1>1, <1>2, <2>1, <2>2, SameLine, Zenon DEF Over
<1>7. CASE ~Completes(pkt)
  <2>1. reader' = "push"
    BY <1>7, Zenon DEF Dispatch
  <2>2. Line' = Line \o <<pkt.push>>
    BY <1>1, <1>5, <2>1, Zenon DEF Line, Held
  <2>3. Ascends(Line, sent.n) /\ \A m \in 1..sent.n : Has(Line, m)
    BY <1>1, Zenon DEF PushInv, Over
  <2>4. Line \in Seq(Nat) /\ sent'.n \in Nat
    BY LineTyped, Zenon DEF PushInv
  <2>5. Ascends(Line \o <<pkt.push>>, sent'.n) /\ \A m \in 1..sent'.n : Has(Line \o <<pkt.push>>, m)
    BY <1>4, <2>3, <2>4, JoinsLine, Zenon
  <2> QED BY <1>2, <2>2, <2>5, Zenon DEF PushInv
<1> QED BY <1>6, <1>7, Zenon

\* The push path moves the packet, or ends the session without it.
LEMMA RouteLine ==
  ASSUME PushInv, RoutePush
  PROVE  PushInv'
<1> DEFINE x == packet.push
           h == got \o chan
<1>1. /\ x \in Nat /\ Held = <<x>> /\ <<x>> \in Seq(Nat) /\ got \in Seq(Nat) /\ chan \in Seq(Nat)
      /\ boot \in Seq(Nat) /\ UNCHANGED <<got, bootDone, sent>> /\ reader = "push"
  BY DEF PushInv, PushTyped, RoutePush, Held, peerVars
<1>2. h \in Seq(Nat) /\ h \o boot \in Seq(Nat) /\ sent.n \in Nat
  BY LineTyped, Zenon DEF PushInv
<1>3. Line = (h \o boot) \o <<x>>
  BY <1>1, Zenon DEF Line
<1>4. CASE ~bootDone /\ boot' = Append(boot, x) /\ UNCHANGED chan /\ reader' = "read"
  <2>1. boot' = boot \o <<x>> /\ boot' \in Seq(Nat)
    BY <1>1, <1>4, Added, Zenon
  <2>2. PushTyped'
    BY <1>1, <1>4, <2>1, Zenon DEF PushInv, PushTyped
  <2>3. Line' = h \o (boot \o <<x>>)
    <3>1. Line' = (h \o boot') \o <<>> /\ h \o boot' \in Seq(Nat)
      BY <1>1, <1>2, <1>4, <2>1, PartsOfLine, Zenon DEF Line, Held
    <3> QED BY <2>1, <3>1, Added, Zenon
  <2>4. Line' = Line
    <3>1. Regrouped(h, boot, <<x>>)
      BY <1>1, <1>2, Regroup, Zenon
    <3> QED BY <1>3, <2>3, <3>1, Zenon DEF Regrouped
  <2> QED BY <1>1, <2>2, <2>4, SameLine, Zenon DEF Over
<1>5. CASE bootDone /\ chan' = Append(chan, x) /\ UNCHANGED boot /\ reader' = "read"
  <2>1. chan' = chan \o <<x>> /\ chan' \in Seq(Nat) /\ boot = <<>>
    BY <1>1, <1>5, Added, Zenon DEF PushInv, PushTyped
  <2>2. PushTyped'
    BY <1>1, <1>5, <2>1, Zenon DEF PushInv, PushTyped
  <2>3. Line = h \o <<x>>
    BY <1>2, <1>3, <2>1, Added, Zenon
  <2>4. got \o chan' \in Seq(Nat)
    BY <1>1, <2>1, PartsOfLine, Zenon
  <2>5. Line' = ((got \o chan') \o <<>>) \o <<>>
    BY <1>1, <1>5, <2>1, Zenon DEF Line, Held
  <2>6. Line' = got \o (chan \o <<x>>)
    BY <2>1, <2>4, <2>5, Added, Zenon
  <2>7. Line' = Line
    <3>1. Regrouped(got, chan, <<x>>)
      BY <1>1, Regroup, Zenon
    <3> QED BY <2>3, <2>6, <3>1, Zenon DEF Regrouped
  <2> QED BY <1>1, <2>2, <2>7, SameLine, Zenon DEF Over
<1>6. CASE reader' = "finish" /\ UNCHANGED <<packet, boot, chan>>
  <2>1. PushTyped'
    BY <1>1, <1>6, Zenon DEF PushInv, PushTyped
  <2>2. Line' = h \o boot
    <3>1. Line' = (h \o boot) \o <<>>
      BY <1>1, <1>6, Zenon DEF Line, Held
    <3> QED BY <1>2, <3>1, Added, Zenon
  <2>3. Ascends((h \o boot) \o <<x>>, sent.n) /\ \A m \in 1..sent.n : Has((h \o boot) \o <<x>>, m)
    BY <1>1, <1>3, Zenon DEF PushInv, Over
  <2>4. Ascends(h \o boot, sent.n) /\ \A m \in 1..sent.n : m = sent.n \/ Has(h \o boot, m)
    BY <1>1, <1>2, <2>3, LeavesLine, Zenon
  <2> QED BY <1>1, <1>6, <2>1, <2>2, <2>4, Zenon DEF PushInv, Over
<1> QED BY <1>4, <1>5, <1>6, Zenon DEF RoutePush

\* The hand-over of the bootstrap buffer.
LEMMA BootstrapLine ==
  ASSUME PushInv, finishBootstrap
  PROVE  PushInv'
<1>1. /\ got \in Seq(Nat) /\ boot \in Seq(Nat) /\ chan = <<>> /\ Held \in Seq(Nat)
      /\ chan' = boot /\ boot' = <<>> /\ bootDone' /\ UNCHANGED <<got, sent, reader, packet>>
  BY LineTyped, Zenon DEF PushInv, PushTyped, finishBootstrap, peerVars, readVars
<1>2. PushTyped'
  BY <1>1, Added, Zenon DEF PushInv, PushTyped
<1>3. got \o boot \in Seq(Nat) /\ got \o <<>> = got /\ (got \o boot) \o <<>> = got \o boot
  BY <1>1, PartsOfLine, Added, Zenon
<1>4. Line' = Line
  BY <1>1, <1>3, Zenon DEF Line, Held
<1> QED BY <1>1, <1>2, <1>4, SameLine, Zenon

\* The consumer takes the first of the channel.
LEMMA TakeLine ==
  ASSUME PushInv, TakePush
  PROVE  PushInv'
<1> DEFINE x == Head(chan)
           t == Tail(chan)
           rest == boot \o Held
<1>1. /\ got \in Seq(Nat) /\ chan \in Seq(Nat) /\ boot \in Seq(Nat) /\ Held \in Seq(Nat)
      /\ chan' = t /\ got' = IF x = 0 THEN got ELSE Append(got, x)
      /\ UNCHANGED <<boot, bootDone, sent, reader, packet>> /\ bootDone /\ chan # <<>>
      /\ Held' = Held
  BY LineTyped, Zenon DEF PushInv, PushTyped, TakePush, peerVars, readVars, Held
<1>2. x \in Nat /\ t \in Seq(Nat) /\ chan = <<x>> \o t /\ <<x>> \in Seq(Nat)
  BY <1>1, FirstOfLine
<1> HIDE DEF x, t
<1>3. got \in Seq(Nat) /\ chan \in Seq(Nat) /\ boot \in Seq(Nat) /\ Held \in Seq(Nat)
  BY <1>1, Zenon
<1>4. /\ rest \in Seq(Nat) /\ t \o rest \in Seq(Nat) /\ got \o chan \in Seq(Nat)
      /\ got \o t \in Seq(Nat) /\ got \o <<x>> \in Seq(Nat)
  BY <1>2, <1>3, PartsOfLine, Zenon
<1>5. Line = (got \o chan) \o rest
  <2>1. Line = ((got \o chan) \o boot) \o Held
    BY Zenon DEF Line
  <2>2. Regrouped(got \o chan, boot, Held)
    BY <1>3, <1>4, Regroup, Zenon
  <2> QED BY <2>1, <2>2, Zenon DEF Regrouped
<1>6. CASE x # 0
  <2>1. got' = got \o <<x>> /\ got' \in Seq(Nat)
    BY <1>1, <1>2, <1>4, <1>6, Added, Zenon
  <2>2. PushTyped'
    BY <1>1, <1>2, <2>1, Zenon DEF PushInv, PushTyped
  <2>3. (got \o <<x>>) \o t = got \o (<<x>> \o t)
    <3>1. Regrouped(got, <<x>>, t)
      BY <1>2, <1>3, Regroup, Zenon
    <3> QED BY <3>1, Zenon DEF Regrouped
  <2>4. Line' = Line
    BY <1>1, <1>2, <2>1, <2>3, Zenon DEF Line
  <2> QED BY <1>1, <2>2, <2>4, SameLine, Zenon
<1>7. CASE x = 0
  <2>1. PushTyped'
    BY <1>1, <1>2, <1>7, Zenon DEF PushInv, PushTyped
  <2>2. Line' = ((got \o t) \o boot) \o Held
    BY <1>1, <1>7, Zenon DEF Line
  <2>3. ((got \o t) \o boot) \o Held = (got \o t) \o rest
    <3>1. Regrouped(got \o t, boot, Held)
      BY <1>3, <1>4, Regroup, Zenon
    <3> QED BY <3>1, Zenon DEF Regrouped
  <2> HIDE DEF rest
  <2>4. (got \o t) \o rest = got \o (t \o rest)
    <3>1. Regrouped(got, t, rest)
      BY <1>2, <1>3, <1>4, Regroup, Zenon
    <3> QED BY <3>1, Zenon DEF Regrouped
  <2>5. Line = got \o (<< 0 >> \o (t \o rest))
    <3>1. (got \o chan) \o rest = got \o (chan \o rest)
      <4>1. Regrouped(got, chan, rest)
        BY <1>3, <1>4, Regroup, Zenon
      <4> QED BY <4>1, Zenon DEF Regrouped
    <3>2. (<<x>> \o t) \o rest = <<x>> \o (t \o rest)
      <4>1. Regrouped(<<x>>, t, rest)
        BY <1>2, <1>4, Regroup, Zenon
      <4> QED BY <4>1, Zenon DEF Regrouped
    <3> QED BY <1>2, <1>5, <1>7, <3>1, <3>2, Zenon
  <2>6. Line' = got \o (t \o rest)
    BY <2>2, <2>3, <2>4, Zenon
  <2>7. sent.n \in Nat
    BY LineTyped, Zenon DEF PushInv
  <2>8. Ascends(got \o (<< 0 >> \o (t \o rest)), sent.n)
    BY <2>5, Zenon DEF PushInv
  <2>9. /\ Ascends(got \o (t \o rest), sent.n)
        /\ \A m \in Nat \ {0} : Has(got \o (<< 0 >> \o (t \o rest)), m) => Has(got \o (t \o rest), m)
    BY <1>3, <1>4, <2>7, <2>8, ZeroLeavesLine, Zenon
  <2>10. Ascends(Line', sent.n) /\ \A m \in Nat \ {0} : Has(Line, m) => Has(Line', m)
    BY <2>5, <2>6, <2>9, Zenon
  <2>11. \A m \in 1..sent.n : m \in Nat \ {0}
    BY <2>7
  <2> QED BY <1>1, <2>1, <2>10, <2>11, Zenon DEF PushInv
<1> QED BY <1>6, <1>7, Zenon

\* Every step keeps the invariant.
LEMMA PushStep ==
  ASSUME Typed, PushInv, Next
  PROVE  PushInv'
<1>1. ASSUME UNCHANGED <<bootDone, boot, chan, got, sent>>,
             UNCHANGED <<reader, packet>> \/ (reader # "push" /\ reader' # "push"),
             reader \in Over => reader' \in Over
      PROVE  PushInv'
  <2>1. PushTyped'
    BY <1>1, SMTT(20) DEF PushInv, PushTyped
  <2>2. Held' = Held
    BY <1>1, Zenon DEF Held
  <2>3. Line' = Line
    BY <1>1, <2>2, Zenon DEF Line
  <2> QED BY <1>1, <2>1, <2>3, SameLine, Zenon
<1>2. CASE \E p \in Procs : \/ CancelPing(p) \/ Arm(p) \/ Return(p) \/ Undo(p) \/ Rearm(p) \/ Abandon(p)
                            \/ \E how \in Outcomes : Write(p, how)
  BY <1>1, <1>2 DEF CancelPing, Arm, Return, Undo, Rearm, Abandon, Write, pushVars, readVars, peerVars
<1>3. CASE (\E p \in Callers : Begin(p)) \/ (\E p \in Pings : PingFires(p)) \/ (\E i \in IDs : HeaderTimeout(i))
  BY <1>1, <1>3, Zenon DEF Begin, PingFires, HeaderTimeout, pushVars, readVars, peerVars
<1>4. CASE Close \/ TearDown \/ WireDrops \/ PeerDies
  BY <1>1, <1>4, Zenon DEF Close, TearDown, WireDrops, PeerDies, pushVars, readVars, peerVars
<1>5. CASE Complete \/ ReadFails \/ FinishRead \/ FailPending
  BY <1>1, <1>5, Zenon DEF Complete, ReadFails, FinishRead, FailPending, pushVars, peerVars, Over
<1>6. ASSUME NEW r \in unanswered, ReadReply(r) PROVE PushInv'
  <2> DEFINE pkt == Packet(r.id, MethodOf(r.call), r.call, 0)
  <2>1. Dispatch(pkt) /\ pkt.push = 0 /\ sent' = sent /\ sent \in [n : Nat, of : Nat]
    BY <1>6, Zenon DEF ReadReply, Packet, PushInv, PushTyped
  <2> HIDE DEF pkt
  <2> QED BY <2>1, ReadLine
<1>7. ASSUME NEW i \in IDs \cup {0}, ReadPush(i) PROVE PushInv'
  <2> DEFINE pkt == Packet(i, "MSG", NoCall, sent.n + 1)
  <2>1. /\ Dispatch(pkt) /\ ~Completes(pkt) /\ pkt.push = sent.n + 1
        /\ sent' = [sent EXCEPT !.n = sent.n + 1] /\ sent \in [n : Nat, of : Nat]
    BY <1>7, PushCompletesNone, Zenon DEF ReadPush, Packet, PushInv, PushTyped
  <2> HIDE DEF pkt
  <2>2. sent' \in [n : Nat, of : Nat] /\ sent'.n = sent.n + 1 /\ sent.n + 1 \in Nat
    BY <2>1
  <2> QED BY <2>1, <2>2, ReadLine, Zenon
<1> QED BY <1>2, <1>3, <1>4, <1>5, <1>6, <1>7, RouteLine, BootstrapLine, TakeLine, Zenon DEF Next, ClientStep

\* Pushes reach the consumer in the order they were read, each once, and only the
\* one that ended the session on a full channel is missing, for a channel of any
\* length and any number of pushes (dispatchPacket's push path, finishBootstrap).
THEOREM PushesKeepOrder == Spec => []PushesInOrder
<1>1. Init => PushInv
  <2> SUFFICES ASSUME Init PROVE PushInv
    BY Zenon
  <2>1. sent \in [n : Nat, of : Nat] /\ sent.n = 0
    <3>1. PICK load \in Workloads : sent = [n |-> 0, of |-> load.pushes]
      BY Zenon DEF Init
    <3>2. load \in Loads
      BY SessionAssumption, Zenon DEF SessionAssumption
    <3> QED BY <3>1, <3>2, Zenon DEF Loads
  <2>2. got = <<>> /\ chan = <<>> /\ boot = <<>> /\ Held = <<>> /\ <<>> \in Seq(Nat)
    <3>1. got = <<>> /\ chan = <<>> /\ boot = <<>> /\ reader # "push"
      BY Zenon DEF Init
    <3> QED BY <3>1 DEF Held
  <2>3. PushTyped
    BY <2>1, <2>2, Zenon DEF Init, PushTyped
  <2>4. Line = <<>>
    BY <2>2, Added, Zenon DEF Line
  <2>5. Len(Line) = 0
    BY <2>4, Zenon
  <2> QED BY <2>1, <2>3, <2>5 DEF PushInv, Ascends
<1>2. Init => Typed
  BY OnceStart, Zenon DEF OnceInv
<1>3. ASSUME Typed, PushInv, UNCHANGED vars PROVE PushInv'
  <2>1. UNCHANGED <<bootDone, boot, chan, got, sent, reader, packet>>
    BY <1>3, Zenon DEF vars, pushVars, readVars, peerVars
  <2>2. PushTyped' /\ Line' = Line
    BY <1>3, <2>1, Zenon DEF PushInv, PushTyped, Line, Held
  <2> QED BY <1>3, <2>1, <2>2, SameLine, Zenon
<1>4. ASSUME Typed, UNCHANGED vars PROVE Typed'
  BY <1>4, Zenon DEF Typed, vars, callVars, tableVars, readVars, peerVars
<1>5. ASSUME PushInv PROVE PushesInOrder
  <2>1. Line \in Seq(Nat) /\ sent.n \in Nat
    BY <1>5, LineTyped, Zenon DEF PushInv
  <2>2. DOMAIN Line = 1..Len(Line) /\ \A i \in 1..Len(Line) : Line[i] \in Nat
    BY <2>1
  <2>3. Line = got \o chan \o boot \o (IF reader = "push" THEN <<packet.push>> ELSE <<>>)
    BY Zenon DEF Line, Held
  <2>4. /\ \A i \in DOMAIN Line : Line[i] \in 0..sent.n
        /\ \A i, j \in DOMAIN Line : i < j /\ Line[i] # 0 /\ Line[j] # 0 => Line[i] < Line[j]
    BY <1>5, <2>1, <2>2 DEF PushInv, Ascends
  <2>5. \A n \in 1..sent.n : \/ \E i \in DOMAIN Line : Line[i] = n
                             \/ n = sent.n /\ reader \in {"finish", "end", "done"}
    BY <1>5, <2>2, Zenon DEF PushInv, Has, Over
  <2> HIDE DEF Line
  <2> QED BY <2>3, <2>4, <2>5, Zenon DEF PushesInOrder
<1> QED BY <1>1, <1>2, <1>3, <1>4, <1>5, TypedStep, PushStep, PTL DEF Spec

-----------------------------------------------------------------------------
(* Receive-header timers *)

Healthy == Open /\ ~wantClose

\* The request of a goroutine's current call.
Request(p) == [call |-> CallOf(p), id |-> id[p]]

\* A request at the server is of a call that has been written, and if the call is
\* still current it has its ID.
RequestsKnown ==
  \A r \in unanswered :
    /\ r.call.use >= use[r.call.proc]
    /\ r.call = CallOf(r.call.proc) =>
         r.id = id[r.call.proc] /\ pc[r.call.proc] \notin {"cancel", "write"}

\* A timer and a pending call under one ID are of the same call.
TimersAgree ==
  \A i \in IDs : timers[i] # NoCall /\ pending[i] # NoCall => timers[i] = pending[i]

\* A request about to be armed and still pending has not been answered.
ArmingWritten ==
  \A p \in Procs : pc[p] = "arm" /\ pending[id[p]] = CallOf(p) => Request(p) \in unanswered

\* A call nobody has answered stays pending until it is armed.
Registered ==
  Healthy => \A p \in Procs :
    pc[p] \in {"cancel", "write"} \/ (pc[p] = "arm" /\ Request(p) \in unanswered)
      => pending[id[p]] = CallOf(p)

\* The inductive invariant for TimersMatch.
TimerInv == RequestsKnown /\ TimersAgree /\ ArmingWritten /\ Registered /\ TimersMatch

\* On a healthy session the reply to a request can only meet its own call, and
\* its own timer, under its ID: the timer keeps the ID from being reused.
LEMMA ReplyMeetsItsCall ==
  ASSUME OnceInv, TimerInv, Healthy, NEW r \in unanswered
  PROVE  pending[r.id] \in {NoCall, r.call} /\ timers[r.id] \in {NoCall, r.call}
<1>1. r.id \in IDs /\ r.call \in Calls /\ r.call.proc \in Procs /\ r.call # NoCall
  BY Constants, Zenon DEF OnceInv, Typed
<1>2. CASE timers[r.id] = r.call
  BY <1>1, <1>2, Zenon DEF TimerInv, TimersAgree
<1>3. CASE pc[r.call.proc] = "arm" /\ CallOf(r.call.proc) = r.call
  <2>1. r.id = id[r.call.proc]
    BY <1>3, Zenon DEF TimerInv, RequestsKnown
  <2>2. r = Request(r.call.proc)
    BY <1>3, <2>1, Zenon DEF Request, OnceInv, Typed
  <2>3. pending[r.id] = r.call
    BY <1>1, <1>3, <2>1, <2>2, Zenon DEF TimerInv, Registered
  <2> QED BY <1>1, <2>3, Zenon DEF TimerInv, TimersAgree
<1> QED BY <1>2, <1>3, Zenon DEF TimerInv, TimersMatch, WrittenHasTimer, Healthy

\* A goroutine that moves on, neither to nor from arming.
LEMMA PlaceTimers ==
  ASSUME OnceInv, TimerInv, NEW p \in Procs, pc[p] \notin {"idle", "arm"},
         NEW x, x \notin {"cancel", "arm"}, x = "write" => pc[p] = "cancel",
         pc' = [pc EXCEPT ![p] = x],
         UNCHANGED <<use, id, pending, timers, unanswered>>, Healthy' => Healthy
  PROVE  TimerInv'
<1>1. /\ \A q \in Procs : CallOf(q)' = CallOf(q) /\ Request(q)' = Request(q)
      /\ \A q \in Procs : q # p => pc'[q] = pc[q]
      /\ pc'[p] = x
  BY Zenon DEF CallOf, Request, OnceInv, Typed
<1>2. RequestsKnown'
  <2> SUFFICES ASSUME NEW r \in unanswered, r.call = CallOf(r.call.proc)
               PROVE  pc'[r.call.proc] \notin {"cancel", "write"}
    BY Zenon DEF TimerInv, RequestsKnown, CallOf
  <2>1. r.call.proc \in Procs /\ pc[r.call.proc] \notin {"cancel", "write"}
    BY Zenon DEF TimerInv, RequestsKnown, OnceInv, Typed, Calls
  <2> QED BY <1>1, <2>1, Zenon
<1>3. TimersAgree'
  BY Zenon DEF TimerInv, TimersAgree
<1>4. ArmingWritten'
  BY <1>1, Zenon DEF TimerInv, ArmingWritten
<1>5. Registered'
  BY <1>1, Zenon DEF TimerInv, Registered
<1>6. TimerUnanswered'
  BY Zenon DEF TimerInv, TimersMatch, TimerUnanswered
<1>7. WrittenHasTimer'
  <2> SUFFICES ASSUME Healthy, NEW r \in unanswered, timers[r.id] # r.call
               PROVE  pc'[r.call.proc] = "arm" /\ CallOf(r.call.proc)' = r.call
    BY Zenon DEF WrittenHasTimer, Healthy
  <2>1. r.call.proc \in Procs
    BY Zenon DEF OnceInv, Typed, Calls
  <2>2. pc[r.call.proc] = "arm" /\ CallOf(r.call.proc) = r.call
    BY Zenon DEF TimerInv, TimersMatch, WrittenHasTimer, Healthy
  <2> QED BY <1>1, <2>1, <2>2, Zenon
<1> QED BY <1>2, <1>3, <1>4, <1>5, <1>6, <1>7, Zenon DEF TimerInv, TimersMatch

\* A step that leaves goroutines, tables and requests alone.
LEMMA SameTimers ==
  ASSUME OnceInv, TimerInv, UNCHANGED <<pc, use, id, pending, timers, unanswered>>,
         Healthy' => Healthy
  PROVE  TimerInv'
<1>1. RequestsKnown' /\ TimersAgree' /\ ArmingWritten' /\ TimerUnanswered'
  BY Zenon DEF TimerInv, RequestsKnown, TimersAgree, ArmingWritten, TimersMatch, TimerUnanswered, CallOf,
         Request
<1>2. Registered'
  BY Zenon DEF TimerInv, Registered, CallOf, Request
<1>3. WrittenHasTimer'
  BY Zenon DEF TimerInv, TimersMatch, WrittenHasTimer, CallOf, Healthy
<1> QED BY <1>1, <1>2, <1>3, Zenon DEF TimerInv, TimersMatch

\* A step that empties entries of the tables of a session that is to close.
LEMMA ClosingTimers ==
  ASSUME OnceInv, TimerInv, UNCHANGED <<pc, use, id, unanswered>>, ~Healthy',
         \A i \in IDs : timers'[i] \in {timers[i], NoCall} /\ pending'[i] \in {pending[i], NoCall}
  PROVE  TimerInv'
<1>1. RequestsKnown' /\ TimersAgree' /\ TimerUnanswered'
  BY Zenon DEF TimerInv, RequestsKnown, TimersAgree, TimersMatch, TimerUnanswered, CallOf
<1>2. ArmingWritten'
  <2> SUFFICES ASSUME NEW p \in Procs, pc[p] = "arm", pending'[id[p]] = CallOf(p)
               PROVE  Request(p) \in unanswered
    BY Zenon DEF ArmingWritten, Request, CallOf
  <2>1. id[p] \in IDs /\ CallOf(p) # NoCall
    BY CurrentCall, Zenon DEF OnceInv, Typed
  <2> QED BY <2>1, Zenon DEF TimerInv, ArmingWritten
<1>3. Registered' /\ WrittenHasTimer'
  BY Zenon DEF Registered, WrittenHasTimer, Healthy
<1> QED BY <1>1, <1>2, <1>3, Zenon DEF TimerInv, TimersMatch

\* A new call takes an ID that neither a call nor a timer holds.
LEMMA RegisterTimers ==
  ASSUME OnceInv, TimerInv, NEW p \in Procs, pc[p] = "idle", use[p] > 0, Register(p),
         UNCHANGED unanswered, Healthy' => Healthy
  PROVE  TimerInv'
<1> DEFINE c == [proc |-> p, use |-> use[p] - 1]
<1>0. PICK a \in IDs :
        /\ pending[a] = NoCall /\ timers[a] = NoCall /\ pending' = [pending EXCEPT ![a] = c]
        /\ use' = [use EXCEPT ![p] = use[p] - 1] /\ id' = [id EXCEPT ![p] = a]
        /\ pc' = [pc EXCEPT ![p] = "cancel"] /\ timers' = timers
  BY Zenon DEF Register, Allocated, FreeID
<1>1. a \in IDs /\ pending[a] = NoCall /\ timers[a] = NoCall
  BY <1>0, Zenon
<1>2. c \in Calls /\ use[p] \in Nat /\ c.proc = p
  <2>1. use[p] \in Nat
    BY Zenon DEF OnceInv, Typed
  <2>2. use[p] - 1 \in Nat
    BY <2>1, SMTT(30)
  <2> QED BY <2>1, <2>2, Zenon DEF Calls
<1>3. /\ pending' = [pending EXCEPT ![a] = c] /\ use' = [use EXCEPT ![p] = use[p] - 1]
      /\ id' = [id EXCEPT ![p] = a] /\ pc' = [pc EXCEPT ![p] = "cancel"] /\ timers' = timers
  BY <1>0, Zenon
<1>4. /\ CallOf(p)' = c /\ id'[p] = a /\ pc'[p] = "cancel"
      /\ use'[p] < use[p] /\ pending'[a] = c /\ use'[p] \in Nat
  <2>1. use'[p] = use[p] - 1 /\ id'[p] = a /\ pc'[p] = "cancel" /\ pending'[a] = c
    BY <1>1, <1>3, Zenon DEF OnceInv, Typed
  <2>2. CallOf(p)' = c
    BY <2>1, Zenon DEF CallOf
  <2>3. use'[p] < use[p] /\ use'[p] \in Nat
    BY <1>2, <2>1, SMTT(30)
  <2> QED BY <2>1, <2>2, <2>3, Zenon
<1>5. \A q \in Procs : q # p => /\ CallOf(q)' = CallOf(q) /\ Request(q)' = Request(q)
                                /\ id'[q] = id[q] /\ pc'[q] = pc[q] /\ use'[q] = use[q]
  BY <1>3, Zenon DEF CallOf, Request, OnceInv, Typed
<1>6. \A i \in IDs : i # a => pending'[i] = pending[i]
  BY <1>3, Zenon DEF OnceInv, Typed
<1> HIDE DEF c
<1>7. \A q \in Procs : CallOf(q) # NoCall /\ CallOf(q).proc = q
  BY CurrentCall, Zenon DEF OnceInv
<1>8. RequestsKnown'
  <2> SUFFICES ASSUME NEW r \in unanswered
               PROVE  /\ r.call.use >= use'[r.call.proc]
                      /\ r.call = CallOf(r.call.proc)' =>
                           r.id = id'[r.call.proc] /\ pc'[r.call.proc] \notin {"cancel", "write"}
    BY Zenon DEF RequestsKnown, CallOf
  <2>1. /\ r.call.proc \in Procs /\ r.call.use \in Nat /\ r.call.use >= use[r.call.proc]
    BY Zenon DEF TimerInv, RequestsKnown, OnceInv, Typed, Calls
  <2>2. CASE r.call.proc = p
    <3>1. r.call.use > use'[p]
      BY <1>2, <1>4, <2>1, <2>2, SMTT(30)
    <3>2. CallOf(p)'.use = use'[p]
      BY Zenon DEF CallOf
    <3>3. r.call.use # use'[p]
      BY <1>4, <2>1, <3>1
    <3>4. r.call # CallOf(p)'
      BY <3>2, <3>3, Zenon
    <3>5. r.call.use >= use'[r.call.proc]
      BY <1>4, <2>1, <2>2, <3>1, SMTT(20)
    <3> QED BY <2>2, <3>4, <3>5, Zenon
  <2>3. CASE r.call.proc # p
    BY <1>5, <2>1, <2>3, Zenon DEF TimerInv, RequestsKnown
  <2> QED BY <2>2, <2>3, Zenon
<1>9. TimersAgree'
  BY <1>1, <1>3, <1>6, Zenon DEF TimerInv, TimersAgree
<1>10. ArmingWritten'
  <2> SUFFICES ASSUME NEW q \in Procs, pc'[q] = "arm", pending'[id'[q]] = CallOf(q)'
               PROVE  Request(q)' \in unanswered
    BY Zenon DEF ArmingWritten
  <2>1. q # p /\ id[q] \in IDs
    BY <1>4, <1>5, Zenon DEF OnceInv, Typed
  <2>2. id[q] # a
    <3> SUFFICES ASSUME id[q] = a PROVE FALSE
      BY Zenon
    <3>1. c = CallOf(q)
      BY <1>4, <1>5, <2>1, Zenon
    <3> QED BY <1>2, <1>7, <2>1, <3>1, Zenon
  <2> QED BY <1>5, <1>6, <2>1, <2>2, Zenon DEF TimerInv, ArmingWritten
<1>11. Registered'
  <2> SUFFICES ASSUME Healthy, NEW q \in Procs,
                      pc'[q] \in {"cancel", "write"} \/ (pc'[q] = "arm" /\ Request(q)' \in unanswered)
               PROVE  pending'[id'[q]] = CallOf(q)'
    BY Zenon DEF Registered
  <2>1. CASE q = p
    BY <1>4, <2>1, Zenon
  <2>2. CASE q # p
    <3>1. pending[id[q]] = CallOf(q) /\ id[q] \in IDs
      BY <1>5, <2>2, Zenon DEF TimerInv, Registered, OnceInv, Typed
    <3> QED BY <1>1, <1>5, <1>6, <1>7, <2>2, <3>1, Zenon
  <2> QED BY <2>1, <2>2, Zenon
<1>12. TimerUnanswered'
  BY <1>3, Zenon DEF TimerInv, TimersMatch, TimerUnanswered
<1>13. WrittenHasTimer'
  <2> SUFFICES ASSUME Healthy, NEW r \in unanswered, timers[r.id] # r.call
               PROVE  pc'[r.call.proc] = "arm" /\ CallOf(r.call.proc)' = r.call
    BY <1>3, Zenon DEF WrittenHasTimer, Healthy
  <2>1. r.call.proc \in Procs
    BY Zenon DEF OnceInv, Typed, Calls
  <2>2. pc[r.call.proc] = "arm" /\ CallOf(r.call.proc) = r.call
    BY Zenon DEF TimerInv, TimersMatch, WrittenHasTimer, Healthy
  <2> QED BY <1>5, <2>1, <2>2, Zenon
<1> QED BY <1>8, <1>9, <1>10, <1>11, <1>12, <1>13, Zenon DEF TimerInv, TimersMatch

\* A request written whole: it is pending, and about to be armed.
LEMMA WriteTimers ==
  ASSUME OnceInv, TimerInv, NEW p \in Procs, Write(p, "whole")
  PROVE  TimerInv'
<1>1. /\ pc[p] = "write" /\ pc' = [pc EXCEPT ![p] = "arm"]
      /\ unanswered' = unanswered \cup {Request(p)}
      /\ UNCHANGED <<use, id, pending, timers>> /\ (Healthy' => Healthy)
  BY Zenon DEF Write, Request, tableVars, Healthy, Open
<1>2. /\ \A q \in Procs : CallOf(q)' = CallOf(q) /\ Request(q)' = Request(q)
      /\ \A q \in Procs : q # p => pc'[q] = pc[q]
      /\ pc'[p] = "arm"
  BY <1>1, Zenon DEF CallOf, Request, OnceInv, Typed
<1>3. /\ Request(p).call = CallOf(p) /\ Request(p).id = id[p]
      /\ CallOf(p).proc = p /\ CallOf(p).use = use[p] /\ CallOf(p) \in Calls
  BY CurrentCall, Zenon DEF Request, OnceInv
<1>4. \A q \in Procs : Request(q) \in unanswered' /\ q # p => Request(q) \in unanswered
  <2> SUFFICES ASSUME NEW q \in Procs, q # p PROVE Request(q) # Request(p)
    BY <1>1, Zenon
  <2>1. Request(q).call.proc = q
    BY CurrentCall, Zenon DEF Request, OnceInv
  <2> QED BY <1>3, <2>1, Zenon
<1>5. RequestsKnown'
  <2> SUFFICES ASSUME NEW r \in unanswered'
               PROVE  /\ r.call.use >= use[r.call.proc]
                      /\ r.call = CallOf(r.call.proc) =>
                           r.id = id[r.call.proc] /\ pc'[r.call.proc] \notin {"cancel", "write"}
    BY <1>1, Zenon DEF RequestsKnown, CallOf
  <2>1. CASE r \in unanswered
    <3>1. r.call.proc \in Procs
      BY <2>1, Zenon DEF OnceInv, Typed, Calls
    <3> QED BY <1>2, <2>1, <3>1, Zenon DEF TimerInv, RequestsKnown
  <2>2. CASE r = Request(p)
    <3>1. use[p] >= use[p]
      BY DEF OnceInv, Typed
    <3> QED BY <1>2, <1>3, <2>2, <3>1, Zenon
  <2> QED BY <1>1, <2>1, <2>2, Zenon
<1>6. TimersAgree'
  BY <1>1, Zenon DEF TimerInv, TimersAgree
<1>7. ArmingWritten'
  BY <1>1, <1>2, Zenon DEF TimerInv, ArmingWritten
<1>8. Registered'
  BY <1>1, <1>2, <1>4, Zenon DEF TimerInv, Registered
<1>9. TimerUnanswered'
  BY <1>1, Zenon DEF TimerInv, TimersMatch, TimerUnanswered
<1>10. WrittenHasTimer'
  <2> SUFFICES ASSUME Healthy, NEW r \in unanswered', timers[r.id] # r.call
               PROVE  pc'[r.call.proc] = "arm" /\ CallOf(r.call.proc) = r.call
    BY <1>1, Zenon DEF WrittenHasTimer, Healthy, CallOf
  <2>1. CASE r \in unanswered
    <3>1. pc[r.call.proc] = "arm" /\ CallOf(r.call.proc) = r.call /\ r.call.proc \in Procs
      BY <2>1, Zenon DEF TimerInv, TimersMatch, WrittenHasTimer, Healthy, OnceInv, Typed, Calls
    <3> QED BY <1>2, <3>1, Zenon
  <2>2. CASE r = Request(p)
    BY <1>2, <1>3, <2>2, Zenon
  <2> QED BY <1>1, <2>1, <2>2, Zenon
<1> QED BY <1>5, <1>6, <1>7, <1>8, <1>9, <1>10, Zenon DEF TimerInv, TimersMatch

\* Arming: only a pending call gets a timer, and it has not been answered.
LEMMA ArmTimers ==
  ASSUME OnceInv, TimerInv, NEW p \in Procs, Arm(p)
  PROVE  TimerInv'
<1>1. /\ pc[p] = "arm" /\ pc' = [pc EXCEPT ![p] = "wait"] /\ id[p] \in IDs
      /\ UNCHANGED <<use, id, pending, unanswered>> /\ (Healthy' <=> Healthy)
      /\ timers' = IF Open /\ pending[id[p]] = CallOf(p)
                     THEN [timers EXCEPT ![id[p]] = CallOf(p)] ELSE timers
  BY Zenon DEF Arm, peerVars, closeVars, Healthy, Open, OnceInv, Typed
<1>2. /\ \A q \in Procs : CallOf(q)' = CallOf(q) /\ Request(q)' = Request(q)
      /\ \A q \in Procs : q # p => pc'[q] = pc[q]
      /\ pc'[p] = "wait"
  BY <1>1, Zenon DEF CallOf, Request, OnceInv, Typed
<1>3. CallOf(p) # NoCall /\ CallOf(p).proc = p
  BY CurrentCall, Zenon DEF OnceInv
<1>4. \A i \in IDs : \/ timers'[i] = timers[i]
                     \/ i = id[p] /\ timers'[i] = CallOf(p) /\ pending[i] = CallOf(p)
  BY <1>1, Zenon DEF OnceInv, Typed
<1>5. RequestsKnown'
  <2> SUFFICES ASSUME NEW r \in unanswered, r.call = CallOf(r.call.proc)
               PROVE  pc'[r.call.proc] \notin {"cancel", "write"}
    BY <1>1, Zenon DEF TimerInv, RequestsKnown, CallOf
  <2>1. r.call.proc \in Procs /\ pc[r.call.proc] \notin {"cancel", "write"}
    BY Zenon DEF TimerInv, RequestsKnown, OnceInv, Typed, Calls
  <2> QED BY <1>2, <2>1, Zenon
<1>6. TimersAgree'
  BY <1>1, <1>4, Zenon DEF TimerInv, TimersAgree
<1>7. ArmingWritten'
  BY <1>1, <1>2, Zenon DEF TimerInv, ArmingWritten
<1>8. Registered'
  BY <1>1, <1>2, Zenon DEF TimerInv, Registered
<1>9. TimerUnanswered'
  <2> SUFFICES ASSUME NEW i \in IDs, timers'[i] # NoCall
               PROVE  [call |-> timers'[i], id |-> i] \in unanswered
    BY <1>1, Zenon DEF TimerUnanswered
  <2>1. CASE timers'[i] = timers[i]
    BY <2>1, Zenon DEF TimerInv, TimersMatch, TimerUnanswered
  <2>2. CASE i = id[p] /\ timers'[i] = CallOf(p) /\ pending[i] = CallOf(p)
    BY <1>1, <2>2, Zenon DEF TimerInv, ArmingWritten, Request
  <2> QED BY <1>4, <2>1, <2>2, Zenon
<1>10. WrittenHasTimer'
  <2> SUFFICES ASSUME Healthy, NEW r \in unanswered
               PROVE  \/ timers'[r.id] = r.call
                      \/ pc'[r.call.proc] = "arm" /\ CallOf(r.call.proc) = r.call
    BY <1>1, Zenon DEF WrittenHasTimer, Healthy, CallOf
  <2>1. r.id \in IDs /\ r.call.proc \in Procs /\ r.call # NoCall
    BY Constants, Zenon DEF OnceInv, Typed
  <2>2. CASE timers[r.id] = r.call
    <3>1. pending[r.id] # NoCall => pending[r.id] = r.call
      BY <2>1, <2>2, Zenon DEF TimerInv, TimersAgree
    <3> QED BY <1>3, <1>4, <2>1, <2>2, <3>1, Zenon
  <2>3. CASE pc[r.call.proc] = "arm" /\ CallOf(r.call.proc) = r.call /\ r.call.proc = p
    <3>1. r.id = id[p]
      BY <2>3, Zenon DEF TimerInv, RequestsKnown
    <3>2. r = Request(p)
      BY <2>3, <3>1, Zenon DEF Request, OnceInv, Typed
    <3>3. pending[id[p]] = CallOf(p)
      BY <1>1, <3>2, Zenon DEF TimerInv, Registered
    <3> QED BY <1>1, <2>3, <3>1, <3>3, Zenon DEF Healthy, OnceInv, Typed
  <2>4. CASE pc[r.call.proc] = "arm" /\ CallOf(r.call.proc) = r.call /\ r.call.proc # p
    BY <1>2, <2>1, <2>4, Zenon
  <2> QED BY <2>2, <2>3, <2>4, Zenon DEF TimerInv, TimersMatch, WrittenHasTimer, Healthy
<1> QED BY <1>5, <1>6, <1>7, <1>8, <1>9, <1>10, Zenon DEF TimerInv, TimersMatch

\* removePending frees the ID of pending; the timer, if any, stays.
LEMMA UndoTimers ==
  ASSUME OnceInv, TimerInv, NEW p \in Procs, Undo(p)
  PROVE  TimerInv'
<1>1. /\ pc[p] \in {"undo", "undoCtx"} /\ pc' = [pc EXCEPT ![p] = IF pc[p] = "undo" THEN "fail" ELSE "rearm"]
      /\ UNCHANGED <<use, id, timers, unanswered>> /\ (Healthy' <=> Healthy) /\ id[p] \in IDs
      /\ pending' = IF pending[id[p]] = CallOf(p) THEN [pending EXCEPT ![id[p]] = NoCall] ELSE pending
  BY Zenon DEF Undo, peerVars, closeVars, Healthy, Open, OnceInv, Typed
<1>2. /\ \A q \in Procs : CallOf(q)' = CallOf(q) /\ Request(q)' = Request(q)
      /\ \A q \in Procs : q # p => pc'[q] = pc[q]
      /\ pc'[p] \in {"fail", "rearm"}
  BY <1>1, Zenon DEF CallOf, Request, OnceInv, Typed
<1>3. \A q \in Procs : CallOf(q) # NoCall /\ CallOf(q).proc = q
  BY CurrentCall, Zenon DEF OnceInv
<1>4. \A i \in IDs : pending'[i] = pending[i] \/ (pending[i] = CallOf(p) /\ pending'[i] = NoCall)
  BY <1>1, Zenon DEF OnceInv, Typed
<1>5. RequestsKnown'
  <2> SUFFICES ASSUME NEW r \in unanswered, r.call = CallOf(r.call.proc)
               PROVE  pc'[r.call.proc] \notin {"cancel", "write"}
    BY <1>1, Zenon DEF TimerInv, RequestsKnown, CallOf
  <2>1. r.call.proc \in Procs /\ pc[r.call.proc] \notin {"cancel", "write"}
    BY Zenon DEF TimerInv, RequestsKnown, OnceInv, Typed, Calls
  <2> QED BY <1>2, <2>1, Zenon
<1>6. TimersAgree'
  BY <1>1, <1>4, Zenon DEF TimerInv, TimersAgree
<1>7. \A q \in Procs : q # p /\ pc[q] # "idle" =>
        (pending'[id[q]] = CallOf(q) <=> pending[id[q]] = CallOf(q))
  <2> SUFFICES ASSUME NEW q \in Procs, q # p, pc[q] # "idle"
               PROVE  pending'[id[q]] = CallOf(q) <=> pending[id[q]] = CallOf(q)
    BY Zenon
  <2>1. id[q] \in IDs /\ CallOf(q) # CallOf(p)
    BY <1>3, Zenon DEF OnceInv, Typed
  <2> QED BY <1>3, <1>4, <2>1, Zenon
<1>8. ArmingWritten'
  <2> SUFFICES ASSUME NEW q \in Procs, pc'[q] = "arm", pending'[id[q]] = CallOf(q)
               PROVE  Request(q) \in unanswered
    BY <1>1, <1>2, Zenon DEF ArmingWritten
  <2> QED BY <1>2, <1>7, Zenon DEF TimerInv, ArmingWritten
<1>9. Registered'
  <2> SUFFICES ASSUME Healthy, NEW q \in Procs,
                      pc'[q] \in {"cancel", "write"} \/ (pc'[q] = "arm" /\ Request(q) \in unanswered)
               PROVE  pending'[id[q]] = CallOf(q)
    BY <1>1, <1>2, Zenon DEF Registered
  <2> QED BY <1>2, <1>7, Zenon DEF TimerInv, Registered
<1>10. TimerUnanswered'
  BY <1>1, Zenon DEF TimerInv, TimersMatch, TimerUnanswered
<1>11. WrittenHasTimer'
  <2> SUFFICES ASSUME Healthy, NEW r \in unanswered, timers[r.id] # r.call
               PROVE  pc'[r.call.proc] = "arm" /\ CallOf(r.call.proc) = r.call
    BY <1>1, Zenon DEF WrittenHasTimer, Healthy, CallOf
  <2>1. pc[r.call.proc] = "arm" /\ CallOf(r.call.proc) = r.call /\ r.call.proc \in Procs
    BY Zenon DEF TimerInv, TimersMatch, WrittenHasTimer, Healthy, OnceInv, Typed, Calls
  <2> QED BY <1>1, <1>2, <2>1, Zenon
<1> QED BY <1>5, <1>6, <1>8, <1>9, <1>10, <1>11, Zenon DEF TimerInv, TimersMatch

\* A reply takes its own call and its own timer away with the request.
LEMMA ReplyTimers ==
  ASSUME OnceInv, TimerInv, NEW r \in unanswered, ReadReply(r)
  PROVE  TimerInv'
<1> DEFINE pkt == Packet(r.id, MethodOf(r.call), r.call, 0)
<1>1. /\ r.id \in IDs /\ r.call \in Calls /\ r.call # NoCall /\ r = [call |-> r.call, id |-> r.id]
  BY Constants, Zenon DEF OnceInv, Typed
<1>2. pkt.id = r.id /\ pkt.method = MethodOf(r.call)
  BY Zenon DEF Packet
<1>3. /\ unanswered' = unanswered \ {r} /\ UNCHANGED <<pc, use, id>> /\ (Healthy' <=> Healthy)
      /\ timers' = Disarmed(pkt)
      /\ pending' = IF Completes(pkt) THEN [pending EXCEPT ![pkt.id] = NoCall] ELSE pending
  BY Zenon DEF ReadReply, Dispatch, callVars, closeVars, Healthy, Open
<1>4. timers' = IF timers[r.id] # NoCall /\ MethodOf(timers[r.id]) = MethodOf(r.call)
                  THEN [timers EXCEPT ![r.id] = NoCall] ELSE timers
  BY <1>1, <1>2, <1>3, Zenon DEF Disarmed
<1>5. pending' = IF pending[r.id] # NoCall /\ MethodOf(pending[r.id]) = MethodOf(r.call)
                   THEN [pending EXCEPT ![r.id] = NoCall] ELSE pending
  BY <1>1, <1>2, <1>3, Zenon DEF Completes
<1> HIDE DEF pkt
<1>6. \A i \in IDs : timers'[i] \in {timers[i], NoCall} /\ pending'[i] \in {pending[i], NoCall}
  BY <1>4, <1>5, Zenon DEF OnceInv, Typed
<1>7. \A i \in IDs : i # r.id => timers'[i] = timers[i] /\ pending'[i] = pending[i]
  BY <1>4, <1>5, Zenon DEF OnceInv, Typed
<1>8. timers'[r.id] # r.call /\ pending'[r.id] # r.call
  BY <1>1, <1>4, <1>5, Zenon DEF OnceInv, Typed
<1>9. /\ \A q \in Procs : CallOf(q)' = CallOf(q) /\ Request(q)' = Request(q)
      /\ \A q \in Procs : CallOf(q) # NoCall
  BY <1>3, CurrentCall, Zenon DEF CallOf, Request, OnceInv
<1>10. RequestsKnown'
  BY <1>3, Zenon DEF TimerInv, RequestsKnown, CallOf
<1>11. TimersAgree'
  BY <1>6, Zenon DEF TimerInv, TimersAgree
<1>12. ArmingWritten'
  <2> SUFFICES ASSUME NEW q \in Procs, pc[q] = "arm", pending'[id[q]] = CallOf(q)
               PROVE  Request(q) \in unanswered /\ Request(q) # r
    BY <1>3, <1>9, Zenon DEF ArmingWritten
  <2>1. id[q] \in IDs /\ pending[id[q]] = CallOf(q)
    BY <1>6, <1>9, Zenon DEF OnceInv, Typed
  <2>2. Request(q).id = id[q] /\ Request(q).call = CallOf(q)
    BY Zenon DEF Request
  <2>3. Request(q) # r
    BY <1>8, <2>2, Zenon
  <2> QED BY <2>1, <2>3, Zenon DEF TimerInv, ArmingWritten
<1>13. Registered'
  <2> SUFFICES ASSUME Healthy, NEW q \in Procs,
                      \/ pc[q] \in {"cancel", "write"}
                      \/ pc[q] = "arm" /\ Request(q) \in unanswered /\ Request(q) # r
               PROVE  pending'[id[q]] = CallOf(q)
    BY <1>3, <1>9, Zenon DEF Registered
  <2>1. pending[id[q]] = CallOf(q) /\ id[q] \in IDs /\ CallOf(q).proc = q
    BY CurrentCall, Zenon DEF TimerInv, Registered, OnceInv, Typed
  <2>2. CASE id[q] # r.id
    BY <1>7, <2>1, <2>2, Zenon
  <2>3. CASE id[q] = r.id
    <3>1. r.call = CallOf(q)
      BY <1>9, <2>1, <2>3, ReplyMeetsItsCall, Zenon
    <3>2. r = Request(q)
      BY <1>1, <2>3, <3>1, Zenon DEF Request
    <3>3. pc[q] \notin {"cancel", "write"}
      BY <2>1, <3>1, Zenon DEF TimerInv, RequestsKnown
    <3> QED BY <3>2, <3>3, Zenon
  <2> QED BY <2>2, <2>3, Zenon
<1>14. TimerUnanswered'
  <2> SUFFICES ASSUME NEW i \in IDs, timers'[i] # NoCall
               PROVE  [call |-> timers'[i], id |-> i] \in unanswered \ {r}
    BY <1>3, Zenon DEF TimerUnanswered
  <2>1. timers'[i] = timers[i] /\ [call |-> timers[i], id |-> i] \in unanswered
    BY <1>6, Zenon DEF TimerInv, TimersMatch, TimerUnanswered
  <2>2. [call |-> timers'[i], id |-> i] # r
    <3> SUFFICES ASSUME r.id = i, r.call = timers'[i] PROVE FALSE
      OBVIOUS
    <3> QED BY <1>8, Zenon
  <2> QED BY <2>1, <2>2, Zenon
<1>15. WrittenHasTimer'
  <2> SUFFICES ASSUME Healthy, NEW s \in unanswered, s # r, timers'[s.id] # s.call
               PROVE  pc[s.call.proc] = "arm" /\ CallOf(s.call.proc) = s.call
    BY <1>3, Zenon DEF WrittenHasTimer, Healthy, CallOf
  <2>1. s.id \in IDs /\ s = [call |-> s.call, id |-> s.id] /\ s.call # NoCall
    BY Constants, Zenon DEF OnceInv, Typed
  <2>2. timers[s.id] # s.call
    <3> SUFFICES ASSUME timers[s.id] = s.call PROVE FALSE
      BY Zenon
    <3>1. s.id = r.id
      BY <1>7, <2>1, Zenon
    <3> QED BY <1>1, <2>1, <3>1, ReplyMeetsItsCall, Zenon
  <2> QED BY <2>2, Zenon DEF TimerInv, TimersMatch, WrittenHasTimer, Healthy
<1> QED BY <1>10, <1>11, <1>12, <1>13, <1>14, <1>15, Zenon DEF TimerInv, TimersMatch

\* Every step keeps the invariant, if a context cannot end between the last byte
\* of a request and the check that follows it.
LEMMA TimerStep ==
  ASSUME LateCancel = FALSE, OnceInv, TimerInv, Next
  PROVE  TimerInv'
<1>1. ASSUME NEW p \in Procs, CancelPing(p) \/ Abandon(p) \/ Return(p) \/ Rearm(p)
      PROVE  TimerInv'
  <2>1. /\ pc[p] \notin {"idle", "arm"} /\ UNCHANGED <<use, id, pending, timers, unanswered>>
        /\ \E x : /\ pc' = [pc EXCEPT ![p] = x] /\ x \notin {"cancel", "arm"}
                  /\ x = "write" => pc[p] = "cancel"
    BY <1>1, Zenon DEF CancelPing, Abandon, Return, Rearm, tableVars, peerVars
  <2>2. Healthy' => Healthy
    BY <1>1, Zenon DEF CancelPing, Abandon, Return, Rearm, closeVars, Healthy, Open
  <2> QED BY <2>1, <2>2, PlaceTimers, Zenon
<1>2. ASSUME NEW p \in Procs, NEW how \in Outcomes, Write(p, how) PROVE TimerInv'
  <2>1. CASE how = "whole"
    BY <1>2, <2>1, WriteTimers, Zenon
  <2>2. CASE how # "whole"
    <3>1. how \in {"none", "refused", "part", "dead"}
      BY <1>2, <2>2, Zenon DEF Write, Outcomes
    <3>2. /\ pc[p] = "write" /\ UNCHANGED <<use, id, pending, timers, unanswered>>
          /\ \E x \in {"undo", "undoCtx"} : pc' = [pc EXCEPT ![p] = x]
      BY <1>2, <3>1, Zenon DEF Write, tableVars
    <3>3. Healthy' => Healthy
      BY <1>2, Zenon DEF Write, Healthy, Open
    <3> QED BY <3>2, <3>3, PlaceTimers, Zenon
  <2> QED BY <2>1, <2>2, Zenon
<1>3. ASSUME NEW p \in Callers, Begin(p) PROVE TimerInv'
  <2>1. Healthy' => Healthy
    BY <1>3, Zenon DEF Begin, closeVars, Healthy, Open
  <2> QED BY <1>3, <2>1, RegisterTimers, Zenon DEF Begin, Procs, peerVars
<1>4. ASSUME NEW p \in Pings, PingFires(p) PROVE TimerInv'
  <2>1. CASE Register(p) /\ FreeIDs # {} /\ UNCHANGED wantClose
    <3>1. Healthy' => Healthy
      BY <1>4, <2>1, Zenon DEF PingFires, Healthy, Open
    <3> QED BY <1>4, <2>1, <3>1, RegisterTimers, Zenon DEF PingFires, Procs, peerVars
  <2>2. CASE UNCHANGED <<callVars, tableVars>> /\ wantClose'
    <3>1. UNCHANGED <<pc, use, id, pending, timers, unanswered>> /\ ~Healthy'
      BY <1>4, <2>2, Zenon DEF PingFires, callVars, tableVars, peerVars, Healthy
    <3> QED BY <3>1, SameTimers, Zenon
  <2> QED BY <1>4, <2>1, <2>2, Zenon DEF PingFires
<1>5. CASE Close \/ FinishRead \/ \E i \in IDs : HeaderTimeout(i)
  <2>1. UNCHANGED <<pc, use, id, unanswered>> /\ ~Healthy'
    BY <1>5, Zenon DEF Close, FinishRead, HeaderTimeout, callVars, peerVars, Healthy, Open
  <2>2. \A i \in IDs : timers'[i] \in {timers[i], NoCall} /\ pending'[i] \in {pending[i], NoCall}
    BY <1>5, Zenon DEF Close, FinishRead, HeaderTimeout, OnceInv, Typed
  <2> QED BY <2>1, <2>2, ClosingTimers, Zenon
<1>6. CASE \/ TearDown \/ Complete \/ RoutePush \/ ReadFails \/ FailPending
           \/ finishBootstrap \/ TakePush \/ WireDrops \/ PeerDies
  <2>1. UNCHANGED <<pc, use, id, pending, timers, unanswered>>
    BY <1>6, Zenon DEF TearDown, Complete, RoutePush, ReadFails, FailPending, finishBootstrap, TakePush,
                WireDrops, PeerDies, callVars, tableVars, peerVars
  <2>2. UNCHANGED <<closing, closed, wantClose>>
    BY <1>6, Zenon DEF TearDown, Complete, RoutePush, ReadFails, FailPending, finishBootstrap, TakePush,
                WireDrops, PeerDies, closeVars
  <2>3. Healthy' => Healthy
    BY <2>2, Zenon DEF Healthy, Open
  <2> QED BY <2>1, <2>3, SameTimers, Zenon
<1>7. ASSUME NEW i \in IDs \cup {0}, ReadPush(i) PROVE TimerInv'
  <2> DEFINE pkt == Packet(i, "MSG", NoCall, sent.n + 1)
  <2>1. Dispatch(pkt) /\ ~Completes(pkt) /\ unanswered' = unanswered /\ pkt.method = "MSG"
    BY <1>7, PushCompletesNone, Zenon DEF ReadPush, OnceInv, Packet
  <2> HIDE DEF pkt
  <2>2. \A c \in Calls : MethodOf(c) # "MSG"
    BY Constants, SessionAssumption, Zenon DEF SessionAssumption, MethodOf, Procs
  <2>3. timers' = timers
    BY <2>1, <2>2, Zenon DEF Dispatch, Disarmed, OnceInv, Typed
  <2>4. UNCHANGED <<pc, use, id, pending, unanswered, closing, closed, wantClose>>
    BY <2>1, Zenon DEF Dispatch, callVars, closeVars
  <2> QED BY <2>3, <2>4, SameTimers, Zenon DEF Healthy, Open
<1> QED BY <1>1, <1>2, <1>3, <1>4, <1>5, <1>6, <1>7, ArmTimers, UndoTimers, ReplyTimers, Zenon
        DEF Next, ClientStep

-----------------------------------------------------------------------------
(* A goroutine receives its own reply *)

\* What the reader is about to complete is the call the reply answers.
Completing == Healthy /\ reader = "complete" => failing = {packet.call}

ReplyInv == Completing /\ OwnReply

\* Every step keeps the invariant.
LEMMA ReplyStep ==
  ASSUME OnceInv, TimerInv, ReplyInv, Next
  PROVE  ReplyInv'
<1>1. ASSUME UNCHANGED <<reader, failing, packet>> \/ reader' # "complete", Healthy' => Healthy,
             \A p \in Procs : pc'[p] # "idle" =>
                \/ result'[p] = NoReply
                \/ pc[p] # "idle" /\ result'[p] = result[p] /\ use'[p] = use[p]
      PROVE  ReplyInv'
  <2>1. Completing'
    BY <1>1, Zenon DEF ReplyInv, Completing
  <2>2. OwnReply'
    BY <1>1, Zenon DEF ReplyInv, OwnReply, CallOf, Healthy
  <2> QED BY <2>1, <2>2, Zenon DEF ReplyInv
<1>2. ASSUME ~Healthy' PROVE ReplyInv'
  BY <1>2, Zenon DEF ReplyInv, Completing, OwnReply, Healthy
<1>3. ASSUME NEW p \in Procs, CancelPing(p) \/ Arm(p) \/ Abandon(p) \/ Undo(p) \/ Return(p) \/ Rearm(p)
      PROVE  ReplyInv'
  <2>1. pc[p] # "idle" /\ UNCHANGED <<use, result, readVars>> /\ \E x : pc' = [pc EXCEPT ![p] = x]
    BY <1>3, Zenon DEF CancelPing, Arm, Abandon, Undo, Return, Rearm, readVars
  <2>2. Healthy' => Healthy
    BY <1>3, Zenon DEF CancelPing, Arm, Abandon, Undo, Return, Rearm, closeVars, Healthy, Open
  <2>3. \A q \in Procs : pc'[q] # "idle" => pc[q] # "idle"
    BY <2>1, Zenon DEF OnceInv, Typed
  <2> QED BY <1>1, <2>1, <2>2, <2>3, Zenon DEF readVars
<1>4. ASSUME NEW p \in Procs, NEW how \in Outcomes, Write(p, how) PROVE ReplyInv'
  <2>1. pc[p] # "idle" /\ UNCHANGED <<use, result, readVars>> /\ \E x : pc' = [pc EXCEPT ![p] = x]
    BY <1>4, Zenon DEF Write, readVars
  <2>2. Healthy' => Healthy
    BY <1>4, Zenon DEF Write, Healthy, Open
  <2>3. \A q \in Procs : pc'[q] # "idle" => pc[q] # "idle"
    BY <2>1, Zenon DEF OnceInv, Typed
  <2> QED BY <1>1, <2>1, <2>2, <2>3, Zenon DEF readVars
<1>5. ASSUME NEW p \in Procs, Register(p), Healthy' => Healthy, UNCHANGED readVars
      PROVE  ReplyInv'
  <2>1. /\ result' = [result EXCEPT ![p] = NoReply] /\ pc' = [pc EXCEPT ![p] = "cancel"]
        /\ use' = [use EXCEPT ![p] = @ - 1]
    BY <1>5, Zenon DEF Register
  <2>2. \A q \in Procs : \/ result'[q] = NoReply
                         \/ result'[q] = result[q] /\ use'[q] = use[q] /\ pc'[q] = pc[q]
    BY <2>1, Zenon DEF OnceInv, Typed
  <2> QED BY <1>1, <1>5, <2>2, Zenon DEF readVars
<1>6. ASSUME NEW p \in Callers, Begin(p) PROVE ReplyInv'
  <2>1. Healthy' => Healthy
    BY <1>6, Zenon DEF Begin, closeVars, Healthy, Open
  <2> QED BY <1>5, <1>6, <2>1, Zenon DEF Begin, Procs
<1>7. ASSUME NEW p \in Pings, PingFires(p) PROVE ReplyInv'
  <2>1. CASE Register(p) /\ UNCHANGED wantClose
    <3>1. Healthy' => Healthy
      BY <1>7, <2>1, Zenon DEF PingFires, Healthy, Open
    <3> QED BY <1>5, <1>7, <2>1, <3>1, Zenon DEF PingFires, Procs
  <2>2. CASE wantClose'
    BY <1>2, <2>2, Zenon DEF Healthy
  <2> QED BY <1>7, <2>1, <2>2, Zenon DEF PingFires
<1>8. CASE Close \/ FinishRead \/ \E i \in IDs : HeaderTimeout(i)
  <2>1. ~Healthy'
    BY <1>8, Zenon DEF Close, FinishRead, HeaderTimeout, Healthy, Open
  <2> QED BY <1>2, <2>1, Zenon
<1>9. CASE TearDown \/ RoutePush \/ ReadFails \/ finishBootstrap \/ TakePush \/ WireDrops \/ PeerDies
  <2>1. UNCHANGED callVars /\ (UNCHANGED readVars \/ reader' # "complete")
    BY <1>9, Zenon DEF TearDown, RoutePush, ReadFails, finishBootstrap, TakePush, WireDrops, PeerDies, readVars
  <2>2. UNCHANGED <<closing, closed, wantClose>>
    BY <1>9, Zenon DEF TearDown, RoutePush, ReadFails, finishBootstrap, TakePush, WireDrops, PeerDies, closeVars
  <2>3. Healthy' => Healthy
    BY <2>2, Zenon DEF Healthy, Open
  <2> QED BY <1>1, <2>1, <2>3, Zenon DEF readVars, callVars
<1>10. ASSUME NEW i \in IDs \cup {0}, ReadPush(i) PROVE ReplyInv'
  <2> DEFINE pkt == Packet(i, "MSG", NoCall, sent.n + 1)
  <2>1. Dispatch(pkt) /\ ~Completes(pkt)
    BY <1>10, PushCompletesNone, Zenon DEF ReadPush, OnceInv
  <2> HIDE DEF pkt
  <2>2. UNCHANGED callVars /\ reader' = "push" /\ UNCHANGED <<closing, closed, wantClose>>
    BY <2>1, Zenon DEF Dispatch, closeVars
  <2>3. Healthy' => Healthy
    BY <2>2, Zenon DEF Healthy, Open
  <2> QED BY <1>1, <2>2, <2>3, Zenon DEF callVars
<1>11. ASSUME NEW r \in unanswered, ReadReply(r) PROVE ReplyInv'
  <2> DEFINE pkt == Packet(r.id, MethodOf(r.call), r.call, 0)
  <2>1. Dispatch(pkt) /\ pkt.id = r.id /\ pkt.call = r.call
    BY <1>11, Zenon DEF ReadReply, Packet
  <2> HIDE DEF pkt
  <2>2. UNCHANGED callVars /\ UNCHANGED <<closing, closed, wantClose>>
    BY <2>1, Zenon DEF Dispatch, closeVars
  <2>3. Healthy' <=> Healthy
    BY <2>2, Zenon DEF Healthy, Open
  <2>4. Completing'
    <3> SUFFICES ASSUME Healthy, reader' = "complete" PROVE failing' = {packet'.call}
      BY <2>3, Zenon DEF Completing
    <3>1. pending[r.id] # NoCall /\ failing' = {pending[r.id]} /\ packet' = pkt
      BY <2>1, Zenon DEF Dispatch, Completes
    <3> QED BY <2>1, <3>1, ReplyMeetsItsCall, Zenon
  <2>5. OwnReply'
    BY <2>2, <2>3, Zenon DEF ReplyInv, OwnReply, CallOf, callVars, Healthy
  <2> QED BY <2>4, <2>5, Zenon DEF ReplyInv
<1>12. CASE Complete
  <2>1. /\ reader = "complete" /\ reader' = "read" /\ Deliver(failing, packet.call)
        /\ UNCHANGED <<pc, use, closing, closed, wantClose>>
    BY <1>12, Zenon DEF Complete, closeVars
  <2>2. Healthy' <=> Healthy
    BY <2>1, Zenon DEF Healthy, Open
  <2>3. OwnReply'
    <3> SUFFICES ASSUME Healthy, NEW p \in Procs, pc[p] # "idle"
                 PROVE  result'[p] \in {NoReply, Failed, CallOf(p)}
      BY <2>1, <2>2, Zenon DEF OwnReply, CallOf, Healthy
    <3>1. failing = {packet.call}
      BY <2>1, Zenon DEF ReplyInv, Completing
    <3>2. result[p] \in {NoReply, Failed, CallOf(p)}
      BY Zenon DEF ReplyInv, OwnReply, Healthy
    <3> QED BY <2>1, <3>1, <3>2, Zenon DEF Deliver
  <2> QED BY <2>1, <2>3, Zenon DEF ReplyInv, Completing
<1>13. CASE FailPending
  <2>1. /\ reader' = "done" /\ Deliver(failing, Failed)
        /\ UNCHANGED <<pc, use, closing, closed, wantClose>>
    BY <1>13, Zenon DEF FailPending
  <2>2. OwnReply'
    BY <2>1, Zenon DEF ReplyInv, OwnReply, CallOf, Deliver, Open
  <2> QED BY <2>1, <2>2, Zenon DEF ReplyInv, Completing
<1> QED BY <1>3, <1>4, <1>6, <1>7, <1>8, <1>9, <1>10, <1>11, <1>12, <1>13, Zenon DEF Next, ClientStep

-----------------------------------------------------------------------------
(* The keepalive *)

\* A goroutine that will arm the keepalive, or have the reader do so.
Owes(p) ==
  \/ pc[p] \in {"cancel", "undoCtx", "rearm"}
  \/ pc[p] \in {"write", "arm", "wait"} /\ result[p] = NoReply

\* On a session that is up, a keepalive not armed is owed by someone.
KeepInv ==
  /\ stopped => ~Open
  /\ tearing => closing
  /\ reader \in {"end", "done"} => closed
  /\ Healthy /\ wire /\ ~refused /\ ~ping => reader = "complete" \/ \E p \in Procs : Owes(p)

\* The timer owner is only shut down on a session that is closing.
LEMMA ShutDownStep ==
  ASSUME KeepInv, Next
  PROVE  /\ stopped' => ~Open'
         /\ tearing' => closing'
         /\ reader' \in {"end", "done"} => closed'
<1>1. (closing => closing') /\ (closed => closed')
  <2>1. ASSUME NEW p \in Procs, NEW how \in Outcomes, Write(p, how)
        PROVE  (closing => closing') /\ (closed => closed')
    BY <2>1, Zenon DEF Write
  <2>2. CASE Close \/ FinishRead
    BY <2>2 DEF Close, FinishRead
  <2>3. CASE UNCHANGED <<closing, closed>>
    BY <2>3, Zenon
  <2>4. \/ UNCHANGED <<closing, closed>> \/ Close \/ FinishRead
        \/ \E p \in Procs : \E how \in Outcomes : Write(p, how)
    BY Zenon DEF Next, ClientStep, CancelPing, Arm, Return, Undo, Rearm, PingFires, HeaderTimeout,
       TearDown, Complete, RoutePush, ReadFails, FailPending, Begin, Abandon, ReadReply,
       ReadPush, Dispatch, finishBootstrap, TakePush, WireDrops, PeerDies, closeVars
  <2> QED BY <2>1, <2>2, <2>3, <2>4, Zenon
<1>2. tearing' => tearing \/ closing'
  BY Zenon DEF Next, ClientStep, CancelPing, Write, Arm, Return, Undo, Rearm, PingFires,
     HeaderTimeout, Close, TearDown, Complete, RoutePush, ReadFails, FinishRead, FailPending,
     Begin, Abandon, ReadReply, ReadPush, Dispatch, finishBootstrap, TakePush, WireDrops, PeerDies, closeVars
<1>3. reader' \in {"end", "done"} => reader \in {"end", "done"} \/ closed'
  BY Zenon DEF Next, ClientStep, CancelPing, Write, Arm, Return, Undo, Rearm, PingFires,
     HeaderTimeout, Close, TearDown, Complete, RoutePush, ReadFails, FinishRead, FailPending,
     Begin, Abandon, ReadReply, ReadPush, Dispatch, finishBootstrap, TakePush, WireDrops, PeerDies, readVars
<1>4. stopped' => stopped \/ tearing \/ reader = "end"
  BY Zenon DEF Next, ClientStep, CancelPing, Write, Arm, Return, Undo, Rearm, PingFires,
     HeaderTimeout, Close, TearDown, Complete, RoutePush, ReadFails, FinishRead, FailPending,
     Begin, Abandon, ReadReply, ReadPush, Dispatch, finishBootstrap, TakePush, WireDrops, PeerDies, keepVars, queueSchedule,
     queueCancelRequest, stopLifecycle
<1>5. stopped' => closed' \/ closing'
  BY <1>1, <1>4, Zenon DEF KeepInv, Open
<1>6. tearing' => closing'
  BY <1>1, <1>2, Zenon DEF KeepInv
<1>7. reader' \in {"end", "done"} => closed'
  BY <1>1, <1>3, Zenon DEF KeepInv
<1>8. closed' \/ closing' => ~Open'
  BY Zenon DEF Open
<1> QED BY <1>5, <1>6, <1>7, <1>8, Zenon

\* A step after which the keepalive is armed, or cannot be expected, or owed by
\* a goroutine.
Excused == ~Healthy \/ ~wire \/ refused \/ ping \/ reader = "complete"

\* Every step keeps the invariant.
LEMMA KeepStep ==
  ASSUME OnceInv, TimerInv, KeepInv, Next
  PROVE  KeepInv'
<1> SUFFICES Excused' \/ \E p \in Procs : Owes(p)'
  BY ShutDownStep, Zenon DEF KeepInv, Excused
<1>1. Excused \/ \E p \in Procs : Owes(p)
  BY Zenon DEF KeepInv, Excused
<1>2. ASSUME (Healthy' => Healthy), (wire' => wire), UNCHANGED <<refused, ping>>,
             reader = "complete" => reader' = "complete",
             \A p \in Procs : Owes(p) => Owes(p)'
      PROVE  Excused' \/ \E p \in Procs : Owes(p)'
  BY <1>1, <1>2, Zenon DEF Excused
<1>3. ASSUME NEW p \in Procs, pc[p] \in {"cancel", "write"}, Healthy PROVE result[p] = NoReply
  <2>1. pending[id[p]] = CallOf(p)
    BY <1>3, Zenon DEF TimerInv, Registered
  <2>2. id[p] \in IDs
    BY <1>3, Zenon DEF OnceInv, Typed
  <2>3. CallOf(p).proc = p /\ CallOf(p) # NoCall
    BY <1>3, CurrentCall, Zenon DEF OnceInv
  <2>4. result[pending[id[p]].proc] = NoReply
    BY <2>1, <2>2, <2>3, Zenon DEF OnceInv, PendingOwned
  <2> QED BY <2>1, <2>3, <2>4, Zenon
<1>4. ASSUME NEW p \in Procs, NEW x, pc' = [pc EXCEPT ![p] = x], UNCHANGED result
      PROVE  /\ pc'[p] = x /\ result'[p] = result[p]
             /\ \A q \in Procs : q # p => (Owes(q)' <=> Owes(q))
  BY <1>4, Zenon DEF OnceInv, Typed, Owes
<1>5. ASSUME NEW p \in Procs, CancelPing(p) PROVE Excused' \/ Owes(p)'
  <2>1. pc'[p] = "write" /\ result'[p] = result[p] /\ pc[p] = "cancel"
    BY <1>4, <1>5, Zenon DEF CancelPing
  <2>2. Healthy' => Healthy
    BY <1>5, Zenon DEF CancelPing, closeVars, Healthy, Open
  <2> QED BY <1>3, <2>1, <2>2, Zenon DEF Excused, Owes
<1>6. ASSUME NEW p \in Procs, NEW how \in Outcomes, Write(p, how) PROVE Excused' \/ Owes(p)'
  <2>1. /\ pc[p] = "write" /\ (Healthy' => Healthy) /\ UNCHANGED result
        /\ how = "part" => ~Healthy'
        /\ how = "dead" => ~wire'
        /\ how = "refused" => refused'
    BY <1>6, Zenon DEF Write, Healthy, Open
  <2>2. CASE how = "whole"
    <3>1. pc'[p] = "arm" /\ result'[p] = result[p]
      BY <1>4, <1>6, <2>2, Zenon DEF Write
    <3> QED BY <1>3, <2>1, <3>1, Zenon DEF Excused, Owes
  <2>3. CASE how \in {"none", "late"}
    <3>1. pc'[p] = "undoCtx" \/ ~Open'
      <4>1. CASE how = "late" \/ Open
        BY <1>4, <1>6, <2>3, <4>1, Zenon DEF Write
      <4>2. CASE how = "none" /\ ~Open
        BY <1>6, <4>2, Zenon DEF Write, Open
      <4> QED BY <2>3, <4>1, <4>2, Zenon
    <3> QED BY <3>1, Zenon DEF Excused, Owes, Healthy
  <2> QED BY <2>1, <2>2, <2>3, Zenon DEF Outcomes, Excused
<1>7. ASSUME NEW p \in Procs, Arm(p) \/ Abandon(p) PROVE Excused' \/ \E q \in Procs : Owes(q)'
  <2>1. UNCHANGED <<refused, ping, reader, wire, result>> /\ pc[p] \in {"arm", "wait"}
    BY <1>7, Zenon DEF Arm, Abandon, keepVars, readVars, closeVars
  <2>2. Healthy' => Healthy
    BY <1>7, Zenon DEF Arm, Abandon, closeVars, Healthy, Open
  <2>3. PICK x \in {"wait", "undoCtx"} : pc' = [pc EXCEPT ![p] = x]
    BY <1>7, Zenon DEF Arm, Abandon
  <2>4. pc'[p] = x /\ result'[p] = result[p] /\ \A q \in Procs : q # p => (Owes(q)' <=> Owes(q))
    BY <1>4, <2>1, <2>3, Zenon
  <2>5. Owes(p) => Owes(p)'
    BY <2>1, <2>4, Zenon DEF Owes
  <2>6. \A q \in Procs : Owes(q) => Owes(q)'
    BY <2>4, <2>5, Zenon
  <2> QED BY <1>2, <2>1, <2>2, <2>6, Zenon
<1>8. ASSUME NEW p \in Procs, Return(p) PROVE Excused' \/ \E q \in Procs : Owes(q)'
  <2>1. /\ UNCHANGED <<refused, ping, reader, wire, result>> /\ pc' = [pc EXCEPT ![p] = "idle"]
        /\ ~Owes(p)
    BY <1>8, Zenon DEF Return, keepVars, readVars, Owes
  <2>2. Healthy' => Healthy
    BY <1>8, Zenon DEF Return, Healthy, Open
  <2> QED BY <1>2, <1>4, <2>1, <2>2, Zenon
<1>9. ASSUME NEW p \in Procs, Undo(p) PROVE Excused' \/ \E q \in Procs : Owes(q)'
  <2>1. /\ UNCHANGED <<refused, ping, reader, wire, result>> /\ pc[p] \in {"undo", "undoCtx"}
        /\ pc' = [pc EXCEPT ![p] = IF pc[p] = "undo" THEN "fail" ELSE "rearm"]
    BY <1>9, Zenon DEF Undo, keepVars, readVars, closeVars
  <2>2. Healthy' => Healthy
    BY <1>9, Zenon DEF Undo, closeVars, Healthy, Open
  <2>3. Owes(p) => Owes(p)'
    BY <1>4, <2>1, Zenon DEF Owes
  <2> QED BY <1>2, <1>4, <2>1, <2>2, <2>3, Zenon
<1>10. ASSUME NEW p \in Procs, Rearm(p) PROVE Excused' \/ \E q \in Procs : Owes(q)'
  <2>1. CASE p \in Pings
    <3>1. ~Healthy'
      BY <1>10, <2>1, Zenon DEF Rearm, Healthy
    <3> QED BY <3>1, Zenon DEF Excused
  <2>2. CASE queueSchedule
    <3>1. Open' => ~stopped
      BY <1>10, Zenon DEF Rearm, KeepInv, Open
    <3> QED BY <2>2, <3>1, Zenon DEF Excused, Healthy, queueSchedule
  <2>3. CASE pc[p] = "fail" /\ UNCHANGED keepVars
    <3>1. /\ UNCHANGED <<refused, ping, reader, wire, result>> /\ pc' = [pc EXCEPT ![p] = "idle"]
          /\ ~Owes(p)
      BY <1>10, <2>3, Zenon DEF Rearm, keepVars, readVars, Owes
    <3>2. Healthy' => Healthy
      BY <1>10, Zenon DEF Rearm, Healthy, Open
    <3> QED BY <1>2, <1>4, <3>1, <3>2, Zenon
  <2> QED BY <1>10, <2>1, <2>2, <2>3, Zenon DEF Rearm
<1>11. ASSUME NEW p \in Procs, Register(p) PROVE Owes(p)'
  <2>1. pc' = [pc EXCEPT ![p] = "cancel"]
    BY <1>11, Zenon DEF Register
  <2> QED BY <2>1, Zenon DEF Owes, OnceInv, Typed
<1>12. ASSUME NEW p \in Pings, PingFires(p) PROVE Excused' \/ \E q \in Procs : Owes(q)'
  <2>1. Register(p) \/ ~Healthy'
    BY <1>12, Zenon DEF PingFires, Healthy
  <2> QED BY <1>11, <2>1, Zenon DEF Excused, Procs
<1>13. CASE Close \/ FinishRead \/ TearDown \/ FailPending \/ WireDrops \/ \E i \in IDs : HeaderTimeout(i)
  <2>1. ~Healthy' \/ ~wire'
    BY <1>13, Zenon DEF Close, FinishRead, TearDown, FailPending, WireDrops, HeaderTimeout, Healthy, Open
  <2> QED BY <2>1, Zenon DEF Excused
<1>14. CASE Complete
  <2>1. Open' => ~stopped
    BY <1>14, Zenon DEF Complete, KeepInv, Open, closeVars
  <2> QED BY <1>14, <2>1, Zenon DEF Complete, Excused, Healthy, queueSchedule
<1>15. CASE RoutePush \/ ReadFails \/ finishBootstrap \/ TakePush \/ PeerDies
  <2>1. UNCHANGED <<refused, ping, wire, pc, result, closing, closed, wantClose>>
    BY <1>15, Zenon DEF RoutePush, ReadFails, finishBootstrap, TakePush, PeerDies, keepVars, callVars,
                 closeVars
  <2>2. reader = "complete" => reader' = "complete"
    BY <1>15, Zenon DEF RoutePush, ReadFails, finishBootstrap, TakePush, PeerDies, readVars
  <2>3. Healthy' => Healthy
    BY <2>1, Zenon DEF Healthy, Open
  <2> QED BY <1>2, <2>1, <2>2, <2>3, Zenon DEF Owes
<1>16. ASSUME NEW pkt, Dispatch(pkt) PROVE Excused' \/ \E q \in Procs : Owes(q)'
  <2>1. UNCHANGED <<refused, ping, wire, pc, result, closing, closed, wantClose>> /\ reader = "read"
    BY <1>16, Zenon DEF Dispatch, keepVars, callVars, closeVars
  <2>2. Healthy' => Healthy
    BY <2>1, Zenon DEF Healthy, Open
  <2> QED BY <1>2, <2>1, <2>2, Zenon DEF Owes
<1> QED BY <1>5, <1>6, <1>7, <1>8, <1>9, <1>10, <1>11, <1>12, <1>13, <1>14, <1>15, <1>16, Zenon
        DEF Next, ClientStep, Begin, Procs, ReadReply, ReadPush

-----------------------------------------------------------------------------
(* The theorems under LateCancel = FALSE *)

\* The invariants together.
SessionInv == OnceInv /\ TimerInv /\ ReplyInv /\ KeepInv

\* The invariants hold initially.
LEMMA SessionStart ==
  ASSUME Init
  PROVE  SessionInv
<1>1. TimerInv
  BY Zenon DEF Init, TimerInv, RequestsKnown, TimersAgree, ArmingWritten, Registered, TimersMatch,
         TimerUnanswered, WrittenHasTimer
<1>2. ReplyInv
  BY Zenon DEF Init, ReplyInv, Completing, OwnReply
<1>3. KeepInv
  BY Zenon DEF Init, KeepInv
<1> QED BY <1>1, <1>2, <1>3, OnceStart, Zenon DEF SessionInv

\* The invariants hold always.
LEMMA SessionAlways ==
  ASSUME LateCancel = FALSE
  PROVE  Spec => []SessionInv
<1>1. ASSUME SessionInv, Next PROVE SessionInv'
  BY <1>1, OnceStep, TimerStep, ReplyStep, KeepStep, Zenon DEF SessionInv
<1>2. ASSUME SessionInv, UNCHANGED vars PROVE SessionInv'
  <2>1. /\ UNCHANGED <<pc, use, id, result, nextID, pending, timers, reader, packet, failing, unanswered>>
        /\ UNCHANGED <<ping, stopped, refused, closing, closed, wantClose, tearing, wire>>
    BY <1>2, Zenon DEF vars, callVars, tableVars, readVars, peerVars, closeVars, keepVars
  <2>2. OnceInv'
    BY <1>2, SameOnce, Zenon DEF SessionInv
  <2>3. Healthy' <=> Healthy
    BY <2>1, Zenon DEF Healthy, Open
  <2>4. TimerInv'
    BY <1>2, <2>1, <2>3, SameTimers, Zenon DEF SessionInv
  <2>5. ReplyInv'
    BY <1>2, <2>1, <2>3, Zenon DEF SessionInv, ReplyInv, Completing, OwnReply, CallOf, Healthy
  <2>6. KeepInv'
    BY <1>2, <2>1, <2>3, Zenon DEF SessionInv, KeepInv, Owes, Open
  <2> QED BY <2>2, <2>4, <2>5, <2>6, Zenon DEF SessionInv
<1> QED BY <1>1, <1>2, SessionStart, PTL DEF Spec

\* Receive-header timers are those of the written, unanswered requests, for any
\* number of goroutines, any range of packet IDs and any number of requests, if
\* a context does not end between the last byte and the check after it
\* (armHeaderTimeout, dispatchPacket and allocateRequestIDLocked).
THEOREM TimersOfUnanswered ==
  ASSUME LateCancel = FALSE
  PROVE  Spec => []TimersMatch
<1>1. SessionInv => TimersMatch
  BY Zenon DEF SessionInv, TimerInv
<1> QED BY <1>1, SessionAlways, PTL

\* A goroutine only receives the reply to its own request, however often packet
\* IDs wrap around, under the same condition: the timer of an abandoned request
\* holds its ID until the reply has come (dispatchPacket).
THEOREM RepliesAreOwn ==
  ASSUME LateCancel = FALSE
  PROVE  Spec => []OwnReply
<1>1. SessionInv => OwnReply
  BY Zenon DEF SessionInv, ReplyInv
<1> QED BY <1>1, SessionAlways, PTL

\* An idle session has its keepalive armed, under the same condition
\* (queueCancelRequest, queueSchedule and rearmAfterAbandon).
THEOREM IdleSessionPings ==
  ASSUME LateCancel = FALSE
  PROVE  Spec => []IdleHasKeepalive
<1>1. SessionInv => IdleHasKeepalive
  BY Zenon DEF SessionInv, KeepInv, IdleHasKeepalive, Owes, Healthy
<1> QED BY <1>1, SessionAlways, PTL

=============================================================================
