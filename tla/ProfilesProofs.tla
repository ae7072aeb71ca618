--------------------------- MODULE ProfilesProofs ---------------------------
(***************************************************************************)
(* Requests for a member's profile are a cooldown apart, for any number of *)
(* callers and any cooldown.                                               *)
(***************************************************************************)
EXTENDS Profiles, TLAPS

Records == [last : Nat, next : Nat, nick : {"none", "empty", "named"}]
Calls == [pc : {"idle", "reserve", "ask", "store"}, raw : Records, refetch : BOOLEAN, at : Nat]

Typed ==
  /\ record \in Records /\ call \in [Callers -> Calls]
  /\ asked \in [at : Nat, settled : BOOLEAN] /\ requests \in Nat /\ now \in Nat

\* The inductive invariant.  An unsettled request holds the record back for a
\* cooldown, and a caller about to reserve saw a record that was due.
SpacedInv ==
  /\ Typed
  /\ asked.at <= now
  /\ requests > 0 /\ ~asked.settled => record.next >= asked.at + Cooldown
  /\ \A c \in Callers : call[c].pc = "reserve" => call[c].raw.next <= call[c].at /\ call[c].at <= now

\* A caller that starts, from the record it read at that moment.
LEMMA ResolveKeeps ==
  ASSUME Cooldown \in Nat, SpacedInv, NEW c \in Callers, NEW refetch \in BOOLEAN,
         Resolve(c, refetch)
  PROVE  SpacedInv' /\ requests' = requests
<1>1. now >= record.next /\ record \in Records /\ now \in Nat
  BY DEF Resolve, Due, SpacedInv, Typed
<1>2. [pc |-> "reserve", raw |-> record, refetch |-> refetch, at |-> now] \in Calls
  BY <1>1 DEF Calls
<1>3. Typed'
  BY <1>2 DEF Resolve, SpacedInv, Typed
<1>4. \A d \in Callers : call'[d].pc = "reserve" => call'[d].raw.next <= call'[d].at /\ call'[d].at <= now
  <2> TAKE d \in Callers
  <2>1. CASE d = c
    <3>1. call'[c] = [pc |-> "reserve", raw |-> record, refetch |-> refetch, at |-> now]
      BY DEF Resolve, SpacedInv, Typed
    <3> QED BY <2>1, <3>1, <1>1
  <2>2. CASE d # c
    <3>1. call'[d] = call[d]
      BY <2>2 DEF Resolve, SpacedInv, Typed
    <3> QED BY <3>1 DEF SpacedInv
  <2> QED BY <2>1, <2>2
<1> QED BY <1>3, <1>4 DEF Resolve, SpacedInv

\* What a call that becomes idle, or reads the record to store over it, leaves.
LEMMA CallLeaves ==
  ASSUME SpacedInv, NEW c \in Callers, NEW new \in Calls, new.pc # "reserve",
         call' = [call EXCEPT ![c] = new], UNCHANGED now
  PROVE  /\ call' \in [Callers -> Calls]
         /\ \A d \in Callers : call'[d].pc = "reserve" =>
              call'[d].raw.next <= call'[d].at /\ call'[d].at <= now'
BY DEF SpacedInv, Typed

\* Idle is a state of a call.
LEMMA IdleIsCall == Idle \in Calls /\ Idle.pc = "idle"
BY DEF Idle, Calls, Records, NoRecord

\* The compare-and-swap of the reservation, which sends the request.
LEMMA ReserveKeeps ==
  ASSUME Cooldown \in Nat, SpacedInv, NEW c \in Callers, Reserve(c)
  PROVE  SpacedInv' /\ Spaced
<1>1. CASE record = call[c].raw /\ requests < MaxRequests
             /\ record' = [record EXCEPT !.last = call[c].at, !.next = call[c].at + Cooldown]
             /\ call' = [call EXCEPT ![c] = [@ EXCEPT !.pc = "ask", !.raw = record']]
             /\ asked' = [at |-> call[c].at, settled |-> FALSE] /\ requests' = requests + 1
  <2>1. call[c] \in Calls /\ call[c].at \in Nat /\ call[c].raw.next <= call[c].at /\ call[c].at <= now
    BY DEF Reserve, SpacedInv, Typed, Calls
  <2>2. record' \in Records /\ record'.next = call[c].at + Cooldown
    <3>1. record' = [record EXCEPT !.last = call[c].at, !.next = call[c].at + Cooldown]
      BY <1>1
    <3>2. record \in Records /\ call[c].at + Cooldown \in Nat
      BY <2>1 DEF SpacedInv, Typed
    <3> QED BY <2>1, <3>1, <3>2 DEF Records
  <2>3. [call[c] EXCEPT !.pc = "ask", !.raw = record'] \in Calls
    BY <2>1, <2>2 DEF Calls
  <2>4. [call[c] EXCEPT !.pc = "ask", !.raw = record'].pc = "ask"
    BY <2>1 DEF Calls
  <2>5. call' = [call EXCEPT ![c] = [call[c] EXCEPT !.pc = "ask", !.raw = record']]
    BY <1>1
  <2>6. UNCHANGED now
    BY DEF Reserve
  <2>7. /\ call' \in [Callers -> Calls]
        /\ \A d \in Callers : call'[d].pc = "reserve" =>
             call'[d].raw.next <= call'[d].at /\ call'[d].at <= now'
    BY <2>3, <2>4, <2>5, <2>6, CallLeaves
  <2>8. asked'.at = call[c].at /\ asked' \in [at : Nat, settled : BOOLEAN]
    BY <1>1, <2>1
  <2>9. SpacedInv'
    BY <1>1, <2>1, <2>2, <2>6, <2>7, <2>8 DEF SpacedInv, Typed
  <2>10. Spaced
    BY <1>1, <2>1, <2>8 DEF Spaced, SpacedInv, Typed, Records
  <2> QED BY <2>9, <2>10
<1>2. CASE call' = [call EXCEPT ![c] = Idle] /\ UNCHANGED <<record, asked, requests>>
  <2>1. UNCHANGED now
    BY DEF Reserve
  <2>2. SpacedInv'
    BY <1>2, <2>1, IdleIsCall, CallLeaves DEF SpacedInv, Typed
  <2> QED BY <1>2, <2>2 DEF Spaced, SpacedInv, Typed
<1> QED BY <1>1, <1>2 DEF Reserve

\* An answer that is swapped in, by the caller that asked or from another reply.
LEMMA SwapKeeps ==
  ASSUME Cooldown \in Nat, SpacedInv, NEW c \in Callers, NEW nick \in {"empty", "named"},
         Answered(c, nick) \/ Store(c, nick)
  PROVE  SpacedInv' /\ requests' = requests
<1>1. call' = [call EXCEPT ![c] = Idle] /\ UNCHANGED <<requests, now>>
  BY DEF Answered, Store
<1>2. /\ call' \in [Callers -> Calls]
      /\ \A d \in Callers : call'[d].pc = "reserve" =>
           call'[d].raw.next <= call'[d].at /\ call'[d].at <= now'
  BY <1>1, IdleIsCall, CallLeaves
<1>3. NextAttempt(nick) \in Nat /\ (nick # "named" => NextAttempt(nick) = now + Cooldown)
  BY DEF NextAttempt, SpacedInv, Typed
<1>4. CASE UNCHANGED <<record, asked>>
  BY <1>1, <1>2, <1>4 DEF SpacedInv, Typed
<1>5. CASE /\ record' \in Records /\ record'.next = NextAttempt(nick)
           /\ asked' \in [at : Nat, settled : BOOLEAN] /\ asked'.at = asked.at
           /\ nick = "named" => asked'.settled
  BY <1>1, <1>2, <1>3, <1>5 DEF SpacedInv, Typed
<1>6. CASE record' = [record EXCEPT !.nick = nick, !.next = NextAttempt(nick)]
           /\ asked' = [asked EXCEPT !.settled = (nick = "named")]
  BY <1>3, <1>5, <1>6 DEF SpacedInv, Typed, Records
<1>7. CASE record' = [last |-> now, next |-> NextAttempt(nick), nick |-> nick]
           /\ asked' = [asked EXCEPT !.settled = @ \/ nick = "named"]
  BY <1>3, <1>5, <1>7 DEF SpacedInv, Typed, Records
<1> QED BY <1>1, <1>4, <1>6, <1>7 DEF Answered, Store

\* Every step keeps the invariant and the distance.
LEMMA StepSpaced ==
  ASSUME Cooldown \in Nat, SpacedInv, [Next]_vars
  PROVE  SpacedInv' /\ (Spaced \/ UNCHANGED vars)
<1>1. CASE UNCHANGED vars
  BY <1>1 DEF vars, SpacedInv, Typed
<1>2. CASE Tick
  BY <1>2 DEF Tick, SpacedInv, Typed, Spaced, Calls
<1>3. ASSUME NEW c \in Callers, NEW refetch \in BOOLEAN, Resolve(c, refetch)
      PROVE  SpacedInv' /\ Spaced
  BY <1>3, ResolveKeeps DEF Spaced, SpacedInv, Typed
<1>4. ASSUME NEW c \in Callers, Reserve(c)
      PROVE  SpacedInv' /\ Spaced
  BY <1>4, ReserveKeeps
<1>5. ASSUME NEW c \in Callers, Unanswered(c)
      PROVE  SpacedInv' /\ Spaced
  BY <1>5, IdleIsCall, CallLeaves DEF Unanswered, Spaced, SpacedInv, Typed
<1>6. ASSUME NEW c \in Callers, StoreRead(c)
      PROVE  SpacedInv' /\ Spaced
  <2>1. [Idle EXCEPT !.pc = "store", !.raw = record] \in Calls
    BY <1>6 DEF Idle, Calls, Records, NoRecord, SpacedInv, Typed
  <2>2. [Idle EXCEPT !.pc = "store", !.raw = record].pc = "store"
    BY DEF Idle
  <2> QED BY <1>6, <2>1, <2>2, CallLeaves DEF StoreRead, Spaced, SpacedInv, Typed
<1>7. ASSUME NEW c \in Callers, NEW nick \in {"empty", "named"},
             Answered(c, nick) \/ Store(c, nick)
      PROVE  SpacedInv' /\ Spaced
  BY <1>7, SwapKeeps DEF Spaced, SpacedInv, Typed
<1> QED BY <1>1, <1>2, <1>3, <1>4, <1>5, <1>6, <1>7 DEF Next

\* Until a nickname was stored, requests for a user are a cooldown apart, whichever
\* and however many callers make them, crash or answer late (profile_cooldown.go).
THEOREM ProfilesNeverStorm ==
  ASSUME Cooldown \in Nat
  PROVE  Spec => NoStorm
<1>1. Init => SpacedInv
  BY DEF Init, SpacedInv, Typed, Records, Calls, NoRecord, Idle
<1>2. SpacedInv /\ [Next]_vars => SpacedInv'
  BY StepSpaced
<1>3. SpacedInv /\ [Next]_vars => [Spaced]_vars
  BY StepSpaced
<1> QED BY <1>1, <1>2, <1>3, PTL DEF Spec, NoStorm
=============================================================================
