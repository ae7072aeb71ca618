----------------------------- MODULE Profiles -----------------------------
(***************************************************************************)
(* MEMBER requests for one user (profile_cooldown.go).  Rooms and          *)
(* connector instances share the user's stored record: a caller reserves   *)
(* an attempt by compare-and-swap, asks, and swaps the answer in over its  *)
(* own reservation.  A caller may die anywhere; answers may be late.       *)
(***************************************************************************)
EXTENDS Naturals

CONSTANTS
  Callers,     \* concurrent resolveMemberProfiles and storeMemberProfiles calls
  Cooldown,    \* memberProfileAttemptCooldown
  MaxTime,
  MaxRequests

VARIABLES
  record,      \* memberProfileRecord of the user
  call,        \* each caller
  asked,       \* source: the last request's attempt time, and whether a nickname followed
  requests,    \* source: MEMBER requests
  now

vars == <<record, call, asked, requests, now>>

\* The nickname is unknown, empty or usable.
NoRecord == [last |-> 0, next |-> 0, nick |-> "none"]
Idle == [pc |-> "idle", raw |-> NoRecord, refetch |-> FALSE, at |-> 0]

Init ==
  /\ record = NoRecord /\ call = [c \in Callers |-> Idle]
  /\ asked = [at |-> 0, settled |-> TRUE] /\ requests = 0 /\ now = 1

Tick ==
  /\ now < MaxTime /\ now' = now + 1 /\ UNCHANGED <<record, call, asked, requests>>

\* A restart is not held back by the cooldown.
MutantDue(r, refetch) == r.nick # "named" \/ (refetch /\ now >= r.next)

\* Whether resolveMemberProfiles asks at all.
Due(r, refetch) == (r.nick # "named" \/ refetch) /\ now >= r.next

\* resolveMemberProfiles: the read of the record
Resolve(c, refetch) ==
  /\ call[c] = Idle /\ requests < MaxRequests /\ Due(record, refetch)
  /\ call' = [call EXCEPT ![c] = [pc |-> "reserve", raw |-> record, refetch |-> refetch, at |-> now]]
  /\ UNCHANGED <<record, asked, requests, now>>

\* An unconditional write of the reservation.
MutantReserve(c) ==
  /\ call[c].pc = "reserve" /\ requests < MaxRequests
  /\ LET r == [call[c].raw EXCEPT !.last = call[c].at, !.next = call[c].at + Cooldown]
     IN record' = r /\ call' = [call EXCEPT ![c] = [@ EXCEPT !.pc = "ask", !.raw = r]]
  /\ asked' = [at |-> call[c].at, settled |-> FALSE] /\ requests' = requests + 1
  /\ UNCHANGED now

\* The reservation. The caller that loses it uses what is stored.
Reserve(c) ==
  /\ call[c].pc = "reserve"
  /\ \/ /\ record = call[c].raw /\ requests < MaxRequests
        /\ LET r == [record EXCEPT !.last = call[c].at, !.next = call[c].at + Cooldown]
           IN record' = r /\ call' = [call EXCEPT ![c] = [@ EXCEPT !.pc = "ask", !.raw = r]]
        /\ asked' = [at |-> call[c].at, settled |-> FALSE] /\ requests' = requests + 1
     \/ /\ record # call[c].raw
        /\ call' = [call EXCEPT ![c] = Idle] /\ UNCHANGED <<record, asked, requests>>
  /\ UNCHANGED now

NextAttempt(nick) == IF nick = "named" THEN now ELSE now + Cooldown

\* MEMBER answers with the user, and the answer is swapped in over the reservation.
Answered(c, nick) ==
  /\ call[c].pc = "ask" /\ call' = [call EXCEPT ![c] = Idle]
  /\ IF record = call[c].raw
     THEN /\ record' = [record EXCEPT !.nick = nick, !.next = NextAttempt(nick)]
          /\ asked' = [asked EXCEPT !.settled = (nick = "named")]
     ELSE UNCHANGED <<record, asked>>
  /\ UNCHANGED <<requests, now>>

\* MEMBER fails, omits the user, or the caller dies.
Unanswered(c) ==
  /\ call[c].pc # "idle" /\ call' = [call EXCEPT ![c] = Idle]
  /\ UNCHANGED <<record, asked, requests, now>>

\* storeMemberProfiles: a reply that carried the profile, read then swapped
StoreRead(c) ==
  /\ call[c] = Idle
  /\ call' = [call EXCEPT ![c] = [Idle EXCEPT !.pc = "store", !.raw = record]]
  /\ UNCHANGED <<record, asked, requests, now>>

Store(c, nick) ==
  /\ call[c].pc = "store" /\ call' = [call EXCEPT ![c] = Idle]
  /\ IF record = call[c].raw
     THEN /\ record' = [last |-> now, next |-> NextAttempt(nick), nick |-> nick]
          /\ asked' = [asked EXCEPT !.settled = @ \/ nick = "named"]
     ELSE UNCHANGED <<record, asked>>
  /\ UNCHANGED <<requests, now>>

Next ==
  \/ Tick
  \/ \E c \in Callers :
       \/ \E refetch \in BOOLEAN : Resolve(c, refetch)
       \/ Reserve(c) \/ Unanswered(c) \/ StoreRead(c)
       \/ \E nick \in {"empty", "named"} : Answered(c, nick) \/ Store(c, nick)

Spec == Init /\ [][Next]_vars

-----------------------------------------------------------------------------
\* "The attempt cooldown is bridge failure backoff, so failed/missing attempts cannot
\* storm after restart" (profile_cooldown.go): until a nickname was stored, attempts for
\* a user are a cooldown apart, whichever callers make them.
Spaced ==
  requests' > requests /\ requests > 0 /\ ~asked.settled => asked'.at >= asked.at + Cooldown
NoStorm == [][Spaced]_vars
=============================================================================
