------------------------------- MODULE Route -------------------------------
(***************************************************************************)
(* How a connect attempt finds its carriage server (client/route.go and    *)
(* the first half of connectSession).  The GETCONF reply is stored on disk *)
(* and gives the pool of ticket addresses; CHECKIN walks the pool from a   *)
(* cursor and answers a route, cached in memory.  The servers change pools *)
(* and fail while attempts run; the process may restart.                   *)
(***************************************************************************)
EXTENDS Naturals

CONSTANTS
  Pools,       \* pools of ticket addresses that GETCONF may answer
  Sizes,       \* the number of addresses of each pool
  Attempts,    \* bookingAttempts
  MaxChanges   \* changes of the servers' state

VARIABLES
  pool,        \* servers: the pool in use
  up,          \* servers: its addresses that answer
  booking,     \* servers: GETCONF answers
  carriage,    \* servers: the carriage host answers
  stored,      \* the stored GETCONF reply: a pool, or 0
  route,       \* carriageRoute: a cached route is valid, the cursor, the pool's size
  at,          \* the attempt: pc, pool, tries, index, whether it came from disk
  calm,        \* no server changed or was down during the attempt
  failed,      \* attempts in a row that failed although they were calm
  changes

vars == <<pool, up, booking, carriage, stored, route, at, calm, failed, changes>>
serverVars == <<pool, up, booking, carriage, changes>>

Size(p) == Sizes[p]
Addresses(p) == 0..(Size(p) - 1)
Healthy == up # {} /\ booking /\ carriage
Idle == [pc |-> "idle", pool |-> 0, tries |-> 0, index |-> 0, disk |-> FALSE]

Init ==
  /\ pool \in Pools /\ up = Addresses(pool) /\ booking = TRUE /\ carriage = TRUE
  /\ stored \in Pools \cup {0} /\ route = [cached |-> FALSE, cursor |-> 0, size |-> 0]
  /\ at = Idle /\ calm = TRUE /\ failed = 0 /\ changes = 0

-----------------------------------------------------------------------------
\* The servers move to another state.
ServersChange(p, some, b, c) ==
  /\ changes < MaxChanges /\ changes' = changes + 1
  /\ pool' = p /\ up' = some /\ booking' = b /\ carriage' = c
  /\ <<pool, up, booking, carriage>>' # <<pool, up, booking, carriage>>
  /\ calm' = FALSE
  /\ UNCHANGED <<stored, route, at, failed>>

\* The cached route expires.
Expire ==
  /\ route.cached /\ route' = [route EXCEPT !.cached = FALSE]
  /\ UNCHANGED <<serverVars, stored, at, calm, failed>>

Restart ==
  /\ at.pc = "idle" /\ route.size > 0 /\ route' = [cached |-> FALSE, cursor |-> 0, size |-> 0]
  /\ UNCHANGED <<serverVars, stored, at, calm, failed>>

\* connectSession: GETCONF only when no reply is stored.
Connect ==
  /\ at.pc = "idle" /\ calm' = Healthy
  /\ at' = IF stored # 0 THEN [Idle EXCEPT !.pc = "dial", !.pool = stored, !.disk = TRUE]
                         ELSE [Idle EXCEPT !.pc = "conf"]
  /\ UNCHANGED <<serverVars, stored, route, failed>>

End(ok) ==
  /\ at' = [Idle EXCEPT !.pc = IF ok THEN "connected" ELSE "idle"]
  /\ failed' = IF ok \/ ~calm THEN 0 ELSE failed + 1

\* getConf: an accepted reply is saved, if that works.
GetConf(saved) ==
  /\ at.pc = "conf"
  /\ \/ /\ booking /\ stored' = IF saved THEN pool ELSE stored
        /\ at' = [at EXCEPT !.pc = "dial", !.pool = pool] /\ UNCHANGED failed
     \/ /\ ~booking /\ at.tries + 1 < Attempts /\ at' = [at EXCEPT !.tries = @ + 1]
        /\ UNCHANGED <<stored, failed>>
     \/ ~booking /\ at.tries + 1 >= Attempts /\ End(FALSE) /\ UNCHANGED stored
  /\ UNCHANGED <<serverVars, route, calm>>

\* dialCarriage: the cached route first; a dead one is dropped.
DialCached ==
  /\ at.pc = "dial" /\ route.cached
  /\ IF carriage THEN End(TRUE) /\ UNCHANGED route
                 ELSE route' = [route EXCEPT !.cached = FALSE] /\ UNCHANGED <<at, failed>>
  /\ UNCHANGED <<serverVars, stored, calm>>

\* walkStart: a cursor outside the pool starts at the first address.
WalkStart(size) == IF route.cursor >= size THEN 0 ELSE route.cursor

BeginWalk ==
  /\ at.pc = "dial" /\ ~route.cached
  /\ at' = [at EXCEPT !.pc = "walk", !.index = WalkStart(Size(at.pool))]
  /\ route' = [route EXCEPT !.cursor = WalkStart(Size(at.pool)), !.size = Size(at.pool)]
  /\ UNCHANGED <<serverVars, stored, calm, failed>>

Answers == at.pool = pool /\ at.index \in up

\* checkin: an address that fails is followed by the next one.
WalkOn ==
  /\ at.pc = "walk" /\ at.index < Size(at.pool) /\ ~Answers
  /\ at' = [at EXCEPT !.index = @ + 1]
  /\ UNCHANGED <<serverVars, stored, route, calm, failed>>

MutantRebooks == FALSE

\* A walk over the stored pool that fails is the trigger to book again.
Rebooks == at.disk

\* The walk is exhausted and the next one starts at the first address.
Exhausted ==
  /\ at.pc = "walk" /\ at.index >= Size(at.pool)
  /\ route' = [route EXCEPT !.cursor = 0]
  /\ IF Rebooks THEN at' = [Idle EXCEPT !.pc = "conf"] /\ UNCHANGED failed ELSE End(FALSE)
  /\ UNCHANGED <<serverVars, stored, calm>>

\* The reply's route is cached and dialed.
Checkin ==
  /\ at.pc = "walk" /\ Answers /\ End(carriage)
  /\ route' = [route EXCEPT !.cached = carriage, !.cursor = at.index]
  /\ UNCHANGED <<serverVars, stored, calm>>

\* The session ends; CHANGESVR drops the route and moves the cursor on.
Disconnect(change) ==
  /\ at.pc = "connected" /\ at' = Idle
  /\ route' = IF ~change THEN route
              ELSE [route EXCEPT !.cached = FALSE,
                                 !.cursor = IF @ + 1 < route.size THEN @ + 1 ELSE @]
  /\ UNCHANGED <<serverVars, stored, calm, failed>>

-----------------------------------------------------------------------------
Next ==
  \/ Expire \/ Restart \/ Connect \/ DialCached \/ BeginWalk \/ WalkOn \/ Exhausted \/ Checkin
  \/ \E b \in BOOLEAN : GetConf(b) \/ Disconnect(b)
  \/ \E p \in Pools, b, c \in BOOLEAN : \E some \in SUBSET Addresses(p) : ServersChange(p, some, b, c)

Spec == Init /\ [][Next]_vars

-----------------------------------------------------------------------------
\* Old routing state costs at most one attempt: with servers that answer
\* throughout, two attempts in a row never fail, whatever pool was stored, route
\* cached or cursor left behind (connectSession, dialCarriage, checkin).
StaleCostsOne == failed <= 1
=============================================================================
