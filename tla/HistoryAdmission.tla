-------------------------- MODULE HistoryAdmission --------------------------
(***************************************************************************)
(* Pacing of the read-only requests that history needs                     *)
(* (history_admission.go, history_account.go, history_http.go) and the     *)
(* cache of downloaded resources in front of it (history_resource_cache.go).*)
(* Profiles of one account, in one process or in several, share a cooldown *)
(* record on disk.  A demand is coalesced with an equal one of its profile,*)
(* takes the profile's gate, the process's gate and the account's file     *)
(* lease, waits out the cooldown and then sends.  Any process may crash.   *)
(***************************************************************************)
EXTENDS Naturals, FiniteSets, Sequences

CONSTANTS
  Profiles, Processes, Demands, Keys,
  Resources,    \* the keys whose answers are cached: not pages of messages
  Interval,     \* MinimumInterval
  Backoff,      \* ErrorBackoff, at least Interval
  MaxPending,
  MaxExchanges, \* the 16 exchanges of one admitted dependency
  CacheBudget,  \* resources that fit the cache
  MaxTime,      \* bound on the clock
  MaxFaults     \* bound on crashes and failed writes

VARIABLES
  proc,     \* the process a profile is opened in
  legacy,   \* NextAllowed in a profile's own file of an older version
  now,
  disk,     \* the account's record: next allowed, last finish, last error
  profile,  \* "open", "stopping" or "joined"
  poisoned, \* processes whose gate saw a failed write
  demand,   \* where each demand is, of which profile, for which key, its exchanges
  cache,    \* each profile's resources, the least recently used first
  floor,    \* history: when the account may be asked again
  early,    \* history: a request was sent before that
  twice,    \* history: a resource was downloaded although cached
  faults

vars == <<proc, legacy, now, disk, profile, poisoned, demand, cache, floor, early,
          twice, faults>>

Later(s, t) == IF s < t THEN t ELSE s
Latest(S) == CHOOSE t \in S : \A s \in S : s <= t
IdleDemand == [pc |-> "idle", a |-> "none", k |-> "none", n |-> 0, end |-> 0]
NoRecord == [next |-> 0, finished |-> 0, error |-> 0]

Init ==
  /\ proc \in [Profiles -> Processes]
  /\ legacy \in [Profiles -> {0, Backoff}]
  /\ now = 1 /\ disk = NoRecord
  /\ profile = [a \in Profiles |-> "open"]
  /\ poisoned = {} /\ faults = 0
  /\ demand = [d \in Demands |-> IdleDemand]
  /\ cache = [a \in Profiles |-> <<>>]
  /\ floor = 0 /\ early = FALSE /\ twice = FALSE

-----------------------------------------------------------------------------
\* Demands past the given points; the gates and the lease are held from one of
\* these on.
AtGate == {"account", "lease", "wait", "fetch", "sending"}
AtAccount == AtGate \ {"account"}
AtLease == AtAccount \ {"lease"}

Of(a) == {d \in Demands : demand[d].pc # "idle" /\ demand[d].a = a}
In(q) == {d \in Demands : demand[d].pc # "idle" /\ proc[demand[d].a] = q}
Holding(S, pcs) == {d \in S : demand[d].pc \in pcs}
Leads(d) == demand[d].pc \in AtGate \cup {"gate"}
Goes(d, where) == demand' = [demand EXCEPT ![d].pc = where]

Stopped(a) == profile[a] # "open"

\* finishDemand: the last demand of a stopped profile lets it go.
JoinIfIdle(a, left) ==
  profile' = IF Stopped(a) /\ left = {} THEN [profile EXCEPT ![a] = "joined"] ELSE profile

\* A demand returns.  A leader closes its flight, so its followers return too.
Finish(d) ==
  LET a == demand[d].a
      gone == IF Leads(d)
                THEN {e \in Of(a) : e = d \/ (demand[e].pc = "follow" /\ demand[e].k = demand[d].k)}
                ELSE {d}
  IN  /\ demand' = [e \in Demands |-> IF e \in gone THEN IdleDemand ELSE demand[e]]
      /\ JoinIfIdle(a, {e \in Of(a) : demand[e].pc # "missed"} \ gone)

\* A process without an open profile drops its gate, and with it the poison.
GateKept(q) == \E a \in Profiles : proc[a] = q /\ profile'[a] # "joined"

Touch(s, k) == Append(SelectSeq(s, LAMBDA x : x # k), k)
\* put: the least recently used resources make room.
Put(s, k) ==
  LET t == Touch(s, k)
  IN  IF Len(t) <= CacheBudget THEN t ELSE SubSeq(t, Len(t) - CacheBudget + 1, Len(t))

Cached(a, k) == \E i \in DOMAIN cache[a] : cache[a][i] = k
Keep(s, k) == IF k \in Resources THEN Put(s, k) ELSE s

-----------------------------------------------------------------------------
(* A demand before the gates: AcquireHistoryResource, run and exchange *)

\* A cached resource is returned at once.
CacheHit(d, a, k) ==
  /\ demand[d].pc = "idle" /\ profile[a] = "open" /\ Cached(a, k)
  /\ cache' = [cache EXCEPT ![a] = Touch(@, k)]
  /\ UNCHANGED <<proc, legacy, now, disk, profile, poisoned, demand, floor, early,
                 twice, faults>>

CacheMiss(d, a, k) ==
  /\ demand[d].pc = "idle" /\ profile[a] = "open" /\ ~Cached(a, k)
  /\ demand' = [demand EXCEPT ![d] = [pc |-> "missed", a |-> a, k |-> k, n |-> 0, end |-> 0]]
  /\ UNCHANGED <<proc, legacy, now, disk, profile, poisoned, cache, floor, early,
                 twice, faults>>

Reserved(S) == Cardinality({d \in S : demand[d].pc # "missed"})

\* reserveDemand without its refusals.
MutantAdmits(a) == TRUE

\* reserveDemand: not of a stopped profile, not past the limit of the profile or
\* of its process.
Admits(a) == ~Stopped(a) /\ Reserved(Of(a)) < MaxPending /\ Reserved(In(proc[a])) < MaxPending

\* The demand follows an equal flight of its profile or leads one.
Reserve(d) ==
  LET a == demand[d].a
      flight == \E e \in Of(a) : Leads(e) /\ demand[e].k = demand[d].k
  IN  /\ demand[d].pc = "missed"
      /\ IF Admits(a) THEN Goes(d, IF flight THEN "follow" ELSE "gate")
         ELSE demand' = [demand EXCEPT ![d] = IdleDemand]
      /\ UNCHANGED <<proc, legacy, now, disk, profile, poisoned, cache, floor, early,
                     twice, faults>>

-----------------------------------------------------------------------------
(* dispatchHistory and acquireAccount *)

Gate(d) ==
  /\ demand[d].pc = "gate" /\ Holding(Of(demand[d].a), AtGate) = {} /\ Goes(d, "account")
  /\ UNCHANGED <<proc, legacy, now, disk, profile, poisoned, cache, floor, early,
                 twice, faults>>

Account(d) ==
  LET q == proc[demand[d].a]
  IN  /\ demand[d].pc = "account" /\ Holding(In(q), AtAccount) = {}
      /\ IF q \in poisoned THEN Finish(d) ELSE Goes(d, "lease") /\ UNCHANGED profile
      /\ UNCHANGED <<proc, legacy, now, disk, poisoned, cache, floor, early, twice, faults>>

\* The cooldowns of older versions that the process knows of; every profile has a
\* directory of its own.
LegacyFloor(q) == Latest({0} \cup {legacy[a] : a \in {b \in Profiles : proc[b] = q}})

\* Under the file lease the record is reloaded and older cooldowns are imported.
Lease(d) ==
  LET next == Later(disk.next, LegacyFloor(proc[demand[d].a]))
  IN  /\ demand[d].pc = "lease" /\ Holding(Demands, AtLease) = {} /\ Goes(d, "wait")
      /\ disk' = IF next > now THEN [disk EXCEPT !.next = next] ELSE disk
      /\ UNCHANGED <<proc, legacy, now, profile, poisoned, cache, floor, early, twice,
                     faults>>

\* The end of the cooldown: the record's, and what this policy adds to it.
Allowed ==
  Latest({disk.next, IF disk.finished = 0 THEN 0 ELSE disk.finished + Interval,
          IF disk.error = 0 THEN 0 ELSE disk.error + Backoff})

\* persist
Persist(record) ==
  disk' = record

Reservation == [disk EXCEPT !.error = now, !.next = now + Backoff]

MutantBegin(d) ==
  /\ demand[d].pc = "wait" /\ now >= Allowed /\ Persist(Reservation)
  /\ Goes(d, "sending")
  /\ early' = (early \/ now < floor \/ now < legacy[demand[d].a])
  /\ floor' = now + Backoff
  /\ UNCHANGED <<proc, legacy, now, profile, poisoned, cache, twice, faults>>

\* The error cooldown is reserved before anything is sent; a resource that was
\* cached meanwhile is not downloaded.
Begin(d) ==
  /\ demand[d].pc = "wait" /\ now >= Allowed /\ Persist(Reservation)
  /\ Goes(d, IF Cached(demand[d].a, demand[d].k) THEN "fetch" ELSE "sending")
  /\ IF Cached(demand[d].a, demand[d].k) THEN UNCHANGED <<floor, early, twice>>
     ELSE /\ early' = (early \/ now < floor \/ now < legacy[demand[d].a])
          /\ floor' = now + Backoff /\ UNCHANGED twice
  /\ UNCHANGED <<proc, legacy, now, profile, poisoned, cache, faults>>

\* One physical exchange ends; its body was read and closed.
Answered(d) ==
  /\ demand[d].pc = "sending"
  /\ demand' = [demand EXCEPT ![d].pc = "fetch", ![d].n = @ + 1, ![d].end = now]
  /\ twice' = (twice \/ Cached(demand[d].a, demand[d].k))
  /\ UNCHANGED <<proc, legacy, now, disk, profile, poisoned, cache, floor, early, faults>>

MutantExchange(d) ==
  /\ demand[d].pc = "fetch" /\ demand[d].n \in 1..(MaxExchanges - 1)
  /\ now >= demand[d].end + Interval
  /\ Goes(d, "sending") /\ floor' = now + Backoff
  /\ UNCHANGED <<proc, legacy, now, disk, profile, poisoned, cache, early, twice, faults>>

\* roundTrip: a redirect or a second request of the same dependency keeps the
\* interval and renews the reservation.
Exchange(d) ==
  /\ demand[d].pc = "fetch" /\ demand[d].n \in 1..(MaxExchanges - 1)
  /\ now >= demand[d].end + Interval
  /\ Persist(Reservation) /\ Goes(d, "sending") /\ floor' = now + Backoff
  /\ UNCHANGED <<proc, legacy, now, profile, poisoned, cache, early, twice, faults>>

\* The dependency is complete: the resource is cached and the shorter interval
\* replaces the reservation.
Succeed(d) ==
  /\ demand[d].pc = "fetch" /\ Finish(d)
  /\ cache' = [cache EXCEPT ![demand[d].a] = Keep(@, demand[d].k)]
  /\ Persist([next |-> now + Interval, finished |-> now, error |-> 0])
  /\ floor' = IF demand[d].n = 0 THEN floor ELSE now + Interval
  /\ UNCHANGED <<proc, legacy, now, poisoned, early, twice, faults>>

\* A request fails, or its context ends while it is under way.
Fail(d) ==
  /\ demand[d].pc \in {"sending", "fetch"} /\ Finish(d)
  /\ Persist(Reservation)
  /\ floor' = IF demand[d].pc = "fetch" /\ demand[d].n = 0 THEN floor ELSE now + Backoff
  /\ UNCHANGED <<proc, legacy, now, poisoned, cache, early, twice, faults>>

\* A write of the record fails: the demand ends, and so does the process's
\* history until its gate is opened anew.
WriteFails(d) ==
  /\ demand[d].pc \in {"wait", "fetch", "sending"} /\ faults < MaxFaults /\ Finish(d)
  /\ demand[d].pc = "wait" => now >= Allowed
  /\ poisoned' = IF GateKept(proc[demand[d].a]) THEN poisoned \cup {proc[demand[d].a]}
                 ELSE poisoned
  /\ faults' = faults + 1
  /\ UNCHANGED <<proc, legacy, now, disk, cache, floor, early, twice>>

\* The caller's context or the profile ends before anything was sent.
Cancel(d) ==
  /\ demand[d].pc \in {"gate", "account", "lease", "wait", "follow"} /\ Finish(d)
  /\ poisoned' = {q \in poisoned : GateKept(q)}
  /\ UNCHANGED <<proc, legacy, now, disk, cache, floor, early, twice, faults>>

-----------------------------------------------------------------------------
\* stop
Stop(a) ==
  /\ profile[a] = "open"
  /\ profile' = [profile EXCEPT ![a] = IF Reserved(Of(a)) = 0 THEN "joined" ELSE "stopping"]
  /\ poisoned' = {q \in poisoned : GateKept(q)}
  /\ UNCHANGED <<proc, legacy, now, disk, demand, cache, floor, early, twice, faults>>

\* openAccountHistoryAdmission
Open(a) ==
  /\ profile[a] = "joined" /\ Of(a) = {} /\ now < MaxTime
  /\ profile' = [profile EXCEPT ![a] = "open"]
  /\ UNCHANGED <<proc, legacy, now, disk, poisoned, demand, cache, floor, early, twice,
                 faults>>

\* The process ends and the system frees its file lease.
Crash(q) ==
  /\ faults < MaxFaults /\ faults' = faults + 1
  /\ profile' = [a \in Profiles |-> IF proc[a] = q THEN "joined" ELSE profile[a]]
  /\ demand' = [d \in Demands |-> IF d \in In(q) THEN IdleDemand ELSE demand[d]]
  /\ poisoned' = poisoned \ {q}
  /\ UNCHANGED <<proc, legacy, now, disk, cache, floor, early, twice>>

Tick ==
  /\ now < MaxTime /\ now' = now + 1
  /\ UNCHANGED <<proc, legacy, disk, profile, poisoned, demand, cache, floor, early,
                 twice, faults>>

Next ==
  \/ \E d \in Demands : \E a \in Profiles, k \in Keys : CacheHit(d, a, k) \/ CacheMiss(d, a, k)
  \/ \E d \in Demands :
       \/ Reserve(d) \/ Gate(d) \/ Account(d) \/ Lease(d) \/ Begin(d) \/ Answered(d)
       \/ Exchange(d) \/ Succeed(d) \/ Fail(d) \/ WriteFails(d) \/ Cancel(d)
  \/ \E a \in Profiles : Stop(a) \/ Open(a)
  \/ \E q \in Processes : Crash(q)
  \/ Tick

Spec == Init /\ [][Next]_vars

-----------------------------------------------------------------------------
\* Across profiles, processes, crashes and lost answers no request reaches the
\* account before the cooldown of the previous one is over, the longer one
\* unless that request is known to have succeeded (dispatchHistory, "A process
\* crash or lost response must not reset admission").
Paced == ~early

\* Once a stopped profile reported that it is joined, none of its demands is
\* admitted any more, so closing the client leaves nothing behind that could
\* still write (historyAdmission.stop, finishStopped).
JoinedIsQuiet ==
  \A a \in Profiles : profile[a] = "joined" => Reserved(Of(a)) = 0

\* Two callers that miss the same resource cause one download, whichever of them
\* is overtaken between the cache and the gate (AcquireHistoryResource).
NoDoubleDownload == ~twice
=============================================================================
