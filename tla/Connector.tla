----------------------------- MODULE Connector -----------------------------
(***************************************************************************)
(* The connection lifecycle of the bridge connector (lifecycle.go): calls  *)
(* of Connect and the retry worker run connectOnce, a connected session    *)
(* has an event pump, a pump whose session could not be shut down leaves a *)
(* cleanup worker, and Disconnect is called by the bridge, the operator's  *)
(* reconnect command and the watchdog of a recovery episode.  A critical   *)
(* section of connLifecycle.mu is a step.  Time is abstracted: a delay     *)
(* ends at some point, and a deadline may pass at any point.               *)
(***************************************************************************)
EXTENDS Naturals, FiniteSets

CONSTANTS
  Clients,     \* names of Kakao clients; one that is gone may be opened anew
  Attempts,    \* names of goroutines in connectOnce
  Callers,     \* who calls Disconnect besides the watchdog
  Starts,      \* the generations a Connect may start
  MaxStops,    \* the last generation a caller may stop
  MaxFaults    \* bound on timed-out shutdowns

ASSUME ConnectorAssumption ==
  /\ Starts \subseteq Nat /\ MaxStops \in Nat /\ MaxFaults \in Nat
  /\ Callers \subseteq {"bridge", "operator"}
  /\ "none" \notin Clients \cup Attempts

VARIABLES
  lease,       \* the client that holds the profile lease
  client,      \* the connected session
  cleanup,     \* the retained profile owner
  busy,        \* retained.busy: a Shutdown of the owner is in flight
  ownerPump,   \* retained.pumpDone, as the client whose pump closes it
  generation, stopping, lifecycle,
  connecting,  \* connectingGeneration while connecting, else 0
  connectOf,   \* the attempt connectCancel cancels
  cancelled,   \* attempts whose context was cancelled
  retry,       \* the attempt in the retry worker's slot
  cleanupRetry, \* the client whose cleanup worker holds its slot
  cleanupRetries, \* cleanupRetryAttempts
  active, gaveUp, \* the recovery schedule
  watchdog,    \* the generation its armed timer is for, or 0
  kicked,      \* the login's metadata records a KICKOUT
  at,          \* attempts: where, why, generation, client, error
  pump,        \* event pumps: where, generation, what ended the stream
  janitor,     \* cleanup workers: where, and whether cancelled
  stop,        \* Disconnect calls: where, the plan
  detached,    \* the reconciliation command's client, and where it is
  halted,      \* history: why recovery stopped, if it did: "operator" or "open"
  faults

ownerVars == <<lease, client, cleanup, busy, ownerPump>>
genVars == <<generation, stopping, lifecycle, connecting, connectOf>>
workVars == <<cancelled, retry, cleanupRetry, cleanupRetries>>
planVars == <<active, gaveUp, watchdog, kicked, halted>>
procVars == <<at, pump, janitor, stop, detached>>
vars == <<ownerVars, genVars, workVars, planVars, procVars, faults>>

Stoppers == Callers \cup {"watchdog"}
IdleAttempt == [pc |-> "idle", kind |-> "none", gen |-> 0, c |-> "none", err |-> "none"]
NoPump == [pc |-> "none", gen |-> 0, note |-> "none"]
NoJanitor == [pc |-> "none", gen |-> 0, recovers |-> FALSE, cancelled |-> FALSE]
IdleStop == [pc |-> "idle", c |-> "none", pump |-> "none", other |-> FALSE]

Init ==
  /\ lease = "none" /\ client = "none" /\ cleanup = "none" /\ busy = FALSE
  /\ ownerPump = "none"
  /\ generation = 0 /\ stopping = FALSE /\ lifecycle = FALSE
  /\ connecting = 0 /\ connectOf = "none" /\ cancelled = {}
  /\ retry = "none" /\ cleanupRetry = "none" /\ cleanupRetries = 0
  /\ active = FALSE /\ gaveUp = FALSE /\ watchdog = 0
  /\ kicked = FALSE /\ halted = "none" /\ faults = 0
  /\ at = [p \in Attempts |-> IdleAttempt]
  /\ pump = [c \in Clients |-> NoPump]
  /\ janitor = [c \in Clients |-> NoJanitor]
  /\ stop = [d \in Stoppers |-> IdleStop]
  /\ detached = [pc |-> "idle", c |-> "none"]

-----------------------------------------------------------------------------
(* Helpers *)

Idle(p) == at[p].pc = "idle"
Go(p, where) == at' = [at EXCEPT ![p].pc = where]

\* A client nothing refers to any more, to be opened as a new one.
Unused(c) ==
  /\ c \notin {lease, client, cleanup, ownerPump, cleanupRetry, detached.c}
  /\ pump[c].pc = "none" /\ janitor[c].pc = "none"
  /\ \A p \in Attempts : at[p].c # c
  /\ \A d \in Stoppers : stop[d].c # c /\ stop[d].pump # c

\* What client.Shutdown does within its deadline: it gives the profile up, or
\* the deadline passes and the client still owns it.
Shutdown(c, ok) ==
  /\ lease' = IF ok /\ lease = c THEN "none" ELSE lease
  /\ IF ok THEN UNCHANGED faults
     ELSE lease = c /\ faults < MaxFaults /\ faults' = faults + 1

\* retain
Retain(c) == cleanup' = c /\ busy' = FALSE /\ ownerPump' = "none"

\* release
Release(c, ok) ==
  IF cleanup # c THEN UNCHANGED <<cleanup, busy, ownerPump>>
  ELSE /\ busy' = FALSE
       /\ cleanup' = IF ok THEN "none" ELSE cleanup
       /\ ownerPump' = IF ok THEN "none" ELSE ownerPump

\* Shutdown of c and release, as all but Disconnect do.
ShutdownAndRelease(c, ok) == Shutdown(c, ok) /\ Release(c, ok) /\ UNCHANGED client

Current(gen) == generation = gen /\ ~stopping

\* startRetryLocked: another goroutine waits out the delay in the worker's slot.
StartRetry(q, gen, rest) ==
  /\ Idle(q)
  /\ at' = [rest EXCEPT ![q] = [pc |-> "wait", kind |-> "retry", gen |-> gen,
                                c |-> "none", err |-> "none"]]
  /\ retry' = q /\ cancelled' = cancelled \ {q}

\* The pump of client c has closed its done channel.
PumpClosed(c) == c # "none" => pump[c].pc \notin {"run", "classify", "record"}

-----------------------------------------------------------------------------
(* Connect and the retry worker *)

\* Connect: refused while a session, an owner or an attempt exists, and after a
\* KICKOUT.  Otherwise a new generation and a fresh episode.
Connect(p) ==
  /\ Idle(p) /\ generation + 1 \in Starts
  /\ client = "none" /\ cleanup = "none" /\ connecting = 0 /\ ~kicked
  /\ stopping' = FALSE /\ lifecycle' = TRUE /\ generation' = generation + 1
  /\ connecting' = generation' /\ connectOf' = p /\ cancelled' = cancelled \ {p}
  /\ active' = FALSE /\ gaveUp' = FALSE /\ watchdog' = 0 /\ halted' = "none"
  /\ at' = [at EXCEPT ![p] = [pc |-> "open", kind |-> "connect", gen |-> generation',
                              c |-> "none", err |-> "none"]]
  /\ UNCHANGED <<ownerVars, retry, cleanupRetry, cleanupRetries, kicked, pump,
                 janitor, stop, detached, faults>>

\* The worker's goroutine ends and clears its slot, unless it was superseded.
EndRetry(p) ==
  /\ at' = [at EXCEPT ![p] = IdleAttempt]
  /\ retry' = IF retry = p THEN "none" ELSE retry
  /\ cancelled' = cancelled \ {p}

(* The delay of a retry ends.  It is at least 100 ms, in which the attempt *)
(* or the pump that asked for the retry has returned.                      *)
Wake(p) ==
  /\ at[p].pc = "wait" /\ \A q \in Attempts : at[q].pc # "clear"
  /\ IF ~Current(at[p].gen) \/ client # "none" \/ cleanup # "none" \/ retry # p
       THEN EndRetry(p) /\ UNCHANGED <<connecting, connectOf>>
       ELSE /\ connecting' = at[p].gen /\ connectOf' = p /\ Go(p, "open")
            /\ UNCHANGED <<retry, cancelled>>
  /\ UNCHANGED <<ownerVars, generation, stopping, lifecycle, cleanupRetry,
                 cleanupRetries, planVars, pump, janitor, stop, detached, faults>>

\* Its context was cancelled during the delay.
WaitCancelled(p) ==
  /\ at[p].pc = "wait" /\ p \in cancelled /\ EndRetry(p)
  /\ UNCHANGED <<ownerVars, genVars, cleanupRetry, cleanupRetries, planVars, pump,
                 janitor, stop, detached, faults>>

\* kc.open: the lease admits one owner.
Open(p, c) ==
  /\ at[p].pc = "open" /\ lease = "none" /\ Unused(c)
  /\ lease' = c
  /\ at' = [at EXCEPT ![p].pc = "check", ![p].c = c]
  /\ UNCHANGED <<client, cleanup, busy, ownerPump, genVars, workVars, planVars, pump,
                 janitor, stop, detached, faults>>

\* A profile that cannot be opened ends the attempt without a retry.  On an
\* explicit Connect the bridge state asks for the operator.
OpenFails(p) ==
  /\ at[p].pc = "open" /\ Go(p, "clear")
  /\ halted' = IF ~Current(at[p].gen) THEN halted
               ELSE IF at[p].kind = "connect" THEN "operator" ELSE "open"
  /\ UNCHANGED <<ownerVars, genVars, workVars, active, gaveUp, watchdog, kicked,
                 pump, janitor, stop, detached, faults>>

\* isCurrent, after the profile was opened.
CheckCurrent(p) ==
  /\ at[p].pc = "check"
  /\ Go(p, IF Current(at[p].gen) /\ p \notin cancelled THEN "retain" ELSE "stale")
  /\ UNCHANGED <<ownerVars, genVars, workVars, planVars, pump, janitor, stop,
                 detached, faults>>

MutantStale(p) ==
  /\ at[p].pc = "stale" /\ Go(p, "force")
  /\ UNCHANGED <<ownerVars, genVars, workVars, planVars, pump, janitor, stop,
                 detached, faults>>

\* A superseded bootstrap becomes the owner only to be shut down.
Stale(p) ==
  /\ at[p].pc = "stale" /\ Go(p, "force")
  /\ IF cleanup = "none" THEN Retain(at[p].c) ELSE UNCHANGED <<cleanup, busy, ownerPump>>
  /\ UNCHANGED <<lease, client, genVars, workVars, planVars, pump, janitor, stop,
                 detached, faults>>

MutantRetainOwner(p) ==
  /\ at[p].pc = "retain" /\ Go(p, "login")
  /\ Retain(at[p].c)
  /\ active' = TRUE
  /\ UNCHANGED <<lease, client, genVars, workVars, watchdog, gaveUp, kicked, halted,
                 pump, janitor, stop, detached, faults>>

\* The owner is retained before anything blocks, and the attempt begins an
\* episode, with its watchdog, unless one is running.
RetainOwner(p) ==
  /\ at[p].pc = "retain" /\ Go(p, "login")
  /\ Retain(at[p].c)
  /\ active' = TRUE /\ watchdog' = IF active THEN watchdog ELSE at[p].gen
  /\ UNCHANGED <<lease, client, genVars, workVars, gaveUp, kicked, halted, pump,
                 janitor, stop, detached, faults>>

\* connectAndSubscribe; err says how retryableRecoveryError sees its error.  A
\* client shut down meanwhile fails.  Its round trips outlast the step from
\* openDetached's check to its open.
Login(p, err) ==
  /\ at[p].pc = "login" /\ (err = "none" => lease = at[p].c) /\ detached.pc # "open"
  /\ at' = [at EXCEPT ![p].pc = IF err = "none" THEN "adopt" ELSE "fail", ![p].err = err]
  /\ UNCHANGED <<ownerVars, genVars, workVars, planVars, pump, janitor, stop,
                 detached, faults>>

\* Where connectOnce goes on after shutdownBootstrap.
AfterShutdown(p) == IF at[p].err = "none" THEN "clear" ELSE "report"

\* shutdownBootstrap up to its Shutdown; "fail" leaves it to a Disconnect.
ShutdownBootstrap(p) ==
  /\ at[p].pc \in {"fail", "force"}
  /\ IF cleanup = at[p].c /\ ~busy /\ (at[p].pc = "force" \/ ~stopping)
       THEN busy' = TRUE /\ Go(p, "shutting")
       ELSE UNCHANGED busy /\ Go(p, AfterShutdown(p))
  /\ UNCHANGED <<lease, client, cleanup, ownerPump, genVars, workVars, planVars, pump,
                 janitor, stop, detached, faults>>

BootstrapShut(p, ok) ==
  /\ at[p].pc = "shutting" /\ Go(p, AfterShutdown(p))
  /\ ShutdownAndRelease(at[p].c, ok)
  /\ UNCHANGED <<genVars, workVars, planVars, pump, janitor, stop, detached>>

\* retryAfter, for a retryable error; again says whether schedule.failed finds
\* the next attempt to run before the watchdog.
ReportRetry(p, again) ==
  /\ at[p].pc = "report" /\ at[p].err = "retry"
  /\ LET rest == [at EXCEPT ![p].pc = "clear"]
     IN  IF Current(at[p].gen)
           THEN /\ active' = TRUE
                /\ IF again THEN \E q \in Attempts : StartRetry(q, at[p].gen, rest)
                   ELSE at' = rest /\ UNCHANGED <<retry, cancelled>>
           ELSE at' = rest /\ UNCHANGED <<active, retry, cancelled>>
  /\ UNCHANGED <<ownerVars, genVars, cleanupRetry, cleanupRetries, gaveUp, watchdog,
                 kicked, halted, pump, janitor, stop, detached, faults>>

\* Any other error is for the operator: endEpisode.
ReportTerminal(p) ==
  /\ at[p].pc = "report" /\ at[p].err = "terminal" /\ Go(p, "clear")
  /\ IF generation = at[p].gen
       THEN active' = FALSE /\ watchdog' = 0 /\ halted' = "operator"
       ELSE UNCHANGED <<active, watchdog, halted>>
  /\ UNCHANGED <<ownerVars, genVars, workVars, gaveUp, kicked, pump, janitor, stop,
                 detached, faults>>

\* The session goes live; completed is LoginCompleted, which a login that only
\* brought changes is not.
Adopt(p, completed) ==
  LET c == at[p].c
  IN  /\ at[p].pc = "adopt"
      /\ IF ~Current(at[p].gen) \/ cleanup # c
           THEN Go(p, "force") /\ UNCHANGED <<client, active, watchdog, cleanupRetries, pump>>
           ELSE /\ client' = c /\ Go(p, "clear")
                /\ active' = (active /\ ~completed)
                /\ watchdog' = IF completed THEN 0 ELSE watchdog
                /\ cleanupRetries' = 0
                /\ pump' = [pump EXCEPT ![c] = [pc |-> "run", gen |-> at[p].gen,
                                                note |-> "none"]]
      /\ UNCHANGED <<lease, cleanup, busy, ownerPump, genVars, cancelled, retry,
                     cleanupRetry, gaveUp, kicked, halted, janitor, stop, detached, faults>>

\* The attempt returns and clears its own connecting mark.
Clear(p) ==
  LET mine == connecting = at[p].gen \/ (at[p].kind = "connect" /\ generation = at[p].gen)
  IN  /\ at[p].pc = "clear" /\ EndRetry(p)
      /\ connecting' = IF mine THEN 0 ELSE connecting
      /\ connectOf' = IF mine THEN "none" ELSE connectOf
      /\ UNCHANGED <<ownerVars, generation, stopping, lifecycle, cleanupRetry,
                     cleanupRetries, planVars, pump, janitor, stop, detached, faults>>

-----------------------------------------------------------------------------
(* The event pump of a session: run and sessionEnded *)

GoPump(c, where) ==
  pump' = [pump EXCEPT ![c] = IF where = "done" THEN NoPump ELSE [@ EXCEPT !.pc = where]]

\* A KICKOUT or CHANGESVR arrives; what follows it on the stream is ignored.
Notice(c, note) ==
  /\ pump[c].pc = "run" /\ pump[c].note = "none"
  /\ pump' = [pump EXCEPT ![c].note = note]
  /\ UNCHANGED <<ownerVars, genVars, workVars, planVars, at, janitor, stop, detached,
                 faults>>

\* The loop ends: the stream closed, or an event that cannot be identified
\* ("terminal") or delivered ("lost") before any notice.
EndLoop(c, why) ==
  /\ pump[c].pc = "run" /\ (why = "terminal" => pump[c].note = "none")
  /\ pump' = [pump EXCEPT ![c].pc = "classify",
                          ![c].note = IF @ = "none" THEN why ELSE @]
  /\ UNCHANGED <<ownerVars, genVars, workVars, planVars, at, janitor, stop, detached,
                 faults>>

\* run reads stopping once; a stop in progress hides why the stream ended.
Classify(c) ==
  /\ pump[c].pc = "classify"
  /\ GoPump(c, IF ~stopping /\ pump[c].note = "kick" THEN "record" ELSE "ended")
  /\ halted' = IF ~stopping /\ pump[c].note = "terminal" THEN "operator" ELSE halted
  /\ UNCHANGED <<ownerVars, genVars, workVars, active, gaveUp, watchdog, kicked, at,
                 janitor, stop, detached, faults>>

RecordKickout(c) ==
  /\ pump[c].pc = "record" /\ GoPump(c, "ended") /\ kicked' = TRUE
  /\ UNCHANGED <<ownerVars, genVars, workVars, active, gaveUp, watchdog, halted, at,
                 janitor, stop, detached, faults>>

\* sessionEnded, done being closed: the session of the current generation
\* becomes an owner to shut down, unless a Disconnect does that.
SessionEnded(c) ==
  /\ pump[c].pc = "ended"
  /\ IF generation # pump[c].gen \/ client # c
       THEN GoPump(c, "done") /\ UNCHANGED <<client, cleanup, busy, ownerPump>>
       ELSE /\ client' = "none"
            /\ IF stopping THEN GoPump(c, "done") /\ UNCHANGED <<cleanup, busy, ownerPump>>
               ELSE /\ GoPump(c, "shutting")
                    /\ cleanup' = c /\ busy' = TRUE /\ ownerPump' = "none"
  /\ UNCHANGED <<lease, genVars, workVars, planVars, at, janitor, stop, detached, faults>>

MutantRecovers(c) == pump[c].note # "terminal"

\* Only a lost session is recovered, not one that was kicked out or refused.
Recovers(c) == pump[c].note \in {"lost", "server"}

PumpShut(c, ok) ==
  /\ pump[c].pc = "shutting" /\ ShutdownAndRelease(c, ok)
  /\ GoPump(c, IF ~ok THEN "cleanup"
               ELSE IF Current(pump[c].gen) /\ Recovers(c) THEN "recover" ELSE "done")
  /\ UNCHANGED <<genVars, workVars, planVars, at, janitor, stop, detached>>

\* scheduleRecovery for generation gen, at its first delay.
Recover(gen) ==
  IF Current(gen) THEN \E q \in Attempts : StartRetry(q, gen, at)
  ELSE UNCHANGED <<at, retry, cancelled>>

PumpRecovers(c) ==
  /\ pump[c].pc = "recover" /\ GoPump(c, "done") /\ Recover(pump[c].gen)
  /\ UNCHANGED <<ownerVars, genVars, cleanupRetry, cleanupRetries, planVars, janitor,
                 stop, detached, faults>>

\* scheduleCleanupRetry: one more attempt to shut the owner down.
ScheduleCleanupRetry(c) ==
  /\ pump[c].pc = "cleanup" /\ GoPump(c, "done")
  /\ IF cleanup # c \/ stopping \/ cleanupRetry # "none" \/ cleanupRetries >= 1
       THEN UNCHANGED <<cleanupRetry, cleanupRetries, janitor>>
       ELSE /\ cleanupRetries' = cleanupRetries + 1 /\ cleanupRetry' = c
            /\ janitor' = [janitor EXCEPT ![c] = [pc |-> "wait", gen |-> pump[c].gen,
                                                  recovers |-> Recovers(c), cancelled |-> FALSE]]
  /\ UNCHANGED <<ownerVars, genVars, cancelled, retry, planVars, at, stop, detached,
                 faults>>

-----------------------------------------------------------------------------
(* The cleanup worker *)

EndJanitor(c) ==
  /\ janitor' = [janitor EXCEPT ![c] = NoJanitor]
  /\ cleanupRetry' = IF cleanupRetry = c THEN "none" ELSE cleanupRetry

JanitorCancelled(c) ==
  /\ janitor[c].pc = "wait" /\ janitor[c].cancelled /\ EndJanitor(c)
  /\ UNCHANGED <<ownerVars, genVars, cancelled, retry, cleanupRetries, planVars, at,
                 pump, stop, detached, faults>>

JanitorWakes(c) ==
  /\ janitor[c].pc = "wait"
  /\ IF cleanup # c \/ stopping \/ cleanupRetry # c
       THEN EndJanitor(c) /\ UNCHANGED busy
       ELSE /\ busy' = TRUE /\ janitor' = [janitor EXCEPT ![c].pc = "shutting"]
            /\ UNCHANGED cleanupRetry
  /\ UNCHANGED <<lease, client, cleanup, ownerPump, genVars, cancelled, retry,
                 cleanupRetries, planVars, at, pump, stop, detached, faults>>

JanitorShut(c, ok) ==
  /\ janitor[c].pc = "shutting" /\ ShutdownAndRelease(c, ok)
  /\ IF ok /\ Current(janitor[c].gen) /\ janitor[c].recovers
       THEN janitor' = [janitor EXCEPT ![c].pc = "recover"] /\ UNCHANGED cleanupRetry
       ELSE EndJanitor(c)
  /\ UNCHANGED <<genVars, cancelled, retry, cleanupRetries, planVars, at, pump, stop,
                 detached>>

JanitorRecovers(c) ==
  /\ janitor[c].pc = "recover" /\ EndJanitor(c) /\ Recover(janitor[c].gen)
  /\ UNCHANGED <<ownerVars, genVars, cleanupRetries, planVars, pump, stop, detached,
                 faults>>

-----------------------------------------------------------------------------
(* Disconnect.  Its deadline may pass wherever it waits. *)

GoStop(d, where) == stop' = [stop EXCEPT ![d].pc = where]

\* One Disconnect at a time is past the gate.
Inside == {d \in Stoppers : stop[d].pc \in {"look", "shutdown", "pump"}}

\* The bridge disconnects at any time; operatorReconnect only when no session
\* and no attempt exists, before its Connect.
CallDisconnect(d) ==
  /\ stop[d].pc = "idle" /\ d \in Callers /\ generation \in 1..MaxStops
  /\ d = "operator" => ~kicked /\ client = "none" /\ connecting = 0 /\ retry = "none"
  /\ GoStop(d, "gate")
  /\ UNCHANGED <<ownerVars, genVars, workVars, planVars, at, pump, janitor, detached,
                 faults>>

\* episodeExpired: the watchdog of the current generation stops recovery.
WatchdogFires ==
  /\ watchdog # 0 /\ watchdog' = 0 /\ stop["watchdog"].pc = "idle"
  /\ IF Current(watchdog) /\ active THEN GoStop("watchdog", "gate") ELSE UNCHANGED stop
  /\ UNCHANGED <<ownerVars, genVars, workVars, active, gaveUp, kicked, halted, at,
                 pump, janitor, detached, faults>>

\* Disconnect returns to its caller.  Joining the stopped workers before, or a
\* cleanup in flight, only takes time.
Returned(d) == [IdleStop EXCEPT !.pc = IF d = "watchdog" THEN "giveUp" ELSE "idle"]
Return(d) == stop' = [stop EXCEPT ![d] = Returned(d)]

\* enterDisconnect gives up: another call is inside until the deadline.
NotAdmitted(d) ==
  /\ stop[d].pc = "gate" /\ Inside # {} /\ Return(d)
  /\ UNCHANGED <<ownerVars, genVars, workVars, planVars, at, pump, janitor, detached,
                 faults>>

StopWorkers ==
  /\ cancelled' = cancelled \cup ({retry, connectOf} \ {"none"})
  /\ retry' = "none" /\ cleanupRetry' = "none"
  /\ janitor' = [c \in Clients |-> IF c = cleanupRetry
                                     THEN [janitor[c] EXCEPT !.cancelled = TRUE]
                                     ELSE janitor[c]]

MutantPumpToJoin == client

\* The pump Disconnect has to join: the session's, or the one an earlier
\* Disconnect of the same owner left running.
PumpToJoin == IF client # "none" THEN client ELSE ownerPump

\* beginStop, by the one call past the gate.
BeginStop(d) ==
  LET c == IF client # "none" THEN client ELSE cleanup
  IN  /\ stop[d].pc = "gate" /\ Inside = {}
      /\ lifecycle' = FALSE /\ stopping' = TRUE /\ generation' = generation + 1
      /\ StopWorkers
      /\ ownerPump' = IF client # "none" THEN client ELSE ownerPump
      /\ client' = "none" /\ cleanup' = c /\ busy' = (busy \/ c # "none")
      /\ stop' = [stop EXCEPT ![d] = IF c = "none" THEN Returned(d)
           ELSE [pc |-> "look", c |-> c, pump |-> PumpToJoin, other |-> busy]]
      /\ UNCHANGED <<lease, connecting, connectOf, cleanupRetries, planVars, at, pump,
                     detached, faults>>

\* A cleanup that was in flight is waited for, not repeated.
Look(d) ==
  /\ stop[d].pc = "look"
  /\ IF stop[d].other /\ busy /\ cleanup = stop[d].c THEN Return(d)
     ELSE GoStop(d, "shutdown")
  /\ UNCHANGED <<ownerVars, genVars, workVars, planVars, at, pump, janitor, detached,
                 faults>>

\* shutdownWithDeadline: Shutdown, then the pump.
StopShutdown(d, ok) ==
  /\ stop[d].pc = "shutdown" /\ Shutdown(stop[d].c, ok) /\ UNCHANGED client
  /\ IF ok THEN GoStop(d, "pump") /\ UNCHANGED <<cleanup, busy, ownerPump>>
     ELSE Return(d) /\ Release(stop[d].c, FALSE)
  /\ UNCHANGED <<genVars, workVars, planVars, at, pump, janitor, detached>>

\* The pump is joined, or outlives the deadline and the owner stays retained.
StopPump(d, joined) ==
  /\ stop[d].pc = "pump" /\ Return(d) /\ Release(stop[d].c, joined)
  /\ IF joined THEN PumpClosed(stop[d].pump) /\ UNCHANGED faults
     ELSE stop[d].pump # "none" /\ faults < MaxFaults /\ faults' = faults + 1
  /\ UNCHANGED <<lease, client, genVars, workVars, planVars, at, pump, janitor, detached>>

GiveUp ==
  /\ stop["watchdog"].pc = "giveUp" /\ GoStop("watchdog", "idle")
  /\ gaveUp' = TRUE /\ active' = FALSE
  /\ UNCHANGED <<ownerVars, genVars, workVars, watchdog, kicked, halted, at, pump,
                 janitor, detached, faults>>

-----------------------------------------------------------------------------
(* The client a reconciliation command opens outside the lifecycle *)

\* openDetached up to its unlock.
DetachedCheck ==
  /\ detached.pc = "idle" /\ ~kicked /\ ~stopping /\ connecting = 0 /\ cleanup = "none"
  /\ retry = "none" /\ ~active /\ ~gaveUp
  /\ detached' = [detached EXCEPT !.pc = "open"]
  /\ UNCHANGED <<ownerVars, genVars, workVars, planVars, at, pump, janitor, stop, faults>>

DetachedOpen(c) ==
  /\ detached.pc = "open"
  /\ IF lease = "none"
       THEN /\ Unused(c) /\ lease' = c /\ detached' = [pc |-> "use", c |-> c]
       ELSE detached' = [pc |-> "idle", c |-> "none"] /\ UNCHANGED lease
  /\ UNCHANGED <<client, cleanup, busy, ownerPump, genVars, workVars, planVars, at,
                 pump, janitor, stop, faults>>

\* releaseDetached.  A client that could not be shut down becomes the retained
\* owner, unless there is one; the history keeps it in mind.
ReleaseDetached(ok) ==
  /\ detached.pc = "use" /\ Shutdown(detached.c, ok)
  /\ IF ~ok /\ cleanup = "none" THEN Retain(detached.c)
     ELSE UNCHANGED <<cleanup, busy, ownerPump>>
  /\ detached' = IF ok THEN [pc |-> "idle", c |-> "none"]
                 ELSE [detached EXCEPT !.pc = "failed"]
  /\ UNCHANGED <<client, genVars, workVars, planVars, at, pump, janitor, stop>>

-----------------------------------------------------------------------------
AttemptStep(p) ==
  \/ Connect(p) \/ Wake(p) \/ WaitCancelled(p) \/ OpenFails(p) \/ CheckCurrent(p)
  \/ Stale(p) \/ RetainOwner(p) \/ ShutdownBootstrap(p) \/ ReportTerminal(p) \/ Clear(p)
  \/ \E c \in Clients : Open(p, c)
  \/ \E err \in {"none", "retry", "terminal"} : Login(p, err)
  \/ \E b \in BOOLEAN : BootstrapShut(p, b) \/ ReportRetry(p, b) \/ Adopt(p, b)

PumpStep(c) ==
  \/ Classify(c) \/ RecordKickout(c) \/ SessionEnded(c) \/ PumpRecovers(c)
  \/ ScheduleCleanupRetry(c) \/ JanitorCancelled(c) \/ JanitorWakes(c) \/ JanitorRecovers(c)
  \/ \E note \in {"kick", "server"} : Notice(c, note)
  \/ \E why \in {"lost", "terminal"} : EndLoop(c, why)
  \/ \E ok \in BOOLEAN : PumpShut(c, ok) \/ JanitorShut(c, ok)

StopStep(d) ==
  \/ CallDisconnect(d) \/ NotAdmitted(d) \/ BeginStop(d) \/ Look(d)
  \/ \E ok \in BOOLEAN : StopShutdown(d, ok) \/ StopPump(d, ok)

Next ==
  \/ \E p \in Attempts : AttemptStep(p)
  \/ \E c \in Clients : PumpStep(c) \/ DetachedOpen(c)
  \/ \E d \in Stoppers : StopStep(d)
  \/ WatchdogFires \/ GiveUp \/ DetachedCheck
  \/ \E ok \in BOOLEAN : ReleaseDetached(ok)

Spec == Init /\ [][Next]_vars

-----------------------------------------------------------------------------
\* A client that owns the profile is never lost from sight: it is the session,
\* the retained owner, or in the hands of the attempt or command that opened it
\* and that shuts it down (connLifecycle.cleanup, releaseDetached).  An owner
\* nobody knows would keep the lease until the process ends.  A reconciliation
\* client that could not be shut down is left out: it may find another owner
\* retained, or become one while an attempt is about to open the profile.
OwnerKnown ==
  lease # "none" /\ detached.pc # "failed" =>
    \/ lease \in {client, cleanup, detached.c}
    \/ \E p \in Attempts : at[p].c = lease /\ at[p].pc \in {"check", "stale", "retain"}

\* One goroutine at a time consumes events, so commits keep their order: when a
\* session has a running pump, no earlier pump runs, although a Disconnect may
\* have given up waiting for it (ownerCleanup.pumpDone).
OnePump == Cardinality({c \in Clients : ~PumpClosed(c)}) <= 1

\* After a KICKOUT was recorded no login is under way or follows, by Connect, a
\* scheduled retry or a reconciliation command (kickedOut, sessionEnded).
NoLoginAfterKick ==
  kicked => detached.pc # "use" /\ \A p \in Attempts : at[p].pc # "login"

\* No goroutine is at work.
Quiet ==
  /\ \A p \in Attempts : Idle(p)
  /\ \A c \in Clients : pump[c].pc \in {"none", "run"} /\ janitor[c].pc = "none"
  /\ \A d \in Stoppers : stop[d].pc = "idle"

\* The login has a session, an owner whose cleanup is known to have failed, or an
\* episode whose watchdog will speak up.
Attended == client # "none" \/ cleanup # "none" \/ watchdog # 0

\* A login that was connected, was not stopped and met no error for the operator
\* is never left alone, whichever attempts, cleanups and stops raced, as long as
\* the profile could be opened (scheduleRecovery, scheduleCleanupRetry, run).
NotAbandoned ==
  Quiet /\ lifecycle /\ ~kicked /\ ~gaveUp /\ halted = "none" => Attended

\* "A failed attempt of any kind retries" (recovery_schedule.go), one that could
\* not open the profile included.
AnyFailureRetries ==
  Quiet /\ lifecycle /\ ~kicked /\ ~gaveUp /\ halted # "operator" => Attended

\* The owner of a bootstrap that a Disconnect interrupted is shut down by one of
\* the two (comment of shutdownBootstrap): when all is quiet after a stop and no
\* shutdown timed out, no owner is retained.
StopReleases == Quiet /\ stopping /\ faults = 0 => cleanup = "none"
=============================================================================
