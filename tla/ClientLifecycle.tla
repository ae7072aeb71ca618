--------------------------- MODULE ClientLifecycle ---------------------------
(***************************************************************************)
(* The ownership of one profile by one Client (internal/client/client.go): *)
(* the connect gate of ensureSession, adoption of a dialed session, the    *)
(* event decoder, admitted checkpoint writes, and Shutdown, which must     *)
(* join all of them before it marks the checkpoint clean and gives up the  *)
(* profile lease.  One critical section of Client.mu is one step.          *)
(***************************************************************************)
EXTENDS Integers, FiniteSets

CONSTANTS
  Users,       \* goroutines that need the session (operations, Events)
  Writers,     \* goroutines that commit to the checkpoint
  Closers,     \* goroutines that call Shutdown
  MaxTries,    \* bound: operations of one user, commits of one writer
  MaxShutdowns \* bound: Shutdown calls of one closer

VARIABLES
  closed,
  connecting,    \* connectActive: connectDone is open
  session,       \* c.session: "none", "live" or "shut"
  cleanup,       \* c.cleanupSession, likewise
  owned,         \* c.checkpoint and c.lease are still set
  lease,         \* the lock file: "mine", "free" or "other"
  clean,         \* the checkpoint's CleanShutdown flag on disk
  commits,       \* commitActive
  decoder,       \* "none", "run", "write", "emit", "terminal" or "done"
  eventStop,     \* the decoder's stop channel: "none", "open" or "closed"
  demand,        \* the history admission has a pending demand
  shutting,      \* shutdownActive
  user, writer, closer, \* where each goroutine is
  tries,         \* operations or Shutdown calls begun by each goroutine
  waits          \* what each Shutdown snapshotted: a connect or a commit to join,
                 \* a session or a cleanup session to close

clientVars == <<closed, connecting, session, cleanup, owned>>
diskVars == <<lease, clean>>
eventVars == <<decoder, eventStop, demand>>
procVars == <<user, writer, closer, tries>>
vars == <<clientVars, diskVars, eventVars, commits, shutting, procVars, waits>>

Init ==
  /\ closed = FALSE /\ connecting = FALSE /\ session = "none" /\ cleanup = "none"
  /\ owned = TRUE /\ lease = "mine" /\ clean = TRUE /\ commits = 0
  /\ decoder = "none" /\ eventStop = "none" /\ shutting = FALSE
  /\ demand = FALSE
  /\ user = [u \in Users |-> "idle"] /\ writer = [w \in Writers |-> "idle"]
  /\ closer = [s \in Closers |-> "idle"]
  /\ tries = [p \in Users \cup Writers \cup Closers |-> 0]
  /\ waits = [s \in Closers |-> {}]

Shut(s) == IF s = "live" THEN "shut" ELSE s

GoUser(u, at) == user' = [user EXCEPT ![u] = at] /\ UNCHANGED <<writer, closer>>
GoWriter(w, at) == writer' = [writer EXCEPT ![w] = at] /\ UNCHANGED <<user, closer>>
GoCloser(s, at) == closer' = [closer EXCEPT ![s] = at] /\ UNCHANGED <<user, writer>>
Counted(p) == tries' = [tries EXCEPT ![p] = @ + 1]

-----------------------------------------------------------------------------
(* ensureSession, connect and adoptSession *)

NeedSession(u) ==
  /\ user[u] = "idle" /\ tries[u] < MaxTries
  /\ GoUser(u, "enter") /\ Counted(u)
  /\ UNCHANGED <<clientVars, diskVars, eventVars, commits, shutting, waits>>

MutantNoGate(u) ==
  /\ user[u] = "enter"
  /\ IF closed \/ session # "none"
       THEN GoUser(u, IF closed THEN "idle" ELSE "have") /\ UNCHANGED connecting
       ELSE GoUser(u, "dial") /\ connecting' = TRUE
  /\ UNCHANGED <<closed, session, cleanup, owned, diskVars, eventVars, commits, shutting,
                 tries, waits>>

\* The loop of ensureSession: refuse, reuse, wait for the connect in progress
\* (stay here until connectDone closes) or dial.
EnsureSession(u) ==
  /\ user[u] = "enter"
  /\ \/ closed /\ GoUser(u, "idle") /\ UNCHANGED connecting
     \/ ~closed /\ session # "none" /\ GoUser(u, "have") /\ UNCHANGED connecting
     \/ ~closed /\ session = "none" /\ ~connecting
        /\ GoUser(u, "dial") /\ connecting' = TRUE
  /\ UNCHANGED <<closed, session, cleanup, owned, diskVars, eventVars, commits, shutting,
                 tries, waits>>

\* The waiter's own context ended.
StopWaiting(u) ==
  /\ user[u] = "enter" /\ connecting
  /\ GoUser(u, "idle")
  /\ UNCHANGED <<clientVars, diskVars, eventVars, commits, shutting, tries, waits>>

Dial(u, ok) ==
  /\ user[u] = "dial"
  /\ GoUser(u, IF ok THEN "install" ELSE "leave")
  /\ UNCHANGED <<clientVars, diskVars, eventVars, commits, shutting, tries, waits>>

\* adoptSession: InstallSession writes the checkpoint ...
Install(u, ok) ==
  /\ user[u] = "install"
  /\ IF ok THEN /\ clean' = FALSE /\ GoUser(u, "adopt")
                /\ UNCHANGED <<closed, cleanup>>
           ELSE /\ closed' = TRUE /\ cleanup' = "live" /\ GoUser(u, "closeCleanup")
                /\ UNCHANGED clean
  /\ UNCHANGED <<connecting, session, owned, lease, eventVars, commits, shutting, tries,
                 waits>>

\* ... and the session is published, for Shutdown to close if it came first.
Adopt(u) ==
  /\ user[u] = "adopt"
  /\ session' = "live"
  /\ GoUser(u, IF closed THEN "closeSession" ELSE "leaveWith")
  /\ UNCHANGED <<closed, connecting, cleanup, owned, diskVars, eventVars, commits,
                 shutting, tries, waits>>

CloseAdopted(u) ==
  /\ user[u] \in {"closeCleanup", "closeSession"}
  /\ IF user[u] = "closeCleanup" THEN cleanup' = Shut(cleanup) /\ UNCHANGED session
                                 ELSE session' = Shut(session) /\ UNCHANGED cleanup
  /\ GoUser(u, "leave")
  /\ UNCHANGED <<closed, connecting, owned, diskVars, eventVars, commits, shutting, tries,
                 waits>>

\* connect has returned: the gate opens.
LeaveConnect(u) ==
  /\ user[u] \in {"leave", "leaveWith"}
  /\ connecting' = FALSE
  /\ GoUser(u, IF user[u] = "leaveWith" THEN "have" ELSE "idle")
  /\ UNCHANGED <<closed, session, cleanup, owned, diskVars, eventVars, commits, shutting,
                 tries, waits>>

-----------------------------------------------------------------------------
(* Events and its decoder *)

MutantEventsNoRecheck(u) ==
  /\ user[u] = "have"
  /\ IF decoder = "none" THEN decoder' = "run" /\ eventStop' = "open" /\ UNCHANGED demand
                         ELSE UNCHANGED eventVars
  /\ GoUser(u, "idle")
  /\ UNCHANGED <<clientVars, diskVars, commits, shutting, tries, waits>>

\* A user that has the session asks for the event stream.
Events(u) ==
  /\ user[u] = "have"
  /\ IF decoder = "none" /\ ~closed THEN decoder' = "run" /\ eventStop' = "open" /\ UNCHANGED demand
                                    ELSE UNCHANGED eventVars
  /\ GoUser(u, "idle")
  /\ UNCHANGED <<clientVars, diskVars, commits, shutting, tries, waits>>

\* The decoder reads a push: nothing to persist, a message (it records the
\* delivery start), a terminal notice or undecodable message, or the end.
DecoderReads(next) ==
  /\ decoder = "run"
  /\ next \in {"write", "emit", "terminal"} \/ (next = "done" /\ session = "shut")
  /\ decoder' = next
  /\ UNCHANGED <<clientVars, diskVars, eventStop, demand, commits, shutting, procVars, waits>>

DecoderWrites(ok) ==
  /\ decoder = "write"
  /\ decoder' = IF ok THEN "emit" ELSE "terminal"
  /\ UNCHANGED <<clientVars, diskVars, eventStop, demand, commits, shutting, procVars, waits>>

\* interruptTerminal, then the last result.
InterruptTerminal ==
  /\ decoder = "terminal"
  /\ closed' = TRUE /\ session' = Shut(session)
  /\ decoder' = "last"
  /\ UNCHANGED <<connecting, cleanup, owned, diskVars, eventStop, demand, commits, shutting,
                 procVars, waits>>

\* emitEventResult: the consumer takes the result, or stop is closed.
Consume ==
  /\ decoder \in {"emit", "last"}
  /\ decoder' = IF decoder = "emit" THEN "run" ELSE "done"
  /\ UNCHANGED <<clientVars, diskVars, eventStop, demand, commits, shutting, procVars, waits>>

DecoderStops ==
  /\ decoder \in {"run", "emit", "last"} /\ eventStop = "closed"
  /\ decoder' = "done"
  /\ UNCHANGED <<clientVars, diskVars, eventStop, demand, commits, shutting, procVars, waits>>

-----------------------------------------------------------------------------
(* A demand on the history admission, which stops when the client closes. *)

BeginDemand ==
  /\ ~demand /\ ~closed /\ demand' = TRUE
  /\ UNCHANGED <<clientVars, diskVars, decoder, eventStop, commits, shutting, procVars,
                 waits>>

EndDemand ==
  /\ demand /\ demand' = FALSE
  /\ UNCHANGED <<clientVars, diskVars, decoder, eventStop, commits, shutting, procVars,
                 waits>>

-----------------------------------------------------------------------------
(* Admitted checkpoint writes (CommitEvent, checkpointWrite) *)

AdmitWrite(w) ==
  /\ writer[w] = "idle" /\ tries[w] < MaxTries /\ ~closed
  /\ commits' = commits + 1
  /\ GoWriter(w, "write") /\ Counted(w)
  /\ UNCHANGED <<clientVars, diskVars, eventVars, shutting, waits>>

WriteCheckpoint(w) ==
  /\ writer[w] = "write"
  /\ GoWriter(w, "end")
  /\ UNCHANGED <<clientVars, diskVars, eventVars, commits, shutting, tries, waits>>

EndPersistence(w) ==
  /\ writer[w] = "end"
  /\ commits' = commits - 1
  /\ GoWriter(w, "idle")
  /\ UNCHANGED <<clientVars, diskVars, eventVars, shutting, tries, waits>>

-----------------------------------------------------------------------------
(* Shutdown *)

Only(cond, what) == IF cond THEN {what} ELSE {}
Sessions == Only(session # "none", "session") \cup Only(cleanup # "none", "cleanup")

CallShutdown(s) ==
  /\ closer[s] = "idle" /\ tries[s] < MaxShutdowns
  /\ GoCloser(s, "enter") /\ Counted(s)
  /\ UNCHANGED <<clientVars, diskVars, eventVars, commits, shutting, waits>>

MutantSkipsConnect(s) ==
  /\ closer[s] = "enter" /\ ~shutting
  /\ shutting' = TRUE /\ closed' = TRUE
  /\ waits' = [waits EXCEPT ![s] = Sessions \cup Only(commits > 0, "commit")]
  /\ GoCloser(s, "interrupt")
  /\ UNCHANGED <<connecting, session, cleanup, owned, diskVars, eventVars, commits, tries>>

\* Admission closes for good; one Shutdown runs at a time.
EnterShutdown(s) ==
  /\ closer[s] = "enter" /\ ~shutting
  /\ shutting' = TRUE /\ closed' = TRUE
  /\ waits' = [waits EXCEPT ![s] = Sessions \cup Only(connecting, "connect")
                                     \cup Only(commits > 0, "commit")]
  /\ GoCloser(s, "interrupt")
  /\ UNCHANGED <<connecting, session, cleanup, owned, diskVars, eventVars, commits, tries>>

Interrupt(s) ==
  /\ closer[s] = "interrupt"
  /\ session' = IF "session" \in waits[s] THEN Shut(session) ELSE session
  /\ cleanup' = IF "cleanup" \in waits[s] THEN Shut(cleanup) ELSE cleanup
  /\ GoCloser(s, "join")
  /\ UNCHANGED <<closed, connecting, owned, diskVars, eventVars, commits, shutting, tries,
                 waits>>

\* The connect and the commits that were running have ended; the session is
\* read again, since the connect may have published one, and closed.
JoinWork(s) ==
  /\ closer[s] = "join"
  /\ "connect" \in waits[s] => ~connecting
  /\ "commit" \in waits[s] => commits = 0
  /\ session' = Shut(session) /\ cleanup' = Shut(cleanup)
  /\ GoCloser(s, "stopEvents")
  /\ UNCHANGED <<closed, connecting, owned, diskVars, eventVars, commits, shutting, tries,
                 waits>>

MutantNeverStopsEvents(s) ==
  /\ closer[s] = "stopEvents"
  /\ GoCloser(s, "joinEvents")
  /\ UNCHANGED <<clientVars, diskVars, eventVars, commits, shutting, tries, waits>>

StopEvents(s) ==
  /\ closer[s] = "stopEvents"
  /\ eventStop' = IF eventStop = "open" THEN "closed" ELSE eventStop
  /\ GoCloser(s, "joinEvents")
  /\ UNCHANGED <<clientVars, diskVars, decoder, demand, commits, shutting, tries, waits>>

JoinEvents(s) ==
  /\ closer[s] = "joinEvents" /\ decoder \in {"none", "done"}
  /\ GoCloser(s, "joinAdmission")
  /\ UNCHANGED <<clientVars, diskVars, eventVars, commits, shutting, tries, waits>>

JoinAdmission(s) ==
  /\ closer[s] = "joinAdmission" /\ ~demand
  /\ GoCloser(s, IF owned THEN "markClean" ELSE "finish")
  /\ UNCHANGED <<clientVars, diskVars, eventVars, commits, shutting, tries, waits>>

\* The caller's deadline passed while it joined the work, or waited for another
\* Shutdown: ownership stays.
Deadline(s) ==
  /\ \/ closer[s] \in {"join", "joinEvents", "joinAdmission"} /\ GoCloser(s, "finish")
     \/ closer[s] = "enter" /\ shutting /\ GoCloser(s, "idle")
  /\ UNCHANGED <<clientVars, diskVars, eventVars, commits, shutting, tries, waits>>

MarkClean(s, ok) ==
  /\ closer[s] = "markClean"
  /\ clean' = (clean \/ ok)
  /\ GoCloser(s, IF ok THEN "release" ELSE "finish")
  /\ UNCHANGED <<clientVars, lease, eventVars, commits, shutting, tries, waits>>

\* profileLease.Close closes the file, which frees the lock, whatever it
\* reports; a second Close of the same lease does nothing.
ReleaseLease(s, ok) ==
  /\ closer[s] = "release"
  /\ lease' = IF lease = "mine" THEN "free" ELSE lease
  /\ GoCloser(s, IF ok THEN "clear" ELSE "finish")
  /\ UNCHANGED <<clientVars, clean, eventVars, commits, shutting, tries, waits>>

ClearOwnership(s) ==
  /\ closer[s] = "clear"
  /\ session' = "none" /\ cleanup' = "none" /\ owned' = FALSE
  /\ GoCloser(s, "finish")
  /\ UNCHANGED <<closed, connecting, diskVars, eventVars, commits, shutting, tries, waits>>

FinishShutdown(s) ==
  /\ closer[s] = "finish"
  /\ shutting' = FALSE
  /\ GoCloser(s, "idle")
  /\ UNCHANGED <<clientVars, diskVars, eventVars, commits, tries, waits>>

-----------------------------------------------------------------------------
(* The session ends by itself; another process opens the profile. *)

SessionEnds ==
  /\ session = "live" /\ session' = "shut"
  /\ UNCHANGED <<closed, connecting, cleanup, owned, diskVars, eventVars, commits,
                 shutting, procVars, waits>>

OtherOpens ==
  /\ lease = "free" /\ lease' = "other"
  /\ UNCHANGED <<clientVars, clean, eventVars, commits, shutting, procVars, waits>>

-----------------------------------------------------------------------------
UserStep(u) ==
  \/ EnsureSession(u) \/ \E ok \in BOOLEAN : Dial(u, ok) \/ Install(u, ok)
  \/ Adopt(u) \/ CloseAdopted(u) \/ LeaveConnect(u) \/ Events(u)

DecoderStep ==
  \/ \E ok \in BOOLEAN : DecoderWrites(ok)
  \/ InterruptTerminal \/ DecoderStops

WriterStep(w) == WriteCheckpoint(w) \/ EndPersistence(w)

CloserStep(s) ==
  \/ EnterShutdown(s) \/ Interrupt(s) \/ JoinWork(s) \/ StopEvents(s) \/ JoinEvents(s)
  \/ JoinAdmission(s)
  \/ \E ok \in BOOLEAN : MarkClean(s, ok) \/ ReleaseLease(s, ok)
  \/ ClearOwnership(s) \/ FinishShutdown(s)

Next ==
  \/ \E u \in Users : NeedSession(u) \/ StopWaiting(u) \/ UserStep(u)
  \/ \E next \in {"write", "emit", "terminal", "done"} : DecoderReads(next)
  \/ Consume \/ DecoderStep \/ BeginDemand \/ EndDemand
  \/ \E w \in Writers : AdmitWrite(w) \/ WriterStep(w)
  \/ \E s \in Closers : CallShutdown(s) \/ Deadline(s) \/ CloserStep(s)
  \/ SessionEnds \/ OtherOpens

Spec == Init /\ [][Next]_vars

\* Go runs what can run and a dial returns.  A select whose stop channel stays
\* ready takes it eventually (it chooses at random, and the pushes of a closed
\* session run out).  Nothing is assumed of the consumer of events, of
\* deadlines or of when Shutdown is called.
FairSpec ==
  /\ Spec
  /\ \A u \in Users : WF_vars(UserStep(u))
  /\ WF_vars(EndDemand) /\ WF_vars(DecoderStep) /\ SF_vars(DecoderStops)
  /\ \A w \in Writers : WF_vars(WriterStep(w))
  /\ \A s \in Closers : WF_vars(CloserStep(s))

-----------------------------------------------------------------------------
(* Properties *)

\* Types.
TypeOK ==
  /\ {closed, connecting, owned, clean, shutting, demand} \subseteq BOOLEAN
  /\ {session, cleanup} \subseteq {"none", "live", "shut"}
  /\ lease \in {"mine", "free", "other"} /\ commits \in 0..Cardinality(Writers)
  /\ decoder \in {"none", "run", "write", "emit", "terminal", "last", "done"}
  /\ eventStop \in {"none", "open", "closed"}
  /\ \A s \in Closers : waits[s] \subseteq {"connect", "commit", "session", "cleanup"}

\* Sessions this client has open with the server, dials in progress included.
LiveSessions ==
  Cardinality({u \in Users : user[u] \in {"dial", "install", "adopt"}})
    + (IF session = "live" THEN 1 ELSE 0) + (IF cleanup = "live" THEN 1 ELSE 0)

\* A profile never has two sessions: one dial at a time, and none besides an
\* open session (connectActive in ensureSession; adoptSession).
OneSession == LiveSessions <= 1

\* Once the lease is given up nothing of this client is left running: no
\* session or dial, no decoder, no admitted write (the joins of Shutdown), so the
\* checkpoint is written by the owner of the lease only.  MarkClean is left out: a
\* Shutdown repeated because the release reported an error calls it once more.
ReleasedMeansIdle ==
  lease # "mine" =>
    /\ LiveSessions = 0
    /\ decoder \in {"none", "done"} /\ ~demand
    /\ \A w \in Writers : writer[w] = "idle"

\* A profile given up by its client is marked as cleanly shut down, although a
\* login may have been installing itself when Shutdown began.
ReleasedIsClean == lease # "mine" => clean

\* A profile has one session of one owner: no second session beside the first, and
\* one given up is idle and marked clean (ensureSession, Shutdown).
OneOwner == OneSession /\ ReleasedMeansIdle /\ ReleasedIsClean

\* Shutdown returns even when nobody consumes events any more and its caller
\* has no deadline: closing eventStop releases a decoder blocked on its output.
ShutdownReturns == \A s \in Closers : (closer[s] # "idle") ~> (closer[s] = "idle")
==============================================================================
