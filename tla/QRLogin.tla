------------------------------- MODULE QRLogin -------------------------------
(***************************************************************************)
(* Enrolling a profile with a QR code (qrLogin in login.go).  Start makes  *)
(* a profile file and a challenge, Wait polls it until the phone approves  *)
(* it, Cancel may come at any time.  Each holds qrLogin.mu only for its    *)
(* short sections, which are the steps below.                              *)
(***************************************************************************)
EXTENDS Naturals

CONSTANTS MaxFaults   \* lost answers, failed writes and expired waits

VARIABLES
  login,       \* the fields of qrLogin
  file,        \* the profile: "none", "empty", "enrolled" or "removed"
  challenge,   \* server: "none", "open", "approved" or "closed"
  expired,     \* the deadline has passed
  thread,      \* where Start, Wait and Cancel are
  installed,   \* the credentials were saved
  faults

vars == <<login, file, challenge, expired, thread, installed, faults>>
Threads == {"start", "wait", "cancel"}

\* "ok" and "fails": where a thread goes after the remote cancellation
At(pc) == [pc |-> pc, joins |-> "none", ok |-> "done", fails |-> "done"]
Goto(t, pc) == thread' = [thread EXCEPT ![t] = At(pc)]
CancelRemote(t, ok, fails) ==
  thread' = [thread EXCEPT ![t] = [pc |-> "cancel remote", joins |-> "none", ok |-> ok, fails |-> fails]]
Fault == faults < MaxFaults /\ faults' = faults + 1

Init ==
  /\ login = [started |-> FALSE, finished |-> FALSE, handoff |-> FALSE, keep |-> FALSE, known |-> FALSE,
              waiting |-> FALSE, armed |-> FALSE, canceled |-> FALSE, canceling |-> FALSE, stopped |-> {}]
  /\ file = "none" /\ challenge = "none" /\ expired = FALSE /\ installed = FALSE /\ faults = 0
  /\ thread = [t \in Threads |-> At("idle")]

-----------------------------------------------------------------------------
(* Start *)

Start ==
  /\ thread["start"].pc = "idle" /\ ~login.started /\ ~login.finished
  /\ login' = [login EXCEPT !.started = TRUE] /\ Goto("start", "create")
  /\ UNCHANGED <<file, challenge, expired, installed, faults>>

\* authstate.Create; a login canceled meanwhile goes no further
Create ==
  /\ thread["start"].pc = "create"
  /\ \/ /\ file' = "empty" /\ Goto("start", IF login.finished THEN "cleanup" ELSE "generate")
        /\ UNCHANGED faults
     \/ Fault /\ Goto("start", "done") /\ UNCHANGED file
  /\ UNCHANGED <<login, challenge, expired, installed>>

\* The challenge is made; its answer may be lost, or canceled
Generate ==
  /\ thread["start"].pc = "generate"
  /\ \/ challenge' = "open" /\ Goto("start", "generated") /\ UNCHANGED faults
     \/ /\ challenge' \in {"none", "open"} /\ Goto("start", "cleanup")
        /\ IF "start" \in login.stopped THEN UNCHANGED faults ELSE Fault
  /\ UNCHANGED <<login, file, expired, installed>>

\* A canceled login, or a challenge without a lifetime, is canceled remotely; the profile
\* is kept when that fails
Generated ==
  /\ thread["start"].pc = "generated" /\ login' = [login EXCEPT !.known = TRUE]
  /\ \/ CancelRemote("start", "cleanup", "keep")
     \/ ~login.finished /\ Goto("start", "display")
  /\ UNCHANGED <<file, challenge, expired, installed, faults>>

Keep ==
  /\ thread["start"].pc = "keep" /\ login' = [login EXCEPT !.keep = TRUE] /\ Goto("start", "cleanup")
  /\ UNCHANGED <<file, challenge, expired, installed, faults>>

Display ==
  /\ thread["start"].pc = "display" /\ login' = [login EXCEPT !.keep = TRUE]
  /\ IF login.finished THEN CancelRemote("start", "done", "done") ELSE Goto("start", "shown")
  /\ UNCHANGED <<file, challenge, expired, installed, faults>>

-----------------------------------------------------------------------------
(* Wait *)

Wait ==
  /\ thread["wait"].pc = "idle" /\ thread["start"].pc = "shown"
  /\ ~login.finished /\ login.known /\ ~login.waiting
  /\ login' = [login EXCEPT !.waiting = TRUE, !.armed = FALSE] /\ Goto("wait", "arm")
  /\ UNCHANGED <<file, challenge, expired, installed, faults>>

\* failQR
Fail == login' = [login EXCEPT !.finished = TRUE] /\ CancelRemote("wait", "cleanup", "done")
Return(pc) == login' = [login EXCEPT !.waiting = FALSE] /\ Goto("wait", pc)

\* The deadline ends the login
Expire ==
  /\ thread["wait"].pc \in {"arm", "poll"} /\ expired /\ Fail
  /\ UNCHANGED <<file, challenge, expired, installed, faults>>

\* From here on Cancel stops the wait and waits for it
Arm ==
  /\ thread["wait"].pc = "arm" /\ ~expired
  /\ IF login.finished THEN Goto("wait", "done") /\ UNCHANGED login
     ELSE Goto("wait", "poll") /\ login' = [login EXCEPT !.armed = TRUE]
  /\ UNCHANGED <<file, challenge, expired, installed, faults>>

\* cancelWait: the wait returns, and gives up waiting
Stopped ==
  /\ thread["wait"].pc = "poll" /\ "wait" \in login.stopped
  /\ Return("done")
  /\ UNCHANGED <<file, challenge, expired, installed, faults>>

\* One poll: an answer to a finished login is dropped, a transport error just returns,
\* an unusable answer fails the login
Poll ==
  /\ thread["wait"].pc = "poll" /\ ~expired
  /\ \/ login.finished /\ Return("done") /\ UNCHANGED faults
     \/ ~login.finished /\ challenge = "approved" /\ Goto("wait", "success") /\ UNCHANGED <<login, faults>>
     \/ Fault /\ (Return("done") \/ Fail)
  /\ UNCHANGED <<file, challenge, expired, installed>>

\* A device code is shown and waited for again; a refusal fails the login
Outcome ==
  /\ thread["wait"].pc = "poll" /\ ~expired /\ ~login.finished
  /\ \/ challenge = "open" /\ Return("idle")
     \/ challenge = "closed" /\ Fail
  /\ UNCHANGED <<file, challenge, expired, installed, faults>>

\* A success is installed although the login was canceled meanwhile.
MutantHandoff ==
  /\ thread["wait"].pc = "success" /\ login' = [login EXCEPT !.handoff = TRUE]
  /\ file' = "enrolled" /\ installed' = TRUE /\ Goto("wait", "complete")
  /\ UNCHANGED <<challenge, expired, faults>>

\* The handoff: the credentials are installed under the lock, unless the login is finished
Handoff ==
  /\ thread["wait"].pc = "success"
  /\ \/ login.finished /\ Goto("wait", "done") /\ UNCHANGED <<login, file, installed, faults>>
     \/ /\ ~login.finished /\ login' = [login EXCEPT !.handoff = TRUE]
        /\ \/ file' = "enrolled" /\ installed' = TRUE /\ Goto("wait", "complete") /\ UNCHANGED faults
           \/ Fault /\ Goto("wait", "done") /\ UNCHANGED <<file, installed>>
  /\ UNCHANGED <<challenge, expired>>

\* NewLogin may fail; the profile is enrolled all the same
CompleteLogin ==
  /\ thread["wait"].pc = "complete" /\ Goto("wait", "done")
  /\ \/ login' = [login EXCEPT !.finished = TRUE] /\ UNCHANGED faults
     \/ Fault /\ UNCHANGED login
  /\ UNCHANGED <<file, challenge, expired, installed>>

-----------------------------------------------------------------------------
(* Cancel *)

\* Whom a cancellation stops and waits for
Ended(t) == thread[t].pc \in {"idle", "shown", "done"}
Runs == CASE ~Ended("wait") /\ login.armed -> "wait"
          [] ~Ended("start") -> "start"
          [] OTHER -> "none"

Cancel ==
  /\ thread["cancel"].pc = "idle"
  /\ IF login.handoff THEN Goto("cancel", "done") /\ UNCHANGED login
     ELSE /\ login' = [login EXCEPT !.finished = TRUE, !.stopped = {Runs}]
          /\ thread' = [thread EXCEPT !["cancel"].pc = "join", !["cancel"].joins = Runs]
  /\ UNCHANGED <<file, challenge, expired, installed, faults>>

\* Five seconds for the stopped thread to end; then the remote cancellation
Join ==
  /\ thread["cancel"].pc = "join"
  /\ \/ /\ thread["cancel"].joins # "none" => Ended(thread["cancel"].joins)
        /\ CancelRemote("cancel", "cleanup", "done") /\ UNCHANGED faults
     \/ Fault /\ Goto("cancel", "done")
  /\ UNCHANGED <<login, file, challenge, expired, installed>>

\* cancelRemote: one request at a time, none once it has succeeded
Enter(t) ==
  /\ thread[t].pc = "cancel remote"
  /\ IF ~login.known \/ login.canceled
     THEN Goto(t, thread[t].ok) /\ UNCHANGED login
     ELSE /\ thread' = [thread EXCEPT ![t].pc = IF login.canceling THEN "share" ELSE "send"]
          /\ login' = [login EXCEPT !.canceling = TRUE]
  /\ UNCHANGED <<file, challenge, expired, installed, faults>>

Send(t) ==
  /\ thread[t].pc = "send"
  /\ \/ /\ challenge' = (IF challenge = "open" THEN "closed" ELSE challenge) /\ Goto(t, thread[t].ok)
        /\ login' = [login EXCEPT !.canceling = FALSE, !.canceled = TRUE] /\ UNCHANGED faults
     \/ /\ Fault /\ challenge' \in {challenge, IF challenge = "open" THEN "closed" ELSE challenge} /\ Goto(t, thread[t].fails)
        /\ login' = [login EXCEPT !.canceling = FALSE]
  /\ UNCHANGED <<file, expired, installed>>

Share(t) ==
  /\ thread[t].pc = "share"
  /\ \/ ~login.canceling /\ Goto(t, IF login.canceled THEN thread[t].ok ELSE thread[t].fails)
        /\ UNCHANGED faults
     \/ Fault /\ Goto(t, thread[t].fails)
  /\ UNCHANGED <<login, file, challenge, expired, installed>>

\* The profile of a failed start is removed whatever the remote cancellation says.
MutantKeeps(t) == FALSE

\* Start keeps the profile once there is a challenge it could not cancel
Keeps(t) == t = "start" /\ login.keep

\* cleanupQRProfile: only a profile without credentials is removed
Cleanup(t) ==
  /\ thread[t].pc = "cleanup"
  /\ Goto(t, IF file = "empty" /\ ~Keeps(t) THEN "unlink" ELSE "done")
  /\ UNCHANGED <<login, file, challenge, expired, installed, faults>>

Unlink(t) ==
  /\ thread[t].pc = "unlink" /\ file' = "removed" /\ Goto(t, "done")
  /\ UNCHANGED <<login, challenge, expired, installed, faults>>

-----------------------------------------------------------------------------
Approve == challenge = "open" /\ challenge' = "approved"
           /\ UNCHANGED <<login, file, expired, thread, installed, faults>>
Deadline == ~expired /\ expired' = TRUE /\ UNCHANGED <<login, file, challenge, thread, installed, faults>>

Next ==
  \/ Start \/ Create \/ Generate \/ Generated \/ Keep \/ Display
  \/ Wait \/ Expire \/ Arm \/ Stopped \/ Poll \/ Outcome \/ Handoff \/ CompleteLogin
  \/ Cancel \/ Join \/ Approve \/ Deadline
  \/ \E t \in Threads : Enter(t) \/ Send(t) \/ Share(t) \/ Cleanup(t) \/ Unlink(t)

Spec == Init /\ [][Next]_vars

-----------------------------------------------------------------------------
\* A login is enrolled or canceled, never both: installed credentials stay on disk, and
\* no cancellation of their challenge was or will be asked for, however Cancel, the
\* deadline and the approval race (handoffStarted, finished, cleanupQRProfile).
EnrolledWhole == installed => (file = "enrolled" /\ ~login.canceled /\ ~login.canceling)

\* A profile is thrown away only when its challenge was canceled remotely, or was never
\* learned of: a phone cannot approve a device whose identity is gone (keepProfile,
\* cancelRemote's result).
RemovedIsClosed == (file = "removed" /\ login.known) => login.canceled
==============================================================================
