------------------------------ MODULE Outbound ------------------------------
(***************************************************************************)
(* Sending one Matrix event to KakaoTalk (HandleMatrixMessage,             *)
(* outbound_attempts.go, outbound_media.go, client/media.go,               *)
(* client/media_direct.go).  The homeserver may hand over several copies   *)
(* of an event, also after a restart; each copy is a worker here.  A media *)
(* event is fetched from Matrix, reserved in kv_store, and then taken      *)
(* through its upload stages, any of which may fail or lose its answer.    *)
(***************************************************************************)
EXTENDS Naturals, FiniteSets

CONSTANTS
  Events,       \* Matrix events
  Copies,       \* deliveries of them by the homeserver
  Photos,       \* photos of an album
  Retention,    \* outboundAttemptRetention
  None,
  MaxTime, MaxFaults

VARIABLES
  kind,         \* what each event carries
  reserved,     \* kv_store: the stamp of each event's attempt, or None
  task,         \* the handling of each copy
  made,         \* KakaoTalk: the copies whose request created a message
  status,       \* what Matrix was last told of each event
  now, faults   \* clock; failed reservations and crashes

vars == <<kind, reserved, task, made, status, now, faults>>
\* "refused": what KakaoTalk cannot represent
Kinds == {"refused", "text", "photo", "upload", "album"}

NoTask == [pc |-> "idle", event |-> None, at |-> 0, left |-> 0, result |-> "none"]

Init ==
  /\ kind \in [Events -> Kinds] /\ reserved = [e \in Events |-> None]
  /\ task = [c \in Copies |-> NoTask] /\ made = {} /\ status = [e \in Events |-> "none"]
  /\ now = 0 /\ faults = 0

Event(c) == task[c].event
Kind(c) == kind[Event(c)]

Goto(c, pc) == task' = [task EXCEPT ![c].pc = pc]

\* The status a copy's handling ends with; a duplicate disables its status.
Report(c, result) ==
  /\ task' = [task EXCEPT ![c].pc = "done", ![c].result = result]
  /\ status' = IF result = "duplicate" THEN status ELSE [status EXCEPT ![Event(c)] = result]

-----------------------------------------------------------------------------
(* Before the reservation *)

\* withMediaSend, replyTargetStatus: a reply with media, or to what is not bridged; a size
\* that cannot be sent
Refused(e) == kind[e] = "refused"

\* HandleMatrixMessage: refused for what it is, failed without access or a client, or
\* taken on
Handle(c, e) ==
  /\ task[c].pc = "idle"
  /\ \E pc \in {"begin", "fetch", "failed", "error"} :
       /\ pc = "begin" => kind[e] = "text"
       /\ pc = "fetch" => kind[e] \in {"photo", "upload", "album"}
       /\ pc = "failed" => Refused(e)
       /\ IF pc \in {"begin", "fetch"}
          THEN task' = [task EXCEPT ![c].event = e, ![c].pc = pc] /\ UNCHANGED status
          ELSE /\ task' = [task EXCEPT ![c].event = e, ![c].pc = "done", ![c].result = pc]
               /\ status' = [status EXCEPT ![e] = pc]
  /\ UNCHANGED <<kind, reserved, made, now, faults>>

\* sendMatrixImage, sendMatrixUpload, sendMatrixAlbum: fetched and validated first
Fetch(c) ==
  /\ task[c].pc = "fetch"
  /\ \/ Goto(c, "begin") /\ UNCHANGED status
     \/ Report(c, "failed")
  /\ UNCHANGED <<kind, reserved, made, now, faults>>

\* An attempt exactly at the retention is dropped, too.
MutantKept(e) == reserved[e] # None /\ reserved[e] + Retention > now

\* deleteOlderThan keeps an attempt that is not older than the retention
Kept(e) == reserved[e] # None /\ reserved[e] + Retention >= now

\* beginOutbound, reserveOutboundKV
Begin(c) ==
  /\ task[c].pc = "begin"
  /\ LET kept == [e \in Events |-> IF Kept(e) THEN reserved[e] ELSE None]
         mine == [kept EXCEPT ![Event(c)] = now]
     IN \/ /\ kept[Event(c)] # None /\ reserved' = kept
           /\ Report(c, "duplicate") /\ UNCHANGED faults
        \/ /\ kept[Event(c)] = None /\ reserved' = mine
           /\ task' = [task EXCEPT ![c].pc = IF Kind(c) = "text" THEN "write" ELSE "ship", ![c].at = now,
                                   ![c].left = IF Kind(c) = "album" THEN Photos ELSE 1]
           /\ UNCHANGED <<status, faults>>
        \/ /\ faults < MaxFaults /\ faults' = faults + 1
           /\ reserved' \in {reserved, kept} \cup IF kept[Event(c)] = None THEN {mine} ELSE {}
           /\ Report(c, "error")
  /\ UNCHANGED <<kind, made, now>>

-----------------------------------------------------------------------------
(* The one source send *)

\* SHIP, MSHIP: a failure is certain
Ship(c) ==
  /\ task[c].pc = "ship"
  /\ \/ Report(c, "failed")
     \/ Goto(c, "post") /\ UNCHANGED status
  /\ UNCHANGED <<kind, reserved, made, now, faults>>

\* A redirected SHIP goes over the HTTP upload.
Redirect(c) ==
  /\ task[c].pc = "ship" /\ Kind(c) # "album" /\ Goto(c, "prepare") /\ UNCHANGED status
  /\ UNCHANGED <<kind, reserved, made, now, faults>>

\* A media connection and its POST or MPOST
Post(c) ==
  /\ task[c].pc = "post"
  /\ \/ Report(c, "failed")
     \/ Goto(c, "stream") /\ UNCHANGED status
  /\ UNCHANGED <<kind, reserved, made, now, faults>>

\* ErrUploadNotSent for every frame that fails
MutantBroken(c, sent) == IF Kind(c) = "album" \/ sent # "all" THEN "failed" ELSE "unsure"

\* outboundSendError: what is certain of a stream that broke off after "sent" of its bytes
Broken(c, sent) == IF Kind(c) = "album" \/ sent = "nothing" THEN "failed" ELSE "unsure"

\* The server makes the message of a photo or an upload once it has every byte.
Stream(c) ==
  /\ task[c].pc = "stream"
  /\ \/ Report(c, Broken(c, "nothing")) /\ UNCHANGED made
     \/ /\ Report(c, Broken(c, "some"))
        /\ made' \in {made} \cup IF Kind(c) = "album" THEN {} ELSE {made \cup {c}}
     \/ /\ Goto(c, "complete") /\ UNCHANGED status
        /\ made' \in {made} \cup IF Kind(c) = "album" THEN {} ELSE {made \cup {c}}
  /\ UNCHANGED <<kind, reserved, now, faults>>

\* COMPLETE: lost, a refusal, or the end of the upload with or without its position
Complete(c) ==
  /\ task[c].pc = "complete" /\ Kind(c) # "album"
  /\ \/ Report(c, Broken(c, "all"))
     \/ c \notin made /\ Report(c, "failed")
     \/ c \in made /\ \E r \in {"sent", "unsure"} : Report(c, r)
  /\ UNCHANGED <<kind, reserved, made, now, faults>>

\* SendAlbum: each photo on its own connection, then one WRITE
Photo(c) ==
  /\ task[c].pc = "complete" /\ Kind(c) = "album"
  /\ \/ Report(c, Broken(c, "all"))
     \/ /\ UNCHANGED status
        /\ task' = [task EXCEPT ![c].left = @ - 1,
                                ![c].pc = IF task[c].left > 1 THEN "post" ELSE "write"]
  /\ UNCHANGED <<kind, reserved, made, now, faults>>

After == [prepare |-> {"chunks"}, chunks |-> {"ready", "write"}, ready |-> {"write"}]

\* directSend: prepare, UploadDirect, waitDirectReady; each failure is before WRITEMEDIA
Direct(c) ==
  /\ task[c].pc \in DOMAIN After
  /\ \/ Report(c, "failed")
     \/ \E pc \in After[task[c].pc] : Goto(c, pc) /\ UNCHANGED status
  /\ UNCHANGED <<kind, reserved, made, now, faults>>

\* A WRITE that fails is a certain refusal.
MutantWrite(c) ==
  /\ task[c].pc = "write"
  /\ \/ made' = made \cup {c} /\ \E r \in {"sent", "failed"} : Report(c, r)
     \/ UNCHANGED made /\ Report(c, "failed")
  /\ UNCHANGED <<kind, reserved, now, faults>>

\* WRITE, WRITEMEDIA: applied or not, answered or not; an answer may lack the position
Write(c) ==
  /\ task[c].pc = "write"
  /\ \/ made' = made \cup {c} /\ \E r \in {"sent", "unsure"} : Report(c, r)
     \/ UNCHANGED made /\ \E r \in {"failed", "unsure"} : Report(c, r)
  /\ UNCHANGED <<kind, reserved, now, faults>>

-----------------------------------------------------------------------------
Crash ==
  /\ faults < MaxFaults /\ faults' = faults + 1
  /\ task' = [c \in Copies |-> IF task[c].pc \in {"idle", "done"} THEN task[c]
                               ELSE [task[c] EXCEPT !.pc = "done", !.result = "error"]]
  /\ UNCHANGED <<kind, reserved, made, status, now>>

Tick == now < MaxTime /\ now' = now + 1 /\ UNCHANGED <<kind, reserved, task, made, status, faults>>

Next ==
  \/ \E c \in Copies, e \in Events : Handle(c, e)
  \/ \E c \in Copies : Fetch(c) \/ Begin(c) \/ Ship(c) \/ Redirect(c) \/ Post(c)
                       \/ Stream(c) \/ Complete(c) \/ Photo(c) \/ Direct(c) \/ Write(c)
  \/ Crash \/ Tick

Spec == Init /\ [][Next]_vars

-----------------------------------------------------------------------------
\* "Each Matrix event therefore reserves a durable attempt before its single Kakao
\* send; a later copy, including one after a restart, is never sent"
\* (outbound_attempts.go), for the 30 days the attempt is kept.
SentOnce ==
  \A c, d \in made : (c # d /\ Event(c) = Event(d))
                     => (task[c].at > task[d].at + Retention \/ task[d].at > task[c].at + Retention)

\* A copy that reports a certain failure created no message, at whichever upload stage
\* it failed (outboundSendError, ErrUploadNotSent, ErrAlbumNotCreated, ErrPhotoNotCreated).
CertainHonest == \A c \in Copies : task[c].result = "failed" => c \notin made

\* "The first copy owns this event's status; a duplicate must not overwrite its
\* delivered or unconfirmed result" (beginOutboundEvent): an event that Matrix shows as
\* certainly not sent has no message.  A later copy whose fetch fails breaks it.
StatusHonest == \A e \in Events : status[e] = "failed" => \A c \in made : Event(c) # e
=============================================================================
