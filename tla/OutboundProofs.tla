--------------------------- MODULE OutboundProofs ---------------------------
(***************************************************************************)
(* An event is sent once while its attempt is kept, and a certain failure  *)
(* made no message, for any number of events, copies, photos and crashes.  *)
(***************************************************************************)
EXTENDS Outbound, Integers, TLAPS

Stages == {"ship", "prepare", "chunks", "ready", "post", "stream", "complete", "write"}
Results == {"none", "failed", "error", "duplicate", "sent", "unsure"}
Tasks == [pc : {"idle", "fetch", "begin", "done"} \cup Stages, event : Events \cup {None},
          at : Nat, left : Int, result : Results]

Typed ==
  /\ kind \in [Events -> Kinds] /\ reserved \in [Events -> Nat \cup {None}]
  /\ task \in [Copies -> Tasks] /\ made \subseteq Copies /\ now \in Nat
  /\ \A c \in Copies : task[c].pc # "idle" => task[c].event \in Events

\* A copy's request makes its message in the last stages, and a copy whose message was
\* made does not fail for certain.
Made(c) ==
  /\ c \in made => /\ task[c].pc \in {"complete", "done"} /\ task[c].result # "failed"
                   /\ task[c].pc = "complete" => kind[task[c].event] # "album"
  /\ task[c].pc # "done" => task[c].result # "failed"

\* The copies whose request may make, or made, a message.
Started(c) == c \in made \/ task[c].pc \in Stages

\* The attempt of a started copy is in kv_store, or a later one is, or it is too old.
Remembered(c) ==
  Started(c) =>
    /\ task[c].at <= now
    /\ \/ task[c].at + Retention < now
       \/ reserved[task[c].event] # None /\ reserved[task[c].event] >= task[c].at

Apart(c, d) ==
  c # d /\ Started(c) /\ Started(d) /\ task[c].event = task[d].event =>
    task[c].at > task[d].at + Retention \/ task[d].at > task[c].at + Retention

\* The inductive invariant.
SendInv ==
  /\ Typed
  /\ \A c \in Copies : Made(c) /\ Remembered(c)
  /\ \A c, d \in Copies : Apart(c, d)

\* A stage of the source send: the copy stays with its event and its attempt.
LEMMA StageKeeps ==
  ASSUME Retention \in Nat, SendInv, NEW c \in Copies, task[c].pc \in Stages, NEW t \in Tasks,
         task' = [task EXCEPT ![c] = t], t.event = task[c].event, t.at = task[c].at,
         t.pc \in Stages \cup {"done"}, made' \in {made, made \cup {c}},
         c \in made' => /\ t.pc \in {"complete", "done"} /\ t.result # "failed"
                        /\ t.pc = "complete" => kind[t.event] # "album",
         t.pc # "done" => t.result # "failed",
         UNCHANGED <<kind, reserved, now>>
  PROVE  SendInv'
<1>1. \A d \in Copies : task'[d] = IF d = c THEN t ELSE task[d]
  BY DEF SendInv, Typed
<1>2. task[c].pc # "idle"
  BY DEF Stages
<1>3. Typed'
  BY <1>1, <1>2 DEF SendInv, Typed
<1>4. \A d \in Copies : Made(d)'
  BY <1>1 DEF SendInv, Made
<1>5. \A d \in Copies : Started(d)' => Started(d)
  BY <1>1 DEF Started
<1>6. \A d \in Copies : task'[d].at = task[d].at /\ task'[d].event = task[d].event
  BY <1>1
<1>7. \A d \in Copies : Remembered(d)'
  BY <1>5, <1>6 DEF SendInv, Remembered
<1>8. \A d, e \in Copies : Apart(d, e)'
  BY <1>5, <1>6 DEF SendInv, Apart
<1> QED BY <1>3, <1>4, <1>7, <1>8 DEF SendInv

\* What deleteOlderThan and a new attempt do to the stored attempts.
Swept ==
  /\ reserved' \in [Events -> Nat \cup {None}]
  /\ \A e \in Events :
       \/ reserved'[e] = reserved[e]
       \/ reserved[e] # None /\ reserved[e] + Retention < now /\ reserved'[e] = None
       \/ reserved'[e] = now

\* A sweep forgets no attempt that matters.
LEMMA SweepKeeps ==
  ASSUME Retention \in Nat, None \notin Nat, SendInv, Swept, NEW d \in Copies, Started(d)
  PROVE  \/ task[d].at + Retention < now
         \/ reserved'[task[d].event] # None /\ reserved'[task[d].event] >= task[d].at
<1>1. task[d] \in Tasks /\ task[d].at \in Nat /\ task[d].event \in Events /\ now \in Nat
  BY DEF SendInv, Typed, Tasks, Started, Made, Stages
<1>2. Remembered(d) /\ reserved[task[d].event] \in Nat \cup {None}
  BY <1>1 DEF SendInv, Typed
<1> QED BY <1>1, <1>2 DEF Remembered, Swept

\* A copy before its send, which stays before it or ends.
LEMMA BeforeKeeps ==
  ASSUME Retention \in Nat, None \notin Nat, SendInv, NEW c \in Copies,
         task[c].pc \in {"idle", "fetch", "begin"}, NEW t \in Tasks,
         task' = [task EXCEPT ![c] = t], t.pc \in {"fetch", "begin", "done"},
         t.event \in Events, t.pc # "done" => t.result # "failed", Swept,
         UNCHANGED <<kind, made, now>>
  PROVE  SendInv'
<1>1. \A d \in Copies : task'[d] = IF d = c THEN t ELSE task[d]
  BY DEF SendInv, Typed
<1>2. c \notin made
  BY DEF SendInv, Made
<1>3. Typed'
  BY <1>1 DEF SendInv, Typed, Swept
<1>4. \A d \in Copies : Made(d)'
  BY <1>1, <1>2 DEF SendInv, Made
<1>5. \A d \in Copies : Started(d)' => d # c /\ Started(d)
  BY <1>1, <1>2 DEF Started, Stages
<1>6. \A d \in Copies : Remembered(d)'
  BY <1>1, <1>5, SweepKeeps DEF SendInv, Remembered
<1>7. \A d, e \in Copies : Apart(d, e)'
  BY <1>1, <1>5 DEF SendInv, Apart
<1> QED BY <1>3, <1>4, <1>6, <1>7 DEF SendInv

\* A copy that begins its send, its attempt being the only one kept.
LEMMA StartKeeps ==
  ASSUME Retention \in Nat, None \notin Nat, SendInv, NEW c \in Copies, task[c].pc = "begin",
         NEW t \in Tasks, task' = [task EXCEPT ![c] = t], t.pc \in {"write", "ship"},
         t.event = task[c].event, t.at = now, t.result # "failed",
         reserved[t.event] = None \/ reserved[t.event] + Retention < now,
         Swept, reserved'[t.event] = now, UNCHANGED <<kind, made, now>>
  PROVE  SendInv'
<1>1. \A d \in Copies : task'[d] = IF d = c THEN t ELSE task[d]
  BY DEF SendInv, Typed
<1>2. c \notin made /\ t.event \in Events /\ now \in Nat
  BY DEF SendInv, Made, Typed
<1>3. Typed'
  BY <1>1, <1>2 DEF SendInv, Typed, Swept
<1>4. \A d \in Copies : Made(d)'
  BY <1>1, <1>2 DEF SendInv, Made
<1>5. \A d \in Copies \ {c} : Started(d)' => Started(d)
  BY <1>1 DEF Started
<1>6. \A d \in Copies : Remembered(d)'
  <2>1. Remembered(c)'
    BY <1>1, <1>2 DEF Remembered
  <2>2. ASSUME NEW d \in Copies \ {c}
        PROVE  Remembered(d)'
    BY <1>1, <1>5, SweepKeeps DEF SendInv, Remembered
  <2> QED BY <2>1, <2>2
<1>7. ASSUME NEW d \in Copies \ {c}, Started(d), task[d].event = t.event
      PROVE  t.at > task[d].at + Retention
  <2>1. task[d].at \in Nat /\ reserved[t.event] \in Nat \cup {None}
    BY <1>2 DEF SendInv, Typed, Tasks
  <2> QED BY <1>2, <1>7, <2>1 DEF SendInv, Remembered
<1>8. \A d, e \in Copies : Apart(d, e)'
  BY <1>1, <1>5, <1>7 DEF SendInv, Apart
<1> QED BY <1>3, <1>4, <1>6, <1>8 DEF SendInv

\* The stages of one copy.
LEMMA StagesKeep ==
  ASSUME Retention \in Nat, SendInv, NEW c \in Copies,
         Ship(c) \/ Redirect(c) \/ Post(c) \/ Stream(c) \/ Complete(c) \/ Photo(c) \/ Direct(c) \/ Write(c)
  PROVE  SendInv'
<1>1. task[c] \in Tasks /\ Made(c)
  BY DEF SendInv, Typed
<1>2. task[c].pc \in Stages /\ UNCHANGED <<kind, reserved, now>>
  BY DEF Ship, Redirect, Post, Stream, Complete, Photo, Direct, Write, Stages, After
<1>3. ASSUME NEW r \in Results, Report(c, r), made' \in {made, made \cup {c}},
             r = "failed" => c \notin made'
      PROVE  SendInv'
  <2> DEFINE t == [task[c] EXCEPT !.pc = "done", !.result = r]
  <2>1. task' = [task EXCEPT ![c] = t]
    BY <1>3 DEF Report
  <2>2. t \in Tasks /\ t.event = task[c].event /\ t.at = task[c].at /\ t.pc = "done" /\ t.result = r
    BY <1>1 DEF Tasks
  <2> HIDE DEF t
  <2> QED BY <1>2, <1>3, <2>1, <2>2, StageKeeps
<1>4. ASSUME NEW where \in Stages, Goto(c, where), made' \in {made, made \cup {c}},
             c \in made' => where = "complete" /\ Kind(c) # "album"
      PROVE  SendInv'
  <2> DEFINE t == [task[c] EXCEPT !.pc = where]
  <2>1. task' = [task EXCEPT ![c] = t]
    BY <1>4 DEF Goto
  <2>2. t \in Tasks /\ t.event = task[c].event /\ t.at = task[c].at /\ t.pc = where
        /\ t.result = task[c].result
    BY <1>1 DEF Tasks
  <2>3. task[c].result # "failed"
    BY <1>1, <1>2 DEF Made, Stages
  <2> HIDE DEF t
  <2> QED BY <1>2, <1>4, <2>1, <2>2, <2>3, StageKeeps DEF Kind, Event
<1>5. CASE Ship(c) \/ Redirect(c) \/ Post(c) \/ Direct(c)
  <2>1. c \notin made /\ UNCHANGED made
    BY <1>1, <1>5 DEF Made, Ship, Redirect, Post, Direct, After
  <2>2. Report(c, "failed") \/ \E where \in Stages : Goto(c, where)
    BY <1>5 DEF Ship, Redirect, Post, Direct, After, Stages
  <2> QED BY <1>3, <1>4, <2>1, <2>2 DEF Results
<1>6. CASE Stream(c)
  <2>1. c \notin made
    BY <1>1, <1>6 DEF Made, Stream
  <2>2. CASE Report(c, Broken(c, "nothing")) /\ UNCHANGED made
    BY <1>3, <2>1, <2>2 DEF Broken, Results
  <2>3. CASE /\ Report(c, Broken(c, "some"))
             /\ made' \in {made} \cup IF Kind(c) = "album" THEN {} ELSE {made \cup {c}}
    BY <1>3, <2>1, <2>3 DEF Broken, Results
  <2>4. CASE /\ Goto(c, "complete")
             /\ made' \in {made} \cup IF Kind(c) = "album" THEN {} ELSE {made \cup {c}}
    BY <1>4, <2>1, <2>4 DEF Stages
  <2> QED BY <1>6, <2>2, <2>3, <2>4 DEF Stream
<1>7. CASE Complete(c)
  BY <1>3, <1>7 DEF Complete, Broken, Results
<1>8. CASE Photo(c)
  <2>1. c \notin made /\ UNCHANGED made
    BY <1>1, <1>8 DEF Made, Photo, Kind, Event
  <2>2. CASE Report(c, Broken(c, "all"))
    BY <1>3, <2>1, <2>2 DEF Broken, Results
  <2>3. CASE task' = [task EXCEPT ![c].left = @ - 1,
                                  ![c].pc = IF task[c].left > 1 THEN "post" ELSE "write"]
    <3> DEFINE where == IF task[c].left > 1 THEN "post" ELSE "write"
               left == task[c].left - 1
               t == [task[c] EXCEPT !.left = left, !.pc = where]
    <3>1. task' = [task EXCEPT ![c] = t]
      BY <2>3
    <3>2. where \in Stages /\ left \in Int
      BY <1>1 DEF Stages, Tasks
    <3> HIDE DEF where, left
    <3>3. t \in Tasks /\ t.event = task[c].event /\ t.at = task[c].at /\ t.pc = where
          /\ t.result = task[c].result
      BY <1>1, <3>2 DEF Tasks
    <3>4. task[c].result # "failed"
      BY <1>1, <1>2 DEF Made, Stages
    <3> HIDE DEF t
    <3> QED BY <1>2, <2>1, <3>1, <3>2, <3>3, <3>4, StageKeeps
  <2> QED BY <1>8, <2>2, <2>3 DEF Photo
<1>9. CASE Write(c)
  <2>1. c \notin made
    BY <1>1, <1>9 DEF Made, Write
  <2> QED BY <1>3, <1>9, <2>1 DEF Write, Results
<1> QED BY <1>5, <1>6, <1>7, <1>8, <1>9

\* The steps before the send.
LEMMA HandleKeeps ==
  ASSUME Retention \in Nat, None \notin Nat, SendInv, NEW c \in Copies, NEW e \in Events,
         Handle(c, e)
  PROVE  SendInv'
<1>1. task[c] \in Tasks /\ task[c].pc = "idle" /\ task[c].result # "failed"
  BY DEF SendInv, Typed, Made, Handle
<1>2. Swept /\ UNCHANGED <<kind, made, now>>
  BY DEF Handle, SendInv, Typed, Swept
<1>3. ASSUME NEW pc \in {"begin", "fetch"}, task' = [task EXCEPT ![c].event = e, ![c].pc = pc]
      PROVE  SendInv'
  <2> DEFINE t == [task[c] EXCEPT !.event = e, !.pc = pc]
  <2>1. t \in Tasks /\ t.event = e /\ t.pc = pc /\ t.result = task[c].result
    BY <1>1 DEF Tasks
  <2>2. task' = [task EXCEPT ![c] = t]
    BY <1>3
  <2> HIDE DEF t
  <2> QED BY <1>1, <1>2, <2>1, <2>2, BeforeKeeps
<1>4. ASSUME NEW r \in {"failed", "error"},
             task' = [task EXCEPT ![c].event = e, ![c].pc = "done", ![c].result = r]
      PROVE  SendInv'
  <2> DEFINE t == [task[c] EXCEPT !.event = e, !.pc = "done", !.result = r]
  <2>1. t \in Tasks /\ t.event = e /\ t.pc = "done"
    BY <1>1 DEF Tasks, Results
  <2>2. task' = [task EXCEPT ![c] = t]
    BY <1>4
  <2> HIDE DEF t
  <2> QED BY <1>1, <1>2, <2>1, <2>2, BeforeKeeps
<1> QED BY <1>3, <1>4 DEF Handle

\* A copy that is fetched, or ends before its send.
LEMMA ReportKeeps ==
  ASSUME Retention \in Nat, None \notin Nat, SendInv, NEW c \in Copies, NEW r \in Results,
         task[c].pc \in {"fetch", "begin"}, Report(c, r), Swept, UNCHANGED <<kind, made, now>>
  PROVE  SendInv'
<1> DEFINE t == [task[c] EXCEPT !.pc = "done", !.result = r]
<1>1. task[c] \in Tasks /\ task[c].event \in Events
  BY DEF SendInv, Typed
<1>2. t \in Tasks /\ t.event = task[c].event /\ t.pc = "done"
  BY <1>1 DEF Tasks
<1>3. task' = [task EXCEPT ![c] = t]
  BY DEF Report
<1> HIDE DEF t
<1> QED BY <1>1, <1>2, <1>3, BeforeKeeps

\* Media are fetched before anything is reserved.
LEMMA FetchKeeps ==
  ASSUME Retention \in Nat, None \notin Nat, SendInv, NEW c \in Copies, Fetch(c)
  PROVE  SendInv'
<1>1. task[c] \in Tasks /\ task[c].event \in Events /\ task[c].pc = "fetch" /\ task[c].result # "failed"
  BY DEF SendInv, Typed, Made, Fetch
<1>2. Swept /\ UNCHANGED <<kind, made, now>>
  BY DEF Fetch, SendInv, Typed, Swept
<1>3. CASE Goto(c, "begin")
  <2> DEFINE t == [task[c] EXCEPT !.pc = "begin"]
  <2>1. t \in Tasks /\ t.event = task[c].event /\ t.pc = "begin" /\ t.result = task[c].result
    BY <1>1 DEF Tasks
  <2>2. task' = [task EXCEPT ![c] = t]
    BY <1>3 DEF Goto
  <2> HIDE DEF t
  <2> QED BY <1>1, <1>2, <2>1, <2>2, BeforeKeeps
<1>4. CASE Report(c, "failed")
  BY <1>1, <1>2, <1>4, ReportKeeps DEF Results
<1> QED BY <1>3, <1>4 DEF Fetch

\* The reservation.
LEMMA BeginKeeps ==
  ASSUME Retention \in Nat, Photos \in Nat, None \notin Nat, SendInv, NEW c \in Copies, Begin(c)
  PROVE  SendInv'
<1> DEFINE kept == [e \in Events |-> IF Kept(e) THEN reserved[e] ELSE None]
           mine == [kept EXCEPT ![Event(c)] = now]
<1>1. /\ task[c] \in Tasks /\ task[c].event \in Events /\ task[c].pc = "begin"
      /\ task[c].result # "failed" /\ now \in Nat /\ reserved \in [Events -> Nat \cup {None}]
  BY DEF SendInv, Typed, Made, Begin
<1>2. UNCHANGED <<kind, made, now>>
  BY DEF Begin
<1>3. \A e \in Events : kept[e] = reserved[e] \/ (reserved[e] # None /\ reserved[e] + Retention < now /\ kept[e] = None)
  BY <1>1 DEF Kept
<1>4. kept \in [Events -> Nat \cup {None}] /\ mine \in [Events -> Nat \cup {None}]
  BY <1>1
<1>5. \A e \in Events : mine[e] = IF e = task[c].event THEN now ELSE kept[e]
  BY DEF Event
<1>6. reserved' \in {reserved, kept, mine} => Swept
  BY <1>1, <1>3, <1>4, <1>5 DEF Swept
<1>7. CASE reserved' = kept /\ Report(c, "duplicate")
  BY <1>1, <1>2, <1>6, <1>7, ReportKeeps DEF Results
<1>8. CASE /\ reserved' \in {reserved, kept} \cup IF kept[Event(c)] = None THEN {mine} ELSE {}
           /\ Report(c, "error")
  BY <1>1, <1>2, <1>6, <1>8, ReportKeeps DEF Results
<1>9. CASE /\ kept[Event(c)] = None /\ reserved' = mine
           /\ task' = [task EXCEPT ![c].pc = IF Kind(c) = "text" THEN "write" ELSE "ship", ![c].at = now,
                                   ![c].left = IF Kind(c) = "album" THEN Photos ELSE 1]
  <2> DEFINE where == IF Kind(c) = "text" THEN "write" ELSE "ship"
             left == IF Kind(c) = "album" THEN Photos ELSE 1
             t == [task[c] EXCEPT !.pc = where, !.at = now, !.left = left]
  <2>1. where \in {"write", "ship"} /\ left \in Int
    OBVIOUS
  <2>2. task' = [task EXCEPT ![c] = t]
    BY <1>9
  <2>3. t \in Tasks /\ t.event = task[c].event /\ t.pc = where /\ t.at = now /\ t.result = task[c].result
    BY <1>1, <2>1 DEF Tasks, Stages
  <2>4. reserved[task[c].event] = None \/ reserved[task[c].event] + Retention < now
    BY <1>1, <1>3, <1>9 DEF Event
  <2>5. Swept /\ reserved'[task[c].event] = now
    BY <1>1, <1>5, <1>6, <1>9
  <2> HIDE DEF t, where, left, kept, mine
  <2> QED BY <1>1, <1>2, <2>1, <2>2, <2>3, <2>4, <2>5, StartKeeps
<1> HIDE DEF kept, mine
<1> QED BY <1>7, <1>8, <1>9 DEF Begin, kept, mine

\* A crash ends every copy under way.
LEMMA CrashKeeps ==
  ASSUME Retention \in Nat, SendInv, Crash
  PROVE  SendInv'
<1>1. \A c \in Copies : task[c] \in Tasks /\ Made(c) /\ Remembered(c)
  BY DEF SendInv, Typed
<1>2. ASSUME NEW c \in Copies
      PROVE  /\ task'[c] \in Tasks /\ task'[c].event = task[c].event /\ task'[c].at = task[c].at
             /\ task'[c].pc \in {"idle", "done"} /\ (task'[c].pc = "idle" => task'[c] = task[c])
             /\ task'[c].result = "failed" => task[c].result = "failed"
             /\ task[c].pc = "idle" => task'[c].pc = "idle"
  <2>1. CASE task[c].pc \in {"idle", "done"}
    BY <1>1, <2>1 DEF Crash
  <2>2. CASE task[c].pc \notin {"idle", "done"}
    <3>1. task'[c] = [task[c] EXCEPT !.pc = "done", !.result = "error"]
      BY <2>2 DEF Crash
    <3> QED BY <1>1, <2>2, <3>1 DEF Tasks, Results
  <2> QED BY <2>1, <2>2
<1>3. UNCHANGED <<kind, reserved, made, now>>
  BY DEF Crash
<1>4. task' \in [Copies -> Tasks]
  BY <1>2 DEF Crash
<1>5. Typed'
  BY <1>2, <1>3, <1>4 DEF SendInv, Typed
<1>6. \A c \in Copies : Made(c)'
  BY <1>1, <1>2, <1>3 DEF Made
<1>7. \A c \in Copies : Started(c)' => Started(c)
  BY <1>2, <1>3 DEF Started, Stages
<1>8. \A c \in Copies : Remembered(c)'
  BY <1>1, <1>2, <1>3, <1>7 DEF Remembered
<1>9. \A c, d \in Copies : Apart(c, d)'
  BY <1>2, <1>7 DEF SendInv, Apart
<1> QED BY <1>5, <1>6, <1>8, <1>9 DEF SendInv

\* Time passes; an attempt may become too old to matter.
LEMMA TickKeeps ==
  ASSUME Retention \in Nat, SendInv, Tick
  PROVE  SendInv'
<1>1. now' = now + 1 /\ now \in Nat /\ UNCHANGED <<kind, reserved, task, made>>
  BY DEF Tick, SendInv, Typed
<1>2. \A c \in Copies : task[c].at \in Nat
  BY DEF SendInv, Typed, Tasks
<1>3. Typed'
  BY <1>1 DEF SendInv, Typed
<1>4. \A c \in Copies : Remembered(c)'
  BY <1>1, <1>2 DEF SendInv, Remembered, Started
<1> QED BY <1>1, <1>3, <1>4 DEF SendInv, Made, Apart, Started

\* An event is sent to KakaoTalk at most once while its attempt is kept, whichever
\* copies arrive, stages fail and crashes happen (reserveOutboundKV), and a copy that
\* reports a certain failure made no message (outboundSendError).
THEOREM EventsAreSentOnce ==
  ASSUME Retention \in Nat, Photos \in Nat, None \notin Nat
  PROVE  Spec => [](SentOnce /\ CertainHonest)
<1>1. Init => SendInv
  BY DEF Init, SendInv, Typed, NoTask, Tasks, Results, Stages, Made, Remembered, Apart, Started
<1>2. SendInv /\ [Next]_vars => SendInv'
  <2> SUFFICES ASSUME SendInv, [Next]_vars PROVE SendInv'
    OBVIOUS
  <2>1. CASE UNCHANGED vars
    BY <2>1 DEF vars, SendInv, Typed, Made, Remembered, Apart, Started
  <2>2. CASE Next
    BY <2>2, HandleKeeps, FetchKeeps, BeginKeeps, StagesKeep, CrashKeeps, TickKeeps DEF Next
  <2> QED BY <2>1, <2>2
<1>3. SendInv => SentOnce /\ CertainHonest
  BY DEF SendInv, Typed, SentOnce, CertainHonest, Made, Apart, Started, Event
<1> QED BY <1>1, <1>2, <1>3, PTL DEF Spec
=============================================================================
