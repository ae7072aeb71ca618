-------------------------- MODULE GroupCreateProofs --------------------------
(***************************************************************************)
(* A creation and its invitations are requested at most once, and a group  *)
(* made for a room gets no second room, for any number of rooms and        *)
(* groups, lost answers, failed saves and crashes.                         *)
(***************************************************************************)
EXTENDS GroupCreate, TLAPS

Attempts == [exists : BOOLEAN, chat : Chats \cup {0}, rejected : BOOLEAN, bound : BOOLEAN,
             invited : BOOLEAN]
Ops == [pc : {"idle", "create", "reject", "confirm", "bind", "bound", "invite"},
        room : Rooms \cup {None}, chat : Chats \cup {0}]

Typed ==
  /\ mem \in [Rooms -> Attempts] /\ disk \in [Rooms -> Attempts] /\ op \in Ops
  /\ creates \in [Rooms -> Nat] /\ invites \in [Rooms -> Nat]

\* What a journal entry a must say of the requests for room r.
Covers(a, r) ==
  /\ creates[r] # 0 => a.exists
  /\ invites[r] # 0 => a.exists /\ a.invited

\* The operation that is about to send has reserved its request, and it is the first.
Reserved ==
  /\ op.pc # "idle" => op.room \in Rooms
  /\ op.pc = "create" =>
       creates[op.room] = 0 /\ mem[op.room].exists /\ disk[op.room].exists
  /\ op.pc = "invite" =>
       /\ invites[op.room] = 0
       /\ mem[op.room].exists /\ mem[op.room].invited
       /\ disk[op.room].exists /\ disk[op.room].invited

\* The inductive invariant: both copies of the journal cover what was sent.
OnceInv ==
  /\ Typed /\ Reserved /\ OnceOnly
  /\ \A r \in Rooms : Covers(mem[r], r) /\ Covers(disk[r], r)

\* Idle is an operation, and it reserves nothing.
LEMMA IdleIsOp == Idle \in Ops /\ Idle.pc = "idle"
BY DEF Idle, Ops

\* saveGroupAttempt keeps the invariant when the entry covers what was sent and the
\* operation that follows it is covered by the entry.
LEMMA SaveKeeps ==
  ASSUME OnceInv, NEW r \in Rooms, NEW a \in Attempts, NEW next \in Ops, Save(r, a, next),
         UNCHANGED <<creates, invites>>, Covers(a, r),
         next.pc # "idle" => next.room = r,
         next.pc = "create" => creates[r] = 0 /\ a.exists,
         next.pc = "invite" => invites[r] = 0 /\ a.exists /\ a.invited
  PROVE  OnceInv'
<1>1. CASE mem' = [mem EXCEPT ![r] = a] /\ disk' = [disk EXCEPT ![r] = a] /\ op' = next
  <2>1. mem' \in [Rooms -> Attempts] /\ disk' \in [Rooms -> Attempts] /\ op' \in Ops
    BY <1>1 DEF OnceInv, Typed
  <2>2. \A s \in Rooms : mem'[s] = (IF s = r THEN a ELSE mem[s]) /\ disk'[s] = (IF s = r THEN a ELSE disk[s])
    BY <1>1 DEF OnceInv, Typed
  <2>3. Reserved'
    BY <1>1, <2>2 DEF Reserved
  <2>4. \A s \in Rooms : Covers(mem[s], s)' /\ Covers(disk[s], s)'
    BY <2>2 DEF OnceInv, Covers
  <2> QED BY <2>1, <2>3, <2>4 DEF OnceInv, Typed, OnceOnly
<1>2. CASE op' = Idle /\ disk' \in {disk, [disk EXCEPT ![r] = a]} /\ UNCHANGED mem
  <2>1. disk' \in [Rooms -> Attempts] /\ op' \in Ops /\ op'.pc = "idle"
    BY <1>2, IdleIsOp DEF OnceInv, Typed
  <2>2. \A s \in Rooms : disk'[s] = disk[s] \/ (s = r /\ disk'[s] = a)
    BY <1>2 DEF OnceInv, Typed
  <2>3. Reserved'
    BY <2>1 DEF Reserved
  <2>4. \A s \in Rooms : Covers(mem[s], s)' /\ Covers(disk[s], s)'
    BY <1>2, <2>2 DEF OnceInv, Covers
  <2> QED BY <1>2, <2>1, <2>3, <2>4 DEF OnceInv, Typed, OnceOnly
<1> QED BY <1>1, <1>2 DEF Save

\* A step that sends and saves nothing, after which no request is about to be sent.
LEMMA QuietKeeps ==
  ASSUME OnceInv, op' \in Ops, op'.pc \notin {"create", "invite"},
         op'.pc # "idle" => op'.room \in Rooms,
         mem' \in {mem, disk}, UNCHANGED <<creates, invites, disk>>
  PROVE  OnceInv'
<1>1. \A s \in Rooms : Covers(mem[s], s)' /\ Covers(disk[s], s)'
  BY DEF OnceInv, Covers
<1>2. Reserved'
  BY DEF Reserved
<1> QED BY <1>1, <1>2 DEF OnceInv, Typed, OnceOnly

\* The journal is written before CREATE is sent.
LEMMA CreateKeeps ==
  ASSUME OnceInv, NEW r \in Rooms, Create(r)
  PROVE  OnceInv'
<1> DEFINE a == [NoAttempt EXCEPT !.exists = TRUE]
           next == [Idle EXCEPT !.pc = "create", !.room = r]
<1>1. a \in Attempts /\ a.exists
  BY DEF NoAttempt, Attempts
<1>2. next \in Ops /\ next.pc = "create" /\ next.room = r
  BY DEF Idle, Ops
<1>3. creates[r] = 0 /\ invites[r] = 0
  BY DEF Create, OnceInv, Covers
<1>4. Save(r, a, next) /\ UNCHANGED <<creates, invites>>
  BY DEF Create, source
<1> HIDE DEF a, next
<1> QED BY <1>1, <1>2, <1>3, <1>4, SaveKeeps DEF Covers

\* Every later entry of an attempt keeps what the earlier ones say.
LEMMA LaterKeeps ==
  ASSUME OnceInv, NEW r \in Rooms, NEW a \in Attempts, NEW next \in Ops, Save(r, a, next),
         UNCHANGED <<creates, invites>>,
         a.exists = mem[r].exists, mem[r].invited => a.invited,
         next.pc # "idle" => next.room = r, next.pc # "create",
         next.pc = "invite" => mem[r].exists /\ ~mem[r].invited /\ a.invited
  PROVE  OnceInv'
<1>1. Covers(mem[r], r)
  BY DEF OnceInv
<1>2. Covers(a, r)
  BY <1>1 DEF Covers
<1>3. next.pc = "invite" => invites[r] = 0 /\ a.exists /\ a.invited
  BY <1>1 DEF Covers
<1> QED BY <1>2, <1>3, SaveKeeps

\* The entries Reject, Confirm, Bound, Reconcile and CompleteInvitations save.
LEMMA LaterEntries ==
  ASSUME OnceInv, NEW r \in Rooms, NEW c \in Chats \cup {0}
  PROVE  /\ mem[r] \in Attempts
         /\ \A a \in {mem[r], [mem[r] EXCEPT !.rejected = TRUE], [mem[r] EXCEPT !.bound = TRUE],
                      [mem[r] EXCEPT !.chat = c], [mem[r] EXCEPT !.invited = TRUE]} :
              a \in Attempts /\ a.exists = mem[r].exists /\ (mem[r].invited => a.invited)
         /\ [mem[r] EXCEPT !.invited = TRUE].invited
<1>1. mem[r] \in Attempts
  BY DEF OnceInv, Typed
<1> QED BY <1>1 DEF Attempts

\* Steps of the operation that holds the gate.
LEMMA GateKeeps ==
  ASSUME OnceInv, Reject \/ Confirm \/ Bound
  PROVE  OnceInv'
<1>1. op \in Ops /\ op.room \in Rooms /\ op.chat \in Chats \cup {0} /\ UNCHANGED <<creates, invites>>
  BY DEF OnceInv, Typed, Reserved, Ops, Reject, Confirm, Bound, source
<1>2. [op EXCEPT !.pc = "bind"] \in Ops /\ [op EXCEPT !.pc = "bind"].pc = "bind"
      /\ [op EXCEPT !.pc = "bind"].room = op.room
  BY <1>1 DEF Ops
<1>3. CASE Reject
  BY <1>1, <1>3, IdleIsOp, LaterEntries, LaterKeeps DEF Reject
<1>4. CASE Confirm
  BY <1>1, <1>2, <1>4, LaterEntries, LaterKeeps DEF Confirm
<1>5. CASE Bound
  BY <1>1, <1>5, IdleIsOp, LaterEntries, LaterKeeps DEF Bound
<1> QED BY <1>3, <1>4, <1>5

\* The operator's commands.
LEMMA OperatorKeeps ==
  ASSUME OnceInv, NEW r \in Rooms,
         CompleteInvitations(r) \/ \E c \in Chats : Reconcile(r, c)
  PROVE  OnceInv'
<1>1. mem[r].chat \in Chats \cup {0} /\ UNCHANGED <<creates, invites>>
  BY DEF OnceInv, Typed, Attempts, CompleteInvitations, Reconcile, source
<1>2. ASSUME NEW c \in Chats \cup {0}, NEW where \in {"bind", "invite"}
      PROVE  [pc |-> where, room |-> r, chat |-> c] \in Ops
  BY DEF Ops
<1>3. ASSUME NEW c \in Chats, Reconcile(r, c)
      PROVE  OnceInv'
  <2> DEFINE next == [pc |-> "bind", room |-> r, chat |-> c]
  <2>1. next \in Ops /\ next.pc = "bind" /\ next.room = r
    BY <1>2
  <2>2. Save(r, [mem[r] EXCEPT !.chat = c], next)
    BY <1>3 DEF Reconcile
  <2> HIDE DEF next
  <2> QED BY <1>1, <2>1, <2>2, LaterEntries, LaterKeeps
<1>4. CASE CompleteInvitations(r) /\ Whole(mem[r].chat)
  <2> DEFINE next == [pc |-> "bind", room |-> r, chat |-> mem[r].chat]
  <2>1. next \in Ops /\ next.pc = "bind" /\ next.room = r
    BY <1>1, <1>2
  <2>2. Save(r, mem[r], next)
    BY <1>4 DEF CompleteInvitations
  <2> HIDE DEF next
  <2> QED BY <1>1, <2>1, <2>2, LaterEntries, LaterKeeps
<1>5. CASE CompleteInvitations(r) /\ ~Whole(mem[r].chat)
  <2> DEFINE next == [pc |-> "invite", room |-> r, chat |-> mem[r].chat]
  <2>1. next \in Ops /\ next.pc = "invite" /\ next.room = r
    BY <1>1, <1>2
  <2>2. Save(r, [mem[r] EXCEPT !.invited = TRUE], next) /\ ~mem[r].invited /\ mem[r].exists
    BY <1>5 DEF CompleteInvitations, Unresolved
  <2> HIDE DEF next
  <2> QED BY <1>1, <2>1, <2>2, LaterEntries, LaterKeeps
<1> QED BY <1>3, <1>4, <1>5

\* CREATE and ADDMEM leave, each reserved in memory and in the file.
LEMMA SendKeeps ==
  ASSUME OnceInv, NEW b \in BOOLEAN, SendCreate(b) \/ SendInvite(b)
  PROVE  OnceInv'
<1>1. op \in Ops /\ op.room \in Rooms /\ UNCHANGED <<mem, disk>>
  BY DEF OnceInv, Typed, Reserved, SendCreate, SendInvite, journal
<1>2. op' \in Ops /\ op'.pc \notin {"create", "invite"} /\ (op'.pc # "idle" => op'.room \in Rooms)
  <2>1. CASE SendCreate(b)
    <3>1. op' = Idle \/ op' = [op EXCEPT !.pc = "reject"]
          \/ \E c \in Chats : op' = [op EXCEPT !.pc = "confirm", !.chat = c]
      BY <2>1 DEF SendCreate, Fresh
    <3> QED BY <1>1, <3>1, IdleIsOp DEF Ops
  <2>2. CASE SendInvite(b)
    <3>1. op' = Idle \/ op' = [op EXCEPT !.pc = "confirm"]
      BY <2>2 DEF SendInvite
    <3> QED BY <1>1, <3>1, IdleIsOp DEF Ops
  <2> QED BY <2>1, <2>2
<1>3. CASE SendCreate(b)
  <2>1. op.pc = "create" /\ creates' = [creates EXCEPT ![op.room] = @ + 1] /\ UNCHANGED invites
    BY <1>3 DEF SendCreate
  <2>2. \A r \in Rooms : creates'[r] = IF r = op.room THEN 1 ELSE creates[r]
    BY <1>1, <2>1 DEF OnceInv, Typed, Reserved
  <2>3. creates' \in [Rooms -> Nat]
    BY <1>1, <2>1 DEF OnceInv, Typed
  <2>4. OnceOnly' /\ \A r \in Rooms : Covers(mem[r], r)' /\ Covers(disk[r], r)'
    BY <1>1, <2>1, <2>2 DEF OnceInv, OnceOnly, Covers, Reserved
  <2> QED BY <1>1, <1>2, <2>1, <2>3, <2>4 DEF OnceInv, Typed, Reserved
<1>4. CASE SendInvite(b)
  <2>1. op.pc = "invite" /\ invites' = [invites EXCEPT ![op.room] = @ + 1] /\ UNCHANGED creates
    BY <1>4 DEF SendInvite
  <2>2. \A r \in Rooms : invites'[r] = IF r = op.room THEN 1 ELSE invites[r]
    BY <1>1, <2>1 DEF OnceInv, Typed, Reserved
  <2>3. invites' \in [Rooms -> Nat]
    BY <1>1, <2>1 DEF OnceInv, Typed
  <2>4. OnceOnly' /\ \A r \in Rooms : Covers(mem[r], r)' /\ Covers(disk[r], r)'
    BY <1>1, <2>1, <2>2 DEF OnceInv, OnceOnly, Covers, Reserved
  <2> QED BY <1>1, <1>2, <2>1, <2>3, <2>4 DEF OnceInv, Typed, Reserved
<1> QED BY <1>3, <1>4

\* The steps that send and save nothing.
LEMMA OtherKeeps ==
  ASSUME OnceInv,
         \/ \E r \in Rooms : Repeat(r)
         \/ Bind \/ BindFails \/ Elsewhere \/ Crash \/ Boot
         \/ \E c \in Chats : Discover(c)
         \/ UNCHANGED vars
  PROVE  OnceInv'
<1>1. op \in Ops /\ \A r \in Rooms : mem[r].chat \in Chats \cup {0}
  BY DEF OnceInv, Typed, Attempts
<1>2. ASSUME NEW r \in Rooms
      PROVE  [pc |-> "bind", room |-> r, chat |-> mem[r].chat] \in Ops
  BY <1>1 DEF Ops
<1>3. ASSUME NEW r \in Rooms, Repeat(r)
      PROVE  OnceInv'
  BY <1>2, <1>3, QuietKeeps DEF Repeat, source, journal
<1>4. CASE Bind \/ BindFails
  <2>1. op' = Idle \/ op' = [op EXCEPT !.pc = "bound"]
    BY <1>4 DEF Bind, BindFails
  <2>2. op.room \in Rooms
    BY <1>4 DEF Bind, BindFails, OnceInv, Reserved
  <2>3. op' \in Ops /\ op'.pc \in {"idle", "bound"} /\ (op'.pc # "idle" => op'.room \in Rooms)
    BY <1>1, <2>1, <2>2, IdleIsOp DEF Ops
  <2> QED BY <1>4, <2>3, QuietKeeps DEF Bind, BindFails, source, journal
<1>5. CASE Crash
  BY <1>5, IdleIsOp, QuietKeeps DEF Crash, source
<1>6. CASE Boot
  <2>1. op' = Idle \/ \E r \in Rooms : op' = [pc |-> "bind", room |-> r, chat |-> mem[r].chat]
    BY <1>6 DEF Boot
  <2> QED BY <1>2, <1>6, <2>1, IdleIsOp, QuietKeeps DEF Boot, source, journal
<1>7. CASE Elsewhere \/ (\E c \in Chats : Discover(c)) \/ UNCHANGED vars
  <2>1. UNCHANGED <<mem, disk, op, creates, invites>>
    BY <1>7 DEF Elsewhere, Discover, vars, source, journal
  <2> QED BY <2>1 DEF OnceInv, Typed, Reserved, OnceOnly, Covers
<1> QED BY <1>3, <1>4, <1>5, <1>6, <1>7

\* The invariant holds initially.
LEMMA OnceStarts == Init => OnceInv
BY IdleIsOp DEF Init, OnceInv, Typed, Attempts, NoAttempt, Reserved, OnceOnly, Covers

\* Every step keeps the invariant.
LEMMA OnceKept == OnceInv /\ [Next]_vars => OnceInv'
BY CreateKeeps, GateKeeps, OperatorKeeps, SendKeeps, OtherKeeps DEF Next

\* No room's creation and no creation's invitations are requested twice, whichever
\* answers are lost, saves fail and crashes happen in between (CreateGroup,
\* CompleteGroupInvitations, resumeGroupCreates).
THEOREM GroupsAreMadeOnce == Spec => []OnceOnly
<1>1. OnceInv => OnceOnly
  BY DEF OnceInv
<1> QED BY <1>1, OnceStarts, OnceKept, PTL DEF Spec

-----------------------------------------------------------------------------
(* No twin *)

\* What separates the values the proof compares.
Distinct ==
  /\ None \notin Rooms /\ "own" \notin Rooms /\ None # "own"
  /\ None \notin SUBSET Selected

\* The source and the bindings have their types.
SourceTyped ==
  /\ groups \in [Chats -> (SUBSET Selected) \cup {None}]
  /\ origin \in [Chats -> Rooms \cup {None}]
  /\ portal \in [Chats -> Rooms \cup {None, "own"}]

\* What a journal entry a says of room r: a finished creation is bound, and one that
\* made a group is not called rejected.
Truthful(a, r) ==
  /\ a.bound => a.exists /\ a.chat \in Chats /\ portal[a.chat] = r
  /\ (\E c \in Chats : origin[c] = r) => a.exists /\ ~a.rejected

\* What an operation o relies on, with the entries m and d of its room.
Founded(o, m, d) ==
  /\ m.exists
  /\ o.pc = "create" => ~m.rejected /\ ~d.rejected
  /\ o.pc = "reject" => \A c \in Chats : origin[c] # o.room
  /\ o.pc \in {"create", "confirm", "invite"} => ~m.bound
  /\ o.pc \in {"confirm", "invite", "bind", "bound"} => o.chat \in Chats
  /\ o.pc \in {"bind", "bound"} => m.chat = o.chat
  /\ o.pc = "bound" => portal[o.chat] = o.room

\* The file says what a finished entry in memory says.
Finished(m, d) == m.bound => d.bound /\ d.chat = m.chat

\* A group with an origin was asked for; a room of its own is only made for a group
\* that exists.
Rooted ==
  \A c \in Chats : /\ origin[c] # None => creates[origin[c]] # 0
                   /\ portal[c] = "own" => groups[c] # None

\* The inductive invariant, beside OnceInv.
TwinInv ==
  /\ SourceTyped /\ Rooted /\ NoTwin
  /\ op.pc # "idle" => Founded(op, mem[op.room], disk[op.room])
  /\ \A r \in Rooms : /\ Truthful(mem[r], r) /\ Truthful(disk[r], r)
                      /\ Finished(mem[r], disk[r])

\* The entries and the operation, typed.
LEMMA Entries ==
  ASSUME OnceInv, TwinInv, NEW r \in Rooms
  PROVE  /\ mem[r] \in Attempts /\ disk[r] \in Attempts
         /\ Truthful(mem[r], r) /\ Truthful(disk[r], r) /\ Finished(mem[r], disk[r])
         /\ \A c \in Chats : origin[c] \in Rooms \cup {None}
BY Zenon DEF OnceInv, Typed, TwinInv, SourceTyped

\* saveGroupAttempt keeps the invariant when the new entry is truthful, leaves a
\* finished one as it is and founds the operation that follows.
LEMMA SaveTrue ==
  ASSUME Distinct, OnceInv, TwinInv, NEW r \in Rooms, NEW a \in Attempts, NEW next,
         Save(r, a, next), UNCHANGED <<groups, origin, creates, portal>>,
         Truthful(a, r), Finished(mem[r], a),
         next.pc # "idle" => next.room = r /\ Founded(next, a, a)
  PROVE  TwinInv'
<1>0. /\ mem \in [Rooms -> Attempts] /\ disk \in [Rooms -> Attempts]
      /\ \A c \in Chats : origin[c] \in Rooms \cup {None}
  BY Zenon DEF OnceInv, Typed, TwinInv, SourceTyped
<1>1. SourceTyped' /\ Rooted' BY Zenon DEF TwinInv, SourceTyped, Rooted
<1>2. CASE mem' = [mem EXCEPT ![r] = a] /\ disk' = [disk EXCEPT ![r] = a] /\ op' = next
  <2>1. \A s \in Rooms : /\ mem'[s] = (IF s = r THEN a ELSE mem[s])
                         /\ disk'[s] = (IF s = r THEN a ELSE disk[s])
    BY <1>0, <1>2, Zenon
  <2>2. NoTwin'
    <3> SUFFICES ASSUME NEW c \in Chats, origin[c] # None, portal[c] = "own"
                 PROVE  mem'[origin[c]].bound /\ mem'[origin[c]].chat # c
      BY Zenon DEF NoTwin
    <3>1. mem[origin[c]].bound /\ mem[origin[c]].chat # c BY Zenon DEF TwinInv, NoTwin
    <3>2. origin[c] \in Rooms BY <1>0, Zenon
    <3>3. CASE origin[c] = r
      <4>1. mem'[origin[c]] = a BY <2>1, <3>2, <3>3, Zenon
      <4>2. a.bound /\ a.chat = mem[r].chat BY <3>1, <3>3, Zenon DEF Finished
      <4> QED BY <3>1, <3>3, <4>1, <4>2, Zenon
    <3>4. CASE origin[c] # r
      <4>1. mem'[origin[c]] = mem[origin[c]] BY <2>1, <3>2, <3>4, Zenon
      <4> QED BY <3>1, <4>1, Zenon
    <3> QED BY <3>3, <3>4, Zenon
  <2>3. op'.pc # "idle" => Founded(op, mem[op.room], disk[op.room])'
    <3> SUFFICES ASSUME op'.pc # "idle" PROVE Founded(op, mem[op.room], disk[op.room])'
      BY Zenon
    <3>1. next.room = r /\ Founded(next, a, a) BY <1>2, Zenon
    <3>2. mem'[op'.room] = a /\ disk'[op'.room] = a BY <1>2, <2>1, <3>1, Zenon
    <3> QED BY <1>2, <3>1, <3>2, Zenon DEF Founded
  <2>4. ASSUME NEW s \in Rooms
        PROVE  Truthful(mem[s], s)' /\ Truthful(disk[s], s)' /\ Finished(mem[s], disk[s])'
    <3>1. CASE s = r
      <4>1. mem'[s] = a /\ disk'[s] = a BY <2>1, <3>1, Zenon
      <4> QED BY <3>1, <4>1, Zenon DEF Truthful, Finished
    <3>2. CASE s # r
      <4>1. mem'[s] = mem[s] /\ disk'[s] = disk[s] BY <2>1, <3>2, Zenon
      <4> QED BY <4>1, Entries, Zenon DEF Truthful, Finished
    <3> QED BY <3>1, <3>2, Zenon
  <2> QED BY <1>1, <2>2, <2>3, <2>4, Zenon DEF TwinInv
<1>3. CASE op' = Idle /\ disk' \in {disk, [disk EXCEPT ![r] = a]} /\ UNCHANGED mem
  <2>1. \A s \in Rooms : disk'[s] = disk[s] \/ (s = r /\ disk'[s] = a)
    BY <1>0, <1>3, Zenon
  <2>2. NoTwin' BY <1>3, Zenon DEF TwinInv, NoTwin
  <2>3. op'.pc = "idle" BY <1>3, IdleIsOp, Zenon
  <2>4. ASSUME NEW s \in Rooms
        PROVE  Truthful(mem[s], s)' /\ Truthful(disk[s], s)' /\ Finished(mem[s], disk[s])'
    <3>1. Truthful(mem[s], s)' BY <1>3, Entries, Zenon DEF Truthful
    <3>2. CASE disk'[s] = disk[s]
      <4>1. Truthful(disk[s], s)' BY <3>2, Entries, Zenon DEF Truthful
      <4>2. Finished(mem[s], disk[s])' BY <1>3, <3>2, Entries, Zenon DEF Finished
      <4> QED BY <3>1, <4>1, <4>2, Zenon
    <3>3. CASE s = r /\ disk'[s] = a
      BY <1>3, <3>1, <3>3, Zenon DEF Truthful, Finished
    <3> QED BY <2>1, <3>2, <3>3, Zenon
  <2> QED BY <1>1, <2>2, <2>3, <2>4, Zenon DEF TwinInv
<1> QED BY <1>2, <1>3, Zenon DEF Save

\* The entries that Reject, Confirm, Bound, Reconcile and CompleteInvitations save,
\* field by field.
LEMMA ChangedEntries ==
  ASSUME OnceInv, NEW r \in Rooms, NEW c \in Chats \cup {0}
  PROVE  /\ \A a \in {[mem[r] EXCEPT !.rejected = TRUE], [mem[r] EXCEPT !.invited = TRUE]} :
              a.exists = mem[r].exists /\ a.chat = mem[r].chat /\ a.bound = mem[r].bound
         /\ [mem[r] EXCEPT !.invited = TRUE].rejected = mem[r].rejected
         /\ LET a == [mem[r] EXCEPT !.bound = TRUE]
            IN  /\ a.exists = mem[r].exists /\ a.chat = mem[r].chat /\ a.bound
                /\ a.rejected = mem[r].rejected
         /\ LET a == [mem[r] EXCEPT !.chat = c]
            IN  /\ a.exists = mem[r].exists /\ a.chat = c /\ a.bound = mem[r].bound
                /\ a.rejected = mem[r].rejected
<1>1. mem[r] \in Attempts
  BY DEF OnceInv, Typed
<1> QED BY <1>1 DEF Attempts

\* The first entry of a room.
LEMMA CreateTrue ==
  ASSUME Distinct, OnceInv, TwinInv, NEW r \in Rooms, Create(r)
  PROVE  TwinInv'
<1> DEFINE a == [NoAttempt EXCEPT !.exists = TRUE]
           next == [Idle EXCEPT !.pc = "create", !.room = r]
<1>1. a \in Attempts /\ a.exists /\ ~a.bound /\ ~a.rejected
  BY DEF NoAttempt, Attempts
<1>2. next.pc = "create" /\ next.room = r
  BY DEF Idle
<1>3. Save(r, a, next) /\ UNCHANGED <<groups, origin, creates, portal>> /\ ~mem[r].exists
  BY Zenon DEF Create, source
<1> HIDE DEF a, next
<1>4. Truthful(a, r) BY <1>1, Zenon DEF Truthful
<1>5. Finished(mem[r], a) BY <1>3, Entries, Zenon DEF Truthful, Finished
<1>6. Founded(next, a, a)
  <2>1. next.pc \notin {"reject", "confirm", "invite", "bind", "bound"} BY <1>2
  <2> QED BY <1>1, <1>2, <2>1 DEF Founded
<1> QED BY <1>1, <1>2, <1>3, <1>4, <1>5, <1>6, SaveTrue, Zenon

\* The operation that holds the gate saves what it learned.
LEMMA GateTrue ==
  ASSUME Distinct, OnceInv, TwinInv, Reject \/ Confirm \/ Bound
  PROVE  TwinInv'
<1> DEFINE r == op.room
<1>1. /\ op \in Ops /\ r \in Rooms /\ op.chat \in Chats \cup {0} /\ op.pc # "idle"
      /\ UNCHANGED <<groups, origin, creates, portal>>
  BY DEF OnceInv, Typed, Reserved, Ops, Reject, Confirm, Bound, source
<1>2. Founded(op, mem[r], disk[r]) BY <1>1, Zenon DEF TwinInv
<1>3. Truthful(mem[r], r) BY <1>1, Entries, Zenon
<1>4. CASE Reject
  <2> DEFINE a == [mem[r] EXCEPT !.rejected = TRUE]
  <2>1. op.pc = "reject" /\ Save(r, a, Idle) BY <1>4, Zenon DEF Reject
  <2>2. /\ a \in Attempts /\ a.exists = mem[r].exists /\ a.chat = mem[r].chat
        /\ a.bound = mem[r].bound
    BY <1>1, ChangedEntries, LaterEntries, Zenon
  <2> HIDE DEF a, r
  <2>3. \A c \in Chats : origin[c] # r BY <1>2, <2>1, Zenon DEF Founded, r
  <2>4. Truthful(a, r) /\ Finished(mem[r], a)
    BY <1>3, <2>2, <2>3, Zenon DEF Truthful, Finished
  <2> QED BY <1>1, <2>1, <2>2, <2>4, IdleIsOp, SaveTrue, Zenon
<1>5. CASE Confirm
  <2> DEFINE a == [mem[r] EXCEPT !.chat = op.chat]
             next == [op EXCEPT !.pc = "bind"]
  <2>1. op.pc = "confirm" /\ Save(r, a, next) BY <1>5, Zenon DEF Confirm
  <2>2. next.pc = "bind" /\ next.room = r /\ next.chat = op.chat BY <1>1 DEF Ops
  <2>3. /\ a \in Attempts /\ a.exists = mem[r].exists /\ a.chat = op.chat
        /\ a.bound = mem[r].bound /\ a.rejected = mem[r].rejected
    BY <1>1, ChangedEntries, LaterEntries, Zenon
  <2> HIDE DEF a, next, r
  <2>4. ~mem[r].bound /\ mem[r].exists /\ op.chat \in Chats
    <3>1. op.pc \in {"create", "confirm", "invite"} /\ op.pc \in {"confirm", "invite", "bind", "bound"}
      BY <2>1
    <3> QED BY <1>2, <3>1, Zenon DEF Founded
  <2>5. Truthful(a, r) /\ Finished(mem[r], a)
    BY <1>3, <2>3, <2>4, Zenon DEF Truthful, Finished
  <2>6. Founded(next, a, a)
    <3>1. next.pc \notin {"create", "reject", "confirm", "invite", "bound"} BY <2>2
    <3> QED BY <2>2, <2>3, <2>4, <3>1 DEF Founded
  <2> QED BY <1>1, <2>1, <2>2, <2>3, <2>5, <2>6, SaveTrue, Zenon
<1>6. CASE Bound
  <2> DEFINE a == [mem[r] EXCEPT !.bound = TRUE]
  <2>1. op.pc = "bound" /\ Save(r, a, Idle) BY <1>6, Zenon DEF Bound
  <2>2. /\ a \in Attempts /\ a.exists = mem[r].exists /\ a.chat = mem[r].chat
        /\ a.bound /\ a.rejected = mem[r].rejected
    BY <1>1, ChangedEntries, LaterEntries, Zenon
  <2>3. mem[r].exists /\ op.chat \in Chats /\ mem[r].chat = op.chat /\ portal[op.chat] = r
    <3>1. op.pc \in {"confirm", "invite", "bind", "bound"} /\ op.pc \in {"bind", "bound"}
      BY <2>1
    <3> QED BY <1>2, <2>1, <3>1, Zenon DEF Founded
  <2> HIDE DEF a, r
  <2>4. Truthful(a, r) /\ Finished(mem[r], a)
    BY <1>3, <2>2, <2>3, Zenon DEF Truthful, Finished
  <2> QED BY <1>1, <2>1, <2>2, <2>4, IdleIsOp, SaveTrue, Zenon
<1> QED BY <1>4, <1>5, <1>6, Zenon

\* An operation towards a binding is founded on an entry with its group.
LEMMA BindFounded ==
  ASSUME NEW o, NEW a, NEW d, o.pc = "bind", a.exists, o.chat \in Chats, a.chat = o.chat
  PROVE  Founded(o, a, d)
<1>1. o.pc \notin {"create", "reject", "confirm", "invite", "bound"} OBVIOUS
<1> QED BY <1>1, Zenon DEF Founded

\* The operator's commands.
LEMMA OperatorTrue ==
  ASSUME Distinct, OnceInv, TwinInv, NEW r \in Rooms,
         CompleteInvitations(r) \/ \E c \in Chats : Reconcile(r, c)
  PROVE  TwinInv'
<1>1. /\ mem[r].chat \in Chats \cup {0} /\ mem[r] \in Attempts
      /\ UNCHANGED <<groups, origin, creates, portal>>
  BY DEF OnceInv, Typed, Attempts, CompleteInvitations, Reconcile, source
<1>2. Truthful(mem[r], r) BY Entries, Zenon
<1>3. mem[r].exists /\ ~mem[r].bound BY Zenon DEF CompleteInvitations, Reconcile, Unresolved
<1>4. ASSUME NEW c \in Chats, Reconcile(r, c)
      PROVE  TwinInv'
  <2> DEFINE a == [mem[r] EXCEPT !.chat = c]
             next == [pc |-> "bind", room |-> r, chat |-> c]
  <2>1. Save(r, a, next) BY <1>4, Zenon DEF Reconcile
  <2>2. next.pc = "bind" /\ next.room = r /\ next.chat = c OBVIOUS
  <2>3. /\ a \in Attempts /\ a.exists = mem[r].exists /\ a.chat = c
        /\ a.bound = mem[r].bound /\ a.rejected = mem[r].rejected
    BY ChangedEntries, LaterEntries, Zenon
  <2> HIDE DEF a, next
  <2>4. Truthful(a, r) /\ Finished(mem[r], a)
    BY <1>2, <1>3, <2>3, Zenon DEF Truthful, Finished
  <2>5. Founded(next, a, a) BY <1>3, <2>2, <2>3, BindFounded, Zenon
  <2> QED BY <1>1, <2>1, <2>2, <2>3, <2>4, <2>5, SaveTrue, Zenon
<1>5. CASE CompleteInvitations(r)
  <2>1. mem[r].chat \in Chats BY <1>1, <1>5, Zenon DEF CompleteInvitations
  <2>2. CASE Whole(mem[r].chat)
    <3> DEFINE next == [pc |-> "bind", room |-> r, chat |-> mem[r].chat]
    <3>1. Save(r, mem[r], next) BY <1>5, <2>2, Zenon DEF CompleteInvitations
    <3>2. next.pc = "bind" /\ next.room = r /\ next.chat = mem[r].chat OBVIOUS
    <3> HIDE DEF next
    <3>3. Founded(next, mem[r], mem[r]) BY <1>3, <2>1, <3>2, BindFounded, Zenon
    <3>4. Finished(mem[r], mem[r]) BY Zenon DEF Finished
    <3> QED BY <1>1, <1>2, <3>1, <3>2, <3>3, <3>4, SaveTrue, Zenon
  <2>3. CASE ~Whole(mem[r].chat)
    <3> DEFINE a == [mem[r] EXCEPT !.invited = TRUE]
               next == [pc |-> "invite", room |-> r, chat |-> mem[r].chat]
    <3>1. Save(r, a, next) BY <1>5, <2>3, Zenon DEF CompleteInvitations
    <3>2. next.pc = "invite" /\ next.room = r /\ next.chat = mem[r].chat OBVIOUS
    <3>3. /\ a \in Attempts /\ a.exists = mem[r].exists /\ a.chat = mem[r].chat
          /\ a.bound = mem[r].bound /\ a.rejected = mem[r].rejected
      BY <1>1, ChangedEntries, LaterEntries, Zenon
    <3> HIDE DEF a, next
    <3>4. Truthful(a, r) /\ Finished(mem[r], a)
      BY <1>2, <1>3, <3>3, Zenon DEF Truthful, Finished
    <3>5. Founded(next, a, a)
      <4>1. next.pc \notin {"create", "reject", "bind", "bound"} BY <3>2
      <4> QED BY <1>3, <2>1, <3>2, <3>3, <4>1, Zenon DEF Founded
    <3> QED BY <1>1, <3>1, <3>2, <3>3, <3>4, <3>5, SaveTrue, Zenon
  <2> QED BY <2>2, <2>3, Zenon
<1> QED BY <1>4, <1>5, Zenon

\* A step that leaves the journal, the origins and the requests alone, when the
\* bindings of rooms stay and the operation is founded.
LEMMA QuietTrue ==
  ASSUME OnceInv, TwinInv, UNCHANGED <<mem, disk, origin, creates>>, SourceTyped',
         \A c \in Chats : /\ groups[c] # None => groups'[c] # None
                          /\ portal[c] \in Rooms => portal'[c] = portal[c]
                          /\ portal'[c] = "own" =>
                               portal[c] = "own" \/ (groups[c] # None /\ Resolved /\ portal[c] = None),
         Distinct, op'.pc # "idle" => Founded(op, mem[op.room], disk[op.room])'
  PROVE  TwinInv'
<1>1. ASSUME NEW r \in Rooms
      PROVE  Truthful(mem[r], r)' /\ Truthful(disk[r], r)' /\ Finished(mem[r], disk[r])'
  <2>1. Truthful(mem[r], r) /\ Truthful(disk[r], r) /\ Finished(mem[r], disk[r])
    BY Entries, Zenon
  <2>2. Truthful(mem[r], r)' BY <2>1, Zenon DEF Truthful
  <2>3. Truthful(disk[r], r)' BY <2>1, Zenon DEF Truthful
  <2> QED BY <2>1, <2>2, <2>3, Zenon DEF Finished
<1>2. Rooted' BY Zenon DEF TwinInv, Rooted
<1>3. NoTwin'
  <2> SUFFICES ASSUME NEW c \in Chats, origin[c] # None, portal'[c] = "own"
               PROVE  mem[origin[c]].bound /\ mem[origin[c]].chat # c
    BY Zenon DEF NoTwin
  <2>1. CASE portal[c] = "own" BY <2>1, Zenon DEF TwinInv, NoTwin
  <2>2. CASE Resolved /\ portal[c] = None
    <3>1. origin[c] \in Rooms BY Zenon DEF TwinInv, SourceTyped
    <3>2. Truthful(mem[origin[c]], origin[c]) BY <3>1, Entries, Zenon
    <3>3. mem[origin[c]].exists /\ ~mem[origin[c]].rejected BY <3>2, Zenon DEF Truthful
    <3>4. mem[origin[c]].bound BY <2>2, <3>1, <3>3, Zenon DEF Resolved, Unresolved
    <3>5. portal[c] # origin[c] BY <2>2, Zenon
    <3> QED BY <3>2, <3>4, <3>5, Zenon DEF Truthful
  <2> QED BY <2>1, <2>2, Zenon
<1> QED BY <1>1, <1>2, <1>3, Zenon DEF TwinInv

\* A group comes into being for the room that asked, or does not.
LEMMA SendCreateTrue ==
  ASSUME Distinct, OnceInv, TwinInv, NEW b \in BOOLEAN, SendCreate(b)
  PROVE  TwinInv'
<1> DEFINE r == op.room
<1>1. /\ op \in Ops /\ r \in Rooms /\ op.pc = "create" /\ creates[r] = 0
      /\ mem[r].exists /\ disk[r].exists
      /\ UNCHANGED <<mem, disk, portal>>
  BY DEF OnceInv, Typed, Reserved, SendCreate, journal
<1>2. ~mem[r].rejected /\ ~disk[r].rejected /\ ~mem[r].bound
  <2>1. Founded(op, mem[r], disk[r]) /\ op.pc # "idle" BY <1>1 DEF TwinInv
  <2>2. op.pc \in {"create", "confirm", "invite"} BY <1>1
  <2> QED BY <1>1, <2>1, <2>2, Zenon DEF Founded
<1>3. \A c \in Chats : origin[c] # r
  <2> SUFFICES ASSUME NEW c \in Chats, origin[c] = r PROVE FALSE BY Zenon
  <2>1. origin[c] # None BY <1>1, Zenon DEF Distinct
  <2> QED BY <1>1, <2>1, Zenon DEF TwinInv, Rooted
<1>4. \A s \in Rooms : creates'[s] = IF s = r THEN creates[s] + 1 ELSE creates[s]
  BY <1>1, Zenon DEF SendCreate, OnceInv, Typed
<1>5. \A s \in Rooms : creates[s] \in Nat BY Zenon DEF OnceInv, Typed
<1>6. creates'[r] # 0 /\ \A s \in Rooms : creates[s] # 0 => creates'[s] # 0
  BY <1>1, <1>4, <1>5
<1>7. SourceTyped /\ Rooted /\ NoTwin BY Zenon DEF TwinInv
<1>8. CASE \E c \in Fresh, some \in SUBSET Selected :
             /\ groups' = [groups EXCEPT ![c] = some] /\ origin' = [origin EXCEPT ![c] = r]
             /\ op' = IF b THEN [op EXCEPT !.pc = "confirm", !.chat = c] ELSE Idle
  <2>1. PICK c \in Fresh, some \in SUBSET Selected :
             /\ groups' = [groups EXCEPT ![c] = some] /\ origin' = [origin EXCEPT ![c] = r]
             /\ op' = IF b THEN [op EXCEPT !.pc = "confirm", !.chat = c] ELSE Idle
    BY <1>8, Zenon
  <2>2. c \in Chats /\ groups[c] = None /\ some # None BY Zenon DEF Fresh, Distinct
  <2>3. \A d \in Chats : /\ origin'[d] = (IF d = c THEN r ELSE origin[d])
                         /\ groups'[d] = (IF d = c THEN some ELSE groups[d])
    BY <1>7, <2>1, <2>2, Zenon DEF SourceTyped
  <2>4. SourceTyped' BY <1>1, <1>7, <2>1, <2>2 DEF SourceTyped
  <2>5. portal[c] # "own" BY <1>7, <2>2, Zenon DEF Rooted
  <2>6. Rooted'
    <3> SUFFICES ASSUME NEW d \in Chats
                 PROVE  /\ origin'[d] # None => creates'[origin'[d]] # 0
                        /\ portal[d] = "own" => groups'[d] # None
      BY <1>1, Zenon DEF Rooted
    <3>1. CASE d = c BY <1>6, <2>2, <2>3, <2>5, <3>1, Zenon
    <3>2. CASE d # c
      <4>1. origin'[d] = origin[d] /\ groups'[d] = groups[d] BY <2>3, <3>2, Zenon
      <4>2. origin[d] # None => origin[d] \in Rooms BY <1>7, Zenon DEF SourceTyped
      <4> QED BY <1>6, <1>7, <4>1, <4>2, Zenon DEF Rooted
    <3> QED BY <3>1, <3>2, Zenon
  <2>7. NoTwin'
    <3> SUFFICES ASSUME NEW d \in Chats, origin'[d] # None, portal[d] = "own"
                 PROVE  mem[origin'[d]].bound /\ mem[origin'[d]].chat # d
      BY <1>1, Zenon DEF NoTwin
    <3>1. origin'[d] = origin[d] BY <2>3, <2>5, Zenon
    <3> QED BY <1>7, <3>1, Zenon DEF NoTwin
  <2>8. ASSUME NEW s \in Rooms
        PROVE  Truthful(mem[s], s)' /\ Truthful(disk[s], s)' /\ Finished(mem[s], disk[s])'
    <3>1. Truthful(mem[s], s) /\ Truthful(disk[s], s) /\ Finished(mem[s], disk[s])
      BY Entries, Zenon
    <3>2. (\E d \in Chats : origin'[d] = s) => s = r \/ \E d \in Chats : origin[d] = s
      BY <2>3, Zenon
    <3>3. Truthful(mem[s], s)' BY <1>1, <1>2, <3>1, <3>2, Zenon DEF Truthful
    <3>4. Truthful(disk[s], s)' BY <1>1, <1>2, <3>1, <3>2, Zenon DEF Truthful
    <3> QED BY <1>1, <3>1, <3>3, <3>4, Zenon DEF Finished
  <2>9. op'.pc # "idle" => Founded(op, mem[op.room], disk[op.room])'
    <3> SUFFICES ASSUME op'.pc # "idle" PROVE Founded(op, mem[op.room], disk[op.room])'
      BY Zenon
    <3>1. op' = [op EXCEPT !.pc = "confirm", !.chat = c] BY <2>1, IdleIsOp, Zenon
    <3>2. op'.pc = "confirm" /\ op'.room = r /\ op'.chat = c BY <1>1, <3>1 DEF Ops
    <3>3. op'.pc \notin {"create", "reject", "bind", "bound"} BY <3>2
    <3> HIDE DEF r
    <3> QED BY <1>1, <1>2, <2>2, <3>2, <3>3, Zenon DEF Founded
  <2> QED BY <2>4, <2>6, <2>7, <2>8, <2>9, Zenon DEF TwinInv
<1>9. CASE op' = (IF b THEN [op EXCEPT !.pc = "reject"] ELSE Idle) /\ UNCHANGED <<groups, origin>>
  <2>1. SourceTyped' BY <1>1, <1>7, <1>9, Zenon DEF SourceTyped
  <2>2. Rooted'
    <3> SUFFICES ASSUME NEW d \in Chats, origin[d] # None PROVE creates'[origin[d]] # 0
      BY <1>1, <1>7, <1>9, Zenon DEF Rooted
    <3>1. origin[d] \in Rooms BY <1>7, Zenon DEF SourceTyped
    <3> QED BY <1>6, <1>7, <3>1, Zenon DEF Rooted
  <2>3. NoTwin' BY <1>1, <1>7, <1>9, Zenon DEF NoTwin
  <2>4. ASSUME NEW s \in Rooms
        PROVE  Truthful(mem[s], s)' /\ Truthful(disk[s], s)' /\ Finished(mem[s], disk[s])'
    BY <1>1, <1>9, Entries, Zenon DEF Truthful, Finished
  <2>5. op'.pc # "idle" => Founded(op, mem[op.room], disk[op.room])'
    <3> SUFFICES ASSUME op'.pc # "idle" PROVE Founded(op, mem[op.room], disk[op.room])'
      BY Zenon
    <3>1. op' = [op EXCEPT !.pc = "reject"] BY <1>9, IdleIsOp, Zenon
    <3>2. op'.pc = "reject" /\ op'.room = r BY <1>1, <3>1 DEF Ops
    <3>3. op'.pc \notin {"create", "confirm", "invite", "bind", "bound"} BY <3>2
    <3> HIDE DEF r
    <3> QED BY <1>1, <1>3, <1>9, <3>2, <3>3, Zenon DEF Founded
  <2> QED BY <2>1, <2>2, <2>3, <2>4, <2>5, Zenon DEF TwinInv
<1> QED BY <1>8, <1>9, Zenon DEF SendCreate

\* The invitations leave; a group only grows.
LEMMA SendInviteTrue ==
  ASSUME Distinct, OnceInv, TwinInv, NEW b \in BOOLEAN, SendInvite(b)
  PROVE  TwinInv'
<1>1. /\ op \in Ops /\ op.room \in Rooms /\ op.pc = "invite" /\ op.pc # "idle"
      /\ UNCHANGED <<mem, disk, origin, creates, portal>>
      /\ op' = Idle \/ op' = [op EXCEPT !.pc = "confirm"]
  BY DEF OnceInv, Typed, Reserved, SendInvite, journal
<1>2. PICK some \in SUBSET Selected : groups' = [groups EXCEPT ![op.chat] = some]
  BY Zenon DEF SendInvite
<1>3. SourceTyped' BY <1>1, <1>2 DEF TwinInv, SourceTyped
<1>4. \A c \in Chats : groups[c] # None => groups'[c] # None
  BY <1>2, Zenon DEF TwinInv, SourceTyped, Distinct
<1>5. op'.pc # "idle" => Founded(op, mem[op.room], disk[op.room])'
  <2> SUFFICES ASSUME op'.pc # "idle" PROVE Founded(op, mem[op.room], disk[op.room])'
    BY Zenon
  <2>1. op' = [op EXCEPT !.pc = "confirm"] BY <1>1, IdleIsOp, Zenon
  <2>2. op'.pc = "confirm" /\ op'.room = op.room /\ op'.chat = op.chat BY <1>1, <2>1 DEF Ops
  <2>3. op'.pc \notin {"create", "reject", "bind", "bound"} BY <2>2
  <2>4. mem[op.room].exists /\ ~mem[op.room].bound /\ op.chat \in Chats
    <3>1. op.pc \in {"create", "confirm", "invite"} /\ op.pc \in {"confirm", "invite", "bind", "bound"}
      BY <1>1
    <3> QED BY <1>1, <3>1, Zenon DEF TwinInv, Founded
  <2> QED BY <1>1, <2>2, <2>3, <2>4, Zenon DEF Founded
<1> QED BY <1>1, <1>3, <1>4, <1>5, QuietTrue, Zenon

\* A binding is only made where there is none, or is the same.
LEMMA BindTrue ==
  ASSUME Distinct, OnceInv, TwinInv, Bind \/ BindFails
  PROVE  TwinInv'
<1> DEFINE r == op.room
<1>1. /\ op \in Ops /\ r \in Rooms /\ op.pc = "bind" /\ op.pc # "idle"
      /\ UNCHANGED <<mem, disk, origin, creates, groups>>
  BY DEF OnceInv, Typed, Reserved, Bind, BindFails, journal, source
<1>2. mem[r].exists /\ op.chat \in Chats /\ mem[r].chat = op.chat
  <2>1. op.pc \in {"bind", "bound"} /\ op.pc \in {"confirm", "invite", "bind", "bound"} BY <1>1
  <2> QED BY <1>1, <2>1, Zenon DEF TwinInv, Founded
<1>3. \/ portal' = portal
      \/ portal[op.chat] \in {None, r} /\ portal' = [portal EXCEPT ![op.chat] = r]
  BY Zenon DEF Bind, BindFails, Bindable
<1>4. op' = Idle \/ (op' = [op EXCEPT !.pc = "bound"] /\ portal' = [portal EXCEPT ![op.chat] = r])
  BY Zenon DEF Bind, BindFails
<1>5. SourceTyped BY Zenon DEF TwinInv
<1>6. SourceTyped' BY <1>1, <1>2, <1>3, <1>5 DEF SourceTyped
<1>7. \A c \in Chats : /\ portal[c] \in Rooms => portal'[c] = portal[c]
                       /\ portal'[c] = "own" => portal[c] = "own"
  <2>1. CASE portal' = portal BY <2>1, Zenon
  <2>2. CASE portal[op.chat] \in {None, r} /\ portal' = [portal EXCEPT ![op.chat] = r]
    <3>1. \A c \in Chats : portal'[c] = IF c = op.chat THEN r ELSE portal[c]
      BY <1>5, <2>2, Zenon DEF SourceTyped
    <3> HIDE DEF r
    <3> QED BY <1>1, <2>2, <3>1, Zenon DEF Distinct
  <2> QED BY <1>3, <2>1, <2>2, Zenon
<1>8. op'.pc # "idle" => Founded(op, mem[op.room], disk[op.room])'
  <2> SUFFICES ASSUME op'.pc # "idle" PROVE Founded(op, mem[op.room], disk[op.room])'
    BY Zenon
  <2>1. op' = [op EXCEPT !.pc = "bound"] /\ portal' = [portal EXCEPT ![op.chat] = r]
    BY <1>4, IdleIsOp, Zenon
  <2>2. op'.pc = "bound" /\ op'.room = r /\ op'.chat = op.chat BY <1>1, <2>1 DEF Ops
  <2>3. op'.pc \notin {"create", "reject", "confirm", "invite"} BY <2>2
  <2>4. portal'[op.chat] = r BY <1>2, <1>5, <2>1, Zenon DEF SourceTyped
  <2> HIDE DEF r
  <2> QED BY <1>1, <1>2, <2>2, <2>3, <2>4, Zenon DEF Founded
<1> QED BY <1>1, <1>6, <1>7, <1>8, QuietTrue, Zenon

\* An attempt that is taken up again, at a repeated request or at a start.
LEMMA ResumeTrue ==
  ASSUME Distinct, OnceInv, TwinInv, Boot \/ \E r \in Rooms : Repeat(r)
  PROVE  TwinInv'
<1>1. /\ UNCHANGED <<mem, disk, origin, creates, groups, portal>>
      /\ \/ op' = op /\ op = Idle
         \/ \E r \in Rooms : /\ mem[r].exists /\ mem[r].chat # 0
                             /\ op' = [pc |-> "bind", room |-> r, chat |-> mem[r].chat]
  BY Zenon DEF Boot, Repeat, source, journal, Unresolved
<1>2. SourceTyped' BY <1>1, Zenon DEF TwinInv, SourceTyped
<1>3. op'.pc # "idle" => Founded(op, mem[op.room], disk[op.room])'
  <2> SUFFICES ASSUME op'.pc # "idle" PROVE Founded(op, mem[op.room], disk[op.room])'
    BY Zenon
  <2>1. PICK r \in Rooms : /\ mem[r].exists /\ mem[r].chat # 0
                           /\ op' = [pc |-> "bind", room |-> r, chat |-> mem[r].chat]
    BY <1>1, IdleIsOp, Zenon
  <2>2. op'.pc = "bind" /\ op'.room = r /\ op'.chat = mem[r].chat BY <2>1
  <2>3. op'.pc \notin {"create", "reject", "confirm", "invite", "bound"} BY <2>2
  <2>4. mem[r].chat \in Chats
    <3>1. mem[r] \in Attempts BY Entries, Zenon
    <3> QED BY <2>1, <3>1 DEF Attempts
  <2> QED BY <1>1, <2>1, <2>2, <2>3, <2>4, Zenon DEF Founded
<1> QED BY <1>1, <1>2, <1>3, QuietTrue, Zenon

\* The groups of other clients, and the rooms the bridge makes.
LEMMA AroundTrue ==
  ASSUME Distinct, OnceInv, TwinInv,
         Elsewhere \/ (\E c \in Chats : Discover(c)) \/ UNCHANGED vars
  PROVE  TwinInv'
<1>1. UNCHANGED <<mem, disk, origin, creates, op>>
  BY Zenon DEF Elsewhere, Discover, vars, source, journal
<1>2. op'.pc # "idle" /\ portal' = portal => Founded(op, mem[op.room], disk[op.room])'
  BY <1>1, Zenon DEF TwinInv, Founded
<1>3. CASE Elsewhere
  <2>1. PICK c \in Chats : groups' = [groups EXCEPT ![c] = Selected]
    BY <1>3, Zenon DEF Elsewhere, Fresh
  <2>2. portal' = portal BY <1>3, Zenon DEF Elsewhere
  <2>3. SourceTyped' BY <1>1, <2>1, <2>2 DEF TwinInv, SourceTyped
  <2>4. \A d \in Chats : groups[d] # None => groups'[d] # None
    BY <2>1, Zenon DEF TwinInv, SourceTyped, Distinct
  <2> QED BY <1>1, <1>2, <2>2, <2>3, <2>4, QuietTrue, Zenon
<1>4. ASSUME NEW c \in Chats, Discover(c) PROVE TwinInv'
  <2>1. /\ groups' = groups /\ portal' = [portal EXCEPT ![c] = "own"] /\ groups[c] # None
        /\ portal[c] = None /\ Resolved /\ op = Idle
    BY <1>4, Zenon DEF Discover, Admits, source
  <2>2. SourceTyped' BY <1>1, <2>1 DEF TwinInv, SourceTyped
  <2>3. \A d \in Chats : portal'[d] = IF d = c THEN "own" ELSE portal[d]
    BY <2>1, Zenon DEF TwinInv, SourceTyped
  <2>4. \A d \in Chats : portal[d] \in Rooms => portal'[d] = portal[d]
    BY <2>1, <2>3, Zenon DEF Distinct
  <2>5. \A d \in Chats : portal'[d] = "own" =>
          portal[d] = "own" \/ (groups[d] # None /\ Resolved /\ portal[d] = None)
    BY <2>1, <2>3, Zenon
  <2>6. op'.pc = "idle" BY <1>1, <2>1, IdleIsOp, Zenon
  <2> QED BY <1>1, <2>1, <2>2, <2>4, <2>5, <2>6, QuietTrue, Zenon
<1>5. CASE UNCHANGED vars
  <2>1. UNCHANGED <<groups, portal>> BY <1>5, Zenon DEF vars
  <2>2. SourceTyped' BY <1>1, <2>1, Zenon DEF TwinInv, SourceTyped
  <2> QED BY <1>1, <1>2, <2>1, <2>2, QuietTrue, Zenon
<1> QED BY <1>3, <1>4, <1>5, Zenon

\* A crash takes the file for the memory.
LEMMA CrashTrue ==
  ASSUME OnceInv, TwinInv, Crash
  PROVE  TwinInv'
<1>1. mem' = disk /\ op' = Idle /\ UNCHANGED <<groups, origin, creates, portal, disk>>
  BY Zenon DEF Crash, source
<1>2. SourceTyped' /\ Rooted' BY <1>1, Zenon DEF TwinInv, SourceTyped, Rooted
<1>3. NoTwin'
  <2> SUFFICES ASSUME NEW c \in Chats, origin[c] # None, portal[c] = "own"
               PROVE  disk[origin[c]].bound /\ disk[origin[c]].chat # c
    BY <1>1, Zenon DEF NoTwin
  <2>1. mem[origin[c]].bound /\ mem[origin[c]].chat # c BY Zenon DEF TwinInv, NoTwin
  <2>2. origin[c] \in Rooms BY Zenon DEF TwinInv, SourceTyped
  <2> QED BY <2>1, <2>2, Entries, Zenon DEF Finished
<1>4. ASSUME NEW s \in Rooms
      PROVE  Truthful(mem[s], s)' /\ Truthful(disk[s], s)' /\ Finished(mem[s], disk[s])'
  <2>1. Truthful(disk[s], s)' BY <1>1, Entries, Zenon DEF Truthful
  <2>2. Truthful(mem[s], s)' BY <1>1, Entries, Zenon DEF Truthful
  <2> QED BY <1>1, <2>1, <2>2, Zenon DEF Finished
<1>5. op'.pc = "idle" BY <1>1, IdleIsOp, Zenon
<1> QED BY <1>2, <1>3, <1>4, <1>5, Zenon DEF TwinInv

\* A group made for a Matrix room never gets a second room from discovery or a
\* membership notice, unless an operator bound the selected room to another group,
\* for any number of rooms and groups, lost answers, failed saves and crashes
\* (checkUnresolvedGroupCreates in handleEvent, resumeGroupCreates).
THEOREM GroupsHaveNoTwin ==
  ASSUME Distinct
  PROVE  Spec => []NoTwin
<1>1. Init => OnceInv /\ TwinInv
  <2> SUFFICES ASSUME Init PROVE OnceInv /\ TwinInv BY Zenon
  <2>1. OnceInv BY OnceStarts, Zenon
  <2>2. \A c \in Chats : groups[c] = None /\ origin[c] = None /\ portal[c] = None
    BY Zenon DEF Init
  <2>3. SourceTyped /\ Rooted /\ NoTwin
    <3>1. SourceTyped
      <4>1. groups = [c \in Chats |-> None] /\ origin = [c \in Chats |-> None]
            /\ portal = [c \in Chats |-> None]
        BY Zenon DEF Init
      <4>2. groups \in [Chats -> (SUBSET Selected) \cup {None}]
        <5>1. None \in (SUBSET Selected) \cup {None} BY Zenon
        <5> QED BY <4>1, <5>1
      <4>3. origin \in [Chats -> Rooms \cup {None}] BY <4>1, Zenon
      <4>4. portal \in [Chats -> Rooms \cup {None, "own"}] BY <4>1, Zenon
      <4> QED BY <4>2, <4>3, <4>4, Zenon DEF SourceTyped
    <3> QED BY <2>2, <3>1, Zenon DEF Rooted, NoTwin, Distinct
  <2>4. op.pc = "idle" BY IdleIsOp, Zenon DEF Init
  <2>5. \A r \in Rooms : ~mem[r].bound /\ disk[r] = mem[r] BY DEF Init, NoAttempt
  <2>6. \A r \in Rooms, c \in Chats : origin[c] # r BY Zenon DEF Init, Distinct
  <2> QED BY <2>1, <2>3, <2>4, <2>5, <2>6, Zenon DEF TwinInv, Truthful, Finished
<1>2. OnceInv /\ TwinInv /\ [Next]_vars => OnceInv' /\ TwinInv'
  <2> SUFFICES ASSUME OnceInv, TwinInv, [Next]_vars PROVE OnceInv' /\ TwinInv' BY Zenon
  <2>1. OnceInv' BY OnceKept, Zenon
  <2>2. TwinInv'
    BY CreateTrue, GateTrue, OperatorTrue, SendCreateTrue, SendInviteTrue, BindTrue, ResumeTrue,
       AroundTrue, CrashTrue, Zenon DEF Next
  <2> QED BY <2>1, <2>2, Zenon
<1>3. TwinInv => NoTwin BY Zenon DEF TwinInv
<1> QED BY <1>1, <1>2, <1>3, PTL DEF Spec
==============================================================================
