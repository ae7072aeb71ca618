---------------------------- MODULE GroupCreate ----------------------------
(***************************************************************************)
(* Creating a source group for a Matrix room (group_create.go,             *)
(* group_reconcile.go).  A journal in the login's metadata reserves the    *)
(* mutation before it is sent; an answer may be lost, a save may fail, the *)
(* process may die.  Operators reconcile an unresolved creation or         *)
(* complete its invitations.  groupGate makes the operations exclusive.    *)
(***************************************************************************)
EXTENDS Naturals, FiniteSets

CONSTANTS
  Rooms,         \* Matrix rooms selected for creation, with the same selection
  Chats,         \* source groups, 1 .. n
  Selected,      \* the selected participants
  None,
  MaxFailures    \* failed saves, bindings, and crashes

VARIABLES
  groups,        \* source: the participants of each group, None before it exists
  origin,        \* source: the room whose CREATE made the group
  creates,       \* source: CREATE requests for each room
  invites,       \* source: ADDMEM requests for each room
  mem, disk,     \* groupCreateAttempt of each room, in memory and stored
  portal,        \* the room each group is bound to; "own" if the bridge made it
  op,            \* the operation that holds groupGate
  up,            \* the session is up
  failures

vars == <<groups, origin, creates, invites, mem, disk, portal, op, up, failures>>
source == <<groups, origin, creates, invites>>
journal == <<mem, disk, failures>>

NoAttempt == [exists |-> FALSE, chat |-> 0, rejected |-> FALSE, bound |-> FALSE, invited |-> FALSE]
Idle == [pc |-> "idle", room |-> None, chat |-> 0]

Unresolved(a) == a.exists /\ ~a.rejected /\ ~a.bound
\* checkUnresolvedGroupCreates
Resolved == \A r \in Rooms : ~Unresolved(mem[r])

Init ==
  /\ groups = [c \in Chats |-> None] /\ origin = [c \in Chats |-> None]
  /\ creates = [r \in Rooms |-> 0] /\ invites = [r \in Rooms |-> 0]
  /\ mem = [r \in Rooms |-> NoAttempt] /\ disk = mem
  /\ portal = [c \in Chats |-> None] /\ op = Idle /\ up = TRUE /\ failures = 0

Fault == failures < MaxFailures /\ failures' = failures + 1

\* saveGroupAttempt: saved and read back, then the next step; a failure restores the
\* memory and says nothing of what is stored.
Save(r, a, next) ==
  \/ mem' = [mem EXCEPT ![r] = a] /\ disk' = [disk EXCEPT ![r] = a] /\ op' = next /\ UNCHANGED failures
  \/ Fault /\ op' = Idle /\ disk' \in {disk, [disk EXCEPT ![r] = a]} /\ UNCHANGED mem

\* validateGroupRoom: the room is bridged to no other group.  Its permissions and members
\* are checked too; such a refusal changes nothing.
RoomFits(r, c) == \A d \in Chats \ {c} : portal[d] # r

\* creationSourceRoster: everyone selected is in the group
Whole(c) == groups[c] = Selected

Fresh == {c \in Chats : groups[c] = None /\ \A d \in Chats : d < c => groups[d] # None}

-----------------------------------------------------------------------------
(* CreateGroup *)

\* The request leaves before the attempt is journalled.
MutantCreate(r) ==
  /\ up /\ op = Idle /\ ~mem[r].exists /\ Resolved /\ RoomFits(r, 0)
  /\ op' = [Idle EXCEPT !.pc = "create", !.room = r]
  /\ UNCHANGED <<source, mem, disk, failures, portal, up>>

Create(r) ==
  /\ up /\ op = Idle /\ ~mem[r].exists /\ Resolved /\ RoomFits(r, 0)
  /\ Save(r, [NoAttempt EXCEPT !.exists = TRUE], [Idle EXCEPT !.pc = "create", !.room = r])
  /\ UNCHANGED <<source, portal, up>>

\* A confirmed attempt resumes its binding.
Repeat(r) ==
  /\ up /\ op = Idle /\ mem[r].exists /\ ~mem[r].rejected /\ mem[r].chat # 0
  /\ op' = [pc |-> "bind", room |-> r, chat |-> mem[r].chat]
  /\ UNCHANGED <<source, journal, portal, up>>

\* CreateChat: rejected, or a group with some of the selection; the answer may be lost.
SendCreate(answered) ==
  /\ op.pc = "create" /\ creates' = [creates EXCEPT ![op.room] = @ + 1]
  /\ \/ \E c \in Fresh, some \in SUBSET Selected :
          /\ groups' = [groups EXCEPT ![c] = some] /\ origin' = [origin EXCEPT ![c] = op.room]
          /\ op' = IF answered THEN [op EXCEPT !.pc = "confirm", !.chat = c] ELSE Idle
     \/ /\ op' = IF answered THEN [op EXCEPT !.pc = "reject"] ELSE Idle
        /\ UNCHANGED <<groups, origin>>
  /\ UNCHANGED <<invites, journal, portal, up>>

Reject ==
  /\ op.pc = "reject" /\ Save(op.room, [mem[op.room] EXCEPT !.rejected = TRUE], Idle)
  /\ UNCHANGED <<source, portal, up>>

\* The source identity is recorded before the binding.
Confirm ==
  /\ op.pc = "confirm"
  /\ Save(op.room, [mem[op.room] EXCEPT !.chat = op.chat], [op EXCEPT !.pc = "bind"])
  /\ UNCHANGED <<source, portal, up>>

Bindable(r, c) == Whole(c) /\ portal[c] \in {None, r} /\ RoomFits(r, c)

\* bindCreatedGroup: the whole selection, one room
Bind ==
  /\ op.pc = "bind"
  /\ IF Bindable(op.room, op.chat)
     THEN portal' = [portal EXCEPT ![op.chat] = op.room] /\ op' = [op EXCEPT !.pc = "bound"]
     ELSE op' = Idle /\ UNCHANGED portal
  /\ UNCHANGED <<source, journal, up>>

\* verifyGroupBinding: the room has not converged, or a step before it failed
BindFails ==
  /\ op.pc = "bind" /\ Bindable(op.room, op.chat) /\ Fault /\ op' = Idle
  /\ portal' \in {portal, [portal EXCEPT ![op.chat] = op.room]}
  /\ UNCHANGED <<source, mem, disk, up>>

Bound ==
  /\ op.pc = "bound" /\ Save(op.room, [mem[op.room] EXCEPT !.bound = TRUE], Idle)
  /\ UNCHANGED <<source, portal, up>>

-----------------------------------------------------------------------------
(* reconcileGroup *)

\* ReconcileGroup: the operator names a group whose roster is the selection
Reconcile(r, c) ==
  /\ op = Idle /\ Unresolved(mem[r]) /\ mem[r].chat \in {0, c} /\ Whole(c)
  /\ Save(r, [mem[r] EXCEPT !.chat = c], [pc |-> "bind", room |-> r, chat |-> c])
  /\ UNCHANGED <<source, portal, up>>

\* The reservation of the invitations is not looked at.
MutantCompleteInvitations(r) ==
  /\ op = Idle /\ Unresolved(mem[r]) /\ mem[r].chat # 0 /\ ~Whole(mem[r].chat)
  /\ Save(r, [mem[r] EXCEPT !.invited = TRUE], [pc |-> "invite", room |-> r, chat |-> mem[r].chat])
  /\ UNCHANGED <<source, portal, up>>

\* CompleteGroupInvitations: missing selections are invited once
CompleteInvitations(r) ==
  /\ op = Idle /\ Unresolved(mem[r]) /\ mem[r].chat # 0
  /\ \/ /\ Whole(mem[r].chat)
        /\ Save(r, mem[r], [pc |-> "bind", room |-> r, chat |-> mem[r].chat])
     \/ /\ ~Whole(mem[r].chat) /\ ~mem[r].invited
        /\ Save(r, [mem[r] EXCEPT !.invited = TRUE],
                [pc |-> "invite", room |-> r, chat |-> mem[r].chat])
  /\ UNCHANGED <<source, portal, up>>

SendInvite(confirmed) ==
  /\ op.pc = "invite" /\ invites' = [invites EXCEPT ![op.room] = @ + 1]
  /\ \E some \in SUBSET Selected :
       /\ groups[op.chat] \subseteq some /\ (confirmed => some = Selected)
       /\ groups' = [groups EXCEPT ![op.chat] = some]
  /\ op' = IF confirmed THEN [op EXCEPT !.pc = "confirm"] ELSE Idle
  /\ UNCHANGED <<origin, creates, journal, portal, up>>

-----------------------------------------------------------------------------
(* Around it *)

\* A group made by another client.
Elsewhere ==
  /\ \E c \in Fresh : groups' = [groups EXCEPT ![c] = Selected]
  /\ UNCHANGED <<origin, creates, invites, journal, portal, op, up>>

Crash ==
  /\ Fault /\ mem' = disk /\ op' = Idle /\ up' = FALSE
  /\ UNCHANGED <<source, disk, portal>>

\* resumeGroupCreates: bind what is confirmed, refuse to start while one is uncertain
Boot ==
  /\ ~up /\ op = Idle
  /\ \/ \E r \in Rooms : /\ Unresolved(mem[r]) /\ mem[r].chat # 0
                         /\ op' = [pc |-> "bind", room |-> r, chat |-> mem[r].chat] /\ UNCHANGED up
     \/ Resolved /\ up' = TRUE /\ UNCHANGED op
  /\ UNCHANGED <<source, journal, portal>>

\* An event that does not ask for unresolved creations.
MutantAdmits == up /\ op = Idle

\* handleEvent takes groupGate and is refused while a creation is unresolved.
Admits == up /\ op = Idle /\ Resolved

\* discoverGroups or a membership event makes a room for a group without one
Discover(c) ==
  /\ Admits /\ groups[c] # None /\ portal[c] = None
  /\ portal' = [portal EXCEPT ![c] = "own"]
  /\ UNCHANGED <<source, journal, op, up>>

Next ==
  \/ \E r \in Rooms : Create(r) \/ Repeat(r) \/ CompleteInvitations(r)
  \/ \E r \in Rooms, c \in Chats : Reconcile(r, c)
  \/ \E b \in BOOLEAN : SendCreate(b) \/ SendInvite(b)
  \/ Reject \/ Confirm \/ Bind \/ BindFails \/ Bound \/ Elsewhere \/ Crash \/ Boot
  \/ \E c \in Chats : Discover(c)

Spec == Init /\ [][Next]_vars

-----------------------------------------------------------------------------
\* "an explicit once-only mutation ... uncertain attempts never issue CREATE again"
\* (CreateGroup), "A durable reservation prevents any retry" (CompleteGroupInvitations):
\* lost answers, failed saves and restarts never repeat a request for a room.
OnceOnly == \A r \in Rooms : creates[r] <= 1 /\ invites[r] <= 1

\* A group made for a Matrix room never gets a second room from discovery or a
\* membership notice (checkUnresolvedGroupCreates in handleEvent, resumeGroupCreates),
\* unless an operator bound the selected room to another group.
NoTwin ==
  \A c \in Chats : (origin[c] # None /\ portal[c] = "own")
                   => (mem[origin[c]].bound /\ mem[origin[c]].chat # c)
=============================================================================
