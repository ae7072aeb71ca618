---------------------------- MODULE GroupAccess ----------------------------
(***************************************************************************)
(* Membership of one managed group and the access it gives                 *)
(* (group_membership.go, group_access.go, group_matrix_invite.go,          *)
(* discovery.go; the membership parts of client.go, group_history.go,      *)
(* metadata_refresh.go and delivery_hold.go).  A change pauses the group,  *)
(* takes a roster from the source or from a feed, makes Matrix agree with  *)
(* it, and opens the group.  Three actors do this: the event pump, under   *)
(* groupGate for events and without it for the timed retry; a goroutine or *)
(* command under groupGate; and the bootstrap, without it.                 *)
(***************************************************************************)
EXTENDS Naturals, Sequences

CONSTANTS
  Others,       \* possible members other than the account
  Self,         \* the account
  MaxChanges,   \* changes of the source's roster
  MaxFailures,  \* reads and Matrix updates that fail
  MaxSessions

VARIABLES
  source,       \* source: the roster
  feeds,        \* membership events of the chat that are not committed
  matrix,       \* Matrix: the joined members
  meta,         \* KakaoPortalMetadata: pending, removed, roster ({}: none)
  blocked,      \* sourceBlocked of the chat: "none", "pending" or "removed"
  job,          \* the change that the pump, and another actor, work on
  session,      \* "down", "boot" or "live"
  held,         \* the chat is held and waits for its access to change
  retry,        \* a retryMembership task is queued
  changes, failures, sessions

vars == <<source, feeds, matrix, meta, blocked, job, session, held, retry, changes, failures, sessions>>
bounds == <<changes, failures, sessions>>

Actors == {"pump", "other"}
Idle == [kind |-> "none", pc |-> "idle", roster |-> {}, feed |-> <<>>, dead |-> FALSE]
Everyone == Others \cup {Self}

\* checkSourceAccess
Open == blocked = "none" /\ ~meta.removed /\ ~meta.pending

\* groupGate: held by an event, a membership goroutine or a history command
GateFree == \A a \in Actors : job[a].kind \notin {"event", "invite", "history"} \/ job[a].pc = "wait"

Init ==
  /\ source = Everyone /\ feeds = <<>> /\ matrix = Everyone
  /\ meta = [pending |-> FALSE, removed |-> FALSE, roster |-> Everyone] /\ blocked = "none"
  /\ job = [a \in Actors |-> Idle] /\ session = "live" /\ held = FALSE /\ retry = FALSE
  /\ changes = 0 /\ failures = 0 /\ sessions = 1

-----------------------------------------------------------------------------
(* The source *)

\* A member comes or goes; a roster without the account has no feeds for it.
Change(u) ==
  /\ changes < MaxChanges /\ changes' = changes + 1
  /\ source' = IF u \in source THEN source \ {u} ELSE source \cup {u}
  /\ feeds' = IF Self \in source \cup source'
              THEN Append(feeds, [user |-> u, joins |-> u \notin source]) ELSE feeds
  /\ UNCHANGED <<matrix, meta, blocked, job, session, held, retry, failures, sessions>>

-----------------------------------------------------------------------------
(* One change of membership *)

\* verifiedRoster: {} when a group must be read
Verified == IF meta.pending \/ meta.removed THEN {} ELSE meta.roster

\* feedRoster
Applies(f) == f # <<>> /\ Verified # {} /\ f[1].user # Self
FeedRoster(f) == IF f[1].joins THEN Verified \cup {f[1].user} ELSE Verified \ {f[1].user}

\* pauseGroupMembership, with the roster the change starts from
Paused(a, j) ==
  /\ blocked' = "pending" /\ meta' = [meta EXCEPT !.pending = TRUE, !.roster = {}]
  /\ job' = [job EXCEPT ![a] = [j EXCEPT !.pc = IF @ = "read" \/ j.roster = {} THEN "read" ELSE "converge"]]

\* managedMembershipChange
Begin(a, kind, f, dead) ==
  Paused(a, [kind |-> kind, pc |-> "begin", roster |-> IF Applies(f) THEN FeedRoster(f) ELSE {},
             feed |-> f, dead |-> dead])

\* The change ends without opening the group. A managed change asks for a retry, a
\* history command does not; a failed event holds its chat; a bootstrap is tried again.
Failed(a) ==
  /\ job' = [job EXCEPT ![a] = Idle]
  /\ retry' = (retry \/ (job[a].kind \in {"event", "retry", "invite"} /\ ~meta'.removed))
  /\ held' = (held \/ job[a].kind = "event")
  /\ session' = IF job[a].kind = "boot" THEN "down" ELSE session

\* chatInfoFromClient: the source's roster is read
Read(a) ==
  /\ job[a].pc = "read"
  /\ \/ /\ ~job[a].dead /\ Self \in source
        /\ job' = [job EXCEPT ![a].pc = "converge", ![a].roster = source]
        /\ UNCHANGED <<meta, blocked, held, retry, session, failures>>
     \/ /\ ~job[a].dead /\ Self \notin source
        /\ blocked' = "removed" /\ meta' = [meta EXCEPT !.removed = TRUE]
        /\ Failed(a) /\ UNCHANGED failures
     \/ /\ job[a].dead => failures' = failures
        /\ ~job[a].dead => failures < MaxFailures /\ failures' = failures + 1
        /\ UNCHANGED <<meta, blocked>> /\ Failed(a)
  /\ UNCHANGED <<source, feeds, matrix, changes, sessions>>

\* convergeGroupMembership: the roster is saved, Matrix updated and compared with it
Converge(a) ==
  /\ job[a].pc = "converge"
  /\ meta' = [meta EXCEPT !.pending = TRUE, !.roster = job[a].roster]
  /\ \/ /\ matrix' = job[a].roster /\ job' = [job EXCEPT ![a].pc = "open"]
        /\ UNCHANGED <<held, retry, session, failures>>
     \/ /\ failures < MaxFailures /\ failures' = failures + 1
        /\ UNCHANGED matrix /\ Failed(a)
  /\ UNCHANGED <<source, feeds, blocked, changes, sessions>>

\* The group opens; an event is committed, and a retry resumes held delivery.
OpenGroup(a) ==
  /\ job[a].pc = "open" /\ job' = [job EXCEPT ![a] = Idle]
  /\ meta' = [pending |-> FALSE, removed |-> FALSE, roster |-> job[a].roster] /\ blocked' = "none"
  /\ feeds' = IF job[a].kind = "event" THEN Tail(feeds) ELSE feeds
  /\ held' = (held /\ job[a].kind # "retry")
  /\ session' = IF job[a].kind = "boot" THEN "live" ELSE session
  /\ UNCHANGED <<source, matrix, retry, bounds>>

-----------------------------------------------------------------------------
(* Who starts one *)

\* handleEvent: a member joined or left
HandleFeed ==
  /\ session = "live" /\ ~held /\ job["pump"] = Idle /\ GateFree /\ feeds # <<>>
  /\ Head(feeds).user = Self => Head(feeds).joins
  /\ Begin("pump", "event", <<Head(feeds)>>, FALSE)
  /\ UNCHANGED <<source, feeds, matrix, session, held, retry, bounds>>

\* The account's own removal handled without groupGate.
MutantHandleRemoval(left) ==
  /\ session = "live" /\ ~held /\ job["pump"] = Idle /\ feeds # <<>>
  /\ Head(feeds).user = Self /\ ~Head(feeds).joins
  /\ blocked' = "removed" /\ meta' = [meta EXCEPT !.removed = TRUE]
  /\ left /\ matrix' = matrix \ {Self} /\ feeds' = Tail(feeds) /\ UNCHANGED <<held, failures>>
  /\ UNCHANGED <<source, job, session, retry, changes, sessions>>

\* handleEvent: the account left or was removed (recordSourceRemoval, applySourceLeave)
HandleRemoval(left) ==
  /\ session = "live" /\ ~held /\ job["pump"] = Idle /\ GateFree /\ feeds # <<>>
  /\ Head(feeds).user = Self /\ ~Head(feeds).joins
  /\ blocked' = "removed" /\ meta' = [meta EXCEPT !.removed = TRUE]
  /\ \/ left /\ matrix' = matrix \ {Self} /\ feeds' = Tail(feeds) /\ UNCHANGED <<held, failures>>
     \/ /\ ~left /\ failures < MaxFailures /\ failures' = failures + 1
        /\ held' = TRUE /\ UNCHANGED <<matrix, feeds>>
  /\ UNCHANGED <<source, job, session, retry, changes, sessions>>

\* performMetadataRefresh and applyMetadataRefresh of a retryMembership task
Retry ==
  /\ session = "live" /\ retry /\ job["pump"] = Idle /\ retry' = FALSE
  /\ IF meta.pending /\ ~meta.removed THEN Begin("pump", "retry", <<>>, FALSE)
     ELSE UNCHANGED <<meta, blocked, job>>
  /\ UNCHANGED <<source, feeds, matrix, session, held, bounds>>

\* handleMatrixInvite: ADDMEM, confirmed with its log or not, then refreshMembershipAsync
Invite(u, confirmed) ==
  /\ session = "live" /\ Open /\ job["other"] = Idle /\ u \notin meta.roster
  /\ changes < MaxChanges /\ changes' = changes + 1
  /\ \/ u \notin source /\ Self \in source /\ source' = source \cup {u}
        /\ feeds' = Append(feeds, [user |-> u, joins |-> TRUE])
     \/ ~confirmed /\ UNCHANGED <<source, feeds>>
  /\ job' = [job EXCEPT !["other"] = [Idle EXCEPT !.kind = "invite", !.pc = "wait",
               !.feed = IF confirmed THEN <<[user |-> u, joins |-> TRUE]>> ELSE <<>>]]
  /\ UNCHANGED <<matrix, meta, blocked, session, held, retry, failures, sessions>>

\* The goroutine gets groupGate.
Granted ==
  /\ job["other"].pc = "wait" /\ GateFree
  /\ Begin("other", "invite", job["other"].feed, job["other"].dead)
  /\ UNCHANGED <<source, feeds, matrix, session, held, retry, bounds>>

\* BackfillGroup reads the roster first (groupGate.TryLock).
History ==
  /\ session = "live" /\ Open /\ job["other"] = Idle /\ GateFree
  /\ Begin("other", "history", <<>>, FALSE)
  /\ UNCHANGED <<source, feeds, matrix, session, held, retry, bounds>>

-----------------------------------------------------------------------------
(* Sessions *)

\* The session or the process ends. What the pump worked on is lost; the other actor
\* goes on with a dead client, or dies with the process.
End(crash) ==
  /\ session # "down" /\ sessions < MaxSessions /\ sessions' = sessions + 1 /\ session' = "down"
  /\ job' = [job EXCEPT !["pump"] = Idle,
               !["other"] = IF crash \/ @ = Idle THEN Idle ELSE [@ EXCEPT !.dead = TRUE]]
  /\ blocked' = IF crash THEN "none" ELSE blocked
  /\ retry' = (retry /\ ~crash) /\ held' = FALSE
  /\ UNCHANGED <<source, feeds, matrix, meta, changes, failures>>

\* The bootstrap: resumeGroupCreates passes groupGate; discoverGroups revokes a group
\* that the inventory lacks and converges the others, from the stored roster if verified.
Boot ==
  /\ session = "down" /\ job["other"] = Idle
  /\ \/ /\ Self \notin source
        /\ blocked' = "removed" /\ meta' = [meta EXCEPT !.removed = TRUE]
        /\ matrix' = matrix \ {Self} /\ feeds' = <<>> /\ session' = "live" /\ UNCHANGED job
     \/ /\ Self \in source /\ session' = "boot" /\ UNCHANGED <<matrix, feeds>>
        /\ Paused("pump", [Idle EXCEPT !.kind = "boot", !.pc = "begin", !.roster = Verified])
  /\ UNCHANGED <<source, held, retry, bounds>>

Next ==
  \/ \E u \in Everyone : Change(u)
  \/ \E a \in Actors : Read(a) \/ Converge(a) \/ OpenGroup(a)
  \/ HandleFeed \/ Retry \/ Granted \/ History \/ Boot
  \/ \E left \in BOOLEAN : HandleRemoval(left)
  \/ \E u \in Others, confirmed \in BOOLEAN : Invite(u, confirmed)
  \/ \E crash \in BOOLEAN : End(crash)

Spec == Init /\ [][Next]_vars

-----------------------------------------------------------------------------
\* "forwarding is blocked until source rejoining is verified" (errSourceAccessRemoved):
\* a live session never has the group open while the account is not in it, once the
\* notice of its removal was handled, whatever membership changes run meanwhile.
RemovedIsBlocked ==
  (/\ session = "live" /\ Open
   /\ \A i \in 1..Len(feeds) : feeds[i].user # Self \/ feeds[i].joins)
  => Self \in source

\* "the held chat resumes when that retry converges the roster", "a paused chat resumes
\* when its membership converges" (bridge-reconnect-design.md): when nobody works on an
\* open group, a chat held for its access has a retry to come.
HeldResumes ==
  (session = "live" /\ Open /\ held /\ \A a \in Actors : job[a] = Idle) => retry
=============================================================================
