----------------------------- MODULE Metadata -----------------------------
(***************************************************************************)
(* Boards and personal metadata of one group (metadata_refresh.go,         *)
(* metadata_cache.go, announcements.go).  A queue worker reads the source; *)
(* the pump applies pushes to the same stored record.  Each push gives the *)
(* room's snapshot a new version, and an answer is stored only under the   *)
(* version it was asked for.  Of the versions only equality with the       *)
(* latest is compared, so a task carries whether it is current.  Delays of *)
(* retries are arbitrary.                                                  *)
(***************************************************************************)
EXTENDS Naturals, Sequences

CONSTANTS
  MaxRevision,   \* changes of the source
  MaxRetries,    \* maxMetadataRetries
  MaxSessions

Fields == {"name", "image"}

VARIABLES
  src,           \* source: revision of the Boards (0: deleted) and of each personal field
  notices,       \* pushes of the session, not yet handled
  missed,        \* source: a Boards push was lost with its session
  cache,         \* roomMetadataCache
  applied,       \* appliedPersonalRevision
  paused,        \* MembershipPending
  pending,       \* metadataRefreshQueue: a task of each kind
  work,          \* the worker's task
  sessions

vars == <<src, notices, missed, cache, applied, paused, pending, work, sessions>>

NoTask == [queued |-> FALSE, current |-> FALSE, tries |-> 0, revision |-> 0]
Task(t, r) == [queued |-> TRUE, current |-> TRUE, tries |-> t, revision |-> r]
Blank == [boardsAt |-> FALSE, boards |-> 0, personalAt |-> FALSE, name |-> 0, image |-> 0]
Idle == [kind |-> "none", pc |-> "idle", current |-> FALSE, tries |-> 0, revision |-> 0,
         copy |-> Blank, got |-> Blank]
Larger(a, b) == IF a > b THEN a ELSE b
Source == [Blank EXCEPT !.boards = src.boards, !.name = src.name, !.image = src.image]
McmRevision == Larger(src.name, src.image)

Init ==
  /\ src = [revision |-> 1, boards |-> 1, name |-> 1, image |-> 1]
  /\ notices = <<>> /\ missed = FALSE
  /\ cache = Blank /\ applied = 0 /\ paused = FALSE
  /\ pending = [boards |-> Task(0, 0), personal |-> Task(0, 1)] /\ work = Idle /\ sessions = 1

-----------------------------------------------------------------------------
(* The source and the room *)

Change(kind, gone) ==
  /\ src.revision < MaxRevision /\ (gone => kind = "boards" /\ src.boards > 0)
  /\ LET r == src.revision + 1
     IN /\ src' = [src EXCEPT !.revision = r, ![kind] = IF gone THEN 0 ELSE r]
        /\ notices' = Append(notices, [kind |-> kind, revision |-> IF gone THEN 0 ELSE r])
  /\ UNCHANGED <<missed, cache, applied, paused, pending, work, sessions>>

\* pauseGroupMembership and a later convergence
Pause ==
  /\ paused' = ~paused
  /\ UNCHANGED <<src, notices, missed, cache, applied, pending, work, sessions>>

-----------------------------------------------------------------------------
(* The queue *)

\* A new version of the snapshot.
Older(t) == [t EXCEPT !.current = FALSE]
Bumped(q) == [q EXCEPT !.boards = Older(@)]

\* offer: a stale Boards task is refused; a queued task of the kind is merged.
Offer(q, kind, t) ==
  IF kind = "boards" /\ ~t.current THEN q
  ELSE [q EXCEPT ![kind] = [t EXCEPT !.tries = Larger(@, q[kind].tries),
                                     !.revision = Larger(@, q[kind].revision)]]

\* invalidateEnrichment
Invalidate(kind) ==
  /\ cache' = [cache EXCEPT ![IF kind = "boards" THEN "boardsAt" ELSE "personalAt"] = FALSE]
  /\ work' = Older(work)
  /\ pending' = Offer(Bumped(pending), kind, Task(0, 0))

-----------------------------------------------------------------------------
(* The pump *)

\* mergeMoimMetas on the notice
Merge(stored, pushed) == IF pushed = 0 THEN 0 ELSE Larger(stored, pushed)

\* A merge that keeps the version of the snapshot.
MutantBoardsPush ==
  /\ notices # <<>> /\ Head(notices).kind = "boards" /\ notices' = Tail(notices)
  /\ cache' = IF cache.boardsAt THEN [cache EXCEPT !.boards = Merge(@, Head(notices).revision)] ELSE cache
  /\ pending' = Offer(pending, "boards", Task(0, 0)) /\ UNCHANGED work
  /\ UNCHANGED <<src, missed, applied, paused, sessions>>

\* announcementResync and mergeBoardsPush: Boards never read are read again.
BoardsPush ==
  /\ notices # <<>> /\ Head(notices).kind = "boards" /\ notices' = Tail(notices)
  /\ \/ /\ cache.boardsAt
        /\ cache' = [cache EXCEPT !.boards = Merge(@, Head(notices).revision)]
        /\ work' = Older(work) /\ pending' = Offer(Bumped(pending), "boards", Task(0, 0))
     \/ ~cache.boardsAt /\ Invalidate("boards")
  /\ UNCHANGED <<src, missed, applied, paused, sessions>>

\* A push that keeps the version of the snapshot.
MutantPersonalPush ==
  /\ notices # <<>> /\ Head(notices).kind \in Fields /\ notices' = Tail(notices)
  /\ cache.personalAt /\ Head(notices).revision > applied
  /\ cache' = [cache EXCEPT ![Head(notices).kind] = Head(notices).revision]
  /\ applied' = Head(notices).revision
  /\ pending' = Offer(pending, "boards", Task(0, 0))
  /\ UNCHANGED <<src, missed, paused, work, sessions>>

\* CHGMCMETA: applyPersonalPush, or a new read when the room was never read.
PersonalPush ==
  /\ notices # <<>> /\ Head(notices).kind \in Fields /\ notices' = Tail(notices)
  /\ \/ /\ cache.personalAt /\ Head(notices).revision > applied
        /\ cache' = [cache EXCEPT ![Head(notices).kind] = Head(notices).revision]
        /\ applied' = Head(notices).revision
        /\ work' = Older(work) /\ pending' = Offer(Bumped(pending), "boards", Task(0, 0))
     \/ /\ cache.personalAt /\ Head(notices).revision <= applied
        /\ pending' = Offer(pending, "boards", Task(0, 0)) /\ UNCHANGED <<cache, applied, work>>
     \/ ~cache.personalAt /\ Invalidate("personal") /\ UNCHANGED applied
  /\ UNCHANGED <<src, missed, paused, sessions>>

\* boardsRevisionDemand, on the answer to CHATONROOM
EnterRoom ==
  /\ src.boards > 0 /\ missed /\ missed' = FALSE
  /\ IF cache.boardsAt /\ cache.boards # src.boards THEN Invalidate("boards")
     ELSE UNCHANGED <<cache, work, pending>>
  /\ UNCHANGED <<src, notices, applied, paused, sessions>>

-----------------------------------------------------------------------------
(* The worker *)

\* take, metadataRoomAllowed; Boards that are stored are only projected.
Take(kind) ==
  /\ work = Idle /\ pending[kind].queued
  /\ pending' = [pending EXCEPT ![kind] = NoTask]
  /\ work' = IF kind = "boards" /\ (~pending.boards.current \/ paused \/ cache.boardsAt) THEN Idle
             ELSE [Idle EXCEPT !.kind = kind, !.pc = "ask", !.current = TRUE, !.copy = cache,
                               !.tries = pending[kind].tries, !.revision = pending[kind].revision]
  /\ UNCHANGED <<src, notices, missed, cache, applied, paused, sessions>>

\* MoimMeta or PersonalMetas answers; recordPersonalRevision comes before the rooms.
Answer ==
  /\ work.pc = "ask" /\ work' = [work EXCEPT !.pc = "publish", !.got = Source]
  /\ applied' = IF work.kind = "personal" THEN Larger(applied, work.revision) ELSE applied
  /\ UNCHANGED <<src, notices, missed, cache, paused, pending, sessions>>

\* The read fails: applyMetadataRefresh offers it again, a bounded number of times.
Fail ==
  /\ work.pc = "ask" /\ work' = Idle
  /\ pending' = IF work.tries < MaxRetries
                THEN Offer(pending, work.kind,
                           [Task(work.tries + 1, work.revision) EXCEPT !.current = work.current])
                ELSE pending
  /\ UNCHANGED <<src, notices, missed, cache, applied, paused, sessions>>

\* publishRoomMetadata; personal metadata is read into the record stored now.
Publish ==
  /\ work.pc = "publish" /\ work' = Idle
  /\ \/ /\ work.kind = "boards" /\ work.current
        /\ cache' = [work.copy EXCEPT !.boards = work.got.boards, !.boardsAt = TRUE]
        /\ UNCHANGED pending
     \/ /\ work.kind = "personal" /\ work.current /\ ~paused
        /\ cache' = [cache EXCEPT !.name = work.got.name, !.image = work.got.image,
                                  !.personalAt = TRUE]
        /\ pending' = Offer(pending, "boards", Task(0, 0))
     \/ /\ work.current => work.kind = "personal" /\ paused
        /\ UNCHANGED <<cache, pending>>
  /\ UNCHANGED <<src, notices, missed, applied, paused, sessions>>

\* enqueueEnrichment: what was never read is read
Enrichment(q) ==
  LET first == IF cache.boardsAt THEN q ELSE Offer(q, "boards", Task(0, 0))
  IN IF cache.personalAt THEN first ELSE Offer(first, "personal", Task(0, 0))

\* personalRevisionDemand: read when the login list is ahead of what was applied
PersonalDemand(q) ==
  IF McmRevision > applied THEN Offer(q, "personal", Task(0, McmRevision)) ELSE q

\* The session ends with its worker and its pushes; the process may restart too.
\* The next bootstrap converges the room (discoverGroups), remembers a new snapshot
\* (enqueueEnrichment) and compares revisions (personalRevisionDemand).
Reconnect(restart) ==
  /\ sessions < MaxSessions /\ sessions' = sessions + 1
  /\ notices' = <<>> /\ work' = Idle /\ paused' = FALSE
  /\ missed' = (missed \/ \E i \in 1..Len(notices) : notices[i].kind = "boards")
  /\ pending' = PersonalDemand(Enrichment(
       IF restart THEN [boards |-> NoTask, personal |-> NoTask] ELSE Bumped(pending)))
  /\ UNCHANGED <<src, cache, applied>>

Next ==
  \/ \E kind \in Fields \cup {"boards"}, gone \in BOOLEAN : Change(kind, gone)
  \/ Pause \/ BoardsPush \/ PersonalPush \/ EnterRoom
  \/ \E kind \in {"boards", "personal"} : Take(kind)
  \/ Answer \/ Fail \/ Publish
  \/ \E restart \in BOOLEAN : Reconnect(restart)

Spec == Init /\ [][Next]_vars

-----------------------------------------------------------------------------
\* "A response begun before a newer notice cannot mark it fresh"
\* (publishRoomMetadata): stored Boards that count as read are those of the source,
\* unless a push about them is on its way or was lost with a session.
BoardsFresh ==
  (/\ cache.boardsAt /\ ~missed
   /\ \A i \in 1..Len(notices) : notices[i].kind # "boards")
  => cache.boards = src.boards

\* "A source read begun before this push must not overwrite it" (applyPersonalPush):
\* the end of a read never replaces a personal field by an older one.
ReadEnds == work # Idle /\ work' = Idle => \A f \in Fields : cache'[f] >= cache[f]
ReadsForward == [][ReadEnds]_vars

\* appliedPersonalRevision "is the last personal-metadata revision the bridge applied":
\* once nothing about it is under way, a change up to that revision is in the record
\* of a room that counts as read.
AppliedIsStored ==
  (cache.personalAt /\ notices = <<>> /\ work = Idle /\ ~pending.personal.queued)
  => \A f \in Fields : src[f] <= applied => cache[f] = src[f]
=============================================================================
