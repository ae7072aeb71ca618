------------------------------ MODULE MC_Bridge ------------------------------
(***************************************************************************)
(* Small instances of the bridge's components that do not share state, one *)
(* chosen at the start and run alone.  They take turns in the variables    *)
(* v1 .. v12; those a component does not need stay 0.                      *)
(***************************************************************************)
EXTENDS Naturals, TLC

CONSTANTS x1, x2, y1, y2, z1, z2, Absent

VARIABLES component, v1, v2, v3, v4, v5, v6, v7, v8, v9, v10, v11, v12

slots == <<v1, v2, v3, v4, v5, v6, v7, v8, v9, v10, v11, v12>>
vars == <<component, slots>>

\* Members of these pairs are alike wherever they stand
Alike == Permutations({x1, x2}) \cup Permutations({y1, y2})

HA == INSTANCE HistoryAdmission WITH
  Profiles <- {x1, x2}, Processes <- {y1, y2}, Demands <- {z1, z2}, Keys <- {"k", "m"},
  Resources <- {"k"}, Interval <- 1, Backoff <- 2, MaxPending <- 2, MaxExchanges <- 2,
  CacheBudget <- 1, MaxTime <- 3, MaxFaults <- 1, proc <- v1, legacy <- v2, now <- v3,
  disk <- v4, profile <- v5, poisoned <- v6, demand <- v7, cache <- v8, floor <- v9,
  early <- v10, twice <- v11, faults <- v12
HS == INSTANCE HistoryStore WITH
  MaxLog <- 3, Posted <- {1}, PageSize <- 2, MaxPages <- 2, MaxUnavailable <- 1,
  MaxCrashes <- 1, log <- v1, rev <- v2, deleted <- v3, live <- v4, answer <- v5, saving <- v6,
  pages <- v7, overlay <- v8, targets <- v9, unavailable <- v10, seen <- v11, crashes <- v12
BF == INSTANCE Backfill WITH
  Last <- 3, Albums <- {2}, Limit <- 2, Budget <- 2, MaxCrashes <- 1, stored <- v1,
  mapped <- v2, known <- v3, copies <- v4, batch <- v5, task <- v6, work <- v7, journal <- v8,
  import <- v9, crashes <- v10
RX == INSTANCE Reactions WITH
  Others <- {x1, x2}, Kinds <- {y1, y2}, OwnPicks <- {"none"}, MaxRevision <- 3, Burst <- 1,
  MaxFailures <- 1, log <- v1, session <- v2, pushes <- v3, rows <- v4, stored <- v5,
  confirmed <- v6, window <- v7, tokens <- v8, demand <- v9, apply <- v10, own <- v11,
  failures <- v12
VW == INSTANCE Viewing WITH
  Chats <- {x1, x2}, MaxRevision <- 2, MaxViews <- 3, None <- Absent, newest <- v1,
  cursor <- v2, view <- v3, views <- v4, run <- v5, asked <- v6
RS == INSTANCE ReadState WITH
  MaxLog <- 3, HeldCap <- 2, PageSize <- 1, MaxCrashes <- 1, logs <- v1, rows <- v2,
  serverRead <- v3, checkpoint <- v4, pending <- v5, mark <- v6, seen <- v7, notices <- v8,
  entered <- v9, bridged <- v10, receipt <- v11, crashes <- v12
MD == INSTANCE Metadata WITH
  MaxRevision <- 3, MaxRetries <- 1, MaxSessions <- 2, src <- v1, notices <- v2, missed <- v3,
  cache <- v4, applied <- v5, paused <- v6, pending <- v7, work <- v8, sessions <- v9
PF == INSTANCE Profiles WITH
  Callers <- {x1, x2}, Cooldown <- 2, MaxTime <- 5, MaxRequests <- 3, record <- v1, call <- v2,
  asked <- v3, requests <- v4, now <- v5
GA == INSTANCE GroupAccess WITH
  Others <- {x1, x2}, Self <- "me", MaxChanges <- 3, MaxFailures <- 1, MaxSessions <- 2,
  source <- v1, feeds <- v2, matrix <- v3, meta <- v4, blocked <- v5, job <- v6, session <- v7,
  held <- v8, retry <- v9, changes <- v10, failures <- v11, sessions <- v12
GC == INSTANCE GroupCreate WITH
  Rooms <- {x1, x2}, Chats <- {1, 2}, Selected <- {y1, y2}, MaxFailures <- 2, None <- Absent,
  groups <- v1, origin <- v2, creates <- v3, invites <- v4, mem <- v5, disk <- v6, portal <- v7,
  op <- v8, up <- v9, failures <- v10
OB == INSTANCE Outbound WITH
  Events <- {"event"}, Copies <- {y1, y2, "third"}, Photos <- 2, Retention <- 1, MaxTime <- 2,
  MaxFaults <- 2, None <- Absent, kind <- v1, reserved <- v2, task <- v3, made <- v4,
  status <- v5, now <- v6, faults <- v7
ED == INSTANCE Edits WITH
  Messages <- {x1, x2}, MaxLogs <- 4, MaxFaults <- 2, None <- Absent, src <- v1, logs <- v2,
  inbox <- v3, cursor <- v4, head <- v5, rows <- v6, tombs <- v7, shown <- v8, op <- v9,
  online <- v10, faults <- v11
QR == INSTANCE QRLogin WITH
  MaxFaults <- 2, login <- v1, file <- v2, challenge <- v3, expired <- v4, thread <- v5,
  installed <- v6, faults <- v7
RN == INSTANCE Renewal WITH
  Connectors <- {"c"}, WebCallers <- {"v", "w"}, MaxCalls <- 2, MaxExpiries <- 2,
  Faults <- TRUE, pc <- v1, calls <- v2, held <- v3, got <- v4, renewMu <- v5, mem <- v6,
  disk <- v7, server <- v8, accepted <- v9, expiries <- v10, closed <- v11, damaged <- v12
RT == INSTANCE Route WITH
  Pools <- {1, 2}, Sizes <- <<2, 1>>, Attempts <- 3, MaxChanges <- 3, pool <- v1, up <- v2,
  booking <- v3, carriage <- v4, stored <- v5, route <- v6, at <- v7, calm <- v8, failed <- v9,
  changes <- v10

\* The component in play, and the variables it leaves alone
Runs(name, unused) == component = name /\ UNCHANGED <<component, unused>>

Init ==
  \/ component = "admission" /\ HA!Init
  \/ component = "store" /\ HS!Init
  \/ component = "backfill" /\ BF!Init /\ v11 = 0 /\ v12 = 0
  \/ component = "reactions" /\ RX!Init
  \/ component = "viewing" /\ VW!Init /\ v7 = 0 /\ v8 = 0 /\ v9 = 0 /\ v10 = 0
       /\ v11 = 0 /\ v12 = 0
  \/ component = "reads" /\ RS!Init
  \/ component = "metadata" /\ MD!Init /\ v10 = 0 /\ v11 = 0 /\ v12 = 0
  \/ component = "profiles" /\ PF!Init /\ v6 = 0 /\ v7 = 0 /\ v8 = 0 /\ v9 = 0
       /\ v10 = 0 /\ v11 = 0 /\ v12 = 0
  \/ component = "membership" /\ GA!Init
  \/ component = "creation" /\ GC!Init /\ v11 = 0 /\ v12 = 0
  \/ component = "outbound" /\ OB!Init /\ v8 = 0 /\ v9 = 0 /\ v10 = 0 /\ v11 = 0 /\ v12 = 0
  \/ component = "edits" /\ ED!Init /\ v12 = 0
  \/ component = "enrolment" /\ QR!Init /\ v8 = 0 /\ v9 = 0 /\ v10 = 0 /\ v11 = 0 /\ v12 = 0
  \/ component = "renewal" /\ RN!Init
  \/ component = "route" /\ RT!Init /\ v11 = 0 /\ v12 = 0

Next ==
  \/ Runs("admission", <<>>) /\ HA!Next
  \/ Runs("store", <<>>) /\ HS!Next
  \/ Runs("backfill", <<v11, v12>>) /\ BF!Next
  \/ Runs("reactions", <<>>) /\ RX!Next
  \/ Runs("viewing", <<v7, v8, v9, v10, v11, v12>>) /\ VW!Next
  \/ Runs("reads", <<>>) /\ RS!Next
  \/ Runs("metadata", <<v10, v11, v12>>) /\ MD!Next
  \/ Runs("profiles", <<v6, v7, v8, v9, v10, v11, v12>>) /\ PF!Next
  \/ Runs("membership", <<>>) /\ GA!Next
  \/ Runs("creation", <<v11, v12>>) /\ GC!Next
  \/ Runs("outbound", <<v8, v9, v10, v11, v12>>) /\ OB!Next
  \/ Runs("edits", <<v12>>) /\ ED!Next
  \/ Runs("enrolment", <<v8, v9, v10, v11, v12>>) /\ QR!Next
  \/ Runs("renewal", <<>>) /\ RN!Next
  \/ Runs("route", <<v11, v12>>) /\ RT!Next

Spec == Init /\ [][Next]_vars

-----------------------------------------------------------------------------
\* Old messages are asked for at the account's pace, whatever process or profile asks
\* and whatever crash or failed write came between; a joined profile asks no more, and
\* a cached resource is not downloaded again (historyAdmission, historyAccountGate).
HistoryPaced ==
  component = "admission" => HA!Paced /\ HA!JoinedIsQuiet /\ HA!NoDoubleDownload

\* The acquired store never serves a message it was told is gone, nor an older text,
\* and a window it calls complete has every row of its interval (lookup, window).
StoreHonest == component = "store" => HS!NoResurrection /\ HS!WindowHonest

\* History reaches Matrix without a hole below the cursor and without a second copy of
\* a message, across crashes and the operator's import (FetchMessages, BackfillGroup).
BackfillExact == component = "backfill" => BF!NoHole /\ BF!ImportedOnce

\* The reactions shown count what the source counted at the revision stored with them,
\* derived without a read or not (deriveLegacyReactions, applyReaction).
ReactionsHonest == component = "reactions" => RX!CountsHonest

\* Demand is not lost to a reaction sync that was already reading (handleReactionDemand).
ReactionDemandKept == component = "viewing" => VW!DemandKept

\* A checkpointed read position was acknowledged by the source and covers no log it had
\* not; a member's receipt never moves back (MarkRead, handleReadState).
ReadsKeepUp == [][component = "reads" => RS!ReadAcknowledged' /\ RS!ReceiptMoves]_vars

\* A read of the source begun before a newer notice neither marks the Boards fresh nor
\* puts back an older personal field (publishRoomMetadata, applyPersonalPush).
MetadataFresh == [][component = "metadata" => MD!BoardsFresh' /\ MD!ReadEnds]_vars

\* Callers that race for one member's profile never ask within the cooldown of an
\* attempt that found no nickname (resolveMemberProfiles, storeMemberProfiles).
ProfilesSpaced == [][component = "profiles" => PF!Spaced]_vars

\* From the moment the account is known to have left a group, the group is blocked until
\* a verified roster has the account again (applySourceLeave, convergeGroupMembership).
RemovedStaysBlocked == component = "membership" => GA!RemovedIsBlocked

\* A room makes at most one source group, whatever fails between its CREATE and its
\* binding, and a created group never gets a second room (CreateGroup, reconcileGroup).
OneGroupPerRoom == component = "creation" => GC!OnceOnly /\ GC!NoTwin

\* A redelivered event makes no second message within the retention of its attempt, and
\* "nothing was sent" is only said by the copy that sent nothing (beginOutbound,
\* outboundSendError).
SendsHonest == component = "outbound" => OB!SentOnce /\ OB!CertainHonest

\* Once every log is handled the room shows what the source has, with edits and deletions
\* from both sides in any order (completeEdit, HandleMatrixEdit).
EditsConverge == component = "edits" => ED!Converged

\* A QR login is enrolled or canceled, never both, and a profile is thrown away only when
\* its challenge was canceled (Handoff's check of finished, cancelRemote's result).
EnrolledOrClosed == component = "enrolment" => QR!EnrolledWhole /\ QR!RemovedIsClosed

\* Callers rejected with one token rotate it once, never present a spent refresh token and
\* never use credentials that are not stored (renewRejected).
RenewedOnce ==
  component = "renewal" => RN!OneRotationPerExpiry /\ RN!RefreshTokenCurrent /\ RN!MemoryIsStored

\* A stored booking that went stale costs one failed attempt at most, while the servers
\* are calm (connectSession's second booking).
StaleRouteCostsOne == component = "route" => RT!StaleCostsOne
==============================================================================
