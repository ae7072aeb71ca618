----------------------------- MODULE Reactions -----------------------------
(***************************************************************************)
(* Legacy reactions of one bridged message (reactions.go,                  *)
(* reaction_derive.go, reaction_lookup.go, reaction_resync.go).  The       *)
(* server pushes counts, not actors: a push is turned into a roster by     *)
(* derivation from the stored rows or by a members read, and the roster    *)
(* into additions and removals that are delivered one at a time.  A change *)
(* of the server has a revision; log[r] is the roster at revision r.  The  *)
(* account itself reacts from Matrix and from other devices, pushes and    *)
(* reads fail, and a room that is viewed is resynchronised.                *)
(***************************************************************************)
EXTENDS Integers, Sequences, FiniteSets

CONSTANTS
  Others,       \* the other members
  Kinds,        \* legacy reactions
  OwnPicks,     \* what the account itself may have picked at first
  MaxRevision,
  Burst,        \* reads of the budget
  MaxFailures   \* sends and reads that fail

Me == "me"
None == "none"
Users == Others \cup {Me}

VARIABLES
  log,        \* the server: roster and announced actor of every revision
  session,    \* the connection
  pushes,     \* revisions pushed on it and not handled yet
  rows,       \* reaction rows <<user, kind>> of the bridge database
  stored,     \* ReactionRevision of the message row
  confirmed,  \* reactionConfirmed: session and revision
  window,     \* coalescing: a read was recent, the revision that waits
  tokens,     \* reactionLookupBudget
  demand,     \* reactionViewingState: the viewed room has changes to read
  apply,      \* the applyReaction that holds reactionApplyMu
  own,        \* the reaction from Matrix whose handler runs
  failures

vars == <<log, session, pushes, rows, stored, confirmed, window, tokens, demand, apply, own, failures>>

Rosters == [Users -> Kinds \cup {None}]
Now == Len(log)
NoApply == [pc |-> "idle", rev |-> 0, from |-> "push", adds |-> {}, dels |-> {}, applied |-> TRUE,
            new |-> 0]

\* The roster was read on the first session.
Init ==
  /\ \E r \in Rosters : /\ r[Me] \in OwnPicks
                        /\ log = <<[roster |-> r, actor |-> None]>>
                        /\ rows = {p \in Users \X Kinds : r[p[1]] = p[2]}
  /\ session = 1 /\ pushes = <<>> /\ stored = 1 /\ confirmed = [session |-> 1, rev |-> 1]
  /\ window = [recent |-> FALSE, pending |-> 0] /\ tokens = Burst /\ demand = FALSE
  /\ apply = NoApply /\ own = None /\ failures = 0

-----------------------------------------------------------------------------
(* The server *)

\* A user changes their selection; the push may name them.
Push(u, k, named) ==
  /\ Now < MaxRevision /\ log[Now].roster[u] # k
  /\ log' = Append(log, [roster |-> [log[Now].roster EXCEPT ![u] = k],
                         actor |-> IF named THEN u ELSE None])
  /\ pushes' = Append(pushes, Now + 1)

Change(u, k, named) ==
  /\ Push(u, k, named)
  /\ UNCHANGED <<session, rows, stored, confirmed, window, tokens, demand, apply, own, failures>>

\* A new connection; what was not handled is lost, and so is the deferred read.
Reconnect ==
  /\ session < 2 /\ session' = session + 1 /\ pushes' = <<>> /\ apply.pc = "idle"
  /\ window' = [window EXCEPT !.pending = 0]
  /\ UNCHANGED <<log, rows, stored, confirmed, tokens, demand, apply, own, failures>>

-----------------------------------------------------------------------------
(* From a push to a roster *)

RowPicks(u) == {k \in Kinds : <<u, k>> \in rows}
Count(roster, k) == Cardinality({u \in Users : roster[u] = k})

\* legacyCountsMatch
Matches(roster, want) == \A k \in Kinds : Count(roster, k) = want[k]

\* resolveUniqueHolder: one selection lost one reaction, at most one gained one,
\* and one other member held the lost one.
UniqueHolder(roster, want) ==
  LET diff(k) == want[k] - Count(roster, k)
      lost == {k \in Kinds : diff(k) = -1}
      gained == {k \in Kinds : diff(k) = 1}
      holders == {u \in Others : roster[u] \in lost}
  IN  IF /\ \A k \in Kinds : diff(k) \in -1..1
         /\ Cardinality(lost) = 1 /\ Cardinality(gained) <= 1 /\ Cardinality(holders) = 1
        THEN [u \in Users |-> IF u \notin holders THEN roster[u]
                              ELSE IF gained = {} THEN None ELSE CHOOSE k \in gained : TRUE]
        ELSE roster

\* The roster deriveLegacyReactions builds for the push of revision r.
Guess(r) ==
  LET push == log[r]
      base == [u \in Users |-> IF u = Me \/ u = push.actor THEN push.roster[u]
                               ELSE IF RowPicks(u) = {} THEN None
                               ELSE CHOOSE k \in RowPicks(u) : TRUE]
      want == [k \in Kinds |-> Count(push.roster, k)]
  IN  IF push.actor = None /\ ~Matches(base, want) THEN UniqueHolder(base, want) ELSE base

MutantDerives(r) ==
  /\ confirmed = [session |-> session, rev |-> stored]
  /\ \A u \in Users : Cardinality(RowPicks(u)) <= 1

\* It applies to a confirmed roster and reproduces the counts of the push.
Derives(r) ==
  /\ confirmed = [session |-> session, rev |-> stored]
  /\ \A u \in Users : Cardinality(RowPicks(u)) <= 1
  /\ Matches(Guess(r), [k \in Kinds |-> Count(log[r].roster, k)])

\* reactionDeliveryEvents: the operations that turn the rows into the roster.
Plan(r, from, roster, new) ==
  LET target == {p \in Users \X Kinds : roster[p[1]] = p[2]}
  IN  [pc |-> "deliver", rev |-> r, from |-> from, adds |-> target \ rows, dels |-> rows \ target,
       applied |-> TRUE, new |-> new]

\* reactionRemote for a revision that is not deferred: derivation before a read,
\* which the budget must allow.  ok says whether the read succeeds.
Remote(r, from, ok) ==
  \/ r <= stored /\ apply' = NoApply /\ UNCHANGED <<tokens, failures>>
  \/ r > stored /\ Derives(r) /\ apply' = Plan(r, from, Guess(r), r) /\ UNCHANGED <<tokens, failures>>
  \/ /\ r > stored /\ ~Derives(r)
     /\ tokens' = IF tokens > 0 THEN tokens - 1 ELSE 0
     /\ apply' = IF tokens > 0 /\ ok THEN Plan(r, from, log[Now].roster, Now)
                 ELSE [NoApply EXCEPT !.pc = "failed", !.rev = r, !.from = from]
     /\ failures' = IF ok THEN failures ELSE failures + 1
     /\ failures' <= MaxFailures

\* coalesceReactionLookup: a push waits for the trailing read when one is armed,
\* or when it needs a read soon after another.
Deferred(r) ==
  r > stored /\ (window.pending > 0 \/ (window.recent /\ ~Derives(r)))

\* The pump hands over a push; the viewed room notes its revision.
Handle(ok) ==
  LET r == Head(pushes)
  IN  /\ apply.pc = "idle" /\ pushes # <<>>
      /\ demand' = (demand \/ r > stored) /\ pushes' = Tail(pushes)
      /\ \/ /\ Deferred(r) /\ window' = [window EXCEPT !.pending = r]
            /\ UNCHANGED <<apply, tokens, failures>>
         \/ /\ ~Deferred(r) /\ Remote(r, "push", ok)
            /\ window' = [window EXCEPT !.recent = @ \/ (r > stored /\ ~Derives(r))]
      /\ UNCHANGED <<log, session, rows, stored, confirmed, own>>

\* flushReactionLookup: the deferred change is applied with one read.
Flush(ok) ==
  /\ apply.pc = "idle" /\ window.pending > 0 /\ Remote(window.pending, "flush", ok)
  /\ window' = [recent |-> TRUE, pending |-> 0]
  /\ UNCHANGED <<log, session, pushes, rows, stored, confirmed, demand, own>>

\* Two seconds or twenty pass.
Expire ==
  /\ window.recent \/ tokens < Burst
  /\ window' = [window EXCEPT !.recent = window.pending > 0] /\ tokens' = Burst
  /\ UNCHANGED <<log, session, pushes, rows, stored, confirmed, demand, apply, own, failures>>

-----------------------------------------------------------------------------
(* applyReaction: delivery and the revision *)

\* One operation; the portal's lock keeps it apart from a handler.  An addition
\* may be ignored, and any operation may fail and end the apply.
Deliver(p, outcome) ==
  /\ apply.pc = "deliver" /\ own = None
  /\ \/ p \in apply.adds
     \/ apply.adds = {} /\ p \in apply.dels /\ outcome # "ignored"
  /\ \/ /\ outcome = "done"
        /\ rows' = IF p \in apply.adds THEN rows \cup {p} ELSE rows \ {p}
        /\ apply' = [apply EXCEPT !.adds = @ \ {p}, !.dels = @ \ {p}]
     \/ /\ outcome = "ignored" /\ UNCHANGED rows
        /\ apply' = [apply EXCEPT !.adds = @ \ {p}, !.applied = @ /\ p \in rows]
     \/ /\ outcome = "failed" /\ UNCHANGED rows
        /\ apply' = [apply EXCEPT !.pc = "failed", !.adds = {}, !.dels = {}]
  /\ failures' = IF outcome = "done" THEN failures ELSE failures + 1
  /\ failures' <= MaxFailures
  /\ UNCHANGED <<log, session, pushes, stored, confirmed, window, tokens, demand, own>>

MutantPersist == /\ stored' = apply.new
                 /\ confirmed' = [session |-> session, rev |-> apply.new]

\* persistReactionRevision and confirmLegacyReactions, unless an addition was
\* ignored without a row.
Persist ==
  IF apply.applied
    THEN /\ stored' = IF apply.new > stored THEN apply.new ELSE stored
         /\ confirmed' = [session |-> session, rev |-> apply.new]
    ELSE UNCHANGED <<stored, confirmed>>

Applied ==
  /\ apply.pc = "deliver" /\ apply.adds = {} /\ apply.dels = {}
  /\ Persist /\ apply' = NoApply
  /\ UNCHANGED <<log, session, pushes, rows, window, tokens, demand, own, failures>>

\* reactionPushFailure and a failed resync leave the viewed room's demand.
NotApplied ==
  /\ apply.pc = "failed" /\ apply' = NoApply
  /\ demand' = TRUE
  /\ UNCHANGED <<log, session, pushes, rows, stored, confirmed, window, tokens, own, failures>>

-----------------------------------------------------------------------------
(* The viewed room *)

\* handleReactionDemand and resyncChatReactions: a heartbeat with demand reads
\* the changes after its cursor and applies the message's newest aggregate.
Heartbeat(ok) ==
  /\ apply.pc = "idle" /\ demand /\ demand' = FALSE /\ Remote(Now, "resync", ok)
  /\ UNCHANGED <<log, session, pushes, rows, stored, confirmed, window, own>>

-----------------------------------------------------------------------------
(* Reactions from Matrix *)

\* storedLegacyPick
StoredPick == IF RowPicks(Me) = {} THEN None ELSE CHOOSE k \in RowPicks(Me) : TRUE

\* HandleMatrixReaction asks the server; HandleMatrixReactionRemove cancels the
\* stored pick.  The handler goes on when the answer is there.
React(k) ==
  /\ own = None /\ Cardinality(RowPicks(Me)) <= 1
  /\ IF k = None THEN StoredPick # None ELSE <<Me, k>> \notin rows
  /\ IF log[Now].roster[Me] = k THEN UNCHANGED <<log, pushes>> ELSE Push(Me, k, TRUE)
  /\ own' = IF k = None THEN "cancel" ELSE k
  /\ UNCHANGED <<session, rows, stored, confirmed, window, tokens, demand, apply, failures>>

\* The row of the new pick, without the ones it replaces; or the answer was lost.
Reacted(ok) ==
  /\ own # None /\ own' = None
  /\ rows' = IF ~ok THEN rows
             ELSE {p \in rows : p[1] # Me} \cup (IF own = "cancel" THEN {} ELSE {<<Me, own>>})
  /\ failures' = IF ok THEN failures ELSE failures + 1
  /\ failures' <= MaxFailures
  /\ demand' = (demand \/ ok)
  /\ UNCHANGED <<log, session, pushes, stored, confirmed, window, tokens, apply>>

-----------------------------------------------------------------------------
Next ==
  \/ \E u \in Users, k \in Kinds \cup {None}, named \in BOOLEAN : Change(u, k, named)
  \/ Reconnect \/ Expire \/ Applied \/ NotApplied
  \/ \E ok \in BOOLEAN : Handle(ok) \/ Flush(ok) \/ Heartbeat(ok) \/ Reacted(ok)
  \/ \E p \in Users \X Kinds, o \in {"done", "ignored", "failed"} : Deliver(p, o)
  \/ \E k \in Kinds \cup {None} : React(k)

Spec == Init /\ [][Next]_vars

-----------------------------------------------------------------------------
\* What the server and the bridge show of the other members.
Shown(k) == Cardinality({u \in Others : <<u, k>> \in rows})
Actual(k) == Cardinality({u \in Others : log[Now].roster[u] = k})
CaughtUp == stored = Now /\ apply.pc = "idle" /\ own = None

\* A message whose revision is current shows the server's number of every
\* reaction of the other members, after failed sends, deferred reads, reconnects
\* and reactions from Matrix (deriveLegacyReactions, applyReaction).
CountsHonest == CaughtUp => \A k \in Kinds : Shown(k) = Actual(k)

\* A message whose revision is current names the members that really reacted:
\* "a push that follows a confirmed revision describes every change since"
\* (reaction_derive.go).
AttributionHonest ==
  CaughtUp => \A u \in Others : RowPicks(u) = {log[Now].roster[u]} \ {None}
=============================================================================
