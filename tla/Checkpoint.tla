----------------------------- MODULE Checkpoint -----------------------------
(***************************************************************************)
(* The durable continuity checkpoint of one profile                        *)
(* (internal/continuity/continuity.go) as a value, and the pure change     *)
(* each operation of its Store makes to that value.  The five lists of the *)
(* Go struct, each sorted by chat and holding at most one entry per chat,  *)
(* are functions from chats; "no entry" is 0 for positions (an entry must  *)
(* be positive), NoTarget for KnownChats (where 0 is a legal entry) and    *)
(* NoGap for HistoryGaps.  LastTokenID and LBK are opaque to every         *)
(* operation and are left out.                                             *)
(***************************************************************************)
EXTENDS Integers

CONSTANTS
  Chats,      \* chat IDs
  MaxLog      \* bound: the largest log ID the environment issues

ASSUME MaxLogAssumption == MaxLog \in Nat \ {0}

\* The positions a message of a chat can have.
LogIDs == 1..MaxLog
Positions == 0..MaxLog

\* Checkpoint format versions, 2 to 6; Missing stands for "there is no file".
Missing == 0
OldestVersion == 2
UnprovenReadVersion == 4
Version == 6

NoTarget == -1
NoGap == [from |-> 0, to |-> 0]

Gaps == [from : Positions, to : Positions]

Larger(a, b) == IF a >= b THEN a ELSE b
Smaller(a, b) == IF a <= b THEN a ELSE b

\* Type of a checkpoint value.
CheckpointType ==
  [version : {Missing} \cup (OldestVersion..Version),
   clean   : BOOLEAN,              \* CleanShutdown
   cursor  : [Chats -> Positions],         \* Chats: highest committed
   known   : [Chats -> NoTarget..MaxLog],  \* KnownChats: server's last log
   gap     : [Chats -> Gaps],              \* HistoryGaps: unresolved interval
   read    : [Chats -> Positions],         \* ReadWatermarks
   start   : [Chats -> Positions]]         \* DeliveryStarts: replay floor

\* The checkpoint written when a profile has none.
Fresh ==
  [version |-> Version, clean |-> TRUE,
   cursor |-> [c \in Chats |-> 0], known |-> [c \in Chats |-> NoTarget],
   gap |-> [c \in Chats |-> NoGap], read |-> [c \in Chats |-> 0],
   start |-> [c \in Chats |-> 0]]

\* What every write and every load checks, beyond the type: versions other
\* than the current one are never written, positions are positive and a gap's
\* bounds are ordered.
Valid(cp) ==
  /\ cp.version = Version
  /\ \A c \in Chats :
       /\ cp.cursor[c] >= 0 /\ cp.read[c] >= 0 /\ cp.start[c] >= 0
       /\ cp.known[c] >= NoTarget
       /\ cp.gap[c] # NoGap => cp.gap[c].from > 0 /\ cp.gap[c].to >= cp.gap[c].from

-----------------------------------------------------------------------------
(* Queries *)

InGap(cp, c, l) == cp.gap[c] # NoGap /\ cp.gap[c].from <= l /\ l <= cp.gap[c].to

HasGapThrough(cp, c, l) == cp.gap[c] # NoGap /\ cp.gap[c].from <= l

IsCommitted(cp, c, l) == cp.cursor[c] > 0 /\ l <= cp.cursor[c]

\* The position catch-up resumes after: the commit, else just below the floor.
ResumePosition(cp, c) ==
  IF cp.cursor[c] > 0 THEN cp.cursor[c]
  ELSE IF cp.start[c] > 0 THEN cp.start[c] - 1 ELSE 0

\* Client.ResumeTargets selects chat c for catch-up.
NeedsCatchUp(cp, c) ==
  /\ cp.known[c] > 0
  /\ \/ cp.cursor[c] > 0 /\ cp.known[c] > cp.cursor[c]
     \/ cp.cursor[c] = 0 /\ cp.start[c] > 0 /\ cp.known[c] >= cp.start[c]

-----------------------------------------------------------------------------
(* Changes.  The definitions named Mutant... are deliberate faults, used   *)
(* only to show that a property notices them.                              *)

MutantInstallNoRaise(cp, observed, deleted, replaceInventory) ==
  [cp EXCEPT
    !.clean = FALSE,
    !.known = [c \in Chats |-> IF observed[c] # NoTarget
                                 THEN observed[c] ELSE cp.known[c]]]

MutantInstallKeepsClean(cp, observed, deleted, replaceInventory) == cp

\* observed[c] is the login's last log of c, or NoTarget when not listed.
InstallSession(cp, observed, deleted, replaceInventory) ==
  LET cursor == [c \in Chats |-> IF c \in deleted THEN 0 ELSE cp.cursor[c]]
      kept(c) == IF replaceInventory \/ c \in deleted
                   THEN NoTarget ELSE cp.known[c]
      set(c) == IF observed[c] # NoTarget THEN observed[c] ELSE kept(c)
  IN  [cp EXCEPT
        !.clean  = FALSE,
        !.cursor = cursor,
        !.known  = [c \in Chats |-> IF cursor[c] > 0
                                      THEN Larger(set(c), cursor[c]) ELSE set(c)],
        !.gap    = [c \in Chats |-> IF c \in deleted THEN NoGap ELSE cp.gap[c]],
        !.read   = [c \in Chats |-> IF c \in deleted THEN 0 ELSE cp.read[c]],
        !.start  = [c \in Chats |-> IF c \in deleted THEN 0 ELSE cp.start[c]]]

MutantRecordGapReplaces(cp, c, from, to) ==
  [cp EXCEPT !.gap[c] = [from |-> from, to |-> to]]

RecordGap(cp, c, from, to) ==
  [cp EXCEPT !.gap[c] =
     IF cp.gap[c] = NoGap THEN [from |-> from, to |-> to]
     ELSE [from |-> Smaller(cp.gap[c].from, from),
           to   |-> Larger(cp.gap[c].to, to)]]

MutantResolveGapExclusive(cp, c, l) ==
  [cp EXCEPT !.gap[c] =
     IF cp.gap[c] = NoGap \/ l < cp.gap[c].from THEN cp.gap[c]
     ELSE IF l > cp.gap[c].to THEN NoGap
     ELSE [from |-> l + 1, to |-> cp.gap[c].to]]

ResolveGapThrough(cp, c, l) ==
  [cp EXCEPT !.gap[c] =
     IF cp.gap[c] = NoGap \/ l < cp.gap[c].from THEN cp.gap[c]
     ELSE IF l >= cp.gap[c].to THEN NoGap
     ELSE [from |-> l + 1, to |-> cp.gap[c].to]]

MutantDeliveryStartLatest(cp, c, l) ==
  IF cp.cursor[c] > 0 THEN cp
  ELSE [cp EXCEPT !.known[c] = Larger(cp.known[c], l), !.start[c] = l]

RecordDeliveryStart(cp, c, l) ==
  IF cp.cursor[c] > 0 THEN cp
  ELSE [cp EXCEPT
         !.known[c] = Larger(cp.known[c], l),
         !.start[c] = IF cp.start[c] = 0 THEN l ELSE Smaller(cp.start[c], l)]

MutantCommitOverwrites(cp, c, l) ==
  [cp EXCEPT !.start[c] = 0, !.cursor[c] = l, !.known[c] = Larger(cp.known[c], l)]

MutantCommitNext(cp, c, l) ==
  [cp EXCEPT !.start[c] = 0, !.cursor[c] = Larger(cp.cursor[c], l + 1)]

CommitMessage(cp, c, l) ==
  [cp EXCEPT
    !.start[c]  = 0,
    !.cursor[c] = Larger(cp.cursor[c], l),
    !.known[c]  = IF l > cp.cursor[c] THEN Larger(cp.known[c], l)
                                      ELSE cp.known[c]]

CommitReadWatermark(cp, c, w) == [cp EXCEPT !.read[c] = Larger(cp.read[c], w)]

MarkClean(cp) == [cp EXCEPT !.clean = TRUE]

MutantMigrateKeepsRead(cp) == [cp EXCEPT !.version = Version]

\* Version 4 and older recorded read watermarks the server never confirmed;
\* version 2 had no gap list.
Migrate(cp) ==
  [cp EXCEPT
    !.version = Version,
    !.read = IF cp.version <= UnprovenReadVersion
               THEN [c \in Chats |-> 0] ELSE cp.read,
    !.gap  = IF cp.version = OldestVersion
               THEN [c \in Chats |-> NoGap] ELSE cp.gap]

\* Open refuses a file of an older version that has delivery starts.
Migratable(cp) == cp.version = Version \/ \A c \in Chats : cp.start[c] = 0
=============================================================================
