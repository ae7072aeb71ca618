-------------------------- MODULE ContinuityProofs --------------------------
(***************************************************************************)
(* The theorems about the checkpoint Store, for any set of chats, any      *)
(* range of positions and any number of failed writes.  First single       *)
(* values of the checkpoint: what each change leaves in each field (a      *)
(* lemma ...Fields), and that the new value keeps what callers were        *)
(* promised (a lemma ...Promise).  Then the actions: each keeps the        *)
(* inductive invariant IInv (a lemma ...Step), which holds initially and   *)
(* implies the invariants of Continuity.                                   *)
(***************************************************************************)
EXTENDS Continuity, TLAPS

-----------------------------------------------------------------------------
(* What each change leaves in each field of a checkpoint. *)

(* The sentinels are members of the sets of the fields. *)
LEMMA Constants ==
  /\ 0 \in Positions /\ NoGap \in Gaps /\ NoTarget \in NoTarget..MaxLog
  /\ Version \in {Missing} \cup (OldestVersion..Version)
  /\ Missing \in {Missing} \cup (OldestVersion..Version)
  BY MaxLogAssumption DEF Positions, NoGap, Gaps, NoTarget, OldestVersion, Version

(* The fields of a checkpoint, one by one. *)
LEMMA FieldTypes ==
  ASSUME NEW cp \in CheckpointType
  PROVE  /\ cp.version \in {Missing} \cup (OldestVersion..Version)
         /\ cp.clean \in BOOLEAN
         /\ cp.cursor \in [Chats -> Positions]
         /\ cp.known \in [Chats -> NoTarget..MaxLog]
         /\ cp.gap \in [Chats -> Gaps]
         /\ cp.read \in [Chats -> Positions]
         /\ cp.start \in [Chats -> Positions]
  BY Zenon DEF CheckpointType

(* The positions of a checkpoint are not negative. *)
LEMMA FieldBounds ==
  ASSUME NEW cp \in CheckpointType, NEW c \in Chats
  PROVE  /\ cp.cursor[c] >= 0 /\ cp.read[c] >= 0 /\ cp.start[c] >= 0
         /\ cp.known[c] >= NoTarget
  BY FieldTypes, MaxLogAssumption DEF Positions, NoTarget

(* The larger of a position and a log ID is a log ID. *)
LEMMA LargerType ==
  ASSUME NEW p \in Positions, NEW l \in LogIDs
  PROVE  Larger(p, l) \in Positions /\ Larger(p, l) # 0
  BY MaxLogAssumption DEF Larger, Positions, LogIDs

(* A change that leaves the replay floors alone leaves them where they were. *)
LEMMA StartKept ==
  ASSUME NEW cp \in CheckpointType, NEW c \in Chats, cp.start[c] > 0
  PROVE  cp.start[c] \in 1..cp.start[c]
<1>1. cp.start[c] \in 0..MaxLog
  BY FieldTypes, Zenon DEF Positions
<1>2. QED
  BY <1>1, MaxLogAssumption

(* What validate needs to know of a new value: its gaps are intervals. *)
LEMMA ValidWhen ==
  ASSUME NEW cp \in CheckpointType, cp.version = Version,
         \A c \in Chats : cp.gap[c] # NoGap =>
            cp.gap[c].from > 0 /\ cp.gap[c].to >= cp.gap[c].from
  PROVE  Valid(cp)
  BY FieldBounds, ZenonT(60) DEF Valid

(* The checkpoint of a first start, and what stands for no file, hold nothing. *)
LEMMA FreshFields ==
  /\ Fresh \in CheckpointType /\ NoFile \in CheckpointType
  /\ \A cp \in {Fresh, NoFile} :
       /\ cp.clean = TRUE
       /\ cp.cursor = [c \in Chats |-> 0] /\ cp.known = [c \in Chats |-> NoTarget]
       /\ cp.gap = [c \in Chats |-> NoGap] /\ cp.read = [c \in Chats |-> 0]
       /\ cp.start = [c \in Chats |-> 0]
  /\ Fresh.version = Version /\ NoFile.version = Missing
<1>1. Fresh \in CheckpointType
  BY Constants, Zenon DEF Fresh, CheckpointType
<1>2. NoFile \in CheckpointType
  BY <1>1, Constants, Zenon DEF NoFile, CheckpointType
<1>3. QED
  BY <1>1, <1>2 DEF Fresh, NoFile

(* InstallSession forgets the deleted chats, keeps the others and covers their
   cursors with the inventory. *)
LEMMA InstallFields ==
  ASSUME NEW cp \in CheckpointType, NEW observed \in [Chats -> NoTarget..MaxLog],
         NEW deleted \in SUBSET Chats, NEW replaceInventory \in BOOLEAN
  PROVE  LET n == InstallSession(cp, observed, deleted, replaceInventory)
         IN  /\ n \in CheckpointType
             /\ n.version = cp.version /\ ~n.clean
             /\ \A c \in deleted :
                  n.cursor[c] = 0 /\ n.gap[c] = NoGap /\ n.read[c] = 0 /\ n.start[c] = 0
             /\ \A c \in Chats \ deleted :
                  /\ n.cursor[c] = cp.cursor[c] /\ n.gap[c] = cp.gap[c]
                  /\ n.read[c] = cp.read[c] /\ n.start[c] = cp.start[c]
             /\ \A c \in Chats : n.cursor[c] > 0 => n.known[c] >= n.cursor[c]
<1> DEFINE cursor == [c \in Chats |-> IF c \in deleted THEN 0 ELSE cp.cursor[c]]
           kept(c) == IF replaceInventory \/ c \in deleted
                        THEN NoTarget ELSE cp.known[c]
           set(c) == IF observed[c] # NoTarget THEN observed[c] ELSE kept(c)
           known == [c \in Chats |-> IF cursor[c] > 0
                                       THEN Larger(set(c), cursor[c]) ELSE set(c)]
           gap == [c \in Chats |-> IF c \in deleted THEN NoGap ELSE cp.gap[c]]
           read == [c \in Chats |-> IF c \in deleted THEN 0 ELSE cp.read[c]]
           start == [c \in Chats |-> IF c \in deleted THEN 0 ELSE cp.start[c]]
           n == InstallSession(cp, observed, deleted, replaceInventory)
<1>1. cursor \in [Chats -> Positions] /\ gap \in [Chats -> Gaps]
  BY FieldTypes, Constants, Zenon
<1>2. read \in [Chats -> Positions] /\ start \in [Chats -> Positions]
  BY FieldTypes, Constants, Zenon
<1>3. \A c \in Chats : set(c) \in NoTarget..MaxLog
  BY FieldTypes, Constants, Zenon
<1>4. \A c \in Chats : cursor[c] \in 0..MaxLog
  BY <1>1, Zenon DEF Positions
<1>5. known \in [Chats -> NoTarget..MaxLog]
  <2> HIDE DEF cursor, set
  <2> QED BY <1>3, <1>4, MaxLogAssumption DEF Larger, NoTarget
<1>6. \A c \in Chats : cursor[c] > 0 => known[c] >= cursor[c]
  <2> HIDE DEF cursor, set
  <2> QED BY <1>3, <1>4, MaxLogAssumption DEF Larger, NoTarget
<1>7. n = [cp EXCEPT !.clean = FALSE, !.cursor = cursor, !.known = known,
                     !.gap = gap, !.read = read, !.start = start]
  BY Zenon DEF InstallSession
<1>8. /\ \A c \in deleted :
           cursor[c] = 0 /\ gap[c] = NoGap /\ read[c] = 0 /\ start[c] = 0
      /\ \A c \in Chats \ deleted :
           /\ cursor[c] = cp.cursor[c] /\ gap[c] = cp.gap[c]
           /\ read[c] = cp.read[c] /\ start[c] = cp.start[c]
  BY Zenon
<1> HIDE DEF cursor, known, gap, read, start, n
<1>9. n \in CheckpointType
  BY <1>1, <1>2, <1>5, <1>7, ZenonT(60) DEF CheckpointType
<1>10. /\ n.version = cp.version /\ ~n.clean
      /\ n.cursor = cursor /\ n.known = known /\ n.gap = gap
      /\ n.read = read /\ n.start = start
  BY <1>7, Zenon DEF CheckpointType
<1>11. QED
  BY <1>6, <1>8, <1>9, <1>10, Zenon DEF n

(* CommitMessage raises one cursor and ends its replay floor. *)
LEMMA CommitFields ==
  ASSUME NEW cp \in CheckpointType, NEW c \in Chats, NEW l \in LogIDs
  PROVE  LET n == CommitMessage(cp, c, l)
         IN  /\ n \in CheckpointType
             /\ n.version = cp.version /\ n.clean = cp.clean
             /\ n.gap = cp.gap /\ n.read = cp.read
             /\ n.start = [cp.start EXCEPT ![c] = 0]
             /\ n.cursor = [cp.cursor EXCEPT ![c] = Larger(cp.cursor[c], l)]
             /\ n.known = [cp.known EXCEPT ![c] =
                             IF l > cp.cursor[c] THEN Larger(cp.known[c], l)
                                                 ELSE cp.known[c]]
<1> DEFINE known == IF l > cp.cursor[c] THEN Larger(cp.known[c], l) ELSE cp.known[c]
           cursor == Larger(cp.cursor[c], l)
           n == CommitMessage(cp, c, l)
<1>1. known \in NoTarget..MaxLog
  BY MaxLogAssumption, FieldTypes DEF NoTarget, LogIDs, Larger, Positions
<1>2. cursor \in Positions
  BY MaxLogAssumption, FieldTypes DEF LogIDs, Larger, Positions
<1>3. n = [cp EXCEPT !.start[c] = 0, !.cursor[c] = cursor, !.known[c] = known]
  BY Zenon DEF CommitMessage
<1> HIDE DEF known, cursor, n
<1>4. n \in CheckpointType
  BY <1>1, <1>2, <1>3, Constants, ZenonT(60) DEF CheckpointType
<1>5. /\ n.version = cp.version /\ n.clean = cp.clean
      /\ n.gap = cp.gap /\ n.read = cp.read
      /\ n.start = [cp.start EXCEPT ![c] = 0]
      /\ n.cursor = [cp.cursor EXCEPT ![c] = cursor]
      /\ n.known = [cp.known EXCEPT ![c] = known]
  BY <1>3, Zenon DEF CheckpointType
<1>6. QED
  BY <1>4, <1>5, Zenon DEF known, cursor, n

(* The fields that CommitMessage leaves alone. *)
LEMMA CommitFrame ==
  ASSUME NEW cp \in CheckpointType, NEW c \in Chats, NEW l \in LogIDs
  PROVE  LET n == CommitMessage(cp, c, l)
         IN  n \in CheckpointType /\ n.version = cp.version /\ n.gap = cp.gap
<1> DEFINE n == CommitMessage(cp, c, l)
<1>1. /\ n \in CheckpointType
      /\ n.version = cp.version /\ n.clean = cp.clean
      /\ n.gap = cp.gap /\ n.read = cp.read
      /\ n.start = [cp.start EXCEPT ![c] = 0]
      /\ n.cursor = [cp.cursor EXCEPT ![c] = Larger(cp.cursor[c], l)]
      /\ n.known = [cp.known EXCEPT ![c] =
                      IF l > cp.cursor[c] THEN Larger(cp.known[c], l)
                                          ELSE cp.known[c]]
  BY CommitFields
<1>2. QED
  BY <1>1, Zenon

(* RecordDeliveryStart lowers the replay floor of a chat without a commit. *)
LEMMA DeliveryStartFields ==
  ASSUME NEW cp \in CheckpointType, NEW c \in Chats, NEW l \in LogIDs
  PROVE  LET n == RecordDeliveryStart(cp, c, l)
         IN  /\ n \in CheckpointType
             /\ n.version = cp.version /\ n.clean = cp.clean
             /\ n.gap = cp.gap /\ n.read = cp.read /\ n.cursor = cp.cursor
             /\ cp.cursor[c] > 0 => n = cp
             /\ cp.cursor[c] = 0 =>
                  /\ n.known = [cp.known EXCEPT ![c] = Larger(cp.known[c], l)]
                  /\ n.start = [cp.start EXCEPT ![c] =
                        IF cp.start[c] = 0 THEN l ELSE Smaller(cp.start[c], l)]
<1> DEFINE known == Larger(cp.known[c], l)
           start == IF cp.start[c] = 0 THEN l ELSE Smaller(cp.start[c], l)
           n == RecordDeliveryStart(cp, c, l)
<1>1. known \in NoTarget..MaxLog
  BY MaxLogAssumption, FieldTypes DEF NoTarget, LogIDs, Larger
<1>2. start \in Positions
  BY MaxLogAssumption, FieldTypes DEF LogIDs, Smaller, Positions
<1>3. n = IF cp.cursor[c] > 0 THEN cp
          ELSE [cp EXCEPT !.known[c] = known, !.start[c] = start]
  BY Zenon DEF RecordDeliveryStart
<1> HIDE DEF known, start, n
<1>4. CASE cp.cursor[c] > 0
  BY <1>3, <1>4, FieldTypes DEF n, Positions
<1>5. CASE ~(cp.cursor[c] > 0)
  <2>1. n = [cp EXCEPT !.known[c] = known, !.start[c] = start]
    BY <1>3, <1>5, Zenon
  <2>2. n \in CheckpointType
    BY <1>1, <1>2, <2>1, ZenonT(60) DEF CheckpointType
  <2>3. /\ n.version = cp.version /\ n.clean = cp.clean
        /\ n.gap = cp.gap /\ n.read = cp.read /\ n.cursor = cp.cursor
        /\ n.known = [cp.known EXCEPT ![c] = known]
        /\ n.start = [cp.start EXCEPT ![c] = start]
    BY <2>1, Zenon DEF CheckpointType
  <2>4. QED
    BY <1>5, <2>2, <2>3, Zenon DEF n, known, start
<1>6. QED
  BY <1>4, <1>5, Zenon

(* The fields that RecordDeliveryStart leaves alone. *)
LEMMA DeliveryStartFrame ==
  ASSUME NEW cp \in CheckpointType, NEW c \in Chats, NEW l \in LogIDs
  PROVE  LET n == RecordDeliveryStart(cp, c, l)
         IN  /\ n \in CheckpointType /\ n.version = cp.version
             /\ n.gap = cp.gap /\ n.cursor = cp.cursor
<1> DEFINE n == RecordDeliveryStart(cp, c, l)
<1>1. /\ n \in CheckpointType
      /\ n.version = cp.version /\ n.clean = cp.clean
      /\ n.gap = cp.gap /\ n.read = cp.read /\ n.cursor = cp.cursor
      /\ cp.cursor[c] > 0 => n = cp
      /\ cp.cursor[c] = 0 =>
           /\ n.known = [cp.known EXCEPT ![c] = Larger(cp.known[c], l)]
           /\ n.start = [cp.start EXCEPT ![c] =
                 IF cp.start[c] = 0 THEN l ELSE Smaller(cp.start[c], l)]
  BY DeliveryStartFields
<1>2. QED
  BY <1>1, Zenon

(* Both gap operations change only the chat's one interval. *)
LEMMA GapFields ==
  ASSUME NEW cp \in CheckpointType, NEW c \in Chats, NEW gap \in Gaps
  PROVE  LET n == [cp EXCEPT !.gap[c] = gap]
         IN  /\ n \in CheckpointType
             /\ n.version = cp.version /\ n.clean = cp.clean
             /\ n.read = cp.read /\ n.cursor = cp.cursor
             /\ n.known = cp.known /\ n.start = cp.start
             /\ n.gap = [cp.gap EXCEPT ![c] = gap]
  BY Zenon DEF CheckpointType

(* CommitReadWatermark raises one read watermark. *)
LEMMA ReadFields ==
  ASSUME NEW cp \in CheckpointType, NEW c \in Chats, NEW w \in LogIDs
  PROVE  LET n == CommitReadWatermark(cp, c, w)
         IN  /\ n \in CheckpointType
             /\ n.version = cp.version /\ n.clean = cp.clean
             /\ n.gap = cp.gap /\ n.cursor = cp.cursor
             /\ n.known = cp.known /\ n.start = cp.start
             /\ n.read = [cp.read EXCEPT ![c] = Larger(cp.read[c], w)]
<1> DEFINE read == Larger(cp.read[c], w)
<1>1. read \in Positions
  BY MaxLogAssumption, FieldTypes DEF LogIDs, Larger, Positions
<1>2. CommitReadWatermark(cp, c, w) = [cp EXCEPT !.read[c] = read]
  BY Zenon DEF CommitReadWatermark
<1> HIDE DEF read
<1>3. QED
  BY <1>1, <1>2 DEF CheckpointType, read

(* MarkClean changes the mark only. *)
LEMMA CleanFields ==
  ASSUME NEW cp \in CheckpointType
  PROVE  LET n == MarkClean(cp)
         IN  /\ n \in CheckpointType
             /\ n.version = cp.version /\ n.gap = cp.gap /\ n.cursor = cp.cursor
             /\ n.known = cp.known /\ n.start = cp.start /\ n.read = cp.read
  BY ZenonT(60) DEF MarkClean, CheckpointType

(* migrate keeps everything but the read watermarks of an unproven version. *)
LEMMA MigrateFields ==
  ASSUME NEW cp \in CheckpointType
  PROVE  LET n == Migrate(cp)
         IN  /\ n \in CheckpointType
             /\ n.version = Version /\ n.clean = cp.clean
             /\ n.cursor = cp.cursor /\ n.known = cp.known /\ n.start = cp.start
             /\ n.read = IF cp.version <= UnprovenReadVersion
                           THEN [c \in Chats |-> 0] ELSE cp.read
             /\ n.gap = IF cp.version = OldestVersion
                          THEN [c \in Chats |-> NoGap] ELSE cp.gap
<1> DEFINE read == IF cp.version <= UnprovenReadVersion
                     THEN [c \in Chats |-> 0] ELSE cp.read
           gap == IF cp.version = OldestVersion
                    THEN [c \in Chats |-> NoGap] ELSE cp.gap
           n == Migrate(cp)
<1>1. read \in [Chats -> Positions] /\ gap \in [Chats -> Gaps]
  BY Constants, FieldTypes, Zenon
<1>2. n = [cp EXCEPT !.version = Version, !.read = read, !.gap = gap]
  BY Zenon DEF Migrate
<1> HIDE DEF read, gap, n
<1>3. n \in CheckpointType
  BY <1>1, <1>2, Constants, ZenonT(60) DEF CheckpointType
<1>4. /\ n.version = Version /\ n.clean = cp.clean
      /\ n.cursor = cp.cursor /\ n.known = cp.known /\ n.start = cp.start
      /\ n.read = read /\ n.gap = gap
  BY <1>2, Zenon DEF CheckpointType
<1>5. QED
  BY <1>3, <1>4, Zenon DEF read, gap, n

-----------------------------------------------------------------------------
(* The inductive invariant.  ChatPromise relates one snapshot's entries    *)
(* for one chat to what callers were told about it; each conjunct mentions *)
(* no other chat, and all of them hold of memory, of the file and of the   *)
(* durable file at once.                                                   *)
ChatPromise(cp, c, ack, ask, readAck, readAsk, low, gaps) ==
  /\ ack <= cp.cursor[c] /\ cp.cursor[c] <= ask
  /\ readAck <= cp.read[c]
  /\ cp.version > UnprovenReadVersion => cp.read[c] <= readAsk
  /\ low > 0 /\ cp.cursor[c] = 0 => cp.start[c] \in 1..low
  /\ cp.cursor[c] > 0 => cp.start[c] = 0 /\ cp.known[c] >= cp.cursor[c]
  /\ \A p \in gaps : InGap(cp, c, p)
  /\ cp.gap[c] # NoGap => cp.gap[c].from > 0 /\ cp.gap[c].to >= cp.gap[c].from
  /\ cp.version # Version => ack = 0 /\ readAck = 0 /\ low = 0 /\ gaps = {}

Promised(cp, ack, ask, readAck, readAsk, low, gaps, live) ==
  /\ live => ~cp.clean /\ cp.version = Version
  /\ \A c \in Chats : ChatPromise(cp, c, ack[c], ask[c], readAck[c], readAsk[c],
                                  low[c], gaps[c])

(* While a session writes, memory and the durable file agree, and the file *)
(* differs from them by at most one change whose write failed late: it     *)
(* never has a higher replay floor.  Without this an unchanged delivery    *)
(* start, which is acknowledged and not written, could be lost.            *)
SessionAgreement ==
  /\ status # "shut" => data.version = Version
  /\ status = "session" =>
       /\ data = synced /\ disk.version = Version
       /\ \A c \in Chats : disk.cursor[c] = 0 /\ data.start[c] > 0
                            => disk.start[c] \in 1..data.start[c]

IInv ==
  /\ TypeOK
  /\ SessionAgreement
  /\ \A cp \in Snapshots :
       Promised(cp, acked, asked, readAcked, readAsked, floor, owed, active)

-----------------------------------------------------------------------------
(* Each change keeps the promises of every chat, with the history          *)
(* variables as its caller advances them on success and on failure.        *)

(* A commit keeps every promise of a copy and adds its own. *)
LEMMA CommitPromise ==
  ASSUME NEW cp \in CheckpointType, NEW d \in Chats, NEW l \in LogIDs,
         NEW c \in Chats, NEW ack \in Positions, NEW ask \in Positions,
         NEW readAck \in Positions, NEW readAsk \in Positions,
         NEW low \in Positions, NEW gaps \in SUBSET LogIDs,
         cp.version = Version,
         ChatPromise(cp, c, ack, ask, readAck, readAsk, low, gaps)
  PROVE  LET n == CommitMessage(cp, d, l)
         IN  IF c = d
               THEN /\ ChatPromise(n, c, Larger(ack, l), Larger(ask, l),
                                   readAck, readAsk, 0, gaps)
                    /\ ChatPromise(n, c, ack, Larger(ask, l),
                                   readAck, readAsk, low, gaps)
                    /\ ChatPromise(cp, c, ack, Larger(ask, l),
                                   readAck, readAsk, low, gaps)
               ELSE ChatPromise(n, c, ack, ask, readAck, readAsk, low, gaps)
<1> DEFINE n == CommitMessage(cp, d, l)
<1>1. /\ n \in CheckpointType /\ n.version = cp.version
      /\ n.gap = cp.gap /\ n.read = cp.read
      /\ n.start = [cp.start EXCEPT ![d] = 0]
      /\ n.cursor = [cp.cursor EXCEPT ![d] = Larger(cp.cursor[d], l)]
      /\ n.known = [cp.known EXCEPT ![d] =
                      IF l > cp.cursor[d] THEN Larger(cp.known[d], l)
                                          ELSE cp.known[d]]
  BY CommitFields
<1> HIDE DEF n
<1>2. CASE c # d
  <2>1. /\ n.cursor[c] = cp.cursor[c] /\ n.known[c] = cp.known[c]
        /\ n.start[c] = cp.start[c]
    BY <1>1, <1>2, FieldTypes
  <2>2. QED
    BY <1>1, <1>2, <2>1, Zenon DEF n, ChatPromise, InGap
<1>3. CASE c = d
  <2>1. /\ n.cursor[c] = Larger(cp.cursor[c], l) /\ n.start[c] = 0
        /\ n.known[c] = IF l > cp.cursor[c] THEN Larger(cp.known[c], l) ELSE cp.known[c]
    BY <1>1, <1>3, FieldTypes
  <2>2. /\ cp.cursor[c] \in 0..MaxLog /\ cp.known[c] \in NoTarget..MaxLog
        /\ l \in 1..MaxLog /\ ack \in 0..MaxLog /\ ask \in 0..MaxLog
    BY FieldTypes, Zenon DEF Positions, LogIDs
  <2>3. ack <= cp.cursor[c] /\ cp.cursor[c] <= ask
    BY Zenon DEF ChatPromise
  <2>4. /\ Larger(ack, l) <= n.cursor[c] /\ ack <= n.cursor[c]
        /\ n.cursor[c] <= Larger(ask, l) /\ cp.cursor[c] <= Larger(ask, l)
        /\ n.cursor[c] # 0
    BY <2>1, <2>2, <2>3, MaxLogAssumption DEF Larger
  <2>5. cp.cursor[c] > 0 => cp.known[c] >= cp.cursor[c]
    BY Zenon DEF ChatPromise
  <2>6. n.known[c] >= n.cursor[c]
    BY <2>1, <2>2, <2>5, MaxLogAssumption DEF Larger, NoTarget
  <2>7. n.gap[c] = cp.gap[c] /\ n.read[c] = cp.read[c] /\ n.version = Version
    BY <1>1, Zenon
  <2>8. \A p \in gaps : InGap(n, c, p)
    BY <2>7, Zenon DEF ChatPromise, InGap
  <2>9. /\ ChatPromise(n, c, Larger(ack, l), Larger(ask, l), readAck, readAsk, 0, gaps)
        /\ ChatPromise(n, c, ack, Larger(ask, l), readAck, readAsk, low, gaps)
    BY <2>1, <2>4, <2>6, <2>7, <2>8, Zenon DEF ChatPromise
  <2>10. ChatPromise(cp, c, ack, Larger(ask, l), readAck, readAsk, low, gaps)
    BY <2>4, Zenon DEF ChatPromise
  <2>11. QED
    BY <1>3, <2>9, <2>10, Zenon DEF n
<1>4. QED
  BY <1>2, <1>3, Zenon

(* A read watermark keeps every promise of a copy and adds its own. *)
LEMMA ReadPromise ==
  ASSUME NEW cp \in CheckpointType, NEW d \in Chats, NEW l \in LogIDs,
         NEW c \in Chats, NEW ack \in Positions, NEW ask \in Positions,
         NEW readAck \in Positions, NEW readAsk \in Positions,
         NEW low \in Positions, NEW gaps \in SUBSET LogIDs,
         cp.version = Version,
         ChatPromise(cp, c, ack, ask, readAck, readAsk, low, gaps)
  PROVE  LET n == CommitReadWatermark(cp, d, l)
         IN  IF c = d
               THEN /\ ChatPromise(n, c, ack, ask, Larger(readAck, l),
                                   Larger(readAsk, l), low, gaps)
                    /\ ChatPromise(n, c, ack, ask, readAck,
                                   Larger(readAsk, l), low, gaps)
                    /\ ChatPromise(cp, c, ack, ask, readAck,
                                   Larger(readAsk, l), low, gaps)
               ELSE ChatPromise(n, c, ack, ask, readAck, readAsk, low, gaps)
<1> DEFINE n == CommitReadWatermark(cp, d, l)
<1>1. /\ n.version = cp.version /\ n.gap = cp.gap /\ n.cursor = cp.cursor
      /\ n.known = cp.known /\ n.start = cp.start
      /\ n.read = [cp.read EXCEPT ![d] = Larger(cp.read[d], l)]
  BY ReadFields
<1> HIDE DEF n
<1>2. /\ n.gap[c] = cp.gap[c] /\ n.cursor[c] = cp.cursor[c]
      /\ n.known[c] = cp.known[c] /\ n.start[c] = cp.start[c] /\ n.version = Version
  BY <1>1, Zenon
<1>3. \A p \in gaps : InGap(n, c, p)
  BY <1>2, Zenon DEF ChatPromise, InGap
<1>4. CASE c # d
  <2>1. n.read[c] = cp.read[c]
    BY <1>1, <1>4, FieldTypes, Zenon
  <2>2. QED
    BY <1>2, <1>3, <1>4, <2>1, Zenon DEF n, ChatPromise
<1>5. CASE c = d
  <2>1. n.read[c] = Larger(cp.read[c], l)
    BY <1>1, <1>5, FieldTypes, Zenon
  <2>2. /\ cp.read[c] \in 0..MaxLog /\ l \in 1..MaxLog
        /\ readAck \in 0..MaxLog /\ readAsk \in 0..MaxLog
    BY FieldTypes, Zenon DEF Positions, LogIDs
  <2>3. readAck <= cp.read[c] /\ cp.read[c] <= readAsk
    BY DEF ChatPromise, Version, UnprovenReadVersion
  <2>4. /\ Larger(readAck, l) <= n.read[c] /\ readAck <= n.read[c]
        /\ n.read[c] <= Larger(readAsk, l) /\ cp.read[c] <= Larger(readAsk, l)
    BY <2>1, <2>2, <2>3, MaxLogAssumption DEF Larger
  <2>5. /\ ChatPromise(n, c, ack, ask, Larger(readAck, l), Larger(readAsk, l), low, gaps)
        /\ ChatPromise(n, c, ack, ask, readAck, Larger(readAsk, l), low, gaps)
    BY <1>2, <1>3, <2>4, Zenon DEF ChatPromise
  <2>6. ChatPromise(cp, c, ack, ask, readAck, Larger(readAsk, l), low, gaps)
    BY <2>4, Zenon DEF ChatPromise
  <2>7. QED
    BY <1>5, <2>5, <2>6, Zenon DEF n
<1>6. QED
  BY <1>4, <1>5, Zenon

(* An admitted message keeps every promise of a copy and adds its floor. *)
LEMMA StartPromise ==
  ASSUME NEW cp \in CheckpointType, NEW d \in Chats, NEW l \in LogIDs,
         NEW c \in Chats, NEW ack \in Positions, NEW ask \in Positions,
         NEW readAck \in Positions, NEW readAsk \in Positions,
         NEW low \in Positions, NEW gaps \in SUBSET LogIDs,
         cp.version = Version,
         ChatPromise(cp, c, ack, ask, readAck, readAsk, low, gaps)
  PROVE  LET n == RecordDeliveryStart(cp, d, l)
         IN  /\ ChatPromise(n, c, ack, ask, readAck, readAsk, low, gaps)
             /\ c = d /\ cp.cursor[c] = 0 =>
                  ChatPromise(n, c, ack, ask, readAck, readAsk,
                              IF low = 0 THEN l ELSE Smaller(low, l), gaps)
<1> DEFINE n == RecordDeliveryStart(cp, d, l)
<1>1. /\ n.version = cp.version
      /\ n.gap = cp.gap /\ n.read = cp.read /\ n.cursor = cp.cursor
      /\ cp.cursor[d] > 0 => n = cp
      /\ cp.cursor[d] = 0 =>
           /\ n.known = [cp.known EXCEPT ![d] = Larger(cp.known[d], l)]
           /\ n.start = [cp.start EXCEPT ![d] =
                 IF cp.start[d] = 0 THEN l ELSE Smaller(cp.start[d], l)]
  BY DeliveryStartFields
<1> HIDE DEF n
<1>2. CASE cp.cursor[d] # 0
  <2>1. n = cp
    BY <1>1, <1>2, FieldBounds, FieldTypes DEF Positions
  <2>2. QED
    BY <1>2, <2>1, Zenon DEF n
<1>3. CASE cp.cursor[d] = 0
  <2>1. /\ n.gap[c] = cp.gap[c] /\ n.cursor[c] = cp.cursor[c]
        /\ n.read[c] = cp.read[c] /\ n.version = Version
    BY <1>1, Zenon
  <2>2. \A p \in gaps : InGap(n, c, p)
    BY <2>1, Zenon DEF ChatPromise, InGap
  <2>3. CASE c # d
    <3>1. n.known[c] = cp.known[c] /\ n.start[c] = cp.start[c]
      BY <1>1, <1>3, <2>3, FieldTypes, Zenon
    <3>2. QED
      BY <2>1, <2>2, <2>3, <3>1, Zenon DEF n, ChatPromise
  <2>4. CASE c = d
    <3>1. n.start[c] = IF cp.start[c] = 0 THEN l ELSE Smaller(cp.start[c], l)
      BY <1>1, <1>3, <2>4, FieldTypes, Zenon
    <3>2. cp.start[c] \in 0..MaxLog /\ l \in 1..MaxLog /\ low \in 0..MaxLog
      BY FieldTypes, Zenon DEF Positions, LogIDs
    <3>3. low > 0 => cp.start[c] \in 1..low
      BY <1>3, <2>4, Zenon DEF ChatPromise
    <3>4. /\ low > 0 => n.start[c] \in 1..low
          /\ n.start[c] \in 1..(IF low = 0 THEN l ELSE Smaller(low, l))
      BY <3>1, <3>2, <3>3, MaxLogAssumption DEF Smaller
    <3>5. ~(n.cursor[c] > 0)
      BY <1>3, <2>1, <2>4
    <3>6. ChatPromise(n, c, ack, ask, readAck, readAsk, low, gaps)
      BY <2>1, <2>2, <3>4, <3>5, Zenon DEF ChatPromise
    <3>7. ChatPromise(n, c, ack, ask, readAck, readAsk,
                      IF low = 0 THEN l ELSE Smaller(low, l), gaps)
      BY <2>1, <2>2, <3>4, <3>5, Zenon DEF ChatPromise
    <3>8. QED
      BY <3>6, <3>7, Zenon DEF n
  <2>5. QED
    BY <2>3, <2>4, Zenon
<1>4. QED
  BY <1>2, <1>3, Zenon

(* A recorded gap keeps every promise of a copy and adds its positions. *)
LEMMA RecordGapPromise ==
  ASSUME NEW cp \in CheckpointType, NEW d \in Chats, NEW l \in LogIDs, NEW to \in l..MaxLog,
         NEW c \in Chats, NEW ack \in Positions, NEW ask \in Positions,
         NEW readAck \in Positions, NEW readAsk \in Positions,
         NEW low \in Positions, NEW gaps \in SUBSET LogIDs,
         cp.version = Version,
         ChatPromise(cp, c, ack, ask, readAck, readAsk, low, gaps)
  PROVE  LET n == RecordGap(cp, d, l, to)
         IN  /\ n \in CheckpointType
             /\ n.version = cp.version /\ n.clean = cp.clean
             /\ n.cursor = cp.cursor /\ n.start = cp.start
             /\ ChatPromise(n, c, ack, ask, readAck, readAsk, low, gaps)
             /\ c = d => ChatPromise(n, c, ack, ask, readAck, readAsk, low,
                                     gaps \cup (l..to))
<1> DEFINE gap == IF cp.gap[d] = NoGap THEN [from |-> l, to |-> to]
                  ELSE [from |-> Smaller(cp.gap[d].from, l),
                        to   |-> Larger(cp.gap[d].to, to)]
           n == RecordGap(cp, d, l, to)
<1>1. gap \in Gaps
  BY FieldTypes, MaxLogAssumption DEF Gaps, Positions, LogIDs, Smaller, Larger
<1>2. /\ gap.from <= l /\ gap.to >= to
      /\ cp.gap[d] # NoGap => gap.from <= cp.gap[d].from /\ gap.to >= cp.gap[d].to
      /\ gap.from = l \/ (cp.gap[d] # NoGap /\ gap.from = cp.gap[d].from)
  BY FieldTypes, MaxLogAssumption DEF Gaps, Positions, LogIDs, Smaller, Larger
<1>3. n = [cp EXCEPT !.gap[d] = gap]
  BY Zenon DEF RecordGap
<1> HIDE DEF gap
<1>4. /\ n \in CheckpointType /\ n.version = cp.version /\ n.clean = cp.clean
      /\ n.read = cp.read /\ n.cursor = cp.cursor
      /\ n.known = cp.known /\ n.start = cp.start
      /\ n.gap = [cp.gap EXCEPT ![d] = gap]
  BY <1>1, <1>3, GapFields
<1> HIDE DEF n
<1>5. cp.gap[d] # NoGap /\ c = d => cp.gap[d].from > 0
  BY Zenon DEF ChatPromise
<1>6. CASE c # d
  <2>1. n.gap[c] = cp.gap[c]
    BY <1>4, <1>6, FieldTypes, Zenon
  <2>2. QED
    BY <1>4, <1>6, <2>1, Zenon DEF n, ChatPromise, InGap
<1>7. CASE c = d
  <2>1. n.gap[c] = gap
    BY <1>4, <1>7, FieldTypes, Zenon
  <2>2. gap # NoGap /\ gap.from > 0 /\ gap.to >= gap.from
    <3>1. /\ l \in 1..MaxLog /\ to \in l..MaxLog
          /\ gap.from \in Int /\ gap.to \in Int
      BY <1>1 DEF Gaps, Positions, LogIDs
    <3>2. gap.from > 0
      BY <1>2, <1>5, <1>7, <3>1, MaxLogAssumption
    <3>3. gap.to >= gap.from
      BY <1>2, <3>1, MaxLogAssumption
    <3>4. gap # NoGap
      BY <3>2 DEF NoGap
    <3>5. QED
      BY <3>2, <3>3, <3>4, Zenon
  <2>3. \A p \in gaps \cup (l..to) : InGap(n, c, p)
    <3>1. \A p \in l..to : InGap(n, c, p)
      BY <1>1, <1>2, <2>1, <2>2 DEF InGap, Gaps, Positions, LogIDs
    <3>2. \A p \in gaps : InGap(n, c, p)
      <4>1. \A p \in gaps : InGap(cp, c, p) /\ cp.gap[d] \in Gaps /\ p \in Int
        BY FieldTypes DEF ChatPromise, LogIDs
      <4>2. QED
        BY <1>1, <1>2, <1>7, <2>1, <2>2, <4>1 DEF InGap, Gaps, Positions
    <3>3. QED
      BY <3>1, <3>2, Zenon
  <2>4. QED
    BY <1>4, <1>7, <2>1, <2>2, <2>3, Zenon DEF n, ChatPromise
<1>8. QED
  BY <1>6, <1>7, Zenon

(* A resolved gap keeps every promise of a copy but the resolved positions. *)
LEMMA ResolveGapPromise ==
  ASSUME NEW cp \in CheckpointType, NEW d \in Chats, NEW l \in LogIDs,
         NEW c \in Chats, NEW ack \in Positions, NEW ask \in Positions,
         NEW readAck \in Positions, NEW readAsk \in Positions,
         NEW low \in Positions, NEW gaps \in SUBSET LogIDs,
         cp.version = Version,
         ChatPromise(cp, c, ack, ask, readAck, readAsk, low, gaps)
  PROVE  LET n == ResolveGapThrough(cp, d, l)
         IN  /\ n \in CheckpointType
             /\ n.version = cp.version /\ n.clean = cp.clean
             /\ n.cursor = cp.cursor /\ n.start = cp.start
             /\ IF c = d
                  THEN /\ ChatPromise(n, c, ack, ask, readAck, readAsk, low,
                                      {p \in gaps : p > l})
                       /\ ChatPromise(cp, c, ack, ask, readAck, readAsk, low,
                                      {p \in gaps : p > l})
                  ELSE ChatPromise(n, c, ack, ask, readAck, readAsk, low, gaps)
<1> DEFINE gap == IF cp.gap[d] = NoGap \/ l < cp.gap[d].from THEN cp.gap[d]
                  ELSE IF l >= cp.gap[d].to THEN NoGap
                  ELSE [from |-> l + 1, to |-> cp.gap[d].to]
           n == ResolveGapThrough(cp, d, l)
<1>1. gap \in Gaps
  BY FieldTypes, Constants, MaxLogAssumption DEF Gaps, Positions, LogIDs
<1>2. /\ gap # NoGap => /\ cp.gap[d] # NoGap /\ gap.to = cp.gap[d].to
                        /\ gap = cp.gap[d] \/ (gap.from = l + 1 /\ l < gap.to)
      /\ \A p \in LogIDs : p > l /\ cp.gap[d] # NoGap /\ cp.gap[d].from <= p
                            /\ p <= cp.gap[d].to
                          => gap # NoGap /\ gap.from <= p /\ p <= gap.to
  <2> DEFINE g == cp.gap[d]
  <2>1. l \in 1..MaxLog /\ LogIDs = 1..MaxLog
    BY Zenon DEF LogIDs
  <2>2. g.from \in Int /\ g.to \in Int
    BY FieldTypes DEF Gaps, Positions
  <2>3. \/ gap = g /\ (g = NoGap \/ l < g.from)
        \/ gap = NoGap /\ l >= g.to
        \/ g # NoGap /\ l < g.to /\ gap = [from |-> l + 1, to |-> g.to]
    BY <2>1, <2>2
  <2> HIDE DEF g, gap
  <2>4. CASE gap = g /\ (g = NoGap \/ l < g.from)
    BY <2>4, Zenon DEF g
  <2>5. CASE gap = NoGap /\ l >= g.to
    <3>1. \A p \in LogIDs : ~(p > l /\ p <= g.to)
      BY <2>1, <2>2, <2>5, MaxLogAssumption
    <3>2. QED
      BY <2>5, <3>1, Zenon DEF g
  <2>6. CASE g # NoGap /\ l < g.to /\ gap = [from |-> l + 1, to |-> g.to]
    <3>1. gap.from = l + 1 /\ gap.to = g.to /\ l < gap.to
      BY <2>6, Zenon
    <3>2. gap # NoGap
      BY <2>1, <3>1, MaxLogAssumption DEF NoGap
    <3>3. \A p \in LogIDs : p > l => gap.from <= p
      BY <2>1, <3>1, MaxLogAssumption
    <3>4. QED
      BY <2>6, <3>1, <3>2, <3>3, Zenon DEF g
  <2>7. QED
    BY <2>3, <2>4, <2>5, <2>6, Zenon
<1>3. n = [cp EXCEPT !.gap[d] = gap]
  BY Zenon DEF ResolveGapThrough
<1> HIDE DEF gap
<1>4. /\ n \in CheckpointType /\ n.version = cp.version /\ n.clean = cp.clean
      /\ n.read = cp.read /\ n.cursor = cp.cursor
      /\ n.known = cp.known /\ n.start = cp.start
      /\ n.gap = [cp.gap EXCEPT ![d] = gap]
  BY <1>1, <1>3, GapFields
<1> HIDE DEF n
<1>5. CASE c # d
  <2>1. n.gap[c] = cp.gap[c]
    BY <1>4, <1>5, FieldTypes, Zenon
  <2>2. QED
    BY <1>4, <1>5, <2>1, Zenon DEF n, ChatPromise, InGap
<1>6. CASE c = d
  <2>1. n.gap[c] = gap
    BY <1>4, <1>6, FieldTypes, Zenon
  <2>2. gap # NoGap => gap.from > 0 /\ gap.to >= gap.from
    <3>1. gap.from \in Int /\ gap.to \in Int /\ l \in 1..MaxLog
      BY <1>1 DEF Gaps, Positions, LogIDs
    <3>2. CASE gap = cp.gap[d]
      BY <1>6, <3>2, Zenon DEF ChatPromise
    <3>3. CASE gap.from = l + 1 /\ l < gap.to
      BY <3>1, <3>3, MaxLogAssumption
    <3>4. QED
      BY <1>2, <3>2, <3>3, Zenon
  <2>3. \A p \in gaps : p > l => InGap(n, c, p)
    BY <1>2, <1>6, <2>1, Zenon DEF ChatPromise, InGap
  <2>4. QED
    BY <1>4, <1>6, <2>1, <2>2, <2>3, Zenon DEF n, ChatPromise
<1>7. QED
  BY <1>5, <1>6, Zenon

-----------------------------------------------------------------------------
(* What a write can leave behind. *)

(* The values the snapshots can have after a write that ended so. *)
Written(n, outcome) ==
  CASE outcome = "ok" -> {n}
    [] outcome = "before_rename" -> Snapshots
    [] OTHER -> Snapshots \cup {n}

(* What each outcome of WriteAtomic leaves in memory, in the file and on the disk. *)
LEMMA WriteCases ==
  ASSUME NEW n, NEW outcome \in Outcomes, Update(n, outcome)
  PROVE  /\ outcome = "ok" => data' = n /\ disk' = n /\ synced' = n
         /\ outcome = "before_rename" => data' = data /\ disk' = disk /\ synced' = synced
         /\ outcome = "after_rename" => data' = data /\ disk' = n /\ synced' = synced
         /\ outcome \in {"ok", "before_rename", "after_rename"}
         /\ failures \in Nat => failures' \in Nat
         /\ n.version = Version
  BY MaxFailuresAssumption DEF Update, WriteAtomic, Outcomes, Valid

(* A write of a checkpoint leaves checkpoints. *)
LEMMA WriteTypes ==
  ASSUME TypeOK, NEW n \in CheckpointType, NEW outcome \in Outcomes, Update(n, outcome)
  PROVE  /\ data' \in CheckpointType /\ disk' \in CheckpointType
         /\ synced' \in CheckpointType /\ failures' \in Nat
<1>1. /\ data' \in {data, n} /\ disk' \in {disk, n} /\ synced' \in {synced, n}
      /\ failures \in Nat => failures' \in Nat
  BY WriteCases, Zenon
<1>2. /\ data \in CheckpointType /\ disk \in CheckpointType
      /\ synced \in CheckpointType /\ failures \in Nat
  BY Zenon DEF TypeOK
<1>3. QED
  BY <1>1, <1>2, Zenon

-----------------------------------------------------------------------------
(* Every action keeps IInv.  IInv speaks of three snapshots at once        *)
(* (memory, the file, the durable file).  An action writes one new value n *)
(* and leaves the others alone, so each lemma ...Step shows that n keeps   *)
(* the promises and that every value that may survive next to it does too. *)

(* A write of the session: it is enough that every value it may leave      *)
(* behind keeps the promises.                                              *)
LEMMA SessionStep ==
  ASSUME IInv, TypeOK', NEW n \in CheckpointType, NEW outcome \in Outcomes,
         InSession(n, outcome), active' = active, n.clean = data.clean,
         \A c \in Chats : n.cursor[c] = 0 /\ data.start[c] > 0
                         => n.start[c] \in 1..data.start[c],
         \A cp \in Written(n, outcome), c \in Chats :
           ChatPromise(cp, c, acked'[c], asked'[c], readAcked'[c], readAsked'[c],
                       floor'[c], owed'[c])
  PROVE  IInv'
<1> USE DEF Snapshots
<1>1. Update(n, outcome) /\ status = "session" /\ status' = "session"
  BY Zenon DEF InSession
<1>2. /\ outcome = "ok" => data' = n /\ disk' = n /\ synced' = n
      /\ outcome = "before_rename" => data' = data /\ disk' = disk /\ synced' = synced
      /\ outcome = "after_rename" => data' = data /\ disk' = n /\ synced' = synced
      /\ outcome \in {"ok", "before_rename", "after_rename"}
      /\ n.version = Version
  BY <1>1, WriteCases, Zenon
<1>3. /\ data = synced /\ data.version = Version /\ disk.version = Version
      /\ \A c \in Chats : disk.cursor[c] = 0 /\ data.start[c] > 0
                           => disk.start[c] \in 1..data.start[c]
  BY <1>1, Zenon DEF IInv, SessionAgreement
<1>4. SessionAgreement'
  <2>1. \A c \in Chats : n.start[c] \in Int /\ n.start[c] >= 0
    BY FieldTypes, MaxLogAssumption DEF Positions
  <2>2. outcome = "ok" => SessionAgreement'
    BY <1>1, <1>2, <2>1 DEF SessionAgreement
  <2>3. outcome # "ok" => SessionAgreement'
    BY <1>1, <1>2, <1>3, Zenon DEF SessionAgreement
  <2>4. QED
    BY <2>2, <2>3, Zenon
<1>5. active => \A cp \in {n, data, disk, synced} : ~cp.clean /\ cp.version = Version
  BY <1>2, Zenon DEF IInv, Promised
<1>6. \A cp \in Snapshots' :
        Promised(cp, acked', asked', readAcked', readAsked', floor', owed', active')
  <2>1. Snapshots' \subseteq Written(n, outcome)
    BY <1>2, Zenon DEF Written
  <2>2. \A cp \in Snapshots' : active => ~cp.clean /\ cp.version = Version
    BY <1>2, <1>5, Zenon
  <2>3. QED
    BY <2>1, <2>2, Zenon DEF Promised
<1>7. QED
  BY <1>4, <1>6, Zenon DEF IInv

(* What the invariant says of the snapshots in a session, chat by chat. *)
LEMMA SnapshotFacts ==
  ASSUME IInv
  PROVE  /\ \A cp \in Snapshots : cp \in CheckpointType
         /\ status = "session" => \A cp \in Snapshots : cp.version = Version
         /\ \A c \in Chats :
              /\ acked[c] \in Positions /\ asked[c] \in Positions
              /\ readAcked[c] \in Positions /\ readAsked[c] \in Positions
              /\ floor[c] \in Positions /\ owed[c] \in SUBSET LogIDs
         /\ \A cp \in Snapshots, c \in Chats :
              ChatPromise(cp, c, acked[c], asked[c], readAcked[c], readAsked[c],
                          floor[c], owed[c])
<1>1. \A cp \in Snapshots : cp \in CheckpointType
  BY Zenon DEF IInv, TypeOK, Snapshots
<1>2. status = "session" => \A cp \in Snapshots : cp.version = Version
  BY Zenon DEF IInv, SessionAgreement, Snapshots
<1>3. \A c \in Chats :
        /\ acked[c] \in Positions /\ asked[c] \in Positions
        /\ readAcked[c] \in Positions /\ readAsked[c] \in Positions
        /\ floor[c] \in Positions /\ owed[c] \in SUBSET LogIDs
  BY Zenon DEF IInv, TypeOK
<1>4. \A cp \in Snapshots, c \in Chats :
        ChatPromise(cp, c, acked[c], asked[c], readAcked[c], readAsked[c],
                    floor[c], owed[c])
  BY Zenon DEF IInv, Promised
<1>5. QED
  BY <1>1, <1>2, <1>3, <1>4, Zenon

(* CommitMessage keeps the invariant, whatever becomes of the write. *)
LEMMA CommitStep ==
  ASSUME IInv, NEW d \in Chats, NEW l \in LogIDs, NEW outcome \in Outcomes,
         Commit(d, l, outcome)
  PROVE  IInv'
<1> DEFINE n == CommitMessage(data, d, l)
<1>1. InSession(n, outcome) /\ Update(n, outcome) /\ status = "session"
  BY Zenon DEF Commit, InSession
<1>2. \A cp \in Snapshots : cp \in CheckpointType /\ cp.version = Version
  BY <1>1, SnapshotFacts, Zenon
<1>3. /\ n \in CheckpointType
      /\ n.version = data.version /\ n.clean = data.clean
      /\ n.gap = data.gap /\ n.read = data.read
      /\ n.start = [data.start EXCEPT ![d] = 0]
      /\ n.cursor = [data.cursor EXCEPT ![d] = Larger(data.cursor[d], l)]
      /\ n.known = [data.known EXCEPT ![d] =
                      IF l > data.cursor[d] THEN Larger(data.known[d], l)
                                            ELSE data.known[d]]
  <2>1. data \in CheckpointType
    BY <1>2, Zenon DEF Snapshots
  <2>2. QED
    BY <2>1, CommitFields, SMTT(30)
<1> HIDE DEF n
<1>4. TypeOK'
  <2>1. /\ data' \in CheckpointType /\ disk' \in CheckpointType
        /\ synced' \in CheckpointType /\ failures' \in Nat
    BY <1>1, <1>3, WriteTypes, Zenon DEF IInv
  <2>2. acked' \in [Chats -> Positions] /\ asked' \in [Chats -> Positions]
    <3>1. Larger(acked[d], l) \in Positions /\ Larger(asked[d], l) \in Positions
      BY SnapshotFacts, LargerType, Zenon
    <3>2. QED
      BY <3>1, Zenon DEF Commit, IInv, TypeOK
  <2>3. floor' \in [Chats -> Positions]
    BY Constants, Zenon DEF Commit, IInv, TypeOK
  <2>4. QED
    BY <1>1, <2>1, <2>2, <2>3, Zenon DEF Commit, InSession, IInv, TypeOK
<1>5. \A c \in Chats : n.cursor[c] = 0 /\ data.start[c] > 0
                        => n.start[c] \in 1..data.start[c]
  <2>1. data \in CheckpointType
    BY <1>2, Zenon DEF Snapshots
  <2>2. n.cursor[d] # 0 /\ \A c \in Chats : c # d => n.start[c] = data.start[c]
    BY <1>3, <2>1, FieldTypes, LargerType
  <2>3. QED
    BY <2>1, <2>2, StartKept, Zenon
<1>6. ASSUME NEW c \in Chats
      PROVE  /\ asked'[c] = IF c = d THEN Larger(asked[c], l) ELSE asked[c]
             /\ acked'[c] = IF c = d /\ outcome = "ok"
                              THEN Larger(acked[c], l) ELSE acked[c]
             /\ floor'[c] = IF c = d /\ outcome = "ok" THEN 0 ELSE floor[c]
             /\ readAcked'[c] = readAcked[c] /\ readAsked'[c] = readAsked[c]
             /\ owed'[c] = owed[c] /\ active' = active
  BY Zenon DEF Commit, IInv, TypeOK
<1>7. ASSUME NEW c \in Chats, NEW cp \in Snapshots
      PROVE  LET m == CommitMessage(cp, d, l)
             IN  IF c = d
                   THEN /\ ChatPromise(m, c, Larger(acked[c], l), Larger(asked[c], l),
                                       readAcked[c], readAsked[c], 0, owed[c])
                        /\ ChatPromise(m, c, acked[c], Larger(asked[c], l),
                                       readAcked[c], readAsked[c], floor[c], owed[c])
                        /\ ChatPromise(cp, c, acked[c], Larger(asked[c], l),
                                       readAcked[c], readAsked[c], floor[c], owed[c])
                   ELSE ChatPromise(m, c, acked[c], asked[c], readAcked[c], readAsked[c],
                                    floor[c], owed[c])
  BY <1>2, SnapshotFacts, CommitPromise, ZenonT(60)
<1>8. data \in Snapshots
  BY Zenon DEF Snapshots
<1>9. ASSUME NEW cp \in Written(n, outcome), NEW c \in Chats
      PROVE  ChatPromise(cp, c, acked'[c], asked'[c], readAcked'[c], readAsked'[c],
                         floor'[c], owed'[c])
  BY <1>6, <1>7, <1>8, SnapshotFacts, Zenon DEF n, Written
<1>10. QED
  BY <1>1, <1>3, <1>4, <1>5, <1>6, <1>9, SessionStep, ZenonT(60)

(* CommitReadWatermark keeps the invariant. *)
LEMMA ReadStep ==
  ASSUME IInv, NEW d \in Chats, NEW l \in LogIDs, NEW outcome \in Outcomes,
         CommitRead(d, l, outcome)
  PROVE  IInv'
<1> DEFINE n == CommitReadWatermark(data, d, l)
<1>1. InSession(n, outcome) /\ Update(n, outcome) /\ status = "session"
  BY Zenon DEF CommitRead, InSession
<1>2. /\ \A cp \in Snapshots : cp \in CheckpointType /\ cp.version = Version
      /\ data \in Snapshots
  BY <1>1, SnapshotFacts, Zenon DEF Snapshots
<1>3. /\ n \in CheckpointType
      /\ n.version = data.version /\ n.clean = data.clean
      /\ n.gap = data.gap /\ n.cursor = data.cursor
      /\ n.known = data.known /\ n.start = data.start
      /\ n.read = [data.read EXCEPT ![d] = Larger(data.read[d], l)]
  BY <1>2, ReadFields, SMTT(30)
<1> HIDE DEF n
<1>4. TypeOK'
  <2>1. /\ data' \in CheckpointType /\ disk' \in CheckpointType
        /\ synced' \in CheckpointType /\ failures' \in Nat
    BY <1>1, <1>3, WriteTypes, Zenon DEF IInv
  <2>2. readAcked' \in [Chats -> Positions] /\ readAsked' \in [Chats -> Positions]
    <3>1. Larger(readAcked[d], l) \in Positions /\ Larger(readAsked[d], l) \in Positions
      BY SnapshotFacts, LargerType, Zenon
    <3>2. QED
      BY <3>1, Zenon DEF CommitRead, IInv, TypeOK
  <2>3. QED
    BY <1>1, <2>1, <2>2, Zenon DEF CommitRead, InSession, IInv, TypeOK
<1>5. \A c \in Chats : n.cursor[c] = 0 /\ data.start[c] > 0
                        => n.start[c] \in 1..data.start[c]
  BY <1>2, <1>3, StartKept, Zenon
<1>6. ASSUME NEW c \in Chats
      PROVE  /\ readAsked'[c] = IF c = d THEN Larger(readAsked[c], l) ELSE readAsked[c]
             /\ readAcked'[c] = IF c = d /\ outcome = "ok"
                                  THEN Larger(readAcked[c], l) ELSE readAcked[c]
             /\ acked'[c] = acked[c] /\ asked'[c] = asked[c]
             /\ floor'[c] = floor[c] /\ owed'[c] = owed[c] /\ active' = active
  BY Zenon DEF CommitRead, IInv, TypeOK
<1>7. ASSUME NEW c \in Chats, NEW cp \in Snapshots
      PROVE  LET m == CommitReadWatermark(cp, d, l)
             IN  IF c = d
                   THEN /\ ChatPromise(m, c, acked[c], asked[c], Larger(readAcked[c], l),
                                       Larger(readAsked[c], l), floor[c], owed[c])
                        /\ ChatPromise(m, c, acked[c], asked[c], readAcked[c],
                                       Larger(readAsked[c], l), floor[c], owed[c])
                        /\ ChatPromise(cp, c, acked[c], asked[c], readAcked[c],
                                       Larger(readAsked[c], l), floor[c], owed[c])
                   ELSE ChatPromise(m, c, acked[c], asked[c], readAcked[c], readAsked[c],
                                    floor[c], owed[c])
  BY <1>2, SnapshotFacts, ReadPromise, ZenonT(60)
<1>8. ASSUME NEW cp \in Written(n, outcome), NEW c \in Chats
      PROVE  ChatPromise(cp, c, acked'[c], asked'[c], readAcked'[c], readAsked'[c],
                         floor'[c], owed'[c])
  BY <1>2, <1>6, <1>7, SnapshotFacts, Zenon DEF n, Written
<1>9. QED
  BY <1>1, <1>3, <1>4, <1>5, <1>6, <1>8, SessionStep, Zenon

(* RecordGap keeps the invariant. *)
LEMMA NoteGapStep ==
  ASSUME IInv, NEW d \in Chats, NEW l \in LogIDs, NEW to \in LogIDs, NEW outcome \in Outcomes,
         NoteGap(d, l, to, outcome)
  PROVE  IInv'
<1> DEFINE n == RecordGap(data, d, l, to)
<1>1. /\ InSession(n, outcome) /\ Update(n, outcome) /\ status = "session"
      /\ to \in l..MaxLog
  BY DEF NoteGap, InSession, LogIDs
<1>2. /\ \A cp \in Snapshots : cp \in CheckpointType /\ cp.version = Version
      /\ data \in Snapshots
  BY <1>1, SnapshotFacts, Zenon DEF Snapshots
<1>3. ASSUME NEW c \in Chats
      PROVE  /\ n \in CheckpointType
             /\ n.version = data.version /\ n.clean = data.clean
             /\ n.cursor = data.cursor /\ n.start = data.start
             /\ ChatPromise(n, c, acked[c], asked[c], readAcked[c], readAsked[c],
                            floor[c], owed[c])
             /\ c = d => ChatPromise(n, c, acked[c], asked[c], readAcked[c],
                                     readAsked[c], floor[c], owed[c] \cup (l..to))
  BY <1>1, <1>2, SnapshotFacts, RecordGapPromise, ZenonT(60)
<1> HIDE DEF n
<1>4. /\ n \in CheckpointType /\ n.clean = data.clean
      /\ n.cursor = data.cursor /\ n.start = data.start
  BY <1>2, <1>3, ZenonT(60)
<1>5. owed' = IF outcome = "ok" THEN [owed EXCEPT ![d] = owed[d] \cup (l..to)]
                                ELSE owed
  BY Zenon DEF NoteGap
<1>6. UNCHANGED <<acked, asked, readAcked, readAsked, floor, active>>
  BY Zenon DEF NoteGap
<1>7. TypeOK'
  <2>1. /\ data' \in CheckpointType /\ disk' \in CheckpointType
        /\ synced' \in CheckpointType /\ failures' \in Nat
    BY <1>1, <1>4, WriteTypes, Zenon DEF IInv
  <2>2. owed' \in [Chats -> SUBSET LogIDs]
    <3>1. l..to \in SUBSET LogIDs
      BY <1>1, MaxLogAssumption DEF LogIDs
    <3>2. QED
      BY <1>5, <3>1, Zenon DEF IInv, TypeOK
  <2>3. QED
    BY <1>1, <1>6, <2>1, <2>2, Zenon DEF InSession, IInv, TypeOK
<1>8. \A c \in Chats : n.cursor[c] = 0 /\ data.start[c] > 0
                        => n.start[c] \in 1..data.start[c]
  BY <1>2, <1>4, StartKept, Zenon
<1>9. ASSUME NEW c \in Chats
      PROVE  owed'[c] = IF c = d /\ outcome = "ok"
                          THEN owed[c] \cup (l..to) ELSE owed[c]
  BY <1>5, ZenonT(60) DEF IInv, TypeOK
<1>10. ASSUME NEW cp \in Written(n, outcome), NEW c \in Chats
       PROVE  ChatPromise(cp, c, acked'[c], asked'[c], readAcked'[c], readAsked'[c],
                          floor'[c], owed'[c])
  BY <1>2, <1>3, <1>6, <1>9, SnapshotFacts, ZenonT(60) DEF n, Written
<1>11. QED
  BY <1>1, <1>4, <1>6, <1>7, <1>8, <1>10, SessionStep, Zenon

(* ResolveGapThrough keeps the invariant. *)
LEMMA ResolveGapStep ==
  ASSUME IInv, NEW d \in Chats, NEW l \in LogIDs, NEW outcome \in Outcomes,
         ResolveGap(d, l, outcome)
  PROVE  IInv'
<1> DEFINE n == ResolveGapThrough(data, d, l)
<1>1. /\ InSession(n, outcome) /\ Update(n, outcome) /\ status = "session"
  BY Zenon DEF ResolveGap, InSession, LogIDs
<1>2. /\ \A cp \in Snapshots : cp \in CheckpointType /\ cp.version = Version
      /\ data \in Snapshots
  BY <1>1, SnapshotFacts, Zenon DEF Snapshots
<1>3. ASSUME NEW c \in Chats, NEW cp \in Snapshots
      PROVE  LET m == ResolveGapThrough(cp, d, l)
             IN  /\ m \in CheckpointType
                 /\ m.version = cp.version /\ m.clean = cp.clean
                 /\ m.cursor = cp.cursor /\ m.start = cp.start
                 /\ IF c = d
                      THEN /\ ChatPromise(m, c, acked[c], asked[c], readAcked[c],
                                          readAsked[c], floor[c], {p \in owed[c] : p > l})
                           /\ ChatPromise(cp, c, acked[c], asked[c], readAcked[c],
                                          readAsked[c], floor[c], {p \in owed[c] : p > l})
                      ELSE ChatPromise(m, c, acked[c], asked[c], readAcked[c],
                                       readAsked[c], floor[c], owed[c])
  BY <1>2, SnapshotFacts, ResolveGapPromise, ZenonT(60)
<1> HIDE DEF n
<1>4. /\ n \in CheckpointType /\ n.clean = data.clean
      /\ n.cursor = data.cursor /\ n.start = data.start
  BY <1>2, <1>3, ZenonT(60) DEF n
<1>5. owed' = IF outcome = "before_rename" THEN owed
                ELSE [owed EXCEPT ![d] = {p \in owed[d] : p > l}]
  BY Zenon DEF ResolveGap
<1>6. UNCHANGED <<acked, asked, readAcked, readAsked, floor, active>>
  BY Zenon DEF ResolveGap
<1>7. TypeOK'
  <2>1. /\ data' \in CheckpointType /\ disk' \in CheckpointType
        /\ synced' \in CheckpointType /\ failures' \in Nat
    BY <1>1, <1>4, WriteTypes, Zenon DEF IInv
  <2>2. owed' \in [Chats -> SUBSET LogIDs]
    <3>1. {p \in owed[d] : p > l} \in SUBSET LogIDs
      BY SnapshotFacts, Zenon
    <3>2. QED
      BY <1>5, <3>1, Zenon DEF IInv, TypeOK
  <2>3. QED
    BY <1>1, <1>6, <2>1, <2>2, Zenon DEF InSession, IInv, TypeOK
<1>8. \A c \in Chats : n.cursor[c] = 0 /\ data.start[c] > 0
                        => n.start[c] \in 1..data.start[c]
  BY <1>2, <1>4, StartKept, Zenon
<1>9. ASSUME NEW c \in Chats
      PROVE  owed'[c] = IF c = d /\ outcome # "before_rename"
                          THEN {p \in owed[c] : p > l} ELSE owed[c]
  BY <1>5, Zenon DEF IInv, TypeOK
<1>10. ASSUME NEW cp \in Written(n, outcome), NEW c \in Chats
       PROVE  ChatPromise(cp, c, acked'[c], asked'[c], readAcked'[c], readAsked'[c],
                          floor'[c], owed'[c])
  BY <1>2, <1>3, <1>6, <1>9, SnapshotFacts, ZenonT(60) DEF n, Written
<1>11. QED
  BY <1>1, <1>4, <1>6, <1>7, <1>8, <1>10, SessionStep, Zenon

(* RecordDeliveryStart keeps the invariant; it writes nothing when nothing changes. *)
LEMMA AdmitStep ==
  ASSUME IInv, NEW d \in Chats, NEW l \in LogIDs, NEW outcome \in Outcomes,
         AdmitDelivery(d, l, outcome)
  PROVE  IInv'
<1> DEFINE n == RecordDeliveryStart(data, d, l)
           low == IF floor[d] = 0 THEN l ELSE Smaller(floor[d], l)
<1>1. /\ status = "session"
      /\ IF n = data THEN outcome = "ok" /\ UNCHANGED store
                     ELSE InSession(n, outcome) /\ Update(n, outcome)
  BY Zenon DEF AdmitDelivery, InSession
<1>2. floor' = IF outcome = "ok" /\ data.cursor[d] = 0
                 THEN [floor EXCEPT ![d] = low] ELSE floor
  BY Zenon DEF AdmitDelivery
<1>3. UNCHANGED <<acked, asked, readAcked, readAsked, owed, active>>
  BY Zenon DEF AdmitDelivery
<1>4. /\ \A cp \in Snapshots : cp \in CheckpointType /\ cp.version = Version
      /\ data \in Snapshots
  BY <1>1, SnapshotFacts, Zenon DEF Snapshots
<1>5. /\ n \in CheckpointType
      /\ n.version = data.version /\ n.clean = data.clean
      /\ n.gap = data.gap /\ n.read = data.read /\ n.cursor = data.cursor
      /\ data.cursor[d] > 0 => n = data
      /\ data.cursor[d] = 0 =>
           /\ n.known = [data.known EXCEPT ![d] = Larger(data.known[d], l)]
           /\ n.start = [data.start EXCEPT ![d] =
                 IF data.start[d] = 0 THEN l ELSE Smaller(data.start[d], l)]
  BY <1>4, DeliveryStartFields
<1>6. ASSUME NEW c \in Chats, NEW cp \in Snapshots
      PROVE  LET m == RecordDeliveryStart(cp, d, l)
             IN  /\ ChatPromise(m, c, acked[c], asked[c], readAcked[c], readAsked[c],
                                floor[c], owed[c])
                 /\ c = d /\ cp.cursor[c] = 0 =>
                      ChatPromise(m, c, acked[c], asked[c], readAcked[c], readAsked[c],
                                  IF floor[c] = 0 THEN l ELSE Smaller(floor[c], l), owed[c])
  BY <1>4, SnapshotFacts, StartPromise, ZenonT(60)
<1> HIDE DEF n
<1>7. low \in Positions
  BY SnapshotFacts, MaxLogAssumption DEF Positions, LogIDs, Smaller
<1>8. ASSUME NEW c \in Chats
      PROVE  floor'[c] = IF c = d /\ outcome = "ok" /\ data.cursor[d] = 0
                           THEN low ELSE floor[c]
  BY <1>2, Zenon DEF IInv, TypeOK
<1>9. TypeOK'
  <2>1. /\ data' \in CheckpointType /\ disk' \in CheckpointType
        /\ synced' \in CheckpointType /\ failures' \in Nat
    BY <1>1, <1>5, WriteTypes, Zenon DEF IInv, TypeOK, store
  <2>2. floor' \in [Chats -> Positions]
    BY <1>2, <1>7, Zenon DEF IInv, TypeOK
  <2>3. status' = "session"
    BY <1>1, Zenon DEF InSession, store
  <2>4. QED
    BY <1>3, <2>1, <2>2, <2>3, Zenon DEF IInv, TypeOK
<1>10. \A c \in Chats : n.cursor[c] = 0 /\ data.start[c] > 0
                         => n.start[c] \in 1..data.start[c]
  BY <1>4, <1>5, FieldTypes, MaxLogAssumption DEF Positions, LogIDs, Smaller
<1>11. CASE n # data
  <2>1. ASSUME NEW cp \in Written(n, outcome), NEW c \in Chats
        PROVE  ChatPromise(cp, c, acked'[c], asked'[c], readAcked'[c], readAsked'[c],
                           floor'[c], owed'[c])
    BY <1>3, <1>4, <1>6, <1>8, SnapshotFacts, Zenon DEF n, Written
  <2>2. QED
    BY <1>1, <1>3, <1>5, <1>9, <1>10, <1>11, <2>1, SessionStep, Zenon
<1>12. CASE n = data
  <2>1. UNCHANGED <<status, data, disk, synced, active>>
    BY <1>1, <1>3, <1>12, Zenon DEF store
  <2>2. \A c \in Chats : disk.cursor[c] = 0 /\ data.start[c] > 0
                          => disk.start[c] \in 1..data.start[c]
    BY <1>1, Zenon DEF IInv, SessionAgreement
  <2>3. data = synced
    BY <1>1, Zenon DEF IInv, SessionAgreement
  <2>4. data.cursor[d] = 0 => data.start[d] > 0 /\ data.start[d] <= l
    BY <1>4, <1>5, <1>12, FieldTypes, MaxLogAssumption DEF Positions, LogIDs, Smaller
  <2>5. ASSUME NEW cp \in Snapshots, NEW c \in Chats
        PROVE  ChatPromise(cp, c, acked[c], asked[c], readAcked[c], readAsked[c],
                           floor'[c], owed[c])
    <3>1. ChatPromise(cp, c, acked[c], asked[c], readAcked[c], readAsked[c],
                      floor[c], owed[c])
      BY SnapshotFacts, Zenon
    <3>2. CASE c = d /\ outcome = "ok" /\ data.cursor[d] = 0
      <4>1. cp.cursor[c] = 0 => cp.start[c] \in 1..l
        BY <1>4, <2>2, <2>3, <2>4, <3>2, FieldTypes DEF Snapshots, Positions, LogIDs
      <4>2. cp.cursor[c] = 0 => cp.start[c] \in 1..low
        <5>1. CASE floor[d] = 0
          BY <4>1, <5>1, Zenon
        <5>2. CASE floor[d] # 0
          <6>1. floor[d] \in Positions
            BY SnapshotFacts, Zenon
          <6>2. cp.cursor[c] = 0 => cp.start[c] \in 1..floor[d]
            BY <3>1, <3>2, <5>2, <6>1 DEF ChatPromise, Positions
          <6>3. QED
            BY <4>1, <5>2, <6>1, <6>2, Zenon DEF Smaller, Positions, LogIDs
        <5>3. QED
          BY <5>1, <5>2, Zenon
      <4>3. floor'[c] = low /\ cp.version = Version
        BY <1>4, <1>8, <3>2, Zenon
      <4>4. QED
        BY <3>1, <4>2, <4>3, Zenon DEF ChatPromise
    <3>3. CASE ~(c = d /\ outcome = "ok" /\ data.cursor[d] = 0)
      BY <1>8, <3>1, <3>3, Zenon
    <3>4. QED
      BY <3>2, <3>3, Zenon
  <2>6. SessionAgreement'
    BY <2>1, Zenon DEF IInv, SessionAgreement
  <2>7. \A cp \in Snapshots : active => ~cp.clean /\ cp.version = Version
    BY Zenon DEF IInv, Promised
  <2>8. Snapshots' = Snapshots
    BY <2>1, Zenon DEF Snapshots
  <2>9. \A cp \in Snapshots, c \in Chats :
          ChatPromise(cp, c, acked'[c], asked'[c], readAcked'[c], readAsked'[c],
                      floor'[c], owed'[c])
    BY <1>3, <2>5, Zenon
  <2>10. \A cp \in Snapshots' :
           Promised(cp, acked', asked', readAcked', readAsked', floor', owed', active')
    BY <2>1, <2>7, <2>8, <2>9, Zenon DEF Promised
  <2>11. QED
    BY <1>9, <2>6, <2>10, Zenon DEF IInv
<1>13. QED
  BY <1>11, <1>12, Zenon

(* Writes outside a session: nothing is demanded of the file's replay floor *)
(* unless the session starts, and then the three snapshots are equal.      *)
LEMMA OutsideStep ==
  ASSUME IInv, TypeOK', NEW n \in CheckpointType, NEW outcome \in Outcomes,
         Update(n, outcome),
         status' = "session" => outcome = "ok",
         outcome # "ok" => status' = "shut" \/ data.version = Version,
         \A cp \in Written(n, outcome), c \in Chats :
           ChatPromise(cp, c, acked'[c], asked'[c], readAcked'[c], readAsked'[c],
                       floor'[c], owed'[c]),
         active' => \A cp \in Written(n, outcome) : ~cp.clean /\ cp.version = Version
  PROVE  IInv'
<1>1. /\ outcome = "ok" => data' = n /\ disk' = n /\ synced' = n
      /\ outcome = "before_rename" => data' = data /\ disk' = disk /\ synced' = synced
      /\ outcome = "after_rename" => data' = data /\ disk' = n /\ synced' = synced
      /\ outcome \in {"ok", "before_rename", "after_rename"}
      /\ n.version = Version
  BY WriteCases, Zenon
<1>2. Snapshots' \subseteq Written(n, outcome)
  BY <1>1, Zenon DEF Written, Snapshots
<1>3. \A c \in Chats : n.start[c] \in Int /\ n.start[c] >= 0
  BY FieldTypes, MaxLogAssumption DEF Positions
<1>4. SessionAgreement'
  <2>1. status' # "shut" => data'.version = Version
    BY <1>1, Zenon
  <2>2. status' = "session" => data' = n /\ disk' = n /\ synced' = n
    BY <1>1, Zenon
  <2>3. \A c \in Chats : n.start[c] > 0 => n.start[c] \in 1..n.start[c]
    BY <1>3
  <2>4. QED
    BY <1>1, <2>1, <2>2, <2>3, Zenon DEF SessionAgreement
<1>5. TypeOK' /\ SessionAgreement'
  BY <1>4, Zenon
<1>6. \A cp \in Snapshots' :
        Promised(cp, acked', asked', readAcked', readAsked', floor', owed', active')
  BY <1>2, Zenon DEF Promised
<1>7. QED
  BY <1>5, <1>6, Zenon DEF IInv

(* InstallSession keeps the invariant. *)
LEMMA InstallStep ==
  ASSUME IInv, NEW observed \in [Chats -> NoTarget..MaxLog],
         NEW deleted \in SUBSET Chats, NEW replaceInventory \in BOOLEAN,
         NEW outcome \in Outcomes,
         Install(observed, deleted, replaceInventory, outcome)
  PROVE  IInv'
<1> DEFINE n == InstallSession(data, observed, deleted, replaceInventory)
           forgotten == IF outcome = "before_rename" THEN {} ELSE deleted
<1>1. /\ Update(n, outcome) /\ status = "open"
      /\ status' = IF outcome = "ok" THEN "session" ELSE "closing"
      /\ active' = (active \/ outcome = "ok")
      /\ UNCHANGED <<asked, readAsked>>
  BY Zenon DEF Install
<1>2. /\ acked' = [c \in Chats |-> IF c \in forgotten THEN 0 ELSE acked[c]]
      /\ readAcked' = [c \in Chats |-> IF c \in forgotten THEN 0 ELSE readAcked[c]]
      /\ floor' = [c \in Chats |-> IF c \in forgotten THEN 0 ELSE floor[c]]
      /\ owed' = [c \in Chats |-> IF c \in forgotten THEN {} ELSE owed[c]]
  BY Zenon DEF Install
<1>3. data \in CheckpointType /\ data \in Snapshots /\ data.version = Version
  BY <1>1, Zenon DEF IInv, TypeOK, SessionAgreement, Snapshots
<1>4. /\ n \in CheckpointType
      /\ n.version = data.version /\ ~n.clean
      /\ \A c \in deleted :
           n.cursor[c] = 0 /\ n.gap[c] = NoGap /\ n.read[c] = 0 /\ n.start[c] = 0
      /\ \A c \in Chats \ deleted :
           /\ n.cursor[c] = data.cursor[c] /\ n.gap[c] = data.gap[c]
           /\ n.read[c] = data.read[c] /\ n.start[c] = data.start[c]
      /\ \A c \in Chats : n.cursor[c] > 0 => n.known[c] >= n.cursor[c]
  BY <1>3, InstallFields, ZenonT(60)
<1> HIDE DEF n
<1>5. TypeOK'
  <2>1. /\ data' \in CheckpointType /\ disk' \in CheckpointType
        /\ synced' \in CheckpointType /\ failures' \in Nat
    BY <1>1, <1>4, WriteTypes, Zenon DEF IInv
  <2>2. /\ acked' \in [Chats -> Positions] /\ readAcked' \in [Chats -> Positions]
        /\ floor' \in [Chats -> Positions]
    BY <1>2, SnapshotFacts, Constants, Zenon
  <2>3. owed' \in [Chats -> SUBSET LogIDs]
    BY <1>2, SnapshotFacts, Zenon
  <2>4. status' \in {"shut", "open", "session", "closing"} /\ active' \in BOOLEAN
    BY <1>1, Zenon
  <2>5. QED
    BY <1>1, <2>1, <2>2, <2>3, <2>4, Zenon DEF IInv, TypeOK
<1>6. ASSUME NEW cp \in Written(n, outcome), NEW c \in Chats
      PROVE  ChatPromise(cp, c, acked'[c], asked'[c], readAcked'[c], readAsked'[c],
                         floor'[c], owed'[c])
  <2>1. ChatPromise(data, c, acked[c], asked[c], readAcked[c], readAsked[c],
                    floor[c], owed[c])
    BY <1>3, SnapshotFacts, Zenon
  <2>2. CASE cp \in Snapshots
    <3>1. ChatPromise(cp, c, acked[c], asked[c], readAcked[c], readAsked[c],
                      floor[c], owed[c])
      BY <2>2, SnapshotFacts, Zenon
    <3>2. /\ acked[c] \in Positions /\ readAcked[c] \in Positions
          /\ cp.cursor[c] \in Positions /\ cp.read[c] \in Positions
      BY <2>2, SnapshotFacts, FieldTypes, Zenon
    <3>3. asked'[c] = asked[c] /\ readAsked'[c] = readAsked[c]
      BY <1>1, Zenon
    <3>4. CASE c \in forgotten
      <4>1. acked'[c] = 0 /\ readAcked'[c] = 0 /\ floor'[c] = 0 /\ owed'[c] = {}
        BY <1>2, <3>4, Zenon
      <4>2. 0 <= cp.cursor[c] /\ 0 <= cp.read[c]
        BY <3>2 DEF Positions
      <4>3. ChatPromise(cp, c, 0, asked[c], 0, readAsked[c], 0, {})
        <5>1. ~(0 > 0) /\ \A p \in {} : InGap(cp, c, p)
          OBVIOUS
        <5>2. QED
          BY <3>1, <4>2, <5>1, Zenon DEF ChatPromise
      <4>4. QED
        BY <3>3, <4>1, <4>3, Zenon
    <3>5. CASE c \notin forgotten
      <4>1. /\ acked'[c] = acked[c] /\ readAcked'[c] = readAcked[c]
            /\ floor'[c] = floor[c] /\ owed'[c] = owed[c]
        BY <1>2, <3>5, Zenon
      <4>2. QED
        BY <3>1, <3>3, <4>1, Zenon
    <3>6. QED
      BY <3>4, <3>5, Zenon
  <2>3. CASE cp = n /\ c \in forgotten
    <3>1. /\ acked'[c] = 0 /\ readAcked'[c] = 0 /\ floor'[c] = 0 /\ owed'[c] = {}
          /\ asked'[c] = asked[c] /\ readAsked'[c] = readAsked[c] /\ c \in deleted
      BY <1>1, <1>2, <2>3, Zenon
    <3>2. asked[c] \in Positions /\ readAsked[c] \in Positions
      BY SnapshotFacts, Zenon
    <3>3. QED
      BY <1>4, <2>3, <3>1, <3>2 DEF ChatPromise, Positions
  <2>4. CASE cp = n /\ c \notin forgotten /\ outcome # "before_rename"
    <3>1. /\ acked'[c] = acked[c] /\ readAcked'[c] = readAcked[c]
          /\ floor'[c] = floor[c] /\ owed'[c] = owed[c]
          /\ asked'[c] = asked[c] /\ readAsked'[c] = readAsked[c] /\ c \notin deleted
      BY <1>1, <1>2, <2>4, Zenon
    <3>2. QED
      BY <1>3, <1>4, <2>1, <2>4, <3>1, ZenonT(60) DEF ChatPromise, InGap
  <2>5. QED
    BY <2>2, <2>3, <2>4, Zenon DEF Written
<1>7. active' => \A cp \in Written(n, outcome) : ~cp.clean /\ cp.version = Version
  <2>1. active => \A cp \in Snapshots : ~cp.clean /\ cp.version = Version
    BY Zenon DEF IInv, Promised
  <2>2. QED
    BY <1>1, <1>3, <1>4, <2>1, ZenonT(60) DEF Written
<1>8. QED
  BY <1>1, <1>3, <1>4, <1>5, <1>6, <1>7, OutsideStep, Zenon

(* MarkClean keeps the invariant. *)
LEMMA CleanStep ==
  ASSUME IInv, NEW outcome \in Outcomes, Clean(outcome)
  PROVE  IInv'
<1> DEFINE n == MarkClean(data)
<1>1. /\ Update(n, outcome) /\ status # "shut"
      /\ status' = IF outcome = "ok" THEN "shut" ELSE "closing"
      /\ active' = (active /\ outcome = "before_rename")
      /\ UNCHANGED <<acked, asked, readAcked, readAsked, floor, owed>>
  BY Zenon DEF Clean
<1>2. /\ data \in CheckpointType /\ data \in Snapshots /\ data.version = Version
  BY <1>1, Zenon DEF IInv, TypeOK, SessionAgreement, Snapshots
<1>3. /\ n \in CheckpointType
      /\ n.version = data.version /\ n.gap = data.gap /\ n.cursor = data.cursor
      /\ n.known = data.known /\ n.start = data.start /\ n.read = data.read
  BY <1>2, CleanFields, Zenon
<1> HIDE DEF n
<1>4. TypeOK'
  <2>1. /\ data' \in CheckpointType /\ disk' \in CheckpointType
        /\ synced' \in CheckpointType /\ failures' \in Nat
    BY <1>1, <1>3, WriteTypes, Zenon DEF IInv
  <2>2. status' \in {"shut", "open", "session", "closing"} /\ active' \in BOOLEAN
    BY <1>1, Zenon
  <2>3. QED
    BY <1>1, <2>1, <2>2, Zenon DEF IInv, TypeOK
<1>5. ASSUME NEW cp \in Written(n, outcome), NEW c \in Chats
      PROVE  ChatPromise(cp, c, acked'[c], asked'[c], readAcked'[c], readAsked'[c],
                         floor'[c], owed'[c])
  <2>1. cp \in Snapshots \cup {n}
    BY Zenon DEF Written
  <2>2. ChatPromise(n, c, acked[c], asked[c], readAcked[c], readAsked[c],
                    floor[c], owed[c])
    <3>1. ChatPromise(data, c, acked[c], asked[c], readAcked[c], readAsked[c],
                      floor[c], owed[c])
      BY <1>2, SnapshotFacts, ZenonT(60)
    <3>2. QED
      BY <1>3, <3>1, ZenonT(60) DEF ChatPromise, InGap
  <2>3. QED
    BY <1>1, <2>1, <2>2, SnapshotFacts, ZenonT(60)
<1>6. active' => \A cp \in Written(n, outcome) : ~cp.clean /\ cp.version = Version
  BY <1>1, ZenonT(60) DEF IInv, Promised, Written
<1>7. QED
  BY <1>1, <1>2, <1>3, <1>4, <1>5, <1>6, OutsideStep, Zenon

(* What opening puts in the file's place claims nothing for a chat that the *)
(* file did not claim.                                                     *)
ClaimsNoMore(n, c) ==
  /\ n.cursor[c] \in {0, disk.cursor[c]}
  /\ n.read[c] = 0 \/ (disk.version > UnprovenReadVersion /\ n.read[c] = disk.read[c])
  /\ n.cursor[c] > 0 => n.start[c] = 0 /\ n.known[c] >= n.cursor[c]
  /\ n.gap[c] # NoGap => n.gap[c].from > 0 /\ n.gap[c].to >= n.gap[c].from

(* Opening a missing or an older file: nothing was promised on it yet. *)
LEMMA OpenWritingStep ==
  ASSUME IInv, NEW n \in CheckpointType, NEW outcome \in Outcomes,
         OpenWriting(n, outcome), disk.version # Version,
         \A c \in Chats : ClaimsNoMore(n, c)
  PROVE  IInv'
<1>1. /\ Update(n, outcome) /\ UNCHANGED history
      /\ status' = IF outcome = "ok" THEN "open" ELSE "shut"
  BY ZenonT(60) DEF OpenWriting
<1>2. UNCHANGED <<acked, asked, readAcked, readAsked, floor, owed, active>>
  BY <1>1, ZenonT(60) DEF history
<1>3. disk \in Snapshots /\ disk \in CheckpointType
  BY Zenon DEF Snapshots, IInv, TypeOK
<1>4. ~active
  BY <1>3, ZenonT(60) DEF IInv, Promised
<1>5. TypeOK'
  <2>1. /\ data' \in CheckpointType /\ disk' \in CheckpointType
        /\ synced' \in CheckpointType /\ failures' \in Nat
    BY <1>1, WriteTypes, Zenon DEF IInv
  <2>2. status' \in {"shut", "open", "session", "closing"}
    BY <1>1, Zenon
  <2>3. QED
    BY <1>2, <2>1, <2>2, Zenon DEF IInv, TypeOK
<1>6. ASSUME NEW c \in Chats
      PROVE  ChatPromise(n, c, acked[c], asked[c], readAcked[c], readAsked[c],
                         floor[c], owed[c])
  <2>1. ChatPromise(disk, c, acked[c], asked[c], readAcked[c], readAsked[c],
                    floor[c], owed[c])
    BY <1>3, SnapshotFacts, Zenon
  <2>2. acked[c] = 0 /\ readAcked[c] = 0 /\ floor[c] = 0 /\ owed[c] = {}
    BY <2>1, Zenon DEF ChatPromise
  <2>3. /\ asked[c] \in Positions /\ readAsked[c] \in Positions
        /\ n.cursor[c] \in Positions /\ n.read[c] \in Positions
    BY SnapshotFacts, FieldTypes, Zenon
  <2>4. 0 <= n.cursor[c] /\ n.cursor[c] <= asked[c]
    <3>1. disk.cursor[c] <= asked[c]
      BY <2>1, Zenon DEF ChatPromise
    <3>2. n.cursor[c] = 0 \/ n.cursor[c] = disk.cursor[c]
      BY Zenon DEF ClaimsNoMore
    <3>3. QED
      BY <2>3, <3>1, <3>2, MaxLogAssumption DEF Positions
  <2>5. 0 <= n.read[c] /\ n.read[c] <= readAsked[c]
    <3>1. disk.version > UnprovenReadVersion => disk.read[c] <= readAsked[c]
      BY <2>1, Zenon DEF ChatPromise
    <3>2. n.read[c] = 0 \/ n.read[c] <= readAsked[c]
      BY <3>1, Zenon DEF ClaimsNoMore
    <3>3. QED
      BY <2>3, <3>2, MaxLogAssumption DEF Positions
  <2>6. /\ n.cursor[c] > 0 => n.start[c] = 0 /\ n.known[c] >= n.cursor[c]
        /\ n.gap[c] # NoGap => n.gap[c].from > 0 /\ n.gap[c].to >= n.gap[c].from
    BY Zenon DEF ClaimsNoMore
  <2>7. /\ acked[c] <= n.cursor[c] /\ readAcked[c] <= n.read[c]
        /\ ~(floor[c] > 0)
    BY <2>2, <2>4, <2>5
  <2>8. \A p \in owed[c] : InGap(n, c, p)
    BY <2>2, Zenon
  <2>9. QED
    BY <2>2, <2>4, <2>5, <2>6, <2>7, <2>8, Zenon DEF ChatPromise
<1>7. ASSUME NEW cp \in Written(n, outcome), NEW c \in Chats
      PROVE  ChatPromise(cp, c, acked'[c], asked'[c], readAcked'[c], readAsked'[c],
                         floor'[c], owed'[c])
  <2>1. cp \in Snapshots \cup {n}
    BY Zenon DEF Written
  <2>2. QED
    BY <1>2, <1>6, <2>1, SnapshotFacts, Zenon
<1>8. QED
  BY <1>1, <1>2, <1>4, <1>5, <1>7, OutsideStep, Zenon

(* Open without a file keeps the invariant. *)
LEMMA OpenMissingStep ==
  ASSUME IInv, NEW outcome \in Outcomes, OpenMissing(outcome)
  PROVE  IInv'
<1>1. disk.version # Version /\ OpenWriting(Fresh, outcome)
  BY DEF OpenMissing, Missing, Version
<1>2. \A c \in Chats : /\ Fresh.cursor[c] = 0 /\ Fresh.read[c] = 0 /\ Fresh.gap[c] = NoGap
                       /\ ~(Fresh.cursor[c] > 0)
  BY DEF Fresh
<1>3. Fresh \in CheckpointType
  BY FreshFields, Zenon
<1>4. \A c \in Chats : ClaimsNoMore(Fresh, c)
  BY <1>2, Zenon DEF ClaimsNoMore
<1>5. QED
  BY <1>1, <1>3, <1>4, OpenWritingStep, Zenon

(* Open with a file of an older version keeps the invariant. *)
LEMMA OpenOlderStep ==
  ASSUME IInv, NEW outcome \in Outcomes, OpenOlder(outcome)
  PROVE  IInv'
<1> DEFINE n == Migrate(disk)
<1>1. disk.version # Version /\ OpenWriting(n, outcome)
  BY Zenon DEF OpenOlder
<1>2. disk \in CheckpointType /\ disk \in Snapshots
  BY Zenon DEF IInv, TypeOK, Snapshots
<1>3. /\ n \in CheckpointType
      /\ n.version = Version /\ n.clean = disk.clean
      /\ n.cursor = disk.cursor /\ n.known = disk.known /\ n.start = disk.start
      /\ n.read = IF disk.version <= UnprovenReadVersion
                    THEN [c \in Chats |-> 0] ELSE disk.read
      /\ n.gap = IF disk.version = OldestVersion
                   THEN [c \in Chats |-> NoGap] ELSE disk.gap
  BY <1>2, MigrateFields, Zenon
<1> HIDE DEF n
<1>4. ASSUME NEW c \in Chats
      PROVE  ClaimsNoMore(n, c)
  <2>1. ChatPromise(disk, c, acked[c], asked[c], readAcked[c], readAsked[c],
                    floor[c], owed[c])
    BY <1>2, SnapshotFacts, Zenon
  <2>2. disk.version \in Int
    BY <1>2, FieldTypes DEF Missing, OldestVersion, Version
  <2>3. /\ n.cursor[c] = disk.cursor[c] /\ n.known[c] = disk.known[c]
        /\ n.start[c] = disk.start[c]
        /\ n.gap[c] = NoGap \/ n.gap[c] = disk.gap[c]
    BY <1>3, Zenon
  <2>4. n.read[c] = 0 \/ (disk.version > UnprovenReadVersion /\ n.read[c] = disk.read[c])
    BY <1>3, <2>2 DEF UnprovenReadVersion
  <2>5. QED
    BY <2>1, <2>3, <2>4, Zenon DEF ChatPromise, ClaimsNoMore
<1>5. QED
  BY <1>1, <1>3, <1>4, OpenWritingStep, Zenon

(* Open with a current file, a crash and a power loss keep the invariant. *)
LEMMA ReopenStep ==
  ASSUME IInv, OpenCurrent \/ Crash \/ PowerLoss
  PROVE  IInv'
<1>1. /\ Snapshots' \subseteq Snapshots /\ status' \in {"shut", "open"}
      /\ status' = "open" => data'.version = Version
      /\ failures' = failures
      /\ UNCHANGED <<acked, asked, readAcked, readAsked, floor, owed, active>>
  BY Zenon DEF OpenCurrent, Crash, PowerLoss, Snapshots, history, Valid
<1>2. data' \in Snapshots /\ disk' \in Snapshots /\ synced' \in Snapshots
  BY <1>1, Zenon DEF Snapshots
<1>3. TypeOK'
  BY <1>1, <1>2, SnapshotFacts, Zenon DEF IInv, TypeOK
<1>4. SessionAgreement'
  BY <1>1, Zenon DEF SessionAgreement
<1>5. QED
  BY <1>1, <1>3, <1>4, Zenon DEF IInv, Promised

-----------------------------------------------------------------------------
(* IInv holds initially and implies the invariants of Continuity. *)

(* A file the program may find at its first start is a checkpoint. *)
LEMMA InitialFileType ==
  ASSUME NEW file \in InitialFiles
  PROVE  /\ file \in CheckpointType
         /\ \A c \in Chats :
              /\ file.cursor[c] > 0 => file.start[c] = 0 /\ file.known[c] >= file.cursor[c]
              /\ file.gap[c] # NoGap => file.gap[c].from > 0 /\ file.gap[c].to >= file.gap[c].from
<1>1. CASE file = NoFile
  BY <1>1, FreshFields DEF NoFile, Fresh
<1>2. CASE file # NoFile
  <2>1. PICK v \in OldestVersion..Version, S \in SUBSET Chats : file = OldFile(v, S, S, S)
    BY <1>2 DEF InitialFiles
  <2> DEFINE cursor == [c \in Chats |-> IF c \in S THEN 1 ELSE 0]
             known == [c \in Chats |-> IF c \in S THEN 1 ELSE NoTarget]
             gap == [c \in Chats |-> IF c \in S /\ v # OldestVersion
                                       THEN [from |-> 1, to |-> 1] ELSE NoGap]
  <2>2. cursor \in [Chats -> Positions] /\ known \in [Chats -> NoTarget..MaxLog]
    BY MaxLogAssumption DEF Positions, NoTarget
  <2>3. gap \in [Chats -> Gaps]
    BY Constants, MaxLogAssumption DEF Gaps, Positions
  <2>4. \A c \in Chats :
          /\ cursor[c] > 0 => known[c] >= cursor[c]
          /\ gap[c] # NoGap => gap[c].from > 0 /\ gap[c].to >= gap[c].from
    OBVIOUS
  <2>5. file = [Fresh EXCEPT !.version = v, !.cursor = cursor, !.known = known,
                             !.gap = gap, !.read = cursor]
    BY <2>1, Zenon DEF OldFile
  <2> HIDE DEF cursor, known, gap
  <2>6. v \in {Missing} \cup (OldestVersion..Version)
    BY Zenon
  <2>7. Fresh \in CheckpointType /\ \A c \in Chats : Fresh.start[c] = 0
    BY FreshFields, Zenon DEF Fresh
  <2>8. file \in CheckpointType
    BY <2>2, <2>3, <2>5, <2>6, <2>7, ZenonT(60) DEF CheckpointType
  <2>9. /\ file.cursor = cursor /\ file.known = known /\ file.gap = gap
        /\ file.start = Fresh.start
    BY <2>5, <2>7, Zenon DEF CheckpointType
  <2>10. QED
    BY <2>4, <2>7, <2>8, <2>9, Zenon
<1>3. QED
  BY <1>1, <1>2, Zenon

(* The invariant holds initially. *)
LEMMA InitStep == Init => IInv
<1> SUFFICES ASSUME Init PROVE IInv
  BY Zenon
<1>1. /\ disk \in CheckpointType
      /\ \A c \in Chats :
           /\ disk.cursor[c] > 0 => disk.start[c] = 0 /\ disk.known[c] >= disk.cursor[c]
           /\ disk.gap[c] # NoGap => disk.gap[c].from > 0 /\ disk.gap[c].to >= disk.gap[c].from
  BY InitialFileType, Zenon DEF Init
<1>2. data = disk /\ synced = disk /\ status = "shut"
  BY Zenon DEF Init
<1>3. TypeOK
  BY <1>1, <1>2, FieldTypes, Constants, ZenonT(60) DEF Init, TypeOK
<1>4. SessionAgreement
  BY <1>2, Zenon DEF SessionAgreement
<1>5. ASSUME NEW c \in Chats
      PROVE  ChatPromise(disk, c, acked[c], asked[c], readAcked[c], readAsked[c],
                         floor[c], owed[c])
  <2>1. /\ acked[c] = 0 /\ readAcked[c] = 0 /\ floor[c] = 0 /\ owed[c] = {}
        /\ asked[c] = disk.cursor[c]
        /\ disk.version > UnprovenReadVersion => readAsked[c] = disk.read[c]
    BY Zenon DEF Init
  <2>2. disk.cursor[c] \in Positions /\ disk.read[c] \in Positions
    BY <1>1, FieldTypes, Zenon
  <2>3. QED
    BY <1>1, <2>1, <2>2 DEF ChatPromise, Positions
<1>6. QED
  BY <1>2, <1>3, <1>4, <1>5, Zenon DEF IInv, Promised, Snapshots, Init

(* Every step keeps the invariant. *)
LEMMA NextStep == IInv /\ [Next]_vars => IInv'
<1> SUFFICES ASSUME IInv, [Next]_vars PROVE IInv'
  BY Zenon
<1>1. CASE UNCHANGED vars
  BY <1>1, Zenon DEF IInv, TypeOK, SessionAgreement, Promised, Snapshots, vars, store, history
<1>2. ASSUME NEW outcome \in Outcomes, NEW c \in Chats, NEW l \in LogIDs,
             Commit(c, l, outcome) \/ CommitRead(c, l, outcome)
             \/ AdmitDelivery(c, l, outcome) \/ ResolveGap(c, l, outcome)
      PROVE  IInv'
  BY <1>2, CommitStep, ReadStep, AdmitStep, ResolveGapStep, Zenon
<1>3. ASSUME NEW outcome \in Outcomes, NEW c \in Chats, NEW from \in LogIDs,
             NEW to \in LogIDs, NoteGap(c, from, to, outcome)
      PROVE  IInv'
  BY <1>3, NoteGapStep, Zenon
<1>4. ASSUME NEW outcome \in Outcomes, NEW observed \in [Chats -> NoTarget..MaxLog],
             NEW deleted \in SUBSET Chats, NEW replaceInventory \in BOOLEAN,
             Install(observed, deleted, replaceInventory, outcome)
      PROVE  IInv'
  BY <1>4, InstallStep, Zenon
<1>5. ASSUME NEW outcome \in Outcomes,
             Clean(outcome) \/ OpenMissing(outcome) \/ OpenOlder(outcome)
      PROVE  IInv'
  BY <1>5, CleanStep, OpenMissingStep, OpenOlderStep, Zenon
<1>6. CASE OpenCurrent \/ Crash \/ PowerLoss
  BY <1>6, ReopenStep, Zenon
<1>7. QED
  BY <1>1, <1>2, <1>3, <1>4, <1>5, <1>6, Zenon DEF Next

(* The invariant holds always. *)
LEMMA Invariance == Spec => []IInv
  BY InitStep, NextStep, PTL DEF Spec

-----------------------------------------------------------------------------
(* Every position in memory, in the file and in the history is one the     *)
(* server can have issued, for any number of chats, positions and failed   *)
(* writes.                                                                 *)
THEOREM TypeCorrect == Spec => []TypeOK
<1>1. IInv => TypeOK
  BY Zenon DEF IInv
<1>2. QED
  BY <1>1, Invariance, PTL

(* An acknowledged CommitMessage survives every crash, failed write and    *)
(* power loss, and no cursor passes what was submitted for commit.         *)
THEOREM CommitIsDurable == Spec => []CommitDurable
<1>1. IInv => CommitDurable
  BY SnapshotFacts, ZenonT(60) DEF CommitDurable, ChatPromise
<1>2. QED
  BY <1>1, Invariance, PTL

(* The same for CommitReadWatermark, across the migration that discards    *)
(* unproven watermarks.                                                    *)
THEOREM ReadIsDurable == Spec => []ReadDurable
<1>1. IInv => ReadDurable
  BY SnapshotFacts, Zenon DEF ReadDurable, ChatPromise, IInv, SessionAgreement
<1>2. QED
  BY <1>1, Invariance, PTL

(* A live message admitted in a never-committed chat keeps a durable replay *)
(* floor at or below it until a commit replaces it.                        *)
THEOREM ReplayFloorIsDurable == Spec => []ReplayFloorDurable
<1>1. IInv => ReplayFloorDurable
  BY SnapshotFacts, ZenonT(60) DEF ReplayFloorDurable, ChatPromise
<1>2. QED
  BY <1>1, Invariance, PTL

(* Merging gap intervals and removing recovered prefixes never uncovers a  *)
(* position of an acknowledged RecordGap.                                  *)
THEOREM GapIsDurable == Spec => []GapDurable
<1>1. IInv => GapDurable
  BY SnapshotFacts, Zenon DEF GapDurable, ChatPromise
<1>2. QED
  BY <1>1, Invariance, PTL

(* InstallSession and every commit leave the inventory at or above the     *)
(* committed cursor.                                                       *)
THEOREM InventoryIsCovering == Spec => []InventoryCoversCursor
<1>1. IInv => InventoryCoversCursor
  BY SnapshotFacts, Zenon DEF InventoryCoversCursor, ChatPromise
<1>2. QED
  BY <1>1, Invariance, PTL

(* A process that dies inside a session leaves a file that says so. *)
THEOREM UncleanIsVisible == Spec => []UncleanVisible
<1>1. IInv => UncleanVisible
  BY Zenon DEF UncleanVisible, IInv, Promised
<1>2. QED
  BY <1>1, Invariance, PTL

(* Everything the Store acknowledged survives crashes, failed writes and   *)
(* power losses, for any number of chats, positions and failures.          *)
THEOREM PromisesAreKept == Spec => []PromisesKept
BY CommitIsDurable, ReadIsDurable, ReplayFloorIsDurable, GapIsDurable,
   InventoryIsCovering, UncleanIsVisible, PTL DEF PromisesKept

(* validate refuses no change of a session's checkpoint. *)
THEOREM UpdatesAccepted == Spec => []UpdateAccepted
<1>1. ASSUME IInv, status = "session" PROVE UpdateAccepted
  <2>1. /\ data \in CheckpointType /\ data.version = Version
        /\ \A c \in Chats : data.gap[c] # NoGap =>
              data.gap[c].from > 0 /\ data.gap[c].to >= data.gap[c].from
    BY <1>1, SnapshotFacts, Zenon DEF Snapshots, ChatPromise
  <2>2. ASSUME NEW n \in CheckpointType, n.version = Version, n.gap = data.gap
        PROVE  Valid(n)
    BY <2>1, <2>2, ValidWhen, Zenon
  <2>3. Valid(MarkClean(data))
    BY <2>1, <2>2, CleanFields, Zenon
  <2>4. ASSUME NEW c \in Chats, NEW l \in LogIDs
        PROVE  Valid(CommitMessage(data, c, l)) /\ Valid(RecordDeliveryStart(data, c, l))
    <3>1. /\ CommitMessage(data, c, l) \in CheckpointType
          /\ CommitMessage(data, c, l).version = data.version
          /\ CommitMessage(data, c, l).gap = data.gap
      BY <2>1, CommitFrame, Zenon
    <3>2. /\ RecordDeliveryStart(data, c, l) \in CheckpointType
          /\ RecordDeliveryStart(data, c, l).version = data.version
          /\ RecordDeliveryStart(data, c, l).gap = data.gap
      BY <2>1, DeliveryStartFrame, Zenon
    <3>3. QED
      BY <2>1, <2>2, <3>1, <3>2, Zenon
  <2>5. ASSUME NEW c \in Chats, NEW l \in LogIDs
        PROVE  Valid(ResolveGapThrough(data, c, l))
    <3> DEFINE n == ResolveGapThrough(data, c, l)
    <3>1. ASSUME NEW x \in Chats
          PROVE  /\ n \in CheckpointType
                 /\ n.version = data.version /\ n.clean = data.clean
                 /\ n.cursor = data.cursor /\ n.start = data.start
                 /\ IF x = c
                      THEN /\ ChatPromise(n, x, acked[x], asked[x], readAcked[x],
                                          readAsked[x], floor[x], {p \in owed[x] : p > l})
                           /\ ChatPromise(data, x, acked[x], asked[x], readAcked[x],
                                          readAsked[x], floor[x], {p \in owed[x] : p > l})
                      ELSE ChatPromise(n, x, acked[x], asked[x], readAcked[x],
                                       readAsked[x], floor[x], owed[x])
      BY <1>1, <2>1, SnapshotFacts, ResolveGapPromise, ZenonT(60) DEF Snapshots
    <3> HIDE DEF n
    <3>2. n \in CheckpointType /\ n.version = Version
      BY <2>1, <3>1, ZenonT(60)
    <3>3. \A x \in Chats : n.gap[x] # NoGap => n.gap[x].from > 0 /\ n.gap[x].to >= n.gap[x].from
      BY <3>1, Zenon DEF ChatPromise
    <3>4. QED
      BY <3>2, <3>3, ValidWhen, Zenon DEF n
  <2>6. ASSUME NEW c \in Chats, NEW l \in LogIDs, NEW to \in l..MaxLog
        PROVE  Valid(RecordGap(data, c, l, to))
    <3> DEFINE n == RecordGap(data, c, l, to)
    <3>1. ASSUME NEW x \in Chats
          PROVE  /\ n \in CheckpointType
                 /\ n.version = data.version /\ n.clean = data.clean
                 /\ n.cursor = data.cursor /\ n.start = data.start
                 /\ ChatPromise(n, x, acked[x], asked[x], readAcked[x], readAsked[x],
                                floor[x], owed[x])
                 /\ x = c => ChatPromise(n, x, acked[x], asked[x], readAcked[x],
                                         readAsked[x], floor[x], owed[x] \cup (l..to))
      BY <1>1, <2>1, SnapshotFacts, RecordGapPromise, ZenonT(60) DEF Snapshots
    <3> HIDE DEF n
    <3>2. n \in CheckpointType /\ n.version = Version
      BY <2>1, <3>1, ZenonT(60)
    <3>3. \A x \in Chats : n.gap[x] # NoGap => n.gap[x].from > 0 /\ n.gap[x].to >= n.gap[x].from
      BY <3>1, Zenon DEF ChatPromise
    <3>4. QED
      BY <3>2, <3>3, ValidWhen, Zenon DEF n
  <2>7. QED
    BY <2>3, <2>4, <2>5, <2>6, Zenon DEF UpdateAccepted
<1>2. IInv => UpdateAccepted
  BY <1>1, Zenon DEF UpdateAccepted
<1>3. QED
  BY <1>2, Invariance, PTL

(* While one process has the Store open, the cursor of a chat only grows    *)
(* unless the server deleted the chat.                                     *)
THEOREM CursorIsMonotone == Spec => CursorMonotone
<1> DEFINE A == status # "shut" /\ status' # "shut" =>
                  \A c \in Chats : \/ data.cursor[c] <= data'.cursor[c]
                                   \/ data'.cursor[c] = 0 /\ acked'[c] = 0
<1>1. ASSUME IInv, [Next]_vars PROVE [A]_vars
  <2> SUFFICES ASSUME Next, status # "shut", status' # "shut", NEW x \in Chats
               PROVE  \/ data.cursor[x] <= data'.cursor[x]
                      \/ data'.cursor[x] = 0 /\ acked'[x] = 0
    BY <1>1, Zenon
  <2>0. data \in CheckpointType /\ data.cursor \in [Chats -> Positions]
    BY <1>1, FieldTypes, Zenon DEF IInv, TypeOK
  <2>1. ASSUME data' = data PROVE data.cursor[x] <= data'.cursor[x]
    BY <2>0, <2>1 DEF Positions
  <2>2. ASSUME NEW outcome \in Outcomes, NEW c \in Chats, NEW l \in LogIDs,
               Commit(c, l, outcome)
        PROVE  data.cursor[x] <= data'.cursor[x]
    <3>1. data' \in {data, CommitMessage(data, c, l)}
      BY <2>2, Zenon DEF Commit, InSession, Update
    <3>2. /\ CommitMessage(data, c, l) \in CheckpointType
          /\ CommitMessage(data, c, l).version = data.version
          /\ CommitMessage(data, c, l).clean = data.clean
          /\ CommitMessage(data, c, l).gap = data.gap
          /\ CommitMessage(data, c, l).read = data.read
          /\ CommitMessage(data, c, l).start = [data.start EXCEPT ![c] = 0]
          /\ CommitMessage(data, c, l).cursor =
               [data.cursor EXCEPT ![c] = Larger(data.cursor[c], l)]
          /\ CommitMessage(data, c, l).known = [data.known EXCEPT ![c] =
               IF l > data.cursor[c] THEN Larger(data.known[c], l) ELSE data.known[c]]
      BY <2>0, CommitFields
    <3>3. data.cursor[x] \in 0..MaxLog /\ l \in 1..MaxLog
      BY <2>0, Zenon DEF Positions, LogIDs
    <3>4. data.cursor[x] <= Larger(data.cursor[x], l)
      BY <3>3, MaxLogAssumption DEF Larger
    <3>5. \/ data'.cursor[x] = data.cursor[x]
          \/ data'.cursor[x] = Larger(data.cursor[x], l)
      BY <2>0, <3>1, <3>2, Zenon
    <3>6. QED
      BY <3>3, <3>4, <3>5
  <2>3. ASSUME NEW outcome \in Outcomes, NEW c \in Chats, NEW l \in LogIDs,
               CommitRead(c, l, outcome)
        PROVE  data.cursor[x] <= data'.cursor[x]
    <3>1. data' \in {data, CommitReadWatermark(data, c, l)}
      BY <2>3, Zenon DEF CommitRead, InSession, Update
    <3>2. CommitReadWatermark(data, c, l).cursor = data.cursor
      BY <2>0, ReadFields, ZenonT(60)
    <3>3. QED
      BY <2>0, <3>1, <3>2 DEF Positions
  <2>4. ASSUME NEW outcome \in Outcomes, NEW c \in Chats, NEW l \in LogIDs,
               AdmitDelivery(c, l, outcome)
        PROVE  data.cursor[x] <= data'.cursor[x]
    <3>1. data' \in {data, RecordDeliveryStart(data, c, l)}
      BY <2>4, Zenon DEF AdmitDelivery, InSession, Update, store
    <3>2. RecordDeliveryStart(data, c, l).cursor = data.cursor
      BY <2>0, DeliveryStartFrame, Zenon
    <3>3. QED
      BY <2>0, <3>1, <3>2 DEF Positions
  <2>5. ASSUME NEW outcome \in Outcomes, NEW c \in Chats, NEW l \in LogIDs,
               ResolveGap(c, l, outcome)
        PROVE  data.cursor[x] <= data'.cursor[x]
    <3>1. data' \in {data, ResolveGapThrough(data, c, l)}
      BY <2>5, Zenon DEF ResolveGap, InSession, Update
    <3>2. ResolveGapThrough(data, c, l).cursor = data.cursor
      BY <2>0, Zenon DEF ResolveGapThrough, CheckpointType
    <3>3. QED
      BY <2>0, <3>1, <3>2 DEF Positions
  <2>6. ASSUME NEW outcome \in Outcomes, NEW c \in Chats, NEW from \in LogIDs,
               NEW to \in LogIDs, NoteGap(c, from, to, outcome)
        PROVE  data.cursor[x] <= data'.cursor[x]
    <3>1. data' \in {data, RecordGap(data, c, from, to)}
      BY <2>6, Zenon DEF NoteGap, InSession, Update
    <3>2. RecordGap(data, c, from, to).cursor = data.cursor
      BY <2>0, Zenon DEF RecordGap, CheckpointType
    <3>3. QED
      BY <2>0, <3>1, <3>2 DEF Positions
  <2>7. ASSUME NEW outcome \in Outcomes, NEW observed \in [Chats -> NoTarget..MaxLog],
               NEW deleted \in SUBSET Chats, NEW replaceInventory \in BOOLEAN,
               Install(observed, deleted, replaceInventory, outcome)
        PROVE  \/ data.cursor[x] <= data'.cursor[x]
               \/ data'.cursor[x] = 0 /\ acked'[x] = 0
    <3> DEFINE n == InstallSession(data, observed, deleted, replaceInventory)
    <3>1. data' = IF outcome = "ok" THEN n ELSE data
      BY <2>7, Zenon DEF Install, Update
    <3>2. /\ n \in CheckpointType
          /\ n.version = data.version /\ ~n.clean
          /\ \A c \in deleted :
               n.cursor[c] = 0 /\ n.gap[c] = NoGap /\ n.read[c] = 0 /\ n.start[c] = 0
          /\ \A c \in Chats \ deleted :
               /\ n.cursor[c] = data.cursor[c] /\ n.gap[c] = data.gap[c]
               /\ n.read[c] = data.read[c] /\ n.start[c] = data.start[c]
          /\ \A c \in Chats : n.cursor[c] > 0 => n.known[c] >= n.cursor[c]
      BY <2>0, InstallFields, ZenonT(60)
    <3>3. outcome = "ok" /\ x \in deleted => acked'[x] = 0
      BY <2>7, Zenon DEF Install
    <3> HIDE DEF n
    <3>4. QED
      BY <2>0, <3>1, <3>2, <3>3 DEF Positions
  <2>8. ASSUME NEW outcome \in Outcomes, Clean(outcome)
        PROVE  data.cursor[x] <= data'.cursor[x]
    BY <2>0, <2>8, CleanFields DEF Clean, Update, Positions
  <2>9. ASSUME NEW outcome \in Outcomes, OpenMissing(outcome) \/ OpenOlder(outcome)
        PROVE  FALSE
    BY <2>9, Zenon DEF OpenMissing, OpenOlder, OpenWriting
  <2>10. CASE OpenCurrent \/ Crash \/ PowerLoss
    BY <2>10, Zenon DEF OpenCurrent, Crash, PowerLoss
  <2>11. QED
    BY <2>2, <2>3, <2>4, <2>5, <2>6, <2>7, <2>8, <2>9, <2>10, Zenon DEF Next
<1>2. QED
  BY <1>1, Invariance, PTL DEF Spec, CursorMonotone
=============================================================================
