----------------------------- MODULE Continuity -----------------------------
(***************************************************************************)
(* The checkpoint Store: one in-memory Checkpoint guarded by a mutex, one  *)
(* file replaced atomically (privatejson.WriteAtomic: temporary file,      *)
(* fsync, rename, directory fsync).  Store.update works on a clone, writes *)
(* it and only then assigns it to memory, so a failed write leaves memory  *)
(* on the old value.  A write can fail before the rename (the file is      *)
(* untouched) or after it (the file is already the new one, the rename is  *)
(* not yet durable, and the caller still sees an error).  The process may  *)
(* crash at any time; a power loss may also undo a rename whose directory  *)
(* was never synced.                                                       *)
(***************************************************************************)
EXTENDS Checkpoint

CONSTANT MaxFailures    \* bound: writes that fail after the rename

ASSUME MaxFailuresAssumption == MaxFailures \in Nat

VARIABLES
  status,      \* "shut", "open", "session" once InstallSession succeeded,
               \* "closing" once InstallSession or MarkClean failed
  data,        \* Store.data, meaningful unless shut
  disk,        \* the file's content as any process reads it
  synced,      \* the content a power loss is certain to keep
  failures     \* writes that failed after the rename

store == <<status, data, disk, synced, failures>>

(* History variables: what callers were told, or asked for. *)
VARIABLES
  acked,       \* highest position whose CommitMessage returned nil
  asked,       \* highest position CommitMessage was called with
  readAcked,   \* highest watermark whose CommitReadWatermark returned nil
  readAsked,   \* highest watermark ever submitted (or proven in the file)
  floor,       \* lowest position RecordDeliveryStart returned nil for
  owed,        \* gap positions recorded and not since resolved
  active       \* a session was installed and not since marked clean

history == <<acked, asked, readAcked, readAsked, floor, owed, active>>

vars == <<store, history>>

(* Every position in memory, in the file and in the history is one the     *)
(* server can have issued.                                                 *)
TypeOK ==
  /\ status \in {"shut", "open", "session", "closing"}
  /\ data \in CheckpointType /\ disk \in CheckpointType
  /\ synced \in CheckpointType
  /\ failures \in Nat
  /\ acked \in [Chats -> Positions] /\ asked \in [Chats -> Positions]
  /\ readAcked \in [Chats -> Positions] /\ readAsked \in [Chats -> Positions]
  /\ floor \in [Chats -> Positions]
  /\ owed \in [Chats -> SUBSET LogIDs]
  /\ active \in BOOLEAN

-----------------------------------------------------------------------------
(* A file an earlier release may have left behind: one position, one gap   *)
(* and one watermark per chat, each present or not.                        *)
OldFile(version, committed, gapped, watched) ==
  [Fresh EXCEPT
    !.version = version,
    !.cursor = [c \in Chats |-> IF c \in committed THEN 1 ELSE 0],
    !.known  = [c \in Chats |-> IF c \in committed THEN 1 ELSE NoTarget],
    !.gap    = [c \in Chats |-> IF c \in gapped /\ version # OldestVersion
                                  THEN [from |-> 1, to |-> 1] ELSE NoGap],
    !.read   = [c \in Chats |-> IF c \in watched THEN 1 ELSE 0]]

NoFile == [Fresh EXCEPT !.version = Missing]

InitialFiles ==
  {NoFile} \cup
  {OldFile(v, S, S, S) : v \in OldestVersion..Version, S \in SUBSET Chats}

Init ==
  /\ status = "shut"
  /\ disk \in InitialFiles
  /\ data = disk /\ synced = disk
  /\ failures = 0
  /\ acked = [c \in Chats |-> 0]
  /\ asked = disk.cursor
  /\ readAcked = [c \in Chats |-> 0]
  /\ readAsked = IF disk.version > UnprovenReadVersion
                   THEN disk.read ELSE [c \in Chats |-> 0]
  /\ floor = [c \in Chats |-> 0]
  /\ owed = [c \in Chats |-> {}]
  /\ active = FALSE

-----------------------------------------------------------------------------
(* How privatejson.WriteAtomic ends: complete, failed with the old file in *)
(* place, or failed with the new file already in place.                    *)
Outcomes == {"ok", "before_rename", "after_rename"}

WriteAtomic(next, outcome) ==
  /\ disk' = IF outcome = "before_rename" THEN disk ELSE next
  /\ synced' = IF outcome = "ok" THEN next ELSE synced
  /\ IF outcome = "after_rename"
       THEN failures < MaxFailures /\ failures' = failures + 1
       ELSE UNCHANGED failures

(* Store.update: a value that does not validate is refused (an error and   *)
(* no step), and memory follows the file only after a complete write.      *)
Update(next, outcome) ==
  /\ Valid(next)
  /\ WriteAtomic(next, outcome)
  /\ data' = IF outcome = "ok" THEN next ELSE data

(* Every operation but Open, InstallSession and MarkClean belongs to the   *)
(* Client's one session (checkpointWrite, CommitEvent, the live decoder).  *)
InSession(next, outcome) ==
  status = "session" /\ UNCHANGED status /\ Update(next, outcome)

-----------------------------------------------------------------------------
Commit(c, l, outcome) ==
  /\ InSession(CommitMessage(data, c, l), outcome)
  /\ asked' = [asked EXCEPT ![c] = Larger(asked[c], l)]
  /\ IF outcome = "ok"
       THEN /\ acked' = [acked EXCEPT ![c] = Larger(acked[c], l)]
            /\ floor' = [floor EXCEPT ![c] = 0]
       ELSE UNCHANGED <<acked, floor>>
  /\ UNCHANGED <<readAcked, readAsked, owed, active>>

CommitRead(c, w, outcome) ==
  /\ InSession(CommitReadWatermark(data, c, w), outcome)
  /\ readAsked' = [readAsked EXCEPT ![c] = Larger(readAsked[c], w)]
  /\ readAcked' = IF outcome = "ok"
                    THEN [readAcked EXCEPT ![c] = Larger(readAcked[c], w)]
                    ELSE readAcked
  /\ UNCHANGED <<acked, asked, floor, owed, active>>

(* An unchanged boundary is not rewritten (errUnchanged) and succeeds. *)
AdmitDelivery(c, l, outcome) ==
  LET next == RecordDeliveryStart(data, c, l)
  IN  /\ status = "session"
      /\ IF next = data THEN outcome = "ok" /\ UNCHANGED store
                        ELSE InSession(next, outcome)
      /\ floor' = IF outcome = "ok" /\ data.cursor[c] = 0
                   THEN [floor EXCEPT ![c] = IF floor[c] = 0 THEN l
                                             ELSE Smaller(floor[c], l)]
                   ELSE floor
      /\ UNCHANGED <<acked, asked, readAcked, readAsked, owed, active>>

NoteGap(c, from, to, outcome) ==
  /\ from <= to
  /\ InSession(RecordGap(data, c, from, to), outcome)
  /\ owed' = IF outcome = "ok" THEN [owed EXCEPT ![c] = owed[c] \cup (from..to)]
             ELSE owed
  /\ UNCHANGED <<acked, asked, readAcked, readAsked, floor, active>>

(* A promise ends as soon as the change that ends it may be in the file,   *)
(* even if the caller saw an error.                                        *)
ResolveGap(c, l, outcome) ==
  /\ InSession(ResolveGapThrough(data, c, l), outcome)
  /\ owed' = IF outcome = "before_rename" THEN owed
             ELSE [owed EXCEPT ![c] = {p \in owed[c] : p > l}]
  /\ UNCHANGED <<acked, asked, readAcked, readAsked, floor, active>>

(* adoptSession, once per Client.  A failure closes the Client: nothing    *)
(* but Shutdown's MarkClean is written afterwards.                         *)
Install(observed, deleted, replaceInventory, outcome) ==
  LET forgotten == IF outcome = "before_rename" THEN {} ELSE deleted
  IN  /\ status = "open"
      /\ Update(InstallSession(data, observed, deleted, replaceInventory), outcome)
      /\ status' = IF outcome = "ok" THEN "session" ELSE "closing"
      /\ active' = (active \/ outcome = "ok")
      /\ acked' = [c \in Chats |-> IF c \in forgotten THEN 0 ELSE acked[c]]
      /\ readAcked' = [c \in Chats |-> IF c \in forgotten THEN 0 ELSE readAcked[c]]
      /\ floor' = [c \in Chats |-> IF c \in forgotten THEN 0 ELSE floor[c]]
      /\ owed' = [c \in Chats |-> IF c \in forgotten THEN {} ELSE owed[c]]
      /\ UNCHANGED <<asked, readAsked>>

(* The last step of Shutdown; the Store is dropped once it succeeded. *)
Clean(outcome) ==
  /\ status # "shut"
  /\ Update(MarkClean(data), outcome)
  /\ status' = IF outcome = "ok" THEN "shut" ELSE "closing"
  /\ active' = (active /\ outcome = "before_rename")
  /\ UNCHANGED <<acked, asked, readAcked, readAsked, floor, owed>>

-----------------------------------------------------------------------------
(* Open: a missing file is created, an older one migrated and rewritten.   *)
(* WriteInitial's last step is the directory sync, whose failure leaves    *)
(* the file in place, like a rename whose sync failed.                     *)
OpenWriting(next, outcome) ==
  /\ status = "shut"
  /\ Update(next, outcome)
  /\ status' = IF outcome = "ok" THEN "open" ELSE "shut"
  /\ UNCHANGED history

OpenMissing(outcome) == disk.version = Missing /\ OpenWriting(Fresh, outcome)

OpenOlder(outcome) ==
  /\ disk.version \notin {Missing, Version} /\ Migratable(disk)
  /\ OpenWriting(Migrate(disk), outcome)

OpenCurrent ==
  /\ status = "shut" /\ Valid(disk)
  /\ status' = "open" /\ data' = disk
  /\ UNCHANGED <<disk, synced, failures, history>>

(* The process exits or crashes: memory is gone, the file stays. *)
Crash ==
  /\ status # "shut" /\ status' = "shut"
  /\ UNCHANGED <<data, disk, synced, failures, history>>

(* The machine loses power: an unsynced rename may be undone. *)
PowerLoss ==
  /\ disk # synced
  /\ status' = "shut"
  /\ disk' \in {disk, synced} /\ synced' = disk'
  /\ UNCHANGED <<data, failures, history>>

Next ==
  \/ \E outcome \in Outcomes :
       \/ \E c \in Chats, l \in LogIDs :
            \/ Commit(c, l, outcome) \/ CommitRead(c, l, outcome)
            \/ AdmitDelivery(c, l, outcome) \/ ResolveGap(c, l, outcome)
       \/ \E c \in Chats, from, to \in LogIDs : NoteGap(c, from, to, outcome)
       \/ \E observed \in [Chats -> NoTarget..MaxLog], deleted \in SUBSET Chats,
             replaceInventory \in BOOLEAN :
            Install(observed, deleted, replaceInventory, outcome)
       \/ Clean(outcome) \/ OpenMissing(outcome) \/ OpenOlder(outcome)
  \/ OpenCurrent \/ Crash \/ PowerLoss

Spec == Init /\ [][Next]_vars

-----------------------------------------------------------------------------
(* A snapshot is one of the three values a later reader may start from:    *)
(* memory, the file, and the file after a power loss.  Each property below *)
(* is about every one of them.                                             *)
Snapshots == {data, disk, synced}

(* A commit the Store acknowledged survives every crash, and the durable   *)
(* cursor never passes what the application asked to commit: an interrupted *)
(* CommitMessage is either wholly there or wholly absent.                  *)
CommitDurable ==
  \A cp \in Snapshots, c \in Chats :
    acked[c] <= cp.cursor[c] /\ cp.cursor[c] <= asked[c]

(* The same for read acknowledgements; a file of version 4 or older may    *)
(* still hold watermarks nobody proved, but an open Store never does.      *)
ReadDurable ==
  /\ \A cp \in Snapshots, c \in Chats :
       /\ readAcked[c] <= cp.read[c]
       /\ cp.version > UnprovenReadVersion => cp.read[c] <= readAsked[c]
  /\ status # "shut" => data.version = Version

(* The first live message admitted in a never-committed chat stays at or   *)
(* above a durable replay floor until something of the chat is committed,  *)
(* and a committed chat has no floor left (RecordDeliveryStart,            *)
(* CommitMessage).                                                         *)
ReplayFloorDurable ==
  \A cp \in Snapshots, c \in Chats :
    /\ floor[c] > 0 /\ cp.cursor[c] = 0 => cp.start[c] \in 1..floor[c]
    /\ cp.cursor[c] > 0 => cp.start[c] = 0

(* Every position of an acknowledged RecordGap stays inside the chat's one *)
(* recorded interval until a ResolveGapThrough reaches it or the chat is   *)
(* deleted: merging intervals never uncovers one.                          *)
GapDurable ==
  \A cp \in Snapshots, c \in Chats : \A p \in owed[c] : InGap(cp, c, p)

(* The server inventory never falls below the application's own cursor,    *)
(* although a login may lower it (InstallSession's final raise).           *)
InventoryCoversCursor ==
  \A cp \in Snapshots, c \in Chats :
    cp.cursor[c] > 0 => cp.known[c] >= cp.cursor[c]

(* No operation of an open Store leads to a checkpoint that validate       *)
(* refuses, so none of them can be rejected for good: in particular        *)
(* ResolveGapThrough never leaves an interval whose bounds crossed.        *)
UpdateAccepted ==
  status = "session" =>
    /\ Valid(MarkClean(data))
    /\ \A c \in Chats, l \in LogIDs :
         /\ Valid(CommitMessage(data, c, l))
         /\ Valid(RecordDeliveryStart(data, c, l))
         /\ Valid(ResolveGapThrough(data, c, l))
         /\ \A to \in l..MaxLog : Valid(RecordGap(data, c, l, to))

(* A process that dies between InstallSession and MarkClean leaves a file  *)
(* that does not claim a clean shutdown.                                   *)
UncleanVisible == active => \A cp \in Snapshots : ~cp.clean

(* What the Store acknowledged holds in memory, in the file and in the     *)
(* file a power loss leaves, whatever write failed and whatever crash came *)
(* between: commits, read acknowledgements, replay floors, gaps, an        *)
(* inventory that covers the cursor and the mark of an unclean end (every  *)
(* mutating operation of continuity.go).                                   *)
PromisesKept ==
  /\ CommitDurable /\ ReadDurable /\ ReplayFloorDurable
  /\ GapDurable /\ InventoryCoversCursor /\ UncleanVisible

(* While one process has the Store open, a committed cursor only grows,    *)
(* except for a chat the server deleted.                                   *)
CursorMonotone ==
  [][status # "shut" /\ status' # "shut" =>
       \A c \in Chats : \/ data.cursor[c] <= data'.cursor[c]
                        \/ data'.cursor[c] = 0 /\ acked'[c] = 0]_vars
=============================================================================
