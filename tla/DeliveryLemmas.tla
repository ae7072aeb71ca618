--------------------------- MODULE DeliveryLemmas ---------------------------
(***************************************************************************)
(* What the proofs about Delivery rest on, for any set of chats, positions *)
(* and bounds: lemmas about lines (queues of positions that skip nothing), *)
(* the effects of the checkpoint operations, the types, the inductive      *)
(* invariant DeliveryInv, what a step leaves alone, and that the steps of  *)
(* a bootstrap (seed, chain, notice, deliver, finish) keep the invariant.  *)
(***************************************************************************)
EXTENDS Delivery, TLAPS

-----------------------------------------------------------------------------
(* Lines *)

\* Every position from lo on that is below an element of s is in S or comes
\* earlier in s: handling s from the front skips nothing outside S.
InLine(s, lo, S) ==
  \A i \in 1..Len(s) : \A p \in lo..(s[i] - 1) : p \in S \/ \E j \in 1..(i - 1) : s[j] = p

\* What lies outside the line may grow, and with it the range answered for.
LEMMA LineKept ==
  ASSUME NEW s \in Seq(Nat), NEW lo \in Nat, NEW low \in Nat, NEW S, NEW T,
         InLine(s, lo, S), \A p \in Nat : low <= p /\ (p < lo \/ p \in S) => p \in T
  PROVE  InLine(s, low, T)
<1> SUFFICES ASSUME NEW i \in 1..Len(s), NEW p \in low..(s[i] - 1)
             PROVE  p \in T \/ \E j \in 1..(i - 1) : s[j] = p
  BY Zenon DEF InLine
<1>1. s[i] \in Nat /\ p \in Nat
  OBVIOUS
<1>2. CASE p < lo
  BY <1>1, <1>2
<1>3. CASE ~(p < lo)
  <2>1. p \in lo..(s[i] - 1)
    BY <1>1, <1>3
  <2> QED BY <1>1, <2>1 DEF InLine
<1> QED BY <1>2, <1>3, Zenon

\* The first of a line has nothing before it; once handled it is outside.
LEMMA LineHead ==
  ASSUME NEW s \in Seq(Nat), s # <<>>, NEW lo \in Nat, NEW S, InLine(s, lo, S)
  PROVE  /\ Head(s) \in Nat /\ Tail(s) \in Seq(Nat) /\ lo..(Head(s) - 1) \subseteq S
         /\ InLine(Tail(s), lo, S \cup {Head(s)})
         /\ Elements(s) = {Head(s)} \cup Elements(Tail(s))
<1>1. /\ Len(s) \in Nat /\ Len(s) >= 1 /\ Head(s) = s[1] /\ Head(s) \in Nat
      /\ Tail(s) \in Seq(Nat) /\ Len(Tail(s)) = Len(s) - 1
      /\ \A i \in 1..(Len(s) - 1) : Tail(s)[i] = s[i + 1]
  OBVIOUS
<1> DEFINE t == Tail(s)
           n == Len(s)
<1> HIDE DEF t, n
<1>2. /\ n \in Nat /\ n >= 1 /\ Head(s) = s[1] /\ t \in Seq(Nat) /\ Len(t) = n - 1
      /\ \A i \in 1..(n - 1) : t[i] = s[i + 1]
  BY <1>1, Zenon DEF t, n
<1>3. \A p \in lo..(Head(s) - 1) : p \in S
  <2>1. 1 \in 1..n /\ 1..(1 - 1) = {}
    BY <1>2
  <2> QED BY <1>2, <2>1, Zenon DEF InLine, n
<1>4. InLine(t, lo, S \cup {Head(s)})
  <2> SUFFICES ASSUME NEW i \in 1..(n - 1), NEW p \in lo..(t[i] - 1)
               PROVE  p \in S \cup {Head(s)} \/ \E j \in 1..(i - 1) : t[j] = p
    BY <1>2, Zenon DEF InLine
  <2>1. i + 1 \in 1..n /\ p \in lo..(s[i + 1] - 1)
    <3>1. n \in Nat /\ t[i] = s[i + 1] BY <1>2, Zenon
    <3>2. i + 1 \in 1..n BY <3>1
    <3> QED BY <3>1, <3>2, Zenon
  <2>2. p \in S \/ \E j \in 1..((i + 1) - 1) : s[j] = p
    BY <2>1, Zenon DEF InLine, n
  <2>3. ASSUME NEW j \in 1..i, s[j] = p, j # 1 PROVE \E k \in 1..(i - 1) : t[k] = p
    <3>1. j - 1 \in 1..(i - 1) /\ j - 1 \in 1..(n - 1) /\ (j - 1) + 1 = j
      BY <1>2, <2>3
    <3> QED BY <1>2, <2>3, <3>1, Zenon
  <2>4. (i + 1) - 1 = i
    OBVIOUS
  <2> QED BY <1>2, <2>2, <2>3, <2>4, Zenon
<1>5. Elements(s) = {Head(s)} \cup Elements(t)
  <2>1. DOMAIN s = 1..n /\ DOMAIN t = 1..(n - 1)
    BY <1>2 DEF n
  <2>2. ASSUME NEW i \in 1..n PROVE s[i] = Head(s) \/ \E k \in 1..(n - 1) : t[k] = s[i]
    <3>1. CASE i = 1
      BY <1>2, <3>1, Zenon
    <3>2. CASE i # 1
      <4>1. i - 1 \in 1..(n - 1) /\ (i - 1) + 1 = i
        BY <1>2, <3>2
      <4> QED BY <1>2, <4>1, Zenon
    <3> QED BY <3>1, <3>2, Zenon
  <2>3. ASSUME NEW k \in 1..(n - 1) PROVE k + 1 \in 1..n /\ t[k] = s[k + 1]
    BY <1>2
  <2>4. 1 \in 1..n
    BY <1>2
  <2>5. Elements(s) \subseteq {Head(s)} \cup Elements(t)
    BY <2>1, <2>2, Zenon DEF Elements
  <2>6. Head(s) \in Elements(s) /\ Elements(t) \subseteq Elements(s)
    <3>1. Head(s) \in Elements(s)
      BY <1>2, <2>1, <2>4, Zenon DEF Elements
    <3>2. Elements(t) \subseteq Elements(s)
      BY <2>1, <2>3, Zenon DEF Elements
    <3> QED BY <3>1, <3>2, Zenon
  <2> QED BY <2>5, <2>6, Zenon
<1> QED BY <1>1, <1>3, <1>4, <1>5, Zenon DEF t

\* A position whose predecessors are outside or in the line may join it.
LEMMA LineJoin ==
  ASSUME NEW s \in Seq(Nat), NEW lo \in Nat, NEW S, NEW x \in Nat, InLine(s, lo, S),
         lo..(x - 1) \subseteq S \cup Elements(s)
  PROVE  /\ Append(s, x) \in Seq(Nat) /\ InLine(Append(s, x), lo, S)
         /\ Elements(Append(s, x)) = Elements(s) \cup {x}
<1> DEFINE t == Append(s, x)
           n == Len(s)
<1>1. /\ n \in Nat /\ t \in Seq(Nat) /\ Len(t) = n + 1 /\ t[n + 1] = x
      /\ \A i \in 1..n : t[i] = s[i]
      /\ DOMAIN s = 1..n /\ DOMAIN t = 1..(n + 1)
  OBVIOUS
<1> HIDE DEF t, n
<1>2. ASSUME NEW i \in 1..(n + 1), NEW p \in lo..(t[i] - 1)
      PROVE  p \in S \/ \E j \in 1..(i - 1) : t[j] = p
  <2>1. CASE i = n + 1
    <3>1. p \in S \/ p \in Elements(s)
      BY <1>1, <2>1, Zenon
    <3>2. ASSUME NEW j \in 1..n, s[j] = p PROVE j \in 1..(i - 1) /\ t[j] = p
      BY <1>1, <2>1, <3>2
    <3> QED BY <1>1, <3>1, <3>2, Zenon DEF Elements
  <2>2. CASE i # n + 1
    <3>1. i \in 1..n /\ p \in lo..(s[i] - 1)
      BY <1>1, <2>2
    <3>2. p \in S \/ \E j \in 1..(i - 1) : s[j] = p
      BY <3>1, Zenon DEF InLine, n
    <3>3. ASSUME NEW j \in 1..(i - 1) PROVE j \in 1..n
      BY <1>1, <3>1
    <3> QED BY <1>1, <3>2, <3>3, Zenon
  <2> QED BY <2>1, <2>2, Zenon
<1>3. InLine(t, lo, S)
  BY <1>1, <1>2, Zenon DEF InLine
<1>4. Elements(t) = Elements(s) \cup {x}
  <2>1. n + 1 \in 1..(n + 1) /\ \A i \in 1..n : i \in 1..(n + 1)
    BY <1>1
  <2>2. \A i \in 1..(n + 1) : i = n + 1 \/ i \in 1..n
    BY <1>1
  <2> QED BY <1>1, <2>1, <2>2, Zenon DEF Elements
<1> QED BY <1>1, <1>3, <1>4, Zenon DEF t

\* An ascending sequence is in line with what it leaves out.
LEMMA LineAscending ==
  ASSUME NEW s \in Seq(Nat), NEW lo \in Nat, NEW S,
         \A i, j \in 1..Len(s) : i < j => s[i] < s[j],
         \A i \in 1..Len(s) : lo..(s[i] - 1) \subseteq S \cup Elements(s)
  PROVE  InLine(s, lo, S)
<1> SUFFICES ASSUME NEW i \in 1..Len(s), NEW p \in lo..(s[i] - 1), p \notin S
             PROVE  \E j \in 1..(i - 1) : s[j] = p
  BY Zenon DEF InLine
<1>0. p \in Elements(s) /\ DOMAIN s = 1..Len(s)
  <2>1. DOMAIN s = 1..Len(s) OBVIOUS
  <2>2. p \in S \cup Elements(s) BY Zenon
  <2> QED BY <2>1, <2>2, Zenon
<1>1. PICK j \in 1..Len(s) : s[j] = p
  BY <1>0, Zenon DEF Elements
<1>2. s[i] \in Nat /\ s[j] < s[i]
  BY <1>1
<1>3. ~(i < j) /\ i # j
  <2>1. i < j => s[i] < s[j]
    BY Zenon
  <2> QED BY <1>2, <2>1
<1>4. j \in 1..(i - 1)
  BY <1>3
<1> QED BY <1>1, <1>4, Zenon

\* The first n of a line are a line.
LEMMA LineCut ==
  ASSUME NEW s \in Seq(Nat), NEW lo \in Nat, NEW S, InLine(s, lo, S), NEW n \in 0..Len(s)
  PROVE  /\ SubSeq(s, 1, n) \in Seq(Nat) /\ InLine(SubSeq(s, 1, n), lo, S)
         /\ Elements(SubSeq(s, 1, n)) \subseteq Elements(s)
<1> DEFINE t == SubSeq(s, 1, n)
<1>1. /\ t \in Seq(Nat) /\ Len(t) = n /\ \A i \in 1..n : t[i] = s[i]
      /\ Len(s) \in Nat /\ DOMAIN t = 1..n /\ DOMAIN s = 1..Len(s)
  OBVIOUS
<1> HIDE DEF t
<1>2. ASSUME NEW i \in 1..n, NEW p \in lo..(t[i] - 1)
      PROVE  p \in S \/ \E j \in 1..(i - 1) : t[j] = p
  <2>1. i \in 1..Len(s) /\ t[i] = s[i] /\ \A j \in 1..(i - 1) : t[j] = s[j]
    BY <1>1
  <2>2. p \in lo..(s[i] - 1) BY <2>1, Zenon
  <2>3. p \in S \/ \E j \in 1..(i - 1) : s[j] = p BY <2>1, <2>2, Zenon DEF InLine
  <2> QED BY <2>1, <2>3, Zenon
<1>3. Elements(t) \subseteq Elements(s)
  <2>1. \A i \in 1..n : i \in 1..Len(s)
    BY <1>1
  <2> QED BY <1>1, <2>1, Zenon DEF Elements
<1> QED BY <1>1, <1>2, <1>3, Zenon DEF InLine, t

-----------------------------------------------------------------------------
(* Checkpoints: the fields delivery is about, and what each change does.   *)

\* Nothing is said of gaps: their bounds come from CHOOSE.
CP(cp) ==
  /\ DOMAIN cp = {"version", "clean", "cursor", "known", "gap", "read", "start"}
  /\ cp.cursor \in [Chats -> Nat] /\ cp.start \in [Chats -> Nat]
  /\ cp.known \in [Chats -> Int]

\* One checkpoint differs from another in gaps alone.
GapOnly(cp, next) ==
  /\ CP(next)
  /\ next.cursor = cp.cursor /\ next.start = cp.start /\ next.known = cp.known

\* Recording and resolving a gap touch nothing but the gap.
LEMMA GapChanges ==
  ASSUME NEW cp, CP(cp), NEW c \in Chats, NEW from, NEW to
  PROVE  GapOnly(cp, RecordGap(cp, c, from, to)) /\ GapOnly(cp, ResolveGapThrough(cp, c, to))
<1>1. ASSUME NEW g PROVE GapOnly(cp, [cp EXCEPT !.gap[c] = g])
  BY Zenon DEF CP, GapOnly
<1> QED BY <1>1, Zenon DEF RecordGap, ResolveGapThrough

\* Chat c's position l was committed; the other chats' entries are as before.
Committed(cp, next, c, l) ==
  /\ CP(next)
  /\ next.cursor[c] = Larger(cp.cursor[c], l) /\ next.start[c] = 0
  /\ next.known[c] = IF l > cp.cursor[c] THEN Larger(cp.known[c], l) ELSE cp.known[c]
  /\ \A d \in Chats \ {c} : /\ next.cursor[d] = cp.cursor[d] /\ next.start[d] = cp.start[d]
                            /\ next.known[d] = cp.known[d]

\* CommitMessage does to the checkpoint what Committed says.
LEMMA CommitChanges ==
  ASSUME NEW cp, CP(cp), NEW c \in Chats, NEW l \in Nat
  PROVE  Committed(cp, CommitMessage(cp, c, l), c, l)
BY DEF CP, Committed, CommitMessage, Larger

\* Chat c's floor took position l into account.
Started(cp, next, c, l) ==
  /\ CP(next)
  /\ next.cursor[c] = cp.cursor[c]
  /\ next.start[c] = IF cp.cursor[c] > 0 THEN cp.start[c]
                     ELSE IF cp.start[c] = 0 THEN l ELSE Smaller(cp.start[c], l)
  /\ \A d \in Chats \ {c} : /\ next.cursor[d] = cp.cursor[d] /\ next.start[d] = cp.start[d]
                            /\ next.known[d] = cp.known[d]

\* RecordDeliveryStart does to the checkpoint what Started says.
LEMMA StartChanges ==
  ASSUME NEW cp, CP(cp), NEW c \in Chats, NEW l \in Nat
  PROVE  Started(cp, RecordDeliveryStart(cp, c, l), c, l)
BY DEF CP, Started, RecordDeliveryStart, Larger, Smaller

\* A login installed its inventory and left the positions alone.
Installed(cp, next, observed) ==
  /\ CP(next)
  /\ \A c \in Chats :
       /\ next.cursor[c] = cp.cursor[c] /\ next.start[c] = cp.start[c]
       /\ next.known[c] = IF cp.cursor[c] > 0 THEN Larger(observed[c], cp.cursor[c])
                          ELSE observed[c]

\* A login's InstallSession does to the checkpoint what Installed says.
LEMMA InstallChanges ==
  ASSUME NEW cp, CP(cp), NEW observed \in [Chats -> Int]
  PROVE  Installed(cp, InstallSession(cp, observed, {}, TRUE), observed)
BY DEF CP, Installed, InstallSession, Larger, NoTarget

-----------------------------------------------------------------------------
(* Types *)

\* What the recovery of a chat found, and the hold of a chat.
Catches == [events : Seq(Nat), missing : SUBSET Nat, skipped : BOOLEAN, gap : BOOLEAN]
Holds == [on : BOOLEAN, events : Seq(Nat), attempts : Nat, due : BOOLEAN,
          paused : BOOLEAN, missed : Nat]

\* Every variable of Delivery has its type.
Typed ==
  /\ last \in [Chats -> 0..MaxLog] /\ base \in [Chats -> Nat] /\ first \in [Chats -> Nat]
  /\ bridged \in [Chats -> SUBSET Nat] /\ noticed \in [Chats -> SUBSET Nat]
  /\ pushes \in [Chats -> Seq(Nat)] /\ out \in [Chats -> Seq(Nat)]
  /\ caught \in [Chats -> Catches] /\ held \in [Chats -> Holds]
  /\ access \in [Chats -> BOOLEAN] /\ seen \in Seq(Chats \X Nat)
  /\ phase \in Phases /\ todo \subseteq Chats /\ lookups \in Nat
  /\ CP(mem) /\ CP(disk)

\* Handling an event keeps the types of what it writes.
LEMMA HandleTypes ==
  ASSUME Typed, NEW c \in Chats, NEW l \in Nat, NEW q, NEW ok \in BOOLEAN,
         HandleEvent(c, l, q, ok)
  PROVE  /\ first' \in [Chats -> Nat] /\ bridged' \in [Chats -> SUBSET Nat]
         /\ access' \in [Chats -> BOOLEAN] /\ CP(mem') /\ CP(disk')
<1>1. CP(CommitMessage(mem, c, l))
  BY CommitChanges, Zenon DEF Typed, Committed
<1>2. ASSUME CommitEvent(c, l, q, ok)
      PROVE  first' \in [Chats -> Nat] /\ CP(mem') /\ CP(disk')
  <2>1. \/ UNCHANGED <<mem, disk>>
        \/ \E next \in {CommitMessage(mem, c, l)} : mem' \in {mem, next} /\ disk' \in {disk, next}
    BY <1>2, Zenon DEF CommitEvent, Write
  <2>2. first' = first \/ first' = [first EXCEPT ![c] = l]
    BY <1>2, Zenon DEF CommitEvent
  <2>3. CP(mem') /\ CP(disk')
    BY <1>1, <2>1, Zenon DEF Typed
  <2>4. first' \in [Chats -> Nat]
    BY <2>2, Zenon DEF Typed
  <2> QED BY <2>3, <2>4, Zenon
<1>3. first' \in [Chats -> Nat] /\ CP(mem') /\ CP(disk')
  <2>1. CASE UNCHANGED <<mem, disk, first>>
    BY <2>1, Zenon DEF Typed
  <2> QED BY <1>2, <2>1, Zenon DEF HandleEvent
<1>4. bridged' \in [Chats -> SUBSET Nat]
  <2>1. bridged' = bridged \/ bridged' = [bridged EXCEPT ![c] = bridged[c] \cup {l}]
    BY Zenon DEF HandleEvent
  <2>2. bridged \in [Chats -> SUBSET Nat] /\ bridged[c] \cup {l} \in SUBSET Nat
    BY Zenon DEF Typed
  <2> QED BY <2>1, <2>2, Zenon
<1>5. access' \in [Chats -> BOOLEAN]
  BY Zenon DEF HandleEvent, Typed
<1> QED BY <1>3, <1>4, <1>5, Zenon

\* Scheduling a hold keeps its types and its contents, touches no other hold,
\* and leaves the hold with a wakeup unless a lookup of the access is under way.
LEMMA ScheduleTypes ==
  ASSUME Typed, NEW c \in Chats, NEW h \in Holds, ScheduleHeld(c, h), access'[c] \in BOOLEAN
  PROVE  /\ held' \in [Chats -> Holds] /\ lookups' \in Nat
         /\ held'[c].on = h.on /\ held'[c].events = h.events /\ held'[c].missed = h.missed
         /\ \A d \in Chats \ {c} : held'[d] = held[d]
         /\ lookups' >= lookups
         /\ lookups' = 0 => held'[c].due \/ held'[c].paused \/ ~access'[c]
<1>1. ASSUME NEW a \in BOOLEAN
      PROVE  /\ Scheduled(h, a) \in Holds
             /\ Scheduled(h, a).on = h.on /\ Scheduled(h, a).events = h.events
             /\ Scheduled(h, a).missed = h.missed
             /\ a => Scheduled(h, a).due \/ Scheduled(h, a).paused
  <2>1. /\ Scheduled(h, a) \in Holds
        /\ Scheduled(h, a).on = h.on /\ Scheduled(h, a).events = h.events
        /\ Scheduled(h, a).missed = h.missed
    BY Zenon DEF Scheduled, Holds
  <2>2. a => Scheduled(h, a).due \/ Scheduled(h, a).paused
    <3>1. h.attempts \in Nat /\ Retries \in Nat
      BY DeliveryAssumption, Zenon DEF Holds
    <3>2. h.attempts < Retries \/ h.attempts >= Retries
      BY <3>1
    <3> QED BY <3>2, Zenon DEF Scheduled, Holds
  <2> QED BY <2>1, <2>2, Zenon
<1>2. \E a \in BOOLEAN : /\ held' = [held EXCEPT ![c] = Scheduled(h, a)]
                         /\ \/ a = access'[c] /\ lookups' = lookups
                            \/ lookups' = lookups + 1
  BY Zenon DEF ScheduleHeld
<1> HIDE DEF Holds
<1> QED BY <1>1, <1>2 DEF Typed

\* A hold made of a line keeps its front, and where the line ended if it is
\* longer than MaxHeld.
LEMMA HoldTypes ==
  ASSUME NEW s \in Seq(Nat), s # <<>>
  PROVE  /\ HoldOf(s) \in Holds /\ HoldOf(s).on
         /\ HoldOf(s).events = SubSeq(s, 1, Smaller(Len(s), MaxHeld))
         /\ HoldOf(s).missed = IF Len(s) > MaxHeld THEN s[Len(s)] ELSE 0
<1>1. Len(s) \in Nat \ {0} /\ SubSeq(s, 1, Smaller(Len(s), MaxHeld)) \in Seq(Nat)
  BY DeliveryAssumption DEF Smaller
<1>2. s[Len(s)] \in Nat
  BY <1>1
<1> QED BY <1>1, <1>2, Zenon DEF HoldOf, NotHeld, Holds

\* A hold of one event is within MaxHeld.
LEMMA HoldOne ==
  ASSUME NEW l \in Nat
  PROVE  /\ HoldOf(<<l>>) \in Holds /\ HoldOf(<<l>>).on
         /\ HoldOf(<<l>>).events = <<l>> /\ HoldOf(<<l>>).missed = 0
         /\ <<l>> \in Seq(Nat) /\ Elements(<<l>>) = {l}
<1>1. <<l>> \in Seq(Nat) /\ <<l>> # <<>> /\ Len(<<l>>) = 1
  OBVIOUS
<1>2. Smaller(1, MaxHeld) = 1 /\ ~(1 > MaxHeld)
  BY DeliveryAssumption DEF Smaller
<1>3. Elements(<<l>>) = {l}
  BY DEF Elements
<1> DEFINE s == <<l>>
<1> HIDE DEF s
<1>4. s \in Seq(Nat) /\ s # <<>> /\ Len(s) = 1 /\ SubSeq(s, 1, 1) = s
  <2>1. s \in Seq(Nat) /\ s # <<>> /\ Len(s) = 1
    BY <1>1, Zenon DEF s
  <2>2. SubSeq(s, 1, 1) \in Seq(Nat) /\ Len(SubSeq(s, 1, 1)) = 1 /\ SubSeq(s, 1, 1)[1] = s[1]
    BY <2>1
  <2>3. \A i \in 1..1 : SubSeq(s, 1, 1)[i] = s[i]
    BY <2>2
  <2> QED BY <2>1, <2>2, <2>3
<1>5. HoldOf(s) \in Holds /\ HoldOf(s).on /\ HoldOf(s).events = s /\ HoldOf(s).missed = 0
  BY <1>2, <1>4, HoldTypes, Zenon
<1> QED BY <1>3, <1>4, <1>5, Zenon DEF s

\* A new line or a new count leaves a hold a hold.
LEMMA Updates ==
  ASSUME NEW s \in Seq(Nat), NEW n \in Nat
  PROVE  /\ \A h \in Catches : [h EXCEPT !.events = s] \in Catches
         /\ \A h \in Holds : /\ [h EXCEPT !.events = s] \in Holds
                            /\ [h EXCEPT !.attempts = n] \in Holds
                            /\ [h EXCEPT !.missed = n] \in Holds
                            /\ [h EXCEPT !.events = s, !.missed = n] \in Holds
BY Zenon DEF Catches, Holds

\* So does one attempt more.
LEMMA AgainTypes == ASSUME NEW h \in Holds PROVE [h EXCEPT !.attempts = @ + 1] \in Holds
<1>1. h.attempts \in Nat BY Zenon DEF Holds
<1>2. h.attempts + 1 \in Nat BY <1>1
<1>3. <<>> \in Seq(Nat) OBVIOUS
<1> QED BY <1>2, <1>3, Updates, Zenon

\* A recovery returns a rising line of the interval asked for, up to where it
\* stopped.
LEMMA RecoveryTypes ==
  ASSUME NEW from \in Nat, NEW to \in Int, NEW r \in Recoveries(from, to)
  PROVE  /\ r.events \in Seq(Nat) /\ r.upto \in (from - 1)..to
         /\ \A i, j \in 1..Len(r.events) : i < j => r.events[i] < r.events[j]
         /\ Elements(r.events) \subseteq from..r.upto
         /\ r.upto \in Elements(r.events) \cup {from - 1, to}
<1>1. /\ r.events \in Ascending(from, to) /\ r.upto \in (from - 1)..to
      /\ Elements(r.events) \subseteq from..r.upto
      /\ r.upto \in Elements(r.events) \cup {from - 1, to}
  BY Zenon DEF Recoveries
<1>2. PICK n \in 0..(to + 1 - from) : r.events \in [1..n -> from..to]
  BY <1>1, Zenon DEF Ascending
<1>3. \A i, j \in DOMAIN r.events : i < j => r.events[i] < r.events[j]
  BY <1>1, Zenon DEF Ascending
<1>4. r.events \in Seq(Nat) /\ DOMAIN r.events = 1..Len(r.events)
  BY <1>2
<1> QED BY <1>1, <1>3, <1>4, Zenon

\* The chain and a held chat's catch-up change gaps alone.
LEMMA ChainChanges ==
  ASSUME NEW cp, CP(cp), NEW c \in Chats, NEW skips, NEW upto, NEW ceiling
  PROVE  GapOnly(cp, GapAfterChain(cp, c, skips, upto, ceiling))
<1>1. GapOnly(cp, cp)
  BY Zenon DEF GapOnly
<1>2. ASSUME NEW a, NEW b, NEW next, GapOnly(cp, next)
      PROVE  GapOnly(cp, RecordGap(next, c, a, b))
  <2>1. GapOnly(next, RecordGap(next, c, a, b))
    BY <1>2, GapChanges DEF GapOnly
  <2> QED BY <1>2, <2>1, Zenon DEF GapOnly
<1>3. GapOnly(cp, ResolveGapThrough(cp, c, ceiling))
  BY GapChanges, Zenon
<1> QED BY <1>1, <1>2, <1>3, Zenon DEF GapAfterChain

\* Finishing a chat leads to a phase.
LEMMA FinishedTypes ==
  ASSUME Typed, NEW c \in Chats, Finished(c), phase \in {"seed", "chain", "deliver"}
  PROVE  phase' \in Phases /\ todo' \subseteq Chats
BY Zenon DEF Typed, Finished, Successor, Phases

\* The positions after a, up to b, as a line.
LEMMA IntervalTypes ==
  ASSUME NEW a \in Nat, NEW b \in Nat
  PROVE  LET s == [i \in 1..(b - a) |-> a + i]
         IN  /\ s \in Seq(Nat) /\ Len(s) \in Nat /\ Elements(s) = (a + 1)..b
             /\ \A i, j \in 1..Len(s) : i < j => s[i] < s[j]
<1> DEFINE s == [i \in 1..(b - a) |-> a + i]
<1>1. PICK n \in Nat : 1..(b - a) = 1..n
  <2>1. CASE b - a \in Nat
    BY <2>1, Zenon
  <2>2. CASE b - a \notin Nat
    <3>1. 1..(b - a) = 1..0
      BY <2>2
    <3> QED BY <3>1, Zenon
  <2> QED BY <2>1, <2>2, Zenon
<1>2. s \in [1..n -> Nat]
  BY <1>1
<1>3. s \in Seq(Nat) /\ DOMAIN s = 1..n /\ Len(s) = n
  <2> HIDE DEF s
  <2> QED BY <1>2
<1>4. Elements(s) = (a + 1)..b
  <2>1. Elements(s) = {s[i] : i \in 1..(b - a)}
    BY <1>1, <1>3, Zenon DEF Elements
  <2>2. ASSUME NEW p \in (a + 1)..b PROVE p - a \in 1..(b - a) /\ s[p - a] = p
    OBVIOUS
  <2>3. ASSUME NEW i \in 1..(b - a) PROVE s[i] \in (a + 1)..b
    OBVIOUS
  <2> QED BY <2>1, <2>2, <2>3, Zenon
<1>5. \A i \in 1..n : s[i] = a + i
  BY <1>1, Zenon
<1> HIDE DEF s
<1>6. \A i, j \in 1..n : i < j => s[i] < s[j]
  BY <1>5
<1> QED BY <1>3, <1>4, <1>6, Zenon DEF s

\* Every step keeps the types.
LEMMA TypesKept == Typed /\ [Next]_vars => Typed'
<1> SUFFICES ASSUME Typed, [Next]_vars PROVE Typed'
  BY Zenon
<1>1. ASSUME Connect PROVE Typed'
  <2> DEFINE observed == [c \in Chats |-> IF last[c] > 0 THEN last[c] ELSE NoTarget]
             next == InstallSession(disk, observed, {}, TRUE)
  <2>1. CP(disk) /\ observed \in [Chats -> Int]
    BY DEF Typed, NoTarget
  <2> HIDE DEF observed
  <2>2. CP(next)
    BY <2>1, InstallChanges, Zenon DEF Installed
  <2> HIDE DEF next
  <2>3. mem' = next /\ disk' = next
    BY <1>1, Zenon DEF Connect, next, observed
  <2>4. first' \in [Chats -> Nat]
    BY <1>1, <2>1, Zenon DEF Connect, Typed, CP, Larger
  <2>5. base' \in [Chats -> Nat] /\ phase' \in Phases /\ todo' \subseteq Chats
    BY <1>1 DEF Connect, Typed, Phases
  <2>6. UNCHANGED <<last, access, caught, pushes, seen, out, held, bridged, noticed, lookups>>
    BY <1>1, Zenon DEF Connect
  <2> QED BY <2>2, <2>3, <2>4, <2>5, <2>6, Zenon DEF Typed
<1>2. ASSUME Discover PROVE Typed'
  BY <1>2, Zenon DEF Discover, Successor, Typed, Phases
<1>3. ASSUME GoDown, UNCHANGED <<last, access, bridged, noticed, first, lookups>> PROVE Typed'
  BY <1>3 DEF GoDown, Typed, Phases, NotCaught, NotHeld, Catches, Holds
<1>4. ASSUME RequestResume PROVE Typed'
  BY <1>4, Zenon DEF RequestResume, session, Typed
<1>5. ASSUME ResumeAll PROVE Typed'
  BY <1>5, Zenon DEF ResumeAll, Typed, Holds
<1>6. ASSUME NEW c \in Chats, Seed(c) PROVE Typed'
  <2> DEFINE l == mem.known[c]
  <2>1. UNCHANGED <<last, base, caught, pushes, seen, out, noticed>>
    BY <1>6, Zenon DEF Seed
  <2>2. phase' \in Phases /\ todo' \subseteq Chats
    BY <1>6, FinishedTypes, Zenon DEF Seed
  <2>3. CASE UNCHANGED <<access, mem, disk, held, bridged, first, lookups>>
    BY <2>1, <2>2, <2>3, Zenon DEF Typed
  <2>4. ASSUME l > 0, NEW ok \in BOOLEAN, HandleEvent(c, l, <<l>>, ok),
               IF ok THEN UNCHANGED <<held, lookups>> ELSE ScheduleHeld(c, HoldOf(<<l>>))
        PROVE  Typed'
    <3>1. l \in Nat
      BY <2>4 DEF Typed, CP
    <3>2. /\ first' \in [Chats -> Nat] /\ bridged' \in [Chats -> SUBSET Nat]
          /\ access' \in [Chats -> BOOLEAN] /\ CP(mem') /\ CP(disk')
      BY <2>4, <3>1, HandleTypes, Zenon
    <3>3. held' \in [Chats -> Holds] /\ lookups' \in Nat
      <4> HIDE DEF l
      <4>1. HoldOf(<<l>>) \in Holds
        BY <3>1, HoldOne, Zenon
      <4>2. CASE ok
        BY <2>4, <4>2, Zenon DEF Typed
      <4>3. CASE ~ok
        BY <2>4, <3>2, <4>1, <4>3, ScheduleTypes, Zenon
      <4> QED BY <4>2, <4>3, Zenon
    <3> QED BY <2>1, <2>2, <3>2, <3>3, Zenon DEF Typed
  <2> QED BY <1>6, <2>3, <2>4, Zenon DEF Seed
<1>7. ASSUME NEW c \in Chats, Chain(c) PROVE Typed'
  <2>1. UNCHANGED <<last, access, base, pushes, seen, out, held, bridged, noticed, first, lookups>>
    BY <1>7, Zenon DEF Chain
  <2>2. phase' \in Phases /\ todo' \subseteq Chats
    BY <1>7, FinishedTypes, Zenon DEF Chain
  <2>3. CASE UNCHANGED <<mem, disk, caught>>
    BY <2>1, <2>2, <2>3, Zenon DEF Typed
  <2>4. CASE ~UNCHANGED <<mem, disk, caught>>
    <3> DEFINE from == ResumePosition(mem, c) + 1
               ceiling == mem.known[c]
    <3>1. from \in Nat /\ ceiling \in Int
      BY DEF Typed, CP, ResumePosition
    <3>2. PICK r \in Recoveries(from, ceiling) :
            LET skips == (from..r.upto) \ Elements(r.events)
                missing == (from..ceiling) \ Elements(r.events)
                next == GapAfterChain(mem, c, skips, r.upto, ceiling)
            IN  /\ mem' = next /\ disk' = IF next = mem THEN disk ELSE next
                /\ caught' = [caught EXCEPT ![c] =
                     [events |-> r.events, missing |-> missing,
                      skipped |-> skips # {}, gap |-> missing # {}]]
      BY <1>7, <2>4, Zenon DEF Chain
    <3> HIDE DEF from, ceiling
    <3>3. r.events \in Seq(Nat)
      BY <3>1, RecoveryTypes, Zenon
    <3>4. CP(mem') /\ CP(disk')
      BY <3>2, ChainChanges, Zenon DEF Typed, GapOnly
    <3>5. (from..ceiling) \ Elements(r.events) \in SUBSET Nat
      BY <3>1
    <3>6. caught' \in [Chats -> Catches]
      BY <3>2, <3>3, <3>5, Zenon DEF Typed, Catches
    <3> QED BY <2>1, <2>2, <3>4, <3>6, Zenon DEF Typed
  <2> QED BY <2>3, <2>4, Zenon
<1>8. ASSUME NEW c \in Chats, Notice(c) PROVE Typed'
  <2>1. caught' \in [Chats -> Catches] /\ noticed' \in [Chats -> SUBSET Nat]
    BY <1>8, Zenon DEF Notice, Typed, Catches
  <2> QED BY <1>8, <2>1, Zenon DEF Notice, Typed
<1>9. ASSUME NEW c \in Chats, DeliverCaught(c) PROVE Typed'
  <2> DEFINE l == Head(caught[c].events)
  <2>1. caught[c].events \in Seq(Nat) /\ caught[c].events # <<>> /\ caught[c] \in Catches
    BY <1>9, Zenon DEF DeliverCaught, Typed, Catches
  <2>2. l \in Nat /\ Tail(caught[c].events) \in Seq(Nat)
    BY <2>1
  <2>3. PICK ok \in BOOLEAN :
          /\ HandleEvent(c, l, queue[c], ok)
          /\ caught' = [caught EXCEPT ![c].events = IF ok THEN Tail(@) ELSE <<>>]
          /\ IF ok THEN UNCHANGED <<held, lookups>>
                   ELSE ScheduleHeld(c, HoldOf(caught[c].events))
    BY <1>9, Zenon DEF DeliverCaught
  <2> HIDE DEF l
  <2>4. /\ first' \in [Chats -> Nat] /\ bridged' \in [Chats -> SUBSET Nat]
        /\ access' \in [Chats -> BOOLEAN] /\ CP(mem') /\ CP(disk')
    BY <2>2, <2>3, HandleTypes, Zenon
  <2>5. caught' \in [Chats -> Catches]
    <3>1. <<>> \in Seq(Nat)
      OBVIOUS
    <3>2. PICK s \in Seq(Nat) : caught' = [caught EXCEPT ![c] = [caught[c] EXCEPT !.events = s]]
      BY <2>2, <2>3, <3>1, Zenon DEF Typed
    <3> QED BY <2>1, <3>2, Updates, Zenon DEF Typed
  <2>6. held' \in [Chats -> Holds] /\ lookups' \in Nat
    <3>1. HoldOf(caught[c].events) \in Holds
      BY <2>1, HoldTypes, Zenon
    <3>2. CASE ok
      BY <2>3, <3>2, Zenon DEF Typed
    <3>3. CASE ~ok
      BY <2>3, <2>4, <3>1, <3>3, ScheduleTypes, Zenon
    <3> QED BY <3>2, <3>3, Zenon
  <2> QED BY <1>9, <2>4, <2>5, <2>6, Zenon DEF Typed, DeliverCaught
<1>10. ASSUME NEW c \in Chats, FinishRoom(c) PROVE Typed'
  <2>1. phase' \in Phases /\ todo' \subseteq Chats
    BY <1>10, FinishedTypes, Zenon DEF FinishRoom
  <2>2. access' \in [Chats -> BOOLEAN]
    BY <1>10, Zenon DEF FinishRoom, Typed
  <2> QED BY <1>10, <2>1, <2>2, Zenon DEF FinishRoom, Typed
<1>11. ASSUME NEW c \in Chats, RetryEvent(c) PROVE Typed'
  <2> DEFINE l == Head(held[c].events)
  <2>1. held[c].events \in Seq(Nat) /\ held[c].events # <<>> /\ held[c] \in Holds
    BY <1>11, Zenon DEF RetryEvent, Typed, Holds
  <2>2. l \in Nat /\ Tail(held[c].events) \in Seq(Nat)
    BY <2>1
  <2>3. PICK ok \in BOOLEAN :
          /\ HandleEvent(c, l, queue[c], ok)
          /\ IF ok THEN held' = [held EXCEPT ![c].events = Tail(@)] /\ UNCHANGED lookups
                   ELSE ScheduleAgain(c)
    BY <1>11, Zenon DEF RetryEvent
  <2> HIDE DEF l
  <2>4. /\ first' \in [Chats -> Nat] /\ bridged' \in [Chats -> SUBSET Nat]
        /\ access' \in [Chats -> BOOLEAN] /\ CP(mem') /\ CP(disk')
    BY <2>2, <2>3, HandleTypes, Zenon
  <2>5. held' \in [Chats -> Holds] /\ lookups' \in Nat
    <3>1. [held[c] EXCEPT !.attempts = @ + 1] \in Holds
      BY <2>1, AgainTypes, Zenon
    <3>2. CASE ok
      <4>1. held' = [held EXCEPT ![c] = [held[c] EXCEPT !.events = Tail(held[c].events)]]
        BY <2>3, <3>2, Zenon DEF Typed
      <4> QED BY <2>1, <2>2, <2>3, <3>2, <4>1, Updates, Zenon DEF Typed
    <3>3. CASE ~ok
      BY <2>3, <2>4, <3>1, <3>3, ScheduleTypes, Zenon DEF ScheduleAgain
    <3> QED BY <3>2, <3>3, Zenon
  <2> QED BY <1>11, <2>4, <2>5, Zenon DEF Typed, RetryEvent
<1>12. ASSUME NEW c \in Chats, RetryCatchUp(c) PROVE Typed'
  <2> DEFINE current == ResumePosition(mem, c)
             interval == [i \in 1..(held[c].missed - current) |-> current + i]
  <2>1. held[c] \in Holds /\ held[c].missed \in Nat /\ current \in Nat
    <3>1. held[c] \in Holds /\ held[c].missed \in Nat
      BY Zenon DEF Typed, Holds
    <3>2. current \in Nat
      BY DEF Typed, CP, ResumePosition
    <3> QED BY <3>1, <3>2, Zenon
  <2>2. PICK ok \in BOOLEAN, events \in {<<>>, interval} :
          /\ CatchUp(c, held[c].missed, ok, events)
          /\ IF ok THEN /\ held' = [held EXCEPT ![c].events = events, ![c].missed = 0]
                        /\ UNCHANGED lookups
                   ELSE ScheduleAgain(c)
    BY <1>12, Zenon DEF RetryCatchUp
  <2> HIDE DEF current
  <2>3. interval \in Seq(Nat)
    BY <2>1, IntervalTypes, Zenon
  <2> HIDE DEF interval
  <2>4. events \in Seq(Nat)
    <3>1. <<>> \in Seq(Nat)
      OBVIOUS
    <3> QED BY <2>3, <3>1, Zenon
  <2>5. CP(mem') /\ CP(disk')
    <3>1. /\ CP(ResolveGapThrough(mem, c, held[c].missed))
          /\ CP(RecordGap(mem, c, current + 1, held[c].missed))
      BY GapChanges, Zenon DEF GapOnly, Typed
    <3>2. \E next \in {mem, ResolveGapThrough(mem, c, held[c].missed),
                       RecordGap(mem, c, current + 1, held[c].missed)} :
            mem' = next /\ disk' \in {disk, next}
      BY <2>2, Zenon DEF CatchUp, current
    <3> QED BY <3>1, <3>2, Zenon DEF Typed
  <2>6. held' \in [Chats -> Holds] /\ lookups' \in Nat
    <3>1. [held[c] EXCEPT !.attempts = @ + 1] \in Holds
      BY <2>1, AgainTypes, Zenon
    <3>2. CASE ok
      <4>1. held' = [held EXCEPT ![c] = [held[c] EXCEPT !.events = events, !.missed = 0]]
        BY <2>2, <3>2, Zenon DEF Typed
      <4> QED BY <2>1, <2>2, <2>4, <3>2, <4>1, Updates, Zenon DEF Typed
    <3>3. access'[c] \in BOOLEAN
      BY <1>12, Zenon DEF RetryCatchUp, Typed
    <3>4. CASE ~ok
      BY <2>2, <3>1, <3>3, <3>4, ScheduleTypes, Zenon DEF ScheduleAgain
    <3> QED BY <3>2, <3>4, Zenon
  <2> QED BY <1>12, <2>5, <2>6, Zenon DEF Typed, RetryCatchUp
<1>13. ASSUME NEW c \in Chats, Release(c) PROVE Typed'
  <2>1. held' \in [Chats -> Holds]
    BY <1>13, Zenon DEF Release, Typed, NotHeld, Holds
  <2> QED BY <1>13, <2>1, Zenon DEF Release, Typed
<1>14. ASSUME NEW c \in Chats, ServerAppend(c) PROVE Typed'
  <2>1. last[c] + 1 \in 0..MaxLog
    BY <1>14, MaxLogAssumption DEF ServerAppend, Typed
  <2>2. pushes' \in [Chats -> Seq(Nat)]
    BY <1>14, <2>1 DEF ServerAppend, Typed
  <2> QED BY <1>14, <2>1, <2>2, Zenon DEF ServerAppend, Typed
<1>15. ASSUME NEW c \in Chats, Decode(c) PROVE Typed'
  <2> DEFINE l == Head(pushes[c])
  <2>1. l \in Nat /\ pushes' \in [Chats -> Seq(Nat)]
    BY <1>15 DEF Decode, Typed
  <2>2. UNCHANGED <<last, access, todo, base, caught, held, bridged, noticed, lookups>>
    BY <1>15, Zenon DEF Decode
  <2>3. CASE UNCHANGED <<mem, disk, phase, seen, out, first>>
    BY <2>1, <2>2, <2>3, Zenon DEF Typed
  <2>4. ASSUME NEW ok \in BOOLEAN, AdmitStart(c, l, ok),
               IF ok THEN /\ seen' = Remember(c, l)
                          /\ out' = [out EXCEPT ![c] = Append(out[c], l)]
                          /\ first' = IF first[c] = 0 THEN [first EXCEPT ![c] = l] ELSE first
                          /\ UNCHANGED phase
                     ELSE phase' = "closing" /\ UNCHANGED <<seen, out, first>>
        PROVE  Typed'
    <3> HIDE DEF l
    <3>1. CP(mem') /\ CP(disk')
      <4>1. CP(RecordDeliveryStart(mem, c, l))
        BY <2>1, StartChanges, Zenon DEF Typed, Started
      <4> QED BY <2>4, <4>1, Zenon DEF AdmitStart, Write, Typed
    <3>2. seen' \in Seq(Chats \X Nat)
      <4>1. seen \in Seq(Chats \X Nat) /\ <<c, l>> \in Chats \X Nat
        BY <2>1, Zenon DEF Typed
      <4>2. Append(seen, <<c, l>>) \in Seq(Chats \X Nat) /\ Append(seen, <<c, l>>) # <<>>
        BY <4>1
      <4>3. Tail(Append(seen, <<c, l>>)) \in Seq(Chats \X Nat)
        BY <4>2
      <4> QED BY <2>4, <4>1, <4>2, <4>3, Zenon DEF Remember
    <3>3. out' \in [Chats -> Seq(Nat)]
      <4>1. out' = out \/ out' = [out EXCEPT ![c] = Append(out[c], l)]
        BY <2>4, Zenon
      <4>2. Append(out[c], l) \in Seq(Nat)
        BY <2>1 DEF Typed
      <4> QED BY <4>1, <4>2, Zenon DEF Typed
    <3>4. first' \in [Chats -> Nat] /\ phase' \in Phases
      BY <2>1, <2>4, Zenon DEF Typed, Phases
    <3> QED BY <2>1, <2>2, <3>1, <3>2, <3>3, <3>4, Zenon DEF Typed
  <2> QED BY <1>15, <2>3, <2>4, Zenon DEF Decode
<1>16. ASSUME NEW c \in Chats, Pump(c) PROVE Typed'
  <2> DEFINE l == Head(out[c])
  <2>1. l \in Nat /\ out' \in [Chats -> Seq(Nat)]
    BY <1>16 DEF Pump, Typed
  <2>2. UNCHANGED <<last, phase, todo, base, caught, pushes, seen, noticed>>
    BY <1>16, Zenon DEF Pump
  <2>3. held[c] \in Holds /\ HoldOf(<<l>>) \in Holds
    <3> HIDE DEF l
    <3> QED BY <2>1, HoldOne, Zenon DEF Typed
  <2>4. ASSUME held' = [held EXCEPT ![c] = Add(held[c], l)],
               UNCHANGED <<access, mem, disk, bridged, first, lookups>>
        PROVE  Typed'
    <3> HIDE DEF l
    <3>1. Add(held[c], l) \in Holds
      <4>1. Append(held[c].events, l) \in Seq(Nat) /\ Larger(held[c].missed, l) \in Nat
        BY <2>1, <2>3 DEF Holds, Larger
      <4> QED BY <2>3, <4>1, Updates, Zenon DEF Add
    <3> QED BY <2>1, <2>2, <2>4, <3>1, Zenon DEF Typed
  <2>5. ASSUME NEW ok \in BOOLEAN, HandleEvent(c, l, queue[c], ok),
               IF ok THEN UNCHANGED <<held, lookups>> ELSE ScheduleHeld(c, HoldOf(<<l>>))
        PROVE  Typed'
    <3> HIDE DEF l
    <3>1. /\ first' \in [Chats -> Nat] /\ bridged' \in [Chats -> SUBSET Nat]
          /\ access' \in [Chats -> BOOLEAN] /\ CP(mem') /\ CP(disk')
      BY <2>1, <2>5, HandleTypes, Zenon
    <3>2. CASE ok
      BY <2>1, <2>2, <2>5, <3>1, <3>2, Zenon DEF Typed
    <3>3. CASE ~ok
      <4>1. held' \in [Chats -> Holds] /\ lookups' \in Nat
        BY <2>3, <2>5, <3>1, <3>3, ScheduleTypes, Zenon
      <4> QED BY <2>1, <2>2, <3>1, <4>1, Zenon DEF Typed
    <3> QED BY <3>2, <3>3, Zenon
  <2> QED BY <1>16, <2>4, <2>5, Zenon DEF Pump
<1>17. ASSUME NEW c \in Chats, RetryDue(c) PROVE Typed'
  BY <1>17, Zenon DEF RetryDue, Typed
<1>18. ASSUME NEW c \in Chats, Converge(c) PROVE Typed'
  <2>1. access' \in [Chats -> BOOLEAN]
    BY <1>18, Zenon DEF Converge, Typed
  <2>2. held' = held \/ held' = [held EXCEPT ![c] = [held[c] EXCEPT !.attempts = 0]]
    BY <1>18, Zenon DEF Converge, Typed
  <2>3. held' \in [Chats -> Holds]
    <3>1. held[c] \in Holds
      BY Zenon DEF Typed
    <3>2. [held[c] EXCEPT !.attempts = 0] \in Holds
      BY <3>1, Zenon DEF Holds
    <3> QED BY <2>2, <3>2, Zenon DEF Typed
  <2> QED BY <1>18, <2>1, <2>3, Zenon DEF Converge, Typed
<1>19. ASSUME NEW c \in Chats, NEW l \in LogIDs, RepeatPush(c, l) PROVE Typed'
  BY <1>19 DEF RepeatPush, LogIDs, Typed
<1>20. CASE UNCHANGED vars
  BY <1>20, Zenon DEF vars, session, Typed
<1>21. ASSUME EndSession \/ CloseSession PROVE Typed'
  BY <1>3, <1>21, Zenon DEF EndSession, CloseSession
<1>22. ASSUME NEW c \in Chats, Bootstrap(c) \/ Retry(c) PROVE Typed'
  BY <1>6, <1>7, <1>8, <1>9, <1>10, <1>11, <1>12, <1>13, <1>22, Zenon DEF Bootstrap, Retry
<1> QED
  BY <1>1, <1>2, <1>4, <1>5, <1>14, <1>15, <1>16, <1>17, <1>18, <1>19, <1>20, <1>21, <1>22,
     Zenon DEF Next

-----------------------------------------------------------------------------
(* The inductive invariant *)

\* There is a session; it still receives; its inventory is the one it began with.
Up == phase # "down"
Open == phase \notin {"down", "closing"}
Early == phase \in {"chain", "discover", "seed"}

\* The chain has yet to run for chat c.
ChainDue(c) ==
  \/ phase = "chain" /\ c \in todo
  \/ ~StartupHistory /\ phase \in {"discover", "seed"}

\* What the chain found of chat c is delivered, or is yet to be found.
Emptied(c) == Pumping \/ (phase = "deliver" /\ c \notin todo) \/ ChainDue(c)

\* Chat c has not been seeded.
Unheld(c) ==
  phase = "discover" \/ (phase = "chain" /\ StartupHistory) \/ (phase = "seed" /\ c \in todo)

\* The lowest position the session must not skip.
Lo(c) == IF first[c] > 0 THEN first[c] ELSE base[c] + 1

\* What a hold answers for, what the session has taken from the stream, and
\* what the recovery is about to deliver.
Buffered(c) == Elements(held[c].events) \cup 1..held[c].missed
Decoded(c) == Accounted(c) \cup Buffered(c) \cup Elements(out[c])
Coming(c) == Elements(caught[c].events) \cup caught[c].missing
               \cup IF ChainDue(c) THEN (ResumePosition(mem, c) + 1)..base[c] ELSE {}

\* The positions the session knows of without looking at a push.
Cover(c) == Decoded(c) \cup Coming(c)

\* The elements of s rise.
Rising(s) == \A i, j \in 1..Len(s) : i < j => s[i] < s[j]

\* A checkpoint is not ahead of what is accounted for, and resumes in time.
Behind(cp, c) ==
  /\ first[c]..cp.cursor[c] \subseteq Accounted(c)
  /\ IF cp.cursor[c] > 0 THEN first[c] <= cp.cursor[c] + 1 ELSE cp.start[c] = first[c]

\* The file, with or without a session.  Before anything is promised the file
\* may be ahead of the memory: a failed write may have replaced it.
FileInv(c) ==
  /\ first[c] <= last[c] /\ Accounted(c) \subseteq 1..last[c]
  /\ disk.cursor[c] <= last[c] /\ disk.start[c] <= last[c]
  /\ first[c] > 0 => Behind(disk, c) /\ \A p \in bridged[c] : first[c]..p \subseteq Accounted(c)
  /\ first[c] = 0 =>
       /\ noticed[c] = {}
       /\ disk.cursor[c] > 0 => /\ disk.start[c] = 0 /\ disk.cursor[c] \in bridged[c]
                                /\ bridged[c] \subseteq 1..disk.cursor[c]
       /\ disk.start[c] > 0 => bridged[c] \subseteq 1..(disk.start[c] - 1)

\* The memory of a session.  Until something is promised it has committed
\* nothing, and the file can only be ahead by the position seeded at login.
MemInv(c) ==
  /\ base[c] <= last[c] /\ first[c] <= base[c] + 1
  /\ mem.cursor[c] <= last[c] /\ mem.start[c] <= last[c]
  /\ first[c] > 0 => Behind(mem, c)
  /\ first[c] = 0 => /\ mem.cursor[c] = 0 /\ mem.start[c] = 0
                     /\ disk.cursor[c] \in {0, base[c]}
                     /\ disk.start[c] = 0 \/ disk.start[c] > base[c]
                     /\ bridged[c] \subseteq 1..base[c]
  /\ Early => mem.known[c] = IF base[c] > 0 THEN base[c] ELSE NoTarget

\* What the recovery found is delivered from the front and skips nothing that
\* is neither accounted for nor to be noticed; it waits for no hold.
CaughtInv(c) ==
  /\ Rising(caught[c].events)
  /\ InLine(caught[c].events, Lo(c), Accounted(c) \cup caught[c].missing)
  /\ \A e \in Elements(caught[c].events) : e \in 1..last[c] /\ Lo(c) <= e + 1
  /\ caught[c].missing \subseteq 1..last[c]
  /\ ~caught[c].skipped =>
       \A e \in Elements(caught[c].events), m \in caught[c].missing : e < m
  /\ caught[c].events # <<>> => ~held[c].on
  /\ Emptied(c) \/ first[c] = 0 => caught[c].events = <<>> /\ caught[c].missing = {}

\* A hold is in line: the position at its front is the next one due.
HeldInv(c) ==
  /\ InLine(held[c].events, Lo(c), Accounted(c))
  /\ \A e \in Elements(held[c].events) : e \in 1..last[c] /\ Lo(c) <= e + 1
  /\ held[c].missed <= last[c]
  /\ ~held[c].on => held[c].events = <<>> /\ held[c].missed = 0
  /\ Unheld(c) => ~held[c].on
  /\ Early /\ held[c].on => first[c] = 0
  /\ first[c] = 0 => Elements(held[c].events) \subseteq 1..base[c] /\ held[c].missed = 0

\* The live stream.  What is queued is in line behind what is held, what the
\* server pushed is in line behind what the session knows of, and no position
\* from Lo(c) on is unknown to both.
StreamInv(c) ==
  /\ InLine(out[c], Lo(c), Accounted(c) \cup Buffered(c))
  /\ \A e \in Elements(out[c]) : e \in 1..last[c] /\ Lo(c) <= e + 1
  /\ ~Pumping \/ first[c] = 0 => out[c] = <<>>
  /\ Elements(pushes[c]) \subseteq (base[c] + 1)..last[c]
  /\ Open => /\ InLine(pushes[c], Lo(c), Cover(c))
             /\ Lo(c)..last[c] \subseteq Cover(c) \cup Elements(pushes[c])
  /\ \A l \in Nat : <<c, l>> \in Elements(seen) =>
       first[c] > 0 /\ Lo(c) <= l /\ l \in Decoded(c)

\* Nothing is left in memory without a session.
DownInv ==
  /\ ~Pumping => retrying = {}
  /\ ~Up => /\ mem = disk /\ seen = <<>>
            /\ \A c \in Chats :
                 /\ caught[c].events = <<>> /\ caught[c].missing = {} /\ ~held[c].on
                 /\ held[c].events = <<>> /\ held[c].missed = 0
                 /\ out[c] = <<>> /\ pushes[c] = <<>>

\* What holds of a chat while there is a session.
UpInv(c) == MemInv(c) /\ CaughtInv(c) /\ HeldInv(c) /\ StreamInv(c)

\* What holds of a chat.
ChatInv(c) == FileInv(c) /\ (Up => UpInv(c))

\* The inductive invariant.
DeliveryInv == Typed /\ DownInv /\ \A c \in Chats : ChatInv(c)
-----------------------------------------------------------------------------
(* Framing *)

\* The parts of a chat's state have their types.
Sized(c) ==
  /\ first[c] \in Nat /\ base[c] \in Nat /\ last[c] \in Nat /\ Lo(c) \in Nat
  /\ held[c].events \in Seq(Nat) /\ held[c].missed \in Nat /\ held[c].on \in BOOLEAN
  /\ caught[c].events \in Seq(Nat) /\ caught[c].missing \in SUBSET Nat
  /\ out[c] \in Seq(Nat) /\ pushes[c] \in Seq(Nat)
  /\ mem.cursor[c] \in Nat /\ mem.start[c] \in Nat /\ mem.known[c] \in Int
  /\ disk.cursor[c] \in Nat /\ disk.start[c] \in Nat
  /\ bridged[c] \in SUBSET Nat /\ noticed[c] \in SUBSET Nat

\* The types, chat by chat.
LEMMA Sizes == ASSUME Typed, NEW c \in Chats PROVE Sized(c)
<1>1. caught[c] \in Catches /\ held[c] \in Holds BY Zenon DEF Typed
<1>2. first[c] \in Nat /\ base[c] \in Nat /\ last[c] \in Nat
  BY MaxLogAssumption DEF Typed
<1>3. Lo(c) \in Nat BY <1>2 DEF Lo
<1>4. out[c] \in Seq(Nat) /\ pushes[c] \in Seq(Nat) /\ bridged[c] \in SUBSET Nat
      /\ noticed[c] \in SUBSET Nat
  BY Zenon DEF Typed
<1>5. mem.cursor[c] \in Nat /\ mem.start[c] \in Nat /\ mem.known[c] \in Int
      /\ disk.cursor[c] \in Nat /\ disk.start[c] \in Nat
  BY Zenon DEF Typed, CP
<1> QED BY <1>1, <1>2, <1>3, <1>4, <1>5, Zenon DEF Sized, Catches, Holds

\* The same after the step.
LEMMA SizesNext == ASSUME Typed', NEW c \in Chats PROVE Sized(c)'
<1>1. caught'[c] \in Catches /\ held'[c] \in Holds BY Zenon DEF Typed
<1>2. first'[c] \in Nat /\ base'[c] \in Nat /\ last'[c] \in Nat
  BY MaxLogAssumption DEF Typed
<1>3. Lo(c)' \in Nat BY <1>2 DEF Lo
<1>4. out'[c] \in Seq(Nat) /\ pushes'[c] \in Seq(Nat) /\ bridged'[c] \in SUBSET Nat
      /\ noticed'[c] \in SUBSET Nat
  BY Zenon DEF Typed
<1>5. mem'.cursor[c] \in Nat /\ mem'.start[c] \in Nat /\ mem'.known[c] \in Int
      /\ disk'.cursor[c] \in Nat /\ disk'.start[c] \in Nat
  BY Zenon DEF Typed, CP
<1> QED BY <1>1, <1>2, <1>3, <1>4, <1>5, Zenon DEF Sized, Catches, Holds

\* What a step accounts for stays accounted for, and the floor only comes
\* down to a position that is.
Grown(c) ==
  /\ Accounted(c) \subseteq Accounted(c)'
  /\ \/ Lo(c)' = Lo(c)
     \/ Lo(c)' = Lo(c) - 1 /\ Lo(c)' \in Accounted(c)'

\* A line stays in line when what is accounted for grows.
LEMMA LineGrown ==
  ASSUME NEW c \in Chats, Lo(c) \in Nat, Lo(c)' \in Nat, Grown(c),
         NEW s \in Seq(Nat), NEW S, NEW T, InLine(s, Lo(c), S),
         \A p \in Nat : Lo(c)' <= p /\ p \in S => p \in T, Accounted(c)' \subseteq T
  PROVE  InLine(s, Lo(c)', T)
<1>1. \A p \in Nat : Lo(c)' <= p /\ (p < Lo(c) \/ p \in S) => p \in T
  BY DEF Grown
<1> QED BY <1>1, LineKept, Zenon

\* The stage of the session has not moved back for chat d.
StageKept(d) ==
  /\ Up' /\ (Open' => Open) /\ (Early' => Early) /\ (Pumping => Pumping')
  /\ ChainDue(d)' <=> ChainDue(d)
  /\ Emptied(d)' => Emptied(d)
  /\ Unheld(d)' => Unheld(d)

\* A step that is not about chat d may only rewrite the file from memory.
Aside(d) ==
  /\ last'[d] = last[d] /\ base'[d] = base[d] /\ first'[d] = first[d]
  /\ bridged'[d] = bridged[d] /\ noticed'[d] = noticed[d]
  /\ pushes'[d] = pushes[d] /\ out'[d] = out[d]
  /\ caught'[d].events = caught[d].events /\ caught'[d].missing = caught[d].missing
  /\ caught'[d].skipped = caught[d].skipped
  /\ held'[d].on = held[d].on /\ held'[d].events = held[d].events
  /\ held'[d].missed = held[d].missed
  /\ mem'.cursor[d] = mem.cursor[d] /\ mem'.start[d] = mem.start[d]
  /\ mem'.known[d] = mem.known[d]
  /\ \/ disk'.cursor[d] = disk.cursor[d] /\ disk'.start[d] = disk.start[d]
     \/ disk'.cursor[d] = mem.cursor[d] /\ disk'.start[d] = mem.start[d]
  /\ \A l \in Nat : <<d, l>> \in Elements(seen') => <<d, l>> \in Elements(seen)
  /\ StageKept(d)

\* A chat the step is not about keeps its invariant.
LEMMA AsideKept ==
  ASSUME Typed, Typed', NEW d \in Chats, Up, ChatInv(d), Aside(d)
  PROVE  ChatInv(d)'
<1>1. FileInv(d) /\ MemInv(d) /\ CaughtInv(d) /\ HeldInv(d) /\ StreamInv(d)
  BY Zenon DEF ChatInv, UpInv
<1>2. Lo(d)' = Lo(d) /\ Accounted(d)' = Accounted(d) /\ Buffered(d)' = Buffered(d)
  BY Zenon DEF Aside, Lo, Accounted, Buffered
<1>3. Decoded(d)' = Decoded(d) BY <1>2, Zenon DEF Aside, Decoded
<1>4. Coming(d)' = Coming(d) BY Zenon DEF Aside, StageKept, Coming, ResumePosition
<1>5. Cover(d)' = Cover(d) BY <1>3, <1>4, Zenon DEF Cover
<1>6. FileInv(d)'
  <2>1. first[d] > 0 => Behind(disk, d)'
    <3> SUFFICES ASSUME first[d] > 0 PROVE Behind(disk, d)' BY Zenon
    <3>1. Behind(disk, d) /\ Behind(mem, d) BY <1>1, Zenon DEF FileInv, MemInv
    <3> QED BY <1>2, <3>1, Zenon DEF Aside, Behind
  <2>2. disk'.cursor[d] <= last[d] /\ disk'.start[d] <= last[d]
    BY <1>1, Zenon DEF Aside, FileInv, MemInv
  <2>3. CASE first[d] > 0
    <3>1. first[d] \in Nat BY Sizes, Zenon DEF Sized
    <3>2. ~(first[d] = 0) BY <2>3, <3>1
    <3> QED BY <1>1, <1>2, <2>1, <2>2, <2>3, <3>2, Zenon DEF Aside, FileInv
  <2>4. CASE ~(first[d] > 0)
    BY <1>1, <1>2, <2>2, <2>4, Zenon DEF Aside, FileInv, MemInv
  <2> QED BY <2>3, <2>4, Zenon
<1>7. MemInv(d)'
  <2>1. Behind(mem, d)' <=> Behind(mem, d) BY <1>2, Zenon DEF Aside, Behind
  <2> QED BY <1>1, <2>1, Sizes, SizesNext, Zenon DEF Aside, StageKept, MemInv, Sized
<1>8. CaughtInv(d)' BY <1>1, <1>2, Zenon DEF Aside, StageKept, CaughtInv
<1>9. HeldInv(d)' BY <1>1, <1>2, Zenon DEF Aside, StageKept, HeldInv
<1>10. StreamInv(d)'
  BY <1>1, <1>2, <1>3, <1>5, Zenon DEF Aside, StageKept, StreamInv
<1> QED BY <1>6, <1>7, <1>8, <1>9, <1>10, Zenon DEF ChatInv, UpInv

\* The floor never rises, and falls by at most one.
LEMMA FloorDown ==
  ASSUME Typed, Typed', NEW c \in Chats, Grown(c)
  PROVE  Lo(c)' <= Lo(c) /\ Lo(c) \in Nat /\ Lo(c)' \in Nat
<1>1. Lo(c) \in Nat /\ Lo(c)' \in Nat BY Sizes, SizesNext, Zenon DEF Sized
<1>2. Lo(c)' = Lo(c) \/ Lo(c)' = Lo(c) - 1 BY Zenon DEF Grown
<1> QED BY <1>1, <1>2

\* What was caught stays in line when what is accounted for grows.
LEMMA CaughtKept ==
  ASSUME Typed, Typed', NEW c \in Chats, CaughtInv(c), Grown(c), last'[c] >= last[c],
         first'[c] = 0 => first[c] = 0, caught'[c] = caught[c],
         held'[c].on => held[c].on \/ caught[c].events = <<>>,
         Emptied(c)' => Emptied(c) \/ (caught[c].events = <<>> /\ caught[c].missing = {})
  PROVE  CaughtInv(c)'
<1>0. /\ Lo(c)' <= Lo(c) /\ Lo(c) \in Nat /\ Lo(c)' \in Nat
      /\ last[c] \in Nat /\ last'[c] \in Nat /\ caught[c].events \in Seq(Nat)
  BY FloorDown, Sizes, SizesNext, Zenon DEF Sized
<1>1. InLine(caught[c].events, Lo(c)', Accounted(c)' \cup caught[c].missing)
  <2>1. \A p \in Nat : Lo(c)' <= p /\ p \in Accounted(c) \cup caught[c].missing
                         => p \in Accounted(c)' \cup caught[c].missing
    BY Zenon DEF Grown
  <2>2. InLine(caught[c].events, Lo(c), Accounted(c) \cup caught[c].missing)
    BY Zenon DEF CaughtInv
  <2>3. Accounted(c)' \subseteq Accounted(c)' \cup caught[c].missing BY Zenon
  <2> QED BY <1>0, <2>1, <2>2, <2>3, LineGrown, Zenon
<1>2. \A e \in Elements(caught[c].events) : e \in 1..last'[c] /\ Lo(c)' <= e + 1
  <2>1. \A e \in Elements(caught[c].events) : e \in 1..last[c] /\ Lo(c) <= e + 1
    BY Zenon DEF CaughtInv
  <2> QED BY <1>0, <2>1
<1>3. caught[c].missing \subseteq 1..last'[c]
  <2>1. caught[c].missing \subseteq 1..last[c] BY Zenon DEF CaughtInv
  <2> QED BY <1>0, <2>1
<1> QED BY <1>1, <1>2, <1>3, Zenon DEF CaughtInv

\* So does what is held.
LEMMA HeldKept ==
  ASSUME Typed, Typed', NEW c \in Chats, HeldInv(c), Grown(c), last'[c] >= last[c],
         base'[c] = base[c], first'[c] = 0 => first[c] = 0,
         held'[c].on = held[c].on, held'[c].events = held[c].events,
         held'[c].missed = held[c].missed,
         Unheld(c)' => Unheld(c) \/ ~held[c].on,
         Early' => Early /\ (first'[c] = first[c] \/ ~held[c].on)
  PROVE  HeldInv(c)'
<1>0. /\ Lo(c)' <= Lo(c) /\ Lo(c) \in Nat /\ Lo(c)' \in Nat /\ last[c] \in Nat
      /\ last'[c] \in Nat /\ held[c].events \in Seq(Nat) /\ held[c].missed \in Nat
  BY FloorDown, Sizes, SizesNext, Zenon DEF Sized
<1>1. InLine(held[c].events, Lo(c)', Accounted(c)')
  <2>1. \A p \in Nat : Lo(c)' <= p /\ p \in Accounted(c) => p \in Accounted(c)'
    BY Zenon DEF Grown
  <2>2. InLine(held[c].events, Lo(c), Accounted(c)) BY Zenon DEF HeldInv
  <2>3. Accounted(c)' \subseteq Accounted(c)' BY Zenon
  <2> QED BY <1>0, <2>1, <2>2, <2>3, LineGrown, Zenon
<1>2. /\ \A e \in Elements(held[c].events) : e \in 1..last'[c] /\ Lo(c)' <= e + 1
      /\ held[c].missed <= last'[c]
  <2>1. /\ \A e \in Elements(held[c].events) : e \in 1..last[c] /\ Lo(c) <= e + 1
        /\ held[c].missed <= last[c]
    BY Zenon DEF HeldInv
  <2> QED BY <1>0, <2>1
<1> QED BY <1>1, <1>2, Zenon DEF HeldInv

\* What the step still knows of the positions from the floor on.
Remembered(c) ==
  /\ \A p \in Nat : Lo(c)' <= p /\ p \in Cover(c) => p \in Cover(c)'
  /\ \A p \in Nat : Lo(c)' <= p /\ p \in Decoded(c) => p \in Decoded(c)'

\* So does the stream, if every position known of stays known.
LEMMA StreamKept ==
  ASSUME Typed, Typed', NEW c \in Chats, StreamInv(c), Grown(c), Remembered(c),
         last'[c] = last[c], base'[c] = base[c], first'[c] = 0 => first[c] = 0,
         pushes'[c] = pushes[c], Open' => Open,
         ~Pumping' \/ first'[c] = 0 => out'[c] = <<>>,
         InLine(out'[c], Lo(c)', (Accounted(c) \cup Buffered(c))'),
         Elements(out'[c]) \subseteq Elements(out[c]),
         \A l \in Nat : <<c, l>> \in Elements(seen') => <<c, l>> \in Elements(seen)
  PROVE  StreamInv(c)'
<1>0. /\ last[c] \in Nat /\ first[c] \in Nat /\ first'[c] \in Nat /\ pushes[c] \in Seq(Nat)
  BY Sizes, SizesNext, Zenon DEF Sized
<1>1. Lo(c)' <= Lo(c) /\ Lo(c) \in Nat /\ Lo(c)' \in Nat BY FloorDown, Zenon
<1>2. \A e \in Elements(out'[c]) : e \in 1..last'[c] /\ Lo(c)' <= e + 1
  <2>1. \A e \in Elements(out[c]) : e \in 1..last[c] /\ Lo(c) <= e + 1 BY Zenon DEF StreamInv
  <2> QED BY <1>0, <1>1, <2>1
<1>3. Accounted(c)' \subseteq Cover(c)' BY Zenon DEF Cover, Decoded
<1>4. Open => InLine(pushes[c], Lo(c)', Cover(c)')
  <2> SUFFICES ASSUME Open PROVE InLine(pushes[c], Lo(c)', Cover(c)') BY Zenon
  <2>1. InLine(pushes[c], Lo(c), Cover(c)) BY Zenon DEF StreamInv
  <2>2. \A p \in Nat : Lo(c)' <= p /\ p \in Cover(c) => p \in Cover(c)' BY Zenon DEF Remembered
  <2> QED BY <1>0, <1>1, <1>3, <2>1, <2>2, LineGrown, Zenon
<1>5. Open => Lo(c)'..last[c] \subseteq Cover(c)' \cup Elements(pushes[c])
  <2> SUFFICES ASSUME Open, NEW p \in Lo(c)'..last[c]
               PROVE  p \in Cover(c)' \cup Elements(pushes[c])
    BY Zenon
  <2>1. p \in Nat /\ Lo(c)' <= p BY <1>0, <1>1
  <2>2. CASE p < Lo(c) BY <1>1, <1>3, <2>1, <2>2 DEF Grown
  <2>3. CASE p >= Lo(c)
    <3>1. p \in Lo(c)..last[c] BY <1>0, <1>1, <2>1, <2>3
    <3>2. p \in Cover(c) \cup Elements(pushes[c]) BY <3>1, Zenon DEF StreamInv
    <3> QED BY <2>1, <3>2, Zenon DEF Remembered
  <2> QED BY <1>1, <2>1, <2>2, <2>3
<1>6. \A l \in Nat : <<c, l>> \in Elements(seen') =>
        first'[c] > 0 /\ Lo(c)' <= l /\ l \in Decoded(c)'
  <2> SUFFICES ASSUME NEW l \in Nat, <<c, l>> \in Elements(seen')
               PROVE  first'[c] > 0 /\ Lo(c)' <= l /\ l \in Decoded(c)'
    BY Zenon
  <2>1. first[c] > 0 /\ Lo(c) <= l /\ l \in Decoded(c) BY Zenon DEF StreamInv
  <2>2. Lo(c)' <= l BY <1>1, <2>1
  <2>3. first'[c] > 0 BY <1>0, <2>1
  <2> QED BY <2>1, <2>2, <2>3, Zenon DEF Remembered
<1> QED BY <1>2, <1>4, <1>5, <1>6, Zenon DEF StreamInv

\* The line of decoded events outlives a step that does not take one.
LEMMA OutKept ==
  ASSUME Typed, Typed', NEW c \in Chats, StreamInv(c), Grown(c), out'[c] = out[c],
         \A p \in Nat : Lo(c)' <= p /\ p \in Buffered(c) => p \in (Accounted(c) \cup Buffered(c))'
  PROVE  InLine(out'[c], Lo(c)', (Accounted(c) \cup Buffered(c))')
<1>0. Lo(c) \in Nat /\ Lo(c)' \in Nat /\ out[c] \in Seq(Nat) BY Sizes, SizesNext, Zenon DEF Sized
<1>1. InLine(out[c], Lo(c), Accounted(c) \cup Buffered(c)) BY Zenon DEF StreamInv
<1>2. \A p \in Nat : Lo(c)' <= p /\ p \in Accounted(c) \cup Buffered(c)
                       => p \in (Accounted(c) \cup Buffered(c))'
  BY Zenon DEF Grown
<1>3. Accounted(c)' \subseteq (Accounted(c) \cup Buffered(c))' BY Zenon
<1> QED BY <1>0, <1>1, <1>2, <1>3, LineGrown, Zenon

\* The step promises nothing new of chat c and takes nothing back.
Settled(c) ==
  /\ last'[c] >= last[c] /\ base'[c] = base[c] /\ first'[c] = first[c]
  /\ bridged'[c] = bridged[c]
  /\ noticed[c] \subseteq noticed'[c] /\ noticed'[c] \subseteq 1..last[c]
  /\ noticed'[c] = noticed[c] \/ first[c] > 0
  /\ mem'.cursor[c] = mem.cursor[c] /\ mem'.start[c] = mem.start[c]
  /\ \/ disk'.cursor[c] = disk.cursor[c] /\ disk'.start[c] = disk.start[c]
     \/ Up /\ disk'.cursor[c] = mem.cursor[c] /\ disk'.start[c] = mem.start[c]

\* A step that handles no event of chat c keeps the invariant of its file.
LEMMA FileKept ==
  ASSUME Typed, Typed', NEW c \in Chats, FileInv(c), Up => MemInv(c), Settled(c)
  PROVE  Grown(c) /\ FileInv(c)'
<1>0. /\ last[c] \in Nat /\ last'[c] \in Nat /\ first[c] \in Nat
      /\ disk.cursor[c] \in Nat /\ disk.start[c] \in Nat
      /\ mem.cursor[c] \in Nat /\ mem.start[c] \in Nat
  BY Sizes, SizesNext, Zenon DEF Sized
<1>1. Lo(c)' = Lo(c) BY Zenon DEF Settled, Lo
<1>2. Accounted(c) \subseteq Accounted(c)' BY Zenon DEF Settled, Accounted
<1>3. Accounted(c)' \subseteq 1..last'[c]
  <2>1. Accounted(c)' \subseteq 1..last[c] BY Zenon DEF Settled, Accounted, FileInv
  <2> QED BY <1>0, <2>1 DEF Settled
<1>4. first[c] > 0 => Behind(disk, c)'
  <2> SUFFICES ASSUME first[c] > 0 PROVE Behind(disk, c)' BY Zenon
  <2>1. Behind(disk, c) /\ (Up => Behind(mem, c)) BY Zenon DEF FileInv, MemInv
  <2> QED BY <1>2, <2>1, Zenon DEF Settled, Behind
<1>5. first[c] > 0 => \A p \in bridged[c] : first[c]..p \subseteq Accounted(c)'
  BY <1>2, Zenon DEF FileInv
<1>6. disk'.cursor[c] <= last'[c] /\ disk'.start[c] <= last'[c] /\ first[c] <= last'[c]
  <2>1. /\ first[c] <= last[c] /\ last'[c] >= last[c]
        /\ disk.cursor[c] <= last[c] /\ disk.start[c] <= last[c]
    BY Zenon DEF Settled, FileInv
  <2>2. \/ disk'.cursor[c] = disk.cursor[c] /\ disk'.start[c] = disk.start[c]
        \/ /\ disk'.cursor[c] = mem.cursor[c] /\ disk'.start[c] = mem.start[c]
           /\ mem.cursor[c] <= last[c] /\ mem.start[c] <= last[c]
    BY Zenon DEF Settled, MemInv
  <2> QED BY <1>0, <2>1, <2>2
<1>7. FileInv(c)'
  <2>1. CASE first[c] > 0
    <3>1. ~(first[c] = 0) BY <1>0, <2>1
    <3> QED BY <1>3, <1>4, <1>5, <1>6, <2>1, <3>1, Zenon DEF Settled, FileInv
  <2>2. CASE ~(first[c] > 0)
    BY <1>3, <1>6, <1>0, <2>2, Zenon DEF Settled, FileInv, MemInv
  <2> QED BY <2>1, <2>2, Zenon
<1> QED BY <1>1, <1>2, <1>7, Zenon DEF Grown

\* And that of its memory.
LEMMA MemKept ==
  ASSUME Typed, Typed', NEW c \in Chats, Up, FileInv(c), MemInv(c), Settled(c),
         Early' => Early /\ mem'.known[c] = mem.known[c]
  PROVE  MemInv(c)'
<1>0. /\ last[c] \in Nat /\ last'[c] \in Nat /\ first[c] \in Nat /\ base[c] \in Nat
      /\ mem.cursor[c] \in Nat /\ mem.start[c] \in Nat
  BY Sizes, SizesNext, Zenon DEF Sized
<1>1. Accounted(c) \subseteq Accounted(c)' BY Zenon DEF Settled, Accounted
<1>2. first[c] > 0 => Behind(mem, c)' BY <1>1, Zenon DEF Settled, Behind, MemInv
<1>3. base[c] <= last'[c] /\ mem.cursor[c] <= last'[c] /\ mem.start[c] <= last'[c]
  <2>1. /\ base[c] <= last[c] /\ mem.cursor[c] <= last[c] /\ mem.start[c] <= last[c]
        /\ last'[c] >= last[c]
    BY Zenon DEF Settled, MemInv
  <2> QED BY <1>0, <2>1
<1>4. first[c] = 0 => disk'.cursor[c] \in {0, base[c]}
                      /\ (disk'.start[c] = 0 \/ disk'.start[c] > base[c])
  BY Zenon DEF Settled, MemInv
<1>5. Early' => mem'.known[c] = IF base[c] > 0 THEN base[c] ELSE NoTarget
  BY Zenon DEF MemInv
<1>6. base'[c] = base[c] /\ first'[c] = first[c] /\ bridged'[c] = bridged[c]
      /\ mem'.cursor[c] = mem.cursor[c] /\ mem'.start[c] = mem.start[c]
  BY Zenon DEF Settled
<1> QED BY <1>2, <1>3, <1>4, <1>5, <1>6, Zenon DEF MemInv

-----------------------------------------------------------------------------
(* Handling an event *)

\* What HandleEvent may have done to chat c: nothing durable, a commit, or a
\* write that failed after it replaced the file.
Outcome(c, l, ok) ==
  /\ bridged'[c] = bridged[c] \/ bridged'[c] = bridged[c] \cup {l}
  /\ \/ ~ok /\ mem' = mem /\ disk' = disk /\ first' = first
     \/ /\ ok /\ l \in bridged'[c]
        /\ mem'.cursor[c] = Larger(mem.cursor[c], l) /\ mem'.start[c] = 0
        /\ mem'.known[c] = IF l > mem.cursor[c] THEN Larger(mem.known[c], l) ELSE mem.known[c]
        /\ disk' = mem'
        /\ first'[c] = IF first[c] = 0 \/ l < first[c] THEN l ELSE first[c]
     \/ /\ ~ok /\ mem' = mem /\ first' = first /\ l \in bridged'[c]
        /\ disk'.cursor[c] = Larger(mem.cursor[c], l) /\ disk'.start[c] = 0

\* HandleEvent has the outcomes of Outcome for its chat, and touches another
\* only by writing the memory to the file.
LEMMA Outcomes ==
  ASSUME Typed, NEW c \in Chats, NEW l \in Nat, NEW q, NEW ok \in BOOLEAN,
         HandleEvent(c, l, q, ok)
  PROVE  /\ Outcome(c, l, ok)
         /\ \A d \in Chats \ {c} :
              /\ first'[d] = first[d] /\ bridged'[d] = bridged[d]
              /\ mem'.cursor[d] = mem.cursor[d] /\ mem'.start[d] = mem.start[d]
              /\ mem'.known[d] = mem.known[d]
              /\ \/ disk'.cursor[d] = disk.cursor[d] /\ disk'.start[d] = disk.start[d]
                 \/ disk'.cursor[d] = mem.cursor[d] /\ disk'.start[d] = mem.start[d]
<1> DEFINE next == CommitMessage(mem, c, l)
<1>0. CP(mem) /\ CP(disk) /\ first \in [Chats -> Nat] /\ bridged \in [Chats -> SUBSET Nat]
  BY Zenon DEF Typed
<1>1. /\ next.cursor[c] = Larger(mem.cursor[c], l) /\ next.start[c] = 0
      /\ next.known[c] = IF l > mem.cursor[c] THEN Larger(mem.known[c], l) ELSE mem.known[c]
      /\ \A d \in Chats \ {c} : /\ next.cursor[d] = mem.cursor[d]
                                /\ next.start[d] = mem.start[d]
                                /\ next.known[d] = mem.known[d]
  <2>1. Committed(mem, next, c, l) BY <1>0, CommitChanges, Zenon
  <2> HIDE DEF next
  <2> QED BY <2>1, Zenon DEF Committed
<1> HIDE DEF next
<1>2. \/ UNCHANGED <<mem, disk, first, bridged>> /\ ~ok
      \/ /\ bridged' = [bridged EXCEPT ![c] = bridged[c] \cup {l}]
         /\ \/ ~ok /\ UNCHANGED <<mem, disk, first>>
            \/ /\ ok /\ mem' = next /\ disk' = next
               /\ first' = IF first[c] = 0 \/ l < first[c] THEN [first EXCEPT ![c] = l] ELSE first
            \/ ~ok /\ mem' = mem /\ first' = first /\ disk' = next
  <2>1. \/ ~ok /\ UNCHANGED <<mem, disk, first, bridged>>
        \/ /\ bridged' = [bridged EXCEPT ![c] = bridged[c] \cup {l}]
           /\ CommitEvent(c, l, q, ok)
    BY Zenon DEF HandleEvent
  <2>2. ASSUME CommitEvent(c, l, q, ok)
        PROVE  \/ ~ok /\ UNCHANGED <<mem, disk, first>>
               \/ /\ ok /\ mem' = next /\ disk' = next
                  /\ first' = IF first[c] = 0 \/ l < first[c]
                               THEN [first EXCEPT ![c] = l] ELSE first
               \/ ~ok /\ mem' = mem /\ first' = first /\ disk' = next
    <3>1. \/ ~ok /\ UNCHANGED <<mem, disk, first>>
          \/ /\ Write(next, ok)
             /\ first' = IF ok /\ (first[c] = 0 \/ l < first[c])
                           THEN [first EXCEPT ![c] = l] ELSE first
      BY <2>2, Zenon DEF CommitEvent, next
    <3>2. Write(next, ok) => \/ ok /\ mem' = next /\ disk' = next
                             \/ ~ok /\ mem' = mem /\ disk' \in {disk, next}
      BY Zenon DEF Write
    <3> QED BY <3>1, <3>2, Zenon
  <2> QED BY <2>1, <2>2, Zenon
<1>3. CASE UNCHANGED <<mem, disk, first, bridged>> /\ ~ok
  BY <1>3, Zenon DEF Outcome
<1>4. ASSUME bridged' = [bridged EXCEPT ![c] = bridged[c] \cup {l}]
      PROVE  /\ bridged'[c] = bridged[c] \cup {l} /\ l \in bridged'[c]
             /\ \A d \in Chats \ {c} : bridged'[d] = bridged[d]
  BY <1>0, <1>4, Zenon
<1>5. CASE /\ bridged' = [bridged EXCEPT ![c] = bridged[c] \cup {l}]
           /\ ~ok /\ UNCHANGED <<mem, disk, first>>
  BY <1>4, <1>5, Zenon DEF Outcome
<1>6. CASE /\ bridged' = [bridged EXCEPT ![c] = bridged[c] \cup {l}]
           /\ ok /\ mem' = next /\ disk' = next
           /\ first' = IF first[c] = 0 \/ l < first[c] THEN [first EXCEPT ![c] = l] ELSE first
  <2>1. /\ first'[c] = IF first[c] = 0 \/ l < first[c] THEN l ELSE first[c]
        /\ \A d \in Chats \ {c} : first'[d] = first[d]
    BY <1>0, <1>6, Zenon
  <2> QED BY <1>1, <1>4, <1>6, <2>1, Zenon DEF Outcome
<1>7. CASE /\ bridged' = [bridged EXCEPT ![c] = bridged[c] \cup {l}]
           /\ ~ok /\ mem' = mem /\ first' = first /\ disk' = next
  BY <1>1, <1>4, <1>7, Zenon DEF Outcome
<1> QED BY <1>2, <1>3, <1>5, <1>6, <1>7, Zenon

\* The chat's state after an event was handled: what the caller relies on.
Handled(c, l, ok) ==
  /\ Grown(c) /\ Accounted(c)' \subseteq Accounted(c) \cup {l}
  /\ ok => l \in Accounted(c)' /\ first'[c] > 0
  /\ ~ok => first'[c] = first[c] /\ mem' = mem
  /\ first'[c] = 0 => first[c] = 0
  /\ FileInv(c)' /\ MemInv(c)'

\* Handling the next position of a line keeps the file and the memory honest.
LEMMA HandledWell ==
  ASSUME Typed, Typed', NEW c \in Chats, NEW l \in Nat, NEW q, NEW ok \in BOOLEAN,
         HandleEvent(c, l, q, ok), FileInv(c), MemInv(c),
         l \in 1..last[c], Lo(c)..(l - 1) \subseteq Accounted(c), Lo(c) <= l + 1,
         first[c] = 0 => l = base[c],
         last' = last, base' = base, noticed' = noticed,
         Early' => Early /\ l = mem.known[c]
  PROVE  Handled(c, l, ok)
<1> DEFINE A == Accounted(c)
           B == Accounted(c)'
<1>0. /\ last[c] \in Nat /\ first[c] \in Nat /\ first'[c] \in Nat /\ base[c] \in Nat
      /\ mem.cursor[c] \in Nat /\ mem.start[c] \in Nat /\ mem.known[c] \in Int
      /\ disk.cursor[c] \in Nat /\ disk.start[c] \in Nat
      /\ l >= 1 /\ l <= last[c]
  <2>1. last[c] \in Nat BY Sizes, Zenon DEF Sized
  <2>2. l >= 1 /\ l <= last[c] BY <2>1
  <2> QED BY <2>2, Sizes, SizesNext, Zenon DEF Sized
<1>1. Outcome(c, l, ok) BY Outcomes, Zenon
<1>2. A \subseteq B /\ B \subseteq A \cup {l} /\ (l \in bridged'[c] => l \in B)
  BY <1>1, Zenon DEF Outcome, Accounted
<1> HIDE DEF A, B
<1>3. B \subseteq 1..last[c]
  <2>1. A \subseteq 1..last[c] BY Zenon DEF FileInv, A
  <2> QED BY <1>2, <2>1, Zenon
<1>4. CASE first[c] > 0
  <2>1. Lo(c) = first[c] /\ first[c] <= l + 1 /\ first[c]..(l - 1) \subseteq A
    BY <1>4, Zenon DEF Lo, A
  <2>2. /\ first[c] <= last[c] /\ first[c] <= base[c] + 1 /\ base[c] <= last[c]
        /\ disk.cursor[c] <= last[c] /\ disk.start[c] <= last[c]
        /\ mem.cursor[c] <= last[c] /\ mem.start[c] <= last[c]
    BY Zenon DEF FileInv, MemInv
  <2>3. Behind(disk, c) /\ Behind(mem, c) BY <1>4, Zenon DEF FileInv, MemInv
  <2>4. \A p \in bridged[c] : first[c]..p \subseteq A BY <1>4, Zenon DEF FileInv, A
  <2>5. \A p \in bridged'[c] : p = l \/ p \in bridged[c] BY <1>1, Zenon DEF Outcome
  <2>6. bridged'[c] \subseteq Nat BY SizesNext, Zenon DEF Sized
  <2>7. first[c]..Larger(mem.cursor[c], l) \subseteq A \cup {l}
    <3>1. first[c]..mem.cursor[c] \subseteq A BY <2>3, Zenon DEF Behind, A
    <3> QED BY <1>0, <2>1, <3>1 DEF Larger
  <2>8. CASE ok
    <3>1. /\ l \in B /\ disk' = mem' /\ mem'.start[c] = 0
          /\ mem'.cursor[c] = Larger(mem.cursor[c], l)
          /\ first'[c] = IF l < first[c] THEN l ELSE first[c]
      <4>1. ~(first[c] = 0) BY <1>0, <1>4
      <4> QED BY <1>1, <1>2, <2>8, <4>1, Zenon DEF Outcome
    <3>2. first'[c] > 0 /\ first'[c] <= first[c] BY <1>0, <1>4, <3>1
    <3>3. Lo(c)' = first'[c] BY <3>2, Zenon DEF Lo
    <3>4. Grown(c)
      <4>1. Lo(c)' = Lo(c) \/ (Lo(c)' = Lo(c) - 1 /\ Lo(c)' = l)
        BY <1>0, <2>1, <3>1, <3>3
      <4> QED BY <1>2, <3>1, <4>1, Zenon DEF Grown, A, B
    <3>5. \A p \in Nat : first'[c] <= p /\ p < first[c] => p \in B
      <4>1. l \in Nat /\ first[c] \in Nat /\ first'[c] = IF l < first[c] THEN l ELSE first[c]
        BY <1>0, <3>1, Zenon
      <4>2. first[c] <= l + 1 /\ l \in B BY <2>1, <3>1, Zenon
      <4> QED BY <4>1, <4>2
    <3>6. Behind(mem, c)'
      <4>1. first'[c]..mem'.cursor[c] \subseteq B
        <5> SUFFICES ASSUME NEW p \in first'[c]..mem'.cursor[c] PROVE p \in B BY Zenon
        <5>1. mem'.cursor[c] \in Nat /\ p \in Nat /\ first'[c] <= p
          <6>1. /\ l \in Nat /\ first[c] \in Nat /\ mem.cursor[c] \in Nat
                /\ first'[c] = (IF l < first[c] THEN l ELSE first[c])
                /\ mem'.cursor[c] = Larger(mem.cursor[c], l)
            BY <1>0, <3>1, Zenon
          <6> QED BY <6>1 DEF Larger
        <5>2. p < first[c] \/ p \in first[c]..Larger(mem.cursor[c], l)
          BY <1>0, <3>1, <5>1
        <5> QED BY <1>2, <2>7, <3>1, <3>5, <5>1, <5>2, Zenon
      <4>2. mem'.cursor[c] > 0 /\ first'[c] <= mem'.cursor[c] + 1
        BY <1>0, <2>1, <3>1, <3>2 DEF Larger
      <4> QED BY <4>1, <4>2, Zenon DEF Behind, B
    <3>7. \A p \in bridged'[c] : first'[c]..p \subseteq B
      <4> SUFFICES ASSUME NEW p \in bridged'[c], NEW r \in first'[c]..p PROVE r \in B
        BY Zenon
      <4>1. p \in Nat /\ r \in Nat /\ first'[c] <= r /\ r <= p BY <1>0, <2>6
      <4>2. CASE r < first[c] BY <3>5, <4>1, <4>2, Zenon
      <4>3. CASE r >= first[c] /\ p = l
        <5>1. r = l \/ r \in first[c]..(l - 1) BY <1>0, <4>1, <4>3
        <5> QED BY <1>2, <2>1, <3>1, <5>1, Zenon
      <4>4. CASE r >= first[c] /\ p \in bridged[c]
        <5>1. r \in first[c]..p BY <1>0, <4>1, <4>4
        <5> QED BY <1>2, <2>4, <4>4, <5>1, Zenon
      <4> QED BY <1>0, <2>5, <4>1, <4>2, <4>3, <4>4
    <3>8. mem'.cursor[c] <= last[c] /\ first'[c] <= last[c] /\ first'[c] <= base[c] + 1
      BY <1>0, <2>2, <3>1, <3>2 DEF Larger
    <3>9. mem'.start[c] <= last[c] BY <1>0, <3>1
    <3>10. ~(first'[c] = 0) BY <3>2
    <3>11. FileInv(c)'
      <4>1. Behind(disk, c)' BY <3>1, <3>6, Zenon DEF Behind
      <4>2. Accounted(c)' \subseteq 1..last'[c] BY <1>3, Zenon DEF B
      <4>3. \A p \in bridged'[c] : first'[c]..p \subseteq Accounted(c)' BY <3>7, Zenon DEF B
      <4> QED BY <3>1, <3>8, <3>9, <3>10, <4>1, <4>2, <4>3, Zenon DEF FileInv
    <3>12. MemInv(c)'
      <4>1. Early' => mem'.known[c] = mem.known[c]
        BY <1>0, <1>1, <2>8, Zenon DEF Outcome, Larger
      <4>2. Early' => mem'.known[c] = IF base[c] > 0 THEN base[c] ELSE NoTarget
        BY <4>1, Zenon DEF MemInv
      <4> QED BY <2>2, <3>6, <3>8, <3>9, <3>10, <4>2, Zenon DEF MemInv
    <3> QED BY <1>2, <2>8, <3>1, <3>2, <3>4, <3>10, <3>11, <3>12, Zenon DEF Handled, A, B
  <2>9. CASE ~ok
    <3>1. /\ mem' = mem /\ first' = first
          /\ \/ disk' = disk
             \/ /\ l \in B /\ disk'.start[c] = 0
                /\ disk'.cursor[c] = Larger(mem.cursor[c], l)
      BY <1>1, <1>2, <2>9, Zenon DEF Outcome
    <3>2. Lo(c)' = Lo(c) BY <3>1, Zenon DEF Lo
    <3>3. Grown(c) BY <1>2, <3>2, Zenon DEF Grown, A, B
    <3>4. Behind(mem, c)' BY <1>2, <2>3, <3>1, Zenon DEF Behind, A, B
    <3>5. Behind(disk, c)' /\ disk'.cursor[c] <= last[c] /\ disk'.start[c] <= last[c]
      <4>1. CASE disk' = disk
        <5>1. Behind(disk, c)' BY <1>2, <2>3, <3>1, <4>1, Zenon DEF Behind, A, B
        <5> QED BY <2>2, <4>1, <5>1, Zenon
      <4>2. CASE /\ l \in B /\ disk'.start[c] = 0
                 /\ disk'.cursor[c] = Larger(mem.cursor[c], l)
        <5>1. first[c]..disk'.cursor[c] \subseteq B BY <1>2, <2>7, <4>2, Zenon
        <5>2. disk'.cursor[c] > 0 /\ first[c] <= disk'.cursor[c] + 1
              /\ disk'.cursor[c] <= last[c]
          BY <1>0, <2>1, <2>2, <4>2 DEF Larger
        <5>3. Behind(disk, c)' BY <3>1, <5>1, <5>2, Zenon DEF Behind, B
        <5> QED BY <1>0, <4>2, <5>2, <5>3
      <4> QED BY <3>1, <4>1, <4>2, Zenon
    <3>6. \A p \in bridged'[c] : first[c]..p \subseteq B
      <4> SUFFICES ASSUME NEW p \in bridged'[c] PROVE first[c]..p \subseteq B BY Zenon
      <4>1. CASE p \in bridged[c] BY <1>2, <2>4, <4>1, Zenon
      <4>2. CASE p = l /\ p \notin bridged[c]
        <5>1. l \in B BY <1>2, <4>2, Zenon
        <5>2. first[c]..l \subseteq A \cup {l} BY <1>0, <2>1
        <5> QED BY <1>2, <4>2, <5>1, <5>2, Zenon
      <4> QED BY <2>5, <4>1, <4>2, Zenon
    <3>7. ~(first[c] = 0) BY <1>4
    <3>8. FileInv(c)'
      <4>1. Accounted(c)' \subseteq 1..last'[c] BY <1>3, Zenon DEF B
      <4>2. \A p \in bridged'[c] : first'[c]..p \subseteq Accounted(c)' BY <3>1, <3>6, Zenon DEF B
      <4> QED BY <2>2, <3>1, <3>5, <3>7, <4>1, <4>2, Zenon DEF FileInv
    <3>9. MemInv(c)'
      <4>1. Early' => mem'.known[c] = IF base[c] > 0 THEN base[c] ELSE NoTarget
        BY <3>1, Zenon DEF MemInv
      <4> QED BY <2>2, <3>1, <3>4, <3>7, <4>1, Zenon DEF MemInv
    <3> QED BY <1>2, <2>9, <3>1, <3>3, <3>8, <3>9, Zenon DEF Handled, A, B
  <2> QED BY <2>8, <2>9, Zenon
<1>5. CASE ~(first[c] > 0)
  <2>1. first[c] = 0 /\ l = base[c] /\ Lo(c) = base[c] + 1 BY <1>0, <1>5 DEF Lo
  <2>2. /\ mem.cursor[c] = 0 /\ mem.start[c] = 0 /\ disk.cursor[c] \in {0, base[c]}
        /\ disk.start[c] = 0 \/ disk.start[c] > base[c]
        /\ bridged[c] \subseteq 1..base[c] /\ noticed[c] = {} /\ base[c] <= last[c]
    BY <2>1, Zenon DEF FileInv, MemInv
  <2>3. bridged'[c] \subseteq 1..base[c]
    <3>1. bridged'[c] = bridged[c] \/ bridged'[c] = bridged[c] \cup {l} BY <1>1, Zenon DEF Outcome
    <3>2. l \in 1..base[c] BY <1>0, <2>1
    <3> QED BY <2>2, <3>1, <3>2, Zenon
  <2>4. Larger(mem.cursor[c], l) = l BY <1>0, <2>2 DEF Larger
  <2>5. CASE ok
    <3>1. /\ l \in B /\ disk' = mem' /\ mem'.start[c] = 0 /\ mem'.cursor[c] = l
          /\ first'[c] = l
      BY <1>1, <1>2, <2>1, <2>4, <2>5, Zenon DEF Outcome
    <3>2. ~(first'[c] = 0) /\ first'[c] > 0 BY <1>0, <3>1
    <3>3. Grown(c)
      <4>1. Lo(c)' = Lo(c) - 1 /\ Lo(c)' = l BY <1>0, <2>1, <3>1, <3>2 DEF Lo
      <4> QED BY <1>2, <3>1, <4>1, Zenon DEF Grown, A, B
    <3>4. Behind(mem, c)'
      <4>1. first'[c]..mem'.cursor[c] \subseteq B BY <1>0, <3>1
      <4>2. mem'.cursor[c] > 0 /\ first'[c] <= mem'.cursor[c] + 1 BY <1>0, <3>1
      <4> QED BY <4>1, <4>2, Zenon DEF Behind, B
    <3>5. \A p \in bridged'[c] : first'[c]..p \subseteq B
      BY <1>0, <2>1, <2>3, <3>1
    <3>6. mem'.cursor[c] <= last[c] /\ mem'.start[c] <= last[c] /\ first'[c] <= last[c]
          /\ first'[c] <= base[c] + 1
      BY <1>0, <2>1, <3>1
    <3>7. FileInv(c)'
      <4>1. Behind(disk, c)' BY <3>1, <3>4, Zenon DEF Behind
      <4>2. Accounted(c)' \subseteq 1..last'[c] BY <1>3, Zenon DEF B
      <4>3. \A p \in bridged'[c] : first'[c]..p \subseteq Accounted(c)' BY <3>5, Zenon DEF B
      <4> QED BY <3>1, <3>2, <3>6, <4>1, <4>2, <4>3, Zenon DEF FileInv
    <3>8. MemInv(c)'
      <4>1. Early' => mem'.known[c] = mem.known[c]
        BY <1>0, <1>1, <2>5, Zenon DEF Outcome, Larger
      <4>2. Early' => mem'.known[c] = IF base[c] > 0 THEN base[c] ELSE NoTarget
        BY <4>1, Zenon DEF MemInv
      <4> QED BY <2>2, <3>2, <3>4, <3>6, <4>2, Zenon DEF MemInv
    <3> QED BY <1>2, <2>5, <3>1, <3>2, <3>3, <3>7, <3>8, Zenon DEF Handled, A, B
  <2>6. CASE ~ok
    <3>1. /\ mem' = mem /\ first' = first
          /\ \/ disk' = disk
             \/ l \in bridged'[c] /\ disk'.start[c] = 0 /\ disk'.cursor[c] = l
      BY <1>1, <2>4, <2>6, Zenon DEF Outcome
    <3>2. Lo(c)' = Lo(c) BY <3>1, Zenon DEF Lo
    <3>3. Grown(c) BY <1>2, <3>2, Zenon DEF Grown, A, B
    <3>4. /\ disk'.cursor[c] \in {0, base[c]} /\ disk'.cursor[c] <= last[c]
          /\ disk'.start[c] = 0 \/ disk'.start[c] > base[c]
          /\ disk'.start[c] <= last[c]
      BY <1>0, <2>1, <2>2, <3>1, Zenon DEF FileInv
    <3>5. disk'.cursor[c] > 0 => /\ disk'.start[c] = 0 /\ disk'.cursor[c] \in bridged'[c]
                                 /\ bridged'[c] \subseteq 1..disk'.cursor[c]
      <4>1. CASE disk' = disk
        <5>1. bridged[c] \subseteq bridged'[c] BY <1>1, Zenon DEF Outcome
        <5>2. disk.cursor[c] > 0 => disk.start[c] = 0 /\ disk.cursor[c] \in bridged[c]
          BY <2>1, Zenon DEF FileInv
        <5> QED BY <1>0, <2>2, <2>3, <4>1, <5>1, <5>2
      <4>2. CASE l \in bridged'[c] /\ disk'.start[c] = 0 /\ disk'.cursor[c] = l
        BY <2>1, <2>3, <4>2, Zenon
      <4> QED BY <3>1, <4>1, <4>2, Zenon
    <3>6. disk'.start[c] > 0 => bridged'[c] \subseteq 1..(disk'.start[c] - 1)
      <4>1. disk'.start[c] \in Nat BY SizesNext, Zenon DEF Sized
      <4> QED BY <1>0, <2>3, <3>4, <4>1
    <3>7. FileInv(c)'
      <4>1. Accounted(c)' \subseteq 1..last'[c] BY <1>3, Zenon DEF B
      <4>2. first'[c] <= last'[c] /\ ~(first'[c] > 0) BY <1>0, <2>1, <3>1
      <4> QED BY <2>2, <3>1, <3>4, <3>5, <3>6, <4>1, <4>2, Zenon DEF FileInv
    <3>8. MemInv(c)'
      <4>1. Early' => mem'.known[c] = IF base[c] > 0 THEN base[c] ELSE NoTarget
        BY <3>1, Zenon DEF MemInv
      <4>2. ~(first'[c] > 0) /\ first'[c] <= base'[c] + 1 BY <1>0, <2>1, <3>1
      <4>3. mem'.cursor[c] <= last'[c] /\ mem'.start[c] <= last'[c] BY <3>1, Zenon DEF MemInv
      <4> QED BY <2>2, <2>3, <3>1, <3>4, <4>1, <4>2, <4>3, Zenon DEF MemInv
    <3> QED BY <1>2, <2>6, <3>1, <3>3, <3>7, <3>8, Zenon DEF Handled, A, B
  <2> QED BY <2>5, <2>6, Zenon
<1> QED BY <1>4, <1>5, Zenon

-----------------------------------------------------------------------------
(* The stages of a session *)

\* A chat's part of a bootstrap stage ends.
LEMMA StageEnds ==
  ASSUME Typed, NEW c \in todo, Finished(c), phase \in {"seed", "chain", "deliver"}
  PROVE  /\ \A d \in Chats \ {c} : StageKept(d)
         /\ Up /\ Up' /\ Open /\ Open' /\ (Early' => Early) /\ ~Pumping
         /\ ~Unheld(c)' \/ (phase = "chain" /\ Unheld(c))
         /\ phase = "seed" => StageKept(c)
         /\ phase = "chain" => ChainDue(c) /\ ~ChainDue(c)' /\ ~Emptied(c)' /\ ~Pumping'
         /\ phase = "deliver" => ~ChainDue(c) /\ ~ChainDue(c)' /\ ~Early'
<1> USE DEF StageKept, Up, Open, Early, Pumping, ChainDue, Emptied, Unheld
<1>0. c \in Chats /\ todo \subseteq Chats BY Zenon DEF Typed
<1>1. CASE todo # {c}
  <2>1. phase' = phase /\ todo' = todo \ {c} BY <1>1, Zenon DEF Finished
  <2> QED BY <1>0, <2>1, Zenon
<1>2. CASE todo = {c}
  <2>1. phase' = Successor(phase) /\ todo' = IF phase = "deliver" THEN {} ELSE Chats
    BY <1>2, Zenon DEF Finished
  <2>2. CASE phase = "seed"
    <3>1. phase' = IF StartupHistory THEN "deliver" ELSE "chain" BY <2>1, <2>2, Zenon DEF Successor
    <3>2. todo' = Chats BY <2>1, <2>2, Zenon
    <3> QED BY <1>0, <1>2, <2>2, <3>1, <3>2, DeliveryAssumption, Zenon
  <2>3. CASE phase = "chain"
    <3>1. phase' = IF StartupHistory THEN "discover" ELSE "deliver"
      BY <2>1, <2>3, Zenon DEF Successor
    <3>2. todo' = Chats BY <2>1, <2>3, Zenon
    <3> QED BY <1>0, <1>2, <2>3, <3>1, <3>2, DeliveryAssumption, Zenon
  <2>4. CASE phase = "deliver"
    <3>1. phase' = "live" BY <2>1, <2>4, Zenon DEF Successor
    <3> QED BY <1>0, <1>2, <2>4, <3>1, Zenon
  <2> QED BY <2>2, <2>3, <2>4, Zenon
<1> QED BY <1>1, <1>2, Zenon

\* A step within a phase keeps the stage.
LEMMA StageSame ==
  ASSUME UNCHANGED <<phase, todo>>, Up
  PROVE  \A d \in Chats : StageKept(d)
BY Zenon DEF StageKept, Up, Open, Early, Pumping, ChainDue, Emptied, Unheld

\* The live stages.
LEMMA Lively ==
  ASSUME Pumping, NEW c \in Chats
  PROVE  Up /\ ~Early /\ ~ChainDue(c) /\ Emptied(c) /\ ~Unheld(c)
BY Zenon DEF Pumping, Up, Early, ChainDue, Emptied, Unheld

-----------------------------------------------------------------------------
(* Bootstrap *)

\* The invariant of every chat.
Honest == \A d \in Chats : ChatInv(d)

\* Its parts, during a session.
LEMMA Honestly ==
  ASSUME Honest, Up, NEW c \in Chats
  PROVE  FileInv(c) /\ MemInv(c) /\ CaughtInv(c) /\ HeldInv(c) /\ StreamInv(c)
BY Zenon DEF Honest, ChatInv, UpInv

\* A step about chat c, the others standing aside.
LEMMA OneChat ==
  ASSUME Typed, Typed', Honest, Up, NEW c \in Chats, \A d \in Chats \ {c} : Aside(d),
         FileInv(c)', MemInv(c)', CaughtInv(c)', HeldInv(c)', StreamInv(c)'
  PROVE  Honest'
<1>1. ASSUME NEW d \in Chats \ {c} PROVE ChatInv(d)'
  <2>1. d \in Chats /\ Aside(d) /\ ChatInv(d) BY Zenon DEF Honest
  <2> QED BY <2>1, AsideKept, Zenon
<1>2. ChatInv(c)' BY Zenon DEF ChatInv, UpInv
<1> QED BY <1>1, <1>2, Zenon DEF Honest

\* Handling an event is not about the other chats.
LEMMA HandleAside ==
  ASSUME Typed, NEW c \in Chats, NEW l \in Nat, NEW q, NEW ok \in BOOLEAN,
         HandleEvent(c, l, q, ok),
         \A d \in Chats \ {c} : held'[d] = held[d] /\ caught'[d] = caught[d] /\ out'[d] = out[d],
         UNCHANGED <<last, base, pushes, seen, noticed>>,
         \A d \in Chats \ {c} : StageKept(d)
  PROVE  \A d \in Chats \ {c} : Aside(d)
<1> SUFFICES ASSUME NEW d \in Chats \ {c} PROVE Aside(d) BY Zenon
<1>1. /\ first'[d] = first[d] /\ bridged'[d] = bridged[d]
      /\ mem'.cursor[d] = mem.cursor[d] /\ mem'.start[d] = mem.start[d]
      /\ mem'.known[d] = mem.known[d]
      /\ \/ disk'.cursor[d] = disk.cursor[d] /\ disk'.start[d] = disk.start[d]
         \/ disk'.cursor[d] = mem.cursor[d] /\ disk'.start[d] = mem.start[d]
  BY Outcomes, Zenon
<1> QED BY <1>1, Zenon DEF Aside

\* A step that leaves a chat alone is not about it.
LEMMA QuietAside ==
  ASSUME NEW d \in Chats, UNCHANGED <<mem, disk, base, seen, first, bridged>>,
         last'[d] = last[d], noticed'[d] = noticed[d],
         held'[d].on = held[d].on, held'[d].events = held[d].events,
         held'[d].missed = held[d].missed,
         caught'[d] = caught[d], out'[d] = out[d], pushes'[d] = pushes[d], StageKept(d)
  PROVE  Aside(d)
BY Zenon DEF Aside

\* The empty line is in line.
LEMMA LineEmpty == ASSUME NEW lo, NEW S PROVE InLine(<<>>, lo, S) /\ Elements(<<>>) = {}
BY DEF InLine, Elements

\* A line of one is in line if nothing below it is missing.
LEMMA LineOne ==
  ASSUME NEW l \in Nat, NEW lo \in Nat, NEW S, lo..(l - 1) \subseteq S
  PROVE  InLine(<<l>>, lo, S)
BY DEF InLine

\* A login hands the newest message of a chat without a cursor to the handler,
\* and holds it if that fails.
LEMMA SeedKeeps ==
  ASSUME Typed, Typed', Honest, NEW c \in Chats, Seed(c)
  PROVE  Honest'
<1> DEFINE l == mem.known[c]
<1>0. /\ phase = "seed" /\ c \in todo /\ Finished(c)
      /\ UNCHANGED <<last, base, caught, pushes, seen, out, noticed>>
  BY Zenon DEF Seed
<1>1. /\ \A d \in Chats : StageKept(d)
      /\ Up /\ (Early' => Early) /\ ~Pumping /\ ~Unheld(c)'
  BY <1>0, StageEnds, Zenon
<1>2. CASE UNCHANGED <<mem, disk, held, bridged, first>>
  <2>1. \A d \in Chats : Aside(d) BY <1>0, <1>1, <1>2, QuietAside, Zenon
  <2> QED BY <1>1, <2>1, AsideKept, Zenon DEF Honest
<1>3. ASSUME mem.cursor[c] = 0, mem.start[c] = 0, l > 0, NEW ok \in BOOLEAN,
             HandleEvent(c, l, <<l>>, ok),
             IF ok THEN UNCHANGED <<held, lookups>> ELSE ScheduleHeld(c, HoldOf(<<l>>))
      PROVE  Honest'
  <2>0. FileInv(c) /\ MemInv(c) /\ CaughtInv(c) /\ HeldInv(c) /\ StreamInv(c)
    BY <1>1, Honestly, Zenon
  <2>1. /\ first[c] \in Nat /\ base[c] \in Nat /\ last[c] \in Nat /\ l \in Nat
        /\ Lo(c) \in Nat /\ Lo(c)' \in Nat
    <3>1. first[c] \in Nat /\ base[c] \in Nat /\ last[c] \in Nat /\ l \in Int
          /\ Lo(c) \in Nat /\ Lo(c)' \in Nat
      BY Sizes, SizesNext, Zenon DEF Sized
    <3> QED BY <1>3, <3>1
  <2>2. first[c] = 0
    <3>1. mem.cursor[c] = 0 /\ mem.start[c] = 0 BY <1>3, Zenon
    <3>2. ~(mem.cursor[c] > 0) BY <3>1
    <3>3. first[c] > 0 => mem.start[c] = first[c] BY <2>0, <3>2, Zenon DEF MemInv, Behind
    <3> QED BY <2>1, <3>1, <3>3
  <2>3. l = base[c] /\ base[c] <= last[c]
    <3>1. Early BY <1>0, Zenon DEF Early
    <3>2. l = (IF base[c] > 0 THEN base[c] ELSE -1) /\ base[c] <= last[c]
      BY <2>0, <3>1, Zenon DEF MemInv, NoTarget
    <3>3. l > 0 BY <1>3, Zenon
    <3> QED BY <2>1, <3>2, <3>3
  <2>4. Lo(c) = base[c] + 1 /\ Lo(c)..(l - 1) = {} /\ l \in 1..last[c] /\ Lo(c) <= l + 1
    <3>1. l > 0 BY <1>3, Zenon
    <3>2. Lo(c) = base[c] + 1 BY <2>2 DEF Lo
    <3> QED BY <2>1, <2>3, <3>1, <3>2
  <2> HIDE DEF l
  <2>5. Handled(c, l, ok)
    <3>1. Lo(c)..(l - 1) \subseteq Accounted(c) BY <2>4, Zenon
    <3>2. Early' => Early /\ l = mem.known[c] BY <1>1, Zenon DEF l
    <3> QED BY <1>0, <1>3, <2>0, <2>1, <2>2, <2>3, <2>4, <3>1, <3>2, HandledWell, Zenon
  <2>6. /\ held[c].on = FALSE /\ held[c].events = <<>> /\ held[c].missed = 0
        /\ caught[c].events = <<>> /\ caught[c].missing = {} /\ out[c] = <<>>
    <3>1. Unheld(c) BY <1>0, Zenon DEF Unheld
    <3>2. held[c].on \in BOOLEAN BY Sizes, Zenon DEF Sized
    <3> QED BY <2>0, <2>2, <3>1, <3>2, Zenon DEF HeldInv, CaughtInv, StreamInv
  <2>7. /\ \A d \in Chats \ {c} : held'[d] = held[d]
        /\ ok => held'[c] = held[c]
        /\ ~ok => held'[c].on /\ held'[c].events = <<l>> /\ held'[c].missed = 0
    <3>1. CASE ok BY <1>3, <3>1, Zenon
    <3>2. CASE ~ok
      <4>1. access'[c] \in BOOLEAN BY Zenon DEF Typed
      <4>2. HoldOf(<<l>>) \in Holds /\ HoldOf(<<l>>).on
            /\ HoldOf(<<l>>).events = <<l>> /\ HoldOf(<<l>>).missed = 0
        BY <2>1, HoldOne, Zenon
      <4>3. ScheduleHeld(c, HoldOf(<<l>>)) BY <1>3, <3>2, Zenon
      <4> DEFINE h == HoldOf(<<l>>)
      <4> HIDE DEF h
      <4>4. h \in Holds /\ ScheduleHeld(c, h) BY <4>2, <4>3, Zenon DEF h
      <4>5. /\ held'[c].on = h.on /\ held'[c].events = h.events /\ held'[c].missed = h.missed
            /\ \A d \in Chats \ {c} : held'[d] = held[d]
        BY <4>1, <4>4, ScheduleTypes, Zenon
      <4> QED BY <3>2, <4>2, <4>5, Zenon DEF h
    <3> QED BY <3>1, <3>2, Zenon
  <2>8. \A d \in Chats \ {c} : Aside(d)
    BY <1>0, <1>1, <1>3, <2>1, <2>7, HandleAside, Zenon
  <2>9. CaughtInv(c)'
    <3>1. last'[c] >= last[c] BY <1>0, <2>1
    <3>2. caught'[c] = caught[c] BY <1>0, Zenon
    <3>3. Grown(c) /\ (first'[c] = 0 => first[c] = 0) BY <2>5, Zenon DEF Handled
    <3> QED BY <2>0, <2>6, <3>1, <3>2, <3>3, CaughtKept, Zenon
  <2>10. HeldInv(c)'
    <3>1. last'[c] >= last[c] /\ base'[c] = base[c] BY <1>0, <2>1
    <3>2. Grown(c) /\ (first'[c] = 0 => first[c] = 0) BY <2>5, Zenon DEF Handled
    <3>3. CASE ok
      <4>1. held'[c] = held[c] BY <2>7, <3>3, Zenon
      <4> QED BY <1>1, <2>0, <2>6, <3>1, <3>2, <4>1, HeldKept, Zenon
    <3>4. CASE ~ok
      <4>1. first'[c] = 0 /\ Lo(c)' = base[c] + 1
        <5>1. first'[c] = first[c] BY <2>5, <3>4, Zenon DEF Handled
        <5> QED BY <2>2, <3>1, <5>1 DEF Lo
      <4>2. InLine(held'[c].events, Lo(c)', Accounted(c)')
        <5>1. Lo(c)'..(l - 1) \subseteq Accounted(c)' BY <2>1, <2>3, <4>1
        <5> QED BY <2>1, <2>7, <3>4, <5>1, LineOne, Zenon
      <4>3. Elements(held'[c].events) = {l} BY <2>1, <2>7, <3>4, HoldOne, Zenon
      <4>4. /\ \A e \in Elements(held'[c].events) : e \in 1..last'[c] /\ Lo(c)' <= e + 1
            /\ held'[c].missed <= last'[c]
            /\ Elements(held'[c].events) \subseteq 1..base'[c]
        BY <1>0, <2>1, <2>3, <2>4, <2>7, <3>4, <4>1, <4>3
      <4> QED BY <1>1, <2>7, <3>4, <4>1, <4>2, <4>4, Zenon DEF HeldInv
    <3> QED BY <3>3, <3>4, Zenon
  <2>11. StreamInv(c)'
    <3>1. Grown(c) /\ (first'[c] = 0 => first[c] = 0) BY <2>5, Zenon DEF Handled
    <3>2. out'[c] = <<>> /\ pushes'[c] = pushes[c] /\ last'[c] = last[c] /\ base'[c] = base[c]
      BY <1>0, <2>6, Zenon
    <3>3. /\ InLine(out'[c], Lo(c)', (Accounted(c) \cup Buffered(c))')
          /\ Elements(out'[c]) \subseteq Elements(out[c])
      BY <2>6, <3>2, LineEmpty, Zenon
    <3>4. Buffered(c) = {} /\ Elements(out[c]) = {} /\ Elements(caught[c].events) = {}
      BY <2>6, LineEmpty DEF Buffered
    <3>5. Decoded(c) \subseteq Accounted(c)' BY <3>1, <3>4, Zenon DEF Decoded, Grown
    <3>6. \A p \in Nat : Lo(c)' <= p /\ p \in Coming(c) => p \in Accounted(c)'
      <4> SUFFICES ASSUME NEW p \in Nat, Lo(c)' <= p, p \in Coming(c) PROVE p \in Accounted(c)'
        BY Zenon
      <4>1. p <= base[c]
        <5>1. ResumePosition(mem, c) = 0 BY <1>3, Zenon DEF ResumePosition
        <5>2. p \in 1..base[c] BY <2>6, <3>4, <5>1 DEF Coming
        <5> QED BY <2>1, <5>2
      <4>2. Lo(c)' = Lo(c) \/ (Lo(c)' = Lo(c) - 1 /\ Lo(c)' \in Accounted(c)')
        BY <3>1, Zenon DEF Grown
      <4> QED BY <2>1, <2>4, <4>1, <4>2
    <3>7. Remembered(c) BY <3>5, <3>6, Zenon DEF Remembered, Cover, Decoded
    <3>8. Open' => Open BY <1>1, Zenon DEF StageKept
    <3> QED BY <1>0, <2>0, <3>1, <3>2, <3>3, <3>7, <3>8, StreamKept, Zenon
  <2>12. FileInv(c)' /\ MemInv(c)' BY <2>5, Zenon DEF Handled
  <2> QED BY <1>1, <2>8, <2>9, <2>10, <2>11, <2>12, OneChat, Zenon
<1> QED BY <1>2, <1>3, Zenon DEF Seed

\* The step only rewrites a gap, of chat c.
LEMMA GapAside ==
  ASSUME Typed, NEW c \in Chats, GapOnly(mem, mem'), disk' = disk \/ disk' = mem',
         UNCHANGED <<last, base, pushes, seen, out, bridged, noticed, first>>,
         \A d \in Chats \ {c} : held'[d] = held[d] /\ caught'[d] = caught[d],
         \A d \in Chats \ {c} : StageKept(d)
  PROVE  \A d \in Chats \ {c} : Aside(d)
BY Zenon DEF Aside, GapOnly

\* A checkpoint resumes where everything promised before is accounted for.
LEMMA Resumes ==
  ASSUME Typed, NEW c \in Chats, MemInv(c), first[c] > 0
  PROVE  /\ ResumePosition(mem, c) \in Nat /\ first[c] <= ResumePosition(mem, c) + 1
         /\ first[c]..ResumePosition(mem, c) \subseteq Accounted(c)
<1>0. first[c] \in Nat /\ mem.cursor[c] \in Nat /\ mem.start[c] \in Nat
  BY Sizes, Zenon DEF Sized
<1>1. /\ first[c]..mem.cursor[c] \subseteq Accounted(c)
      /\ IF mem.cursor[c] > 0 THEN first[c] <= mem.cursor[c] + 1 ELSE mem.start[c] = first[c]
  BY Zenon DEF MemInv, Behind
<1>2. CASE mem.cursor[c] > 0
  <2>1. ResumePosition(mem, c) = mem.cursor[c] BY <1>2, Zenon DEF ResumePosition
  <2> QED BY <1>0, <1>1, <1>2, <2>1, Zenon
<1>3. CASE ~(mem.cursor[c] > 0)
  <2>1. ResumePosition(mem, c) = first[c] - 1 BY <1>1, <1>3, Zenon DEF ResumePosition
  <2> QED BY <1>0, <1>1, <2>1
<1> QED BY <1>2, <1>3, Zenon

\* A chat's recovery at login finds what lies between its resume position and
\* the inventory; what it did not find is to be noticed or becomes a gap.
LEMMA ChainKeeps ==
  ASSUME Typed, Typed', Honest, NEW c \in Chats, Chain(c)
  PROVE  Honest'
<1> DEFINE from == ResumePosition(mem, c) + 1
<1>0. /\ phase = "chain" /\ c \in todo /\ Finished(c)
      /\ UNCHANGED <<last, base, pushes, seen, out, held, bridged, noticed, first>>
  BY Zenon DEF Chain
<1>1. /\ \A d \in Chats \ {c} : StageKept(d)
      /\ Up /\ (Early' => Early) /\ Open /\ (Unheld(c)' => Unheld(c))
      /\ ChainDue(c) /\ ~ChainDue(c)' /\ ~Emptied(c)' /\ ~Pumping' /\ ~Pumping /\ Early
  <2>1. Early BY <1>0, Zenon DEF Early
  <2> QED BY <1>0, <2>1, StageEnds, Zenon
<1>2. FileInv(c) /\ MemInv(c) /\ CaughtInv(c) /\ HeldInv(c) /\ StreamInv(c)
  BY <1>1, Honestly, Zenon
<1>3. /\ first[c] \in Nat /\ base[c] \in Nat /\ last[c] \in Nat /\ base[c] <= last[c]
      /\ Lo(c) \in Nat /\ mem.cursor[c] \in Nat /\ mem.start[c] \in Nat
      /\ mem.known[c] = IF base[c] > 0 THEN base[c] ELSE -1
  BY <1>1, <1>2, Sizes, Zenon DEF Sized, MemInv, NoTarget
<1>4. caught[c].events = <<>> /\ caught[c].missing = {} /\ out[c] = <<>>
  BY <1>1, <1>2, Zenon DEF CaughtInv, StreamInv, Emptied
<1>5. /\ noticed[c] \subseteq 1..last[c] /\ last'[c] >= last[c]
  <2>1. noticed[c] \subseteq 1..last[c] /\ last'[c] = last[c]
    BY <1>0, <1>2, Zenon DEF FileInv, Accounted
  <2> QED BY <1>3, <2>1
<1>6. ASSUME GapOnly(mem, mem'), disk' = disk \/ disk' = mem',
             \A d \in Chats \ {c} : caught'[d] = caught[d], CaughtInv(c)',
             \A p \in Nat : Lo(c) <= p /\ p \in from..base[c] => p \in Coming(c)'
      PROVE  Honest'
  <2>1. Settled(c)
    BY <1>0, <1>1, <1>5, <1>6, Zenon DEF Settled, GapOnly
  <2>2. Grown(c) /\ FileInv(c)' BY <1>2, <2>1, FileKept, Zenon
  <2>3. MemInv(c)'
    <3>1. mem'.known[c] = mem.known[c] BY <1>6, Zenon DEF GapOnly
    <3> QED BY <1>1, <1>2, <2>1, <3>1, MemKept, Zenon
  <2>4. HeldInv(c)'
    BY <1>0, <1>1, <1>2, <1>5, <2>2, HeldKept, Zenon
  <2>5. Lo(c)' = Lo(c) /\ Accounted(c)' = Accounted(c) /\ Buffered(c)' = Buffered(c)
        /\ Decoded(c)' = Decoded(c)
    BY <1>0, Zenon DEF Lo, Accounted, Buffered, Decoded
  <2>6. StreamInv(c)'
    <3>1. Coming(c) = from..base[c]
      BY <1>1, <1>4, LineEmpty, Zenon DEF Coming
    <3>2. Remembered(c) BY <1>6, <2>5, <3>1, Zenon DEF Remembered, Cover
    <3>3. InLine(out'[c], Lo(c)', (Accounted(c) \cup Buffered(c))')
      BY <1>0, <1>4, LineEmpty, Zenon
    <3>4. Elements(out'[c]) \subseteq Elements(out[c]) BY <1>0, Zenon
    <3>5. out'[c] = <<>> /\ seen' = seen BY <1>0, <1>4, Zenon
    <3> QED BY <1>0, <1>1, <1>2, <2>2, <3>2, <3>3, <3>4, <3>5, StreamKept, Zenon
  <2>7. \A d \in Chats \ {c} : Aside(d)
    <3>1. \A d \in Chats \ {c} : held'[d] = held[d] /\ caught'[d] = caught[d]
      BY <1>0, <1>6, Zenon
    <3> QED BY <1>0, <1>1, <1>6, <3>1, GapAside, Zenon
  <2> QED BY <1>1, <1>6, <2>2, <2>3, <2>4, <2>6, <2>7, OneChat, Zenon
<1>7. CASE ~NeedsCatchUp(mem, c) /\ UNCHANGED <<mem, disk, caught>>
  <2>1. GapOnly(mem, mem') BY <1>7, Zenon DEF GapOnly, Typed
  <2>2. CaughtInv(c)'
    <3>1. Settled(c) BY <1>0, <1>1, <1>5, <1>7, Zenon DEF Settled
    <3>2. Grown(c) BY <1>2, <3>1, FileKept, Zenon
    <3> QED BY <1>0, <1>1, <1>2, <1>5, <1>7, <3>2, CaughtKept, Zenon
  <2>3. \A p \in Nat : Lo(c) <= p /\ p \in from..base[c] => p \in Coming(c)'
    <3> SUFFICES ASSUME NEW p \in Nat, Lo(c) <= p, p \in from..base[c] PROVE FALSE BY Zenon
    <3>1. CASE first[c] > 0
      <4>1. IF mem.cursor[c] > 0 THEN TRUE ELSE mem.start[c] > 0
        BY <1>2, <3>1, Zenon DEF MemInv, Behind
      <4> QED BY <1>3, <1>7, <4>1 DEF NeedsCatchUp, ResumePosition
    <3>2. CASE ~(first[c] > 0) BY <1>3, <3>2 DEF Lo
    <3> QED BY <3>1, <3>2, Zenon
  <2> QED BY <1>6, <1>7, <2>1, <2>2, <2>3, Zenon
<1>8. ASSUME NeedsCatchUp(mem, c), NEW r \in Recoveries(from, mem.known[c]), NEW next,
             next = GapAfterChain(mem, c, (from..r.upto) \ Elements(r.events), r.upto,
                                  mem.known[c]),
             mem' = next, disk' = IF next = mem THEN disk ELSE next,
             caught' = [caught EXCEPT ![c] =
               [events |-> r.events, missing |-> (from..mem.known[c]) \ Elements(r.events),
                skipped |-> ((from..r.upto) \ Elements(r.events)) # {},
                gap |-> ((from..mem.known[c]) \ Elements(r.events)) # {}]]
      PROVE  Honest'
  <2>1. first[c] > 0 /\ mem.known[c] = base[c]
    <3>1. /\ mem.known[c] > 0
          /\ mem.cursor[c] > 0 \/ mem.start[c] > 0
          /\ mem.known[c] = IF base[c] > 0 THEN base[c] ELSE -1
          /\ first[c] = 0 => mem.cursor[c] = 0 /\ mem.start[c] = 0
      BY <1>2, <1>3, <1>8, Zenon DEF NeedsCatchUp, MemInv
    <3> QED BY <1>3, <3>1
  <2>2. /\ from \in Nat /\ first[c] <= from /\ first[c]..(from - 1) \subseteq Accounted(c)
        /\ Lo(c) = first[c]
    <3>1. /\ ResumePosition(mem, c) \in Nat /\ first[c] <= ResumePosition(mem, c) + 1
          /\ first[c]..ResumePosition(mem, c) \subseteq Accounted(c)
      BY <1>2, <2>1, Resumes, Zenon
    <3> QED BY <2>1, <3>1 DEF Lo
  <2> HIDE DEF from
  <2> DEFINE s == r.events
             missing == (from..base[c]) \ Elements(s)
  <2>3. /\ s \in Seq(Nat) /\ r.upto \in (from - 1)..base[c]
        /\ Rising(s) /\ Elements(s) \subseteq from..r.upto
    <3>1. from \in Nat /\ base[c] \in Int BY <1>3, <2>2
    <3>2. r \in Recoveries(from, base[c]) BY <1>8, <2>1, Zenon
    <3> QED BY <3>1, <3>2, RecoveryTypes, Zenon DEF Rising
  <2>4. /\ caught'[c].events = s /\ caught'[c].missing = missing
        /\ caught'[c].skipped = (((from..r.upto) \ Elements(s)) # {})
        /\ \A d \in Chats \ {c} : caught'[d] = caught[d]
    <3> DEFINE room == [events |-> s, missing |-> missing,
                        skipped |-> ((from..r.upto) \ Elements(s)) # {},
                        gap |-> missing # {}]
    <3>1. caught' = [caught EXCEPT ![c] = room] BY <1>8, <2>1, Zenon
    <3>2. room.events = s /\ room.missing = missing
          /\ room.skipped = (((from..r.upto) \ Elements(s)) # {})
      BY Zenon
    <3>3. DOMAIN caught = Chats BY Zenon DEF Typed
    <3> HIDE DEF room
    <3>4. caught'[c] = room /\ \A d \in Chats \ {c} : caught'[d] = caught[d]
      BY <3>1, <3>3, Zenon
    <3> QED BY <3>2, <3>4, Zenon
  <2>5. GapOnly(mem, mem') BY <1>8, ChainChanges, Zenon DEF Typed
  <2> HIDE DEF s
  <2>6. \A e \in Elements(s) : e \in from..base[c] /\ e <= r.upto
    BY <1>3, <2>2, <2>3
  <2>7. InLine(s, Lo(c), Accounted(c) \cup missing)
    <3>1. ASSUME NEW i \in 1..Len(s)
          PROVE  Lo(c)..(s[i] - 1) \subseteq (Accounted(c) \cup missing) \cup Elements(s)
      <4>1. s[i] \in Elements(s) BY <2>3 DEF Elements
      <4>2. s[i] \in from..base[c] BY <2>6, <4>1, Zenon
      <4> SUFFICES ASSUME NEW p \in Lo(c)..(s[i] - 1)
                   PROVE  p \in (Accounted(c) \cup missing) \cup Elements(s)
        BY Zenon
      <4>3. p \in first[c]..(from - 1) \/ p \in from..base[c]
        BY <1>3, <2>2, <4>2
      <4> QED BY <2>2, <4>3, Zenon
    <3>2. \A i, j \in 1..Len(s) : i < j => s[i] < s[j] BY <2>3, Zenon DEF Rising
    <3> QED BY <1>3, <2>3, <3>1, <3>2, LineAscending, Zenon
  <2>8. Lo(c)' = Lo(c) /\ Accounted(c)' = Accounted(c) BY <1>0, Zenon DEF Lo, Accounted
  <2>9. CaughtInv(c)'
    <3>1. /\ \A e \in Elements(s) : e \in 1..last[c] /\ Lo(c) <= e + 1
          /\ missing \subseteq 1..last[c]
      BY <1>3, <2>1, <2>2, <2>6
    <3>2. ~caught'[c].skipped => \A e \in Elements(s), m \in missing : e < m
      <4> SUFFICES ASSUME ~caught'[c].skipped, NEW e \in Elements(s), NEW m \in missing
                   PROVE  e < m
        BY Zenon
      <4>1. m \notin from..r.upto /\ m \in from..base[c] BY <2>4, Zenon
      <4>2. e \in from..base[c] /\ e <= r.upto BY <2>6, Zenon
      <4> QED BY <1>3, <2>2, <2>3, <4>1, <4>2
    <3>3. ~held'[c].on
      <4>1. held[c].on => first[c] = 0 BY <1>1, <1>2, Zenon DEF HeldInv
      <4> QED BY <1>0, <2>1, <4>1
    <3>4. first'[c] # 0 BY <1>0, <2>1
    <3>5. last'[c] = last[c] BY <1>0, Zenon
    <3> HIDE DEF missing
    <3> QED BY <1>1, <2>3, <2>4, <2>7, <2>8, <3>1, <3>2, <3>3, <3>4, <3>5, Zenon
            DEF CaughtInv
  <2>10. \A p \in Nat : Lo(c) <= p /\ p \in from..base[c] => p \in Coming(c)'
    BY <2>4, Zenon DEF Coming
  <2>11. disk' = disk \/ disk' = mem' BY <1>8, Zenon
  <2> QED BY <1>6, <2>4, <2>5, <2>9, <2>10, <2>11, Zenon DEF from
<1> QED
  <2>1. CASE NeedsCatchUp(mem, c) BY <1>8, <2>1, Zenon DEF Chain
  <2>2. CASE ~NeedsCatchUp(mem, c) BY <1>7, <2>2, Zenon DEF Chain
  <2> QED BY <2>1, <2>2, Zenon

\* The notice for unrecoverable messages accounts for them.
LEMMA NoticeKeeps ==
  ASSUME Typed, Typed', Honest, NEW c \in Chats, Notice(c)
  PROVE  Honest'
<1>0. /\ phase = "deliver" /\ c \in todo /\ caught[c].missing # {}
      /\ UNCHANGED <<phase, todo, mem, disk, last, base, pushes, seen, out, held, bridged, first>>
      /\ noticed' = [noticed EXCEPT ![c] = noticed[c] \cup caught[c].missing]
      /\ caught' = [caught EXCEPT ![c].missing = {}]
  BY Zenon DEF Notice
<1>1. Up BY <1>0, Zenon DEF Up
<1>2. \A d \in Chats : StageKept(d) BY <1>0, <1>1, StageSame, Zenon
<1>3. FileInv(c) /\ MemInv(c) /\ CaughtInv(c) /\ HeldInv(c) /\ StreamInv(c)
  BY <1>1, Honestly, Zenon
<1>4. /\ noticed'[c] = noticed[c] \cup caught[c].missing
      /\ caught'[c].missing = {} /\ caught'[c].events = caught[c].events
      /\ caught'[c].skipped = caught[c].skipped
      /\ \A d \in Chats \ {c} : noticed'[d] = noticed[d] /\ caught'[d] = caught[d]
  <2>1. DOMAIN noticed = Chats /\ DOMAIN caught = Chats /\ caught[c] \in Catches BY Zenon DEF Typed
  <2>2. caught' = [caught EXCEPT ![c] = [caught[c] EXCEPT !.missing = {}]] BY <1>0, Zenon
  <2>3. caught'[c] = [caught[c] EXCEPT !.missing = {}] BY <2>1, <2>2, Zenon
  <2>4. /\ caught'[c].missing = {} /\ caught'[c].events = caught[c].events
        /\ caught'[c].skipped = caught[c].skipped
    BY <2>1, <2>3, Zenon DEF Catches
  <2>5. /\ noticed'[c] = noticed[c] \cup caught[c].missing
        /\ \A d \in Chats \ {c} : noticed'[d] = noticed[d]
    BY <1>0, <2>1, Zenon
  <2>6. \A d \in Chats \ {c} : caught'[d] = caught[d] BY <2>1, <2>2, Zenon
  <2> QED BY <2>4, <2>5, <2>6, Zenon
<1>5. /\ first[c] \in Nat /\ last[c] \in Nat /\ Lo(c) \in Nat
      /\ caught[c].missing \subseteq 1..last[c]
      /\ caught[c].events \in Seq(Nat)
  BY <1>3, Sizes, Zenon DEF Sized, CaughtInv
<1>6. first[c] > 0 BY <1>0, <1>3, <1>5 DEF CaughtInv
<1>7. Settled(c)
  <2>1. noticed[c] \subseteq 1..last[c] BY <1>3, Zenon DEF FileInv, Accounted
  <2>2. last'[c] >= last[c] BY <1>0, <1>5
  <2> QED BY <1>0, <1>4, <1>5, <1>6, <2>1, <2>2, Zenon DEF Settled
<1>8. Grown(c) /\ FileInv(c)' BY <1>3, <1>7, FileKept, Zenon
<1>9. MemInv(c)' BY <1>0, <1>1, <1>2, <1>3, <1>7, MemKept, Zenon DEF StageKept
<1>10. HeldInv(c)'
  BY <1>0, <1>2, <1>3, <1>7, <1>8, HeldKept, Zenon DEF StageKept, Settled
<1>11. Lo(c)' = Lo(c) /\ Accounted(c)' = Accounted(c) \cup caught[c].missing
       /\ Buffered(c)' = Buffered(c)
  <2>1. Accounted(c)' = Accounted(c) \cup caught[c].missing
    BY <1>0, <1>4, Zenon DEF Accounted
  <2> QED BY <1>0, <2>1, Zenon DEF Lo, Buffered
<1>12. CaughtInv(c)'
  <2>1. InLine(caught'[c].events, Lo(c)', Accounted(c)' \cup caught'[c].missing)
    <3>1. Accounted(c)' \cup caught'[c].missing = Accounted(c) \cup caught[c].missing
      BY <1>4, <1>11, Zenon
    <3> QED BY <1>3, <1>4, <1>11, <3>1, Zenon DEF CaughtInv
  <2>2. Emptied(c)' => Emptied(c) BY <1>2, Zenon DEF StageKept
  <2>3. last'[c] = last[c] /\ held'[c] = held[c] /\ first'[c] = first[c] BY <1>0, Zenon
  <2>4. caught'[c].missing \subseteq 1..last'[c] BY <1>4, Zenon
  <2>5. \A e \in Elements(caught'[c].events), m \in caught'[c].missing : e < m BY <1>4, Zenon
  <2> QED BY <1>3, <1>4, <1>11, <2>1, <2>2, <2>3, <2>4, <2>5, Zenon DEF CaughtInv
<1>13. StreamInv(c)'
  <2>1. Remembered(c)
    <3>1. Decoded(c)' = Decoded(c) \cup caught[c].missing
      BY <1>0, <1>11, Zenon DEF Decoded
    <3>2. ChainDue(c)' <=> ChainDue(c) BY <1>2, Zenon DEF StageKept
    <3>3. Coming(c) \subseteq Coming(c)' \cup caught[c].missing
      BY <1>0, <1>4, <3>2, Zenon DEF Coming
    <3> QED BY <3>1, <3>3, Zenon DEF Remembered, Cover
  <2>2. InLine(out'[c], Lo(c)', (Accounted(c) \cup Buffered(c))')
    BY <1>0, <1>3, <1>8, <1>11, OutKept, Zenon
  <2>3. ~Pumping' \/ first'[c] = 0 => out'[c] = <<>>
    BY <1>0, <1>3, Zenon DEF StreamInv, Pumping
  <2> QED BY <1>0, <1>2, <1>3, <1>8, <2>1, <2>2, <2>3, StreamKept, Zenon DEF StageKept
<1>14. \A d \in Chats \ {c} : Aside(d) BY <1>0, <1>2, <1>4, QuietAside, Zenon
<1> QED BY <1>1, <1>8, <1>9, <1>10, <1>12, <1>13, <1>14, OneChat, Zenon

\* The recovery of a chat ends when nothing is left to deliver.
LEMMA FinishKeeps ==
  ASSUME Typed, Typed', Honest, NEW c \in Chats, FinishRoom(c)
  PROVE  Honest'
<1>0. /\ phase = "deliver" /\ c \in todo /\ caught[c].events = <<>> /\ caught[c].missing = {}
      /\ UNCHANGED <<mem, disk, last, base, caught, pushes, seen, out, held, bridged, noticed,
                     first>>
      /\ Finished(c)
  BY Zenon DEF FinishRoom
<1>1. /\ \A d \in Chats \ {c} : StageKept(d)
      /\ Up /\ Open /\ ~ChainDue(c) /\ ~ChainDue(c)' /\ ~Early' /\ ~Unheld(c)' /\ ~Pumping
  BY <1>0, StageEnds, Zenon
<1>2. FileInv(c) /\ MemInv(c) /\ CaughtInv(c) /\ HeldInv(c) /\ StreamInv(c)
  BY <1>1, Honestly, Zenon
<1>3. last[c] \in Nat /\ noticed[c] \subseteq 1..last[c] /\ last'[c] >= last[c]
  <2>1. last[c] \in Nat BY Sizes, Zenon DEF Sized
  <2>2. noticed[c] \subseteq 1..last[c] /\ last'[c] = last[c]
    BY <1>0, <1>2, Zenon DEF FileInv, Accounted
  <2> QED BY <2>1, <2>2
<1>4. Settled(c) BY <1>0, <1>3, Zenon DEF Settled
<1>5. Grown(c) /\ FileInv(c)' BY <1>2, <1>4, FileKept, Zenon
<1>6. MemInv(c)' BY <1>1, <1>2, <1>4, MemKept, Zenon
<1>7. CaughtInv(c)' BY <1>0, <1>2, <1>3, <1>5, CaughtKept, Zenon
<1>8. HeldInv(c)' BY <1>0, <1>1, <1>2, <1>3, <1>5, HeldKept, Zenon
<1>9. StreamInv(c)'
  <2>1. /\ Lo(c)' = Lo(c) /\ Buffered(c)' = Buffered(c) /\ Accounted(c)' = Accounted(c)
        /\ Decoded(c)' = Decoded(c)
    BY <1>0, Zenon DEF Lo, Buffered, Accounted, Decoded
  <2>2. Coming(c)' = Coming(c) BY <1>0, <1>1, Zenon DEF Coming
  <2>3. Remembered(c) BY <2>1, <2>2, Zenon DEF Remembered, Cover
  <2>4. InLine(out'[c], Lo(c)', (Accounted(c) \cup Buffered(c))')
    BY <1>0, <1>2, <2>1, Zenon DEF StreamInv
  <2>5. out'[c] = <<>> BY <1>0, <1>1, <1>2, Zenon DEF StreamInv
  <2> QED BY <1>0, <1>1, <1>2, <1>5, <2>3, <2>4, <2>5, StreamKept, Zenon
<1>10. \A d \in Chats \ {c} : Aside(d) BY <1>0, <1>1, QuietAside, Zenon
<1> QED BY <1>1, <1>5, <1>6, <1>7, <1>8, <1>9, <1>10, OneChat, Zenon

\* What lies above a line does not matter to it.
LEMMA LineUnder ==
  ASSUME NEW s \in Seq(Nat), NEW lo \in Nat, NEW S, NEW M \in SUBSET Nat,
         InLine(s, lo, S \cup M), \A e \in Elements(s), m \in M : e < m
  PROVE  InLine(s, lo, S)
<1> SUFFICES ASSUME NEW i \in 1..Len(s), NEW p \in lo..(s[i] - 1)
             PROVE  p \in S \/ \E j \in 1..(i - 1) : s[j] = p
  BY Zenon DEF InLine
<1>1. s[i] \in Elements(s) /\ s[i] \in Nat BY DEF Elements
<1>2. p \in M => s[i] < p BY <1>1, Zenon
<1>3. ~(s[i] < p) BY <1>1
<1>4. p \in S \cup M \/ \E j \in 1..(i - 1) : s[j] = p BY Zenon DEF InLine
<1> QED BY <1>2, <1>3, <1>4, Zenon

\* A hold keeps a failed room's events, or the highest position it drops.
LEMMA HoldLine ==
  ASSUME NEW s \in Seq(Nat), s # <<>>, NEW lo \in Nat, NEW S, InLine(s, lo, S), Rising(s),
         \A e \in Elements(s) : e >= 1
  PROVE  /\ InLine(HoldOf(s).events, lo, S)
         /\ Elements(HoldOf(s).events) \subseteq Elements(s)
         /\ Elements(s) \subseteq Elements(HoldOf(s).events) \cup 1..HoldOf(s).missed
         /\ HoldOf(s).missed \in Elements(s) \cup {0}
<1> DEFINE n == Smaller(Len(s), MaxHeld)
           t == SubSeq(s, 1, n)
           m == IF Len(s) > MaxHeld THEN s[Len(s)] ELSE 0
<1>1. HoldOf(s).events = t /\ HoldOf(s).missed = m BY HoldTypes, Zenon
<1>2. Len(s) \in Nat /\ MaxHeld \in Nat /\ n \in 0..Len(s)
      /\ Len(s) >= 1 /\ DOMAIN s = 1..Len(s)
  BY DeliveryAssumption DEF Smaller
<1>3. InLine(t, lo, S) /\ Elements(t) \subseteq Elements(s) BY <1>2, LineCut, Zenon
<1>4. Elements(s) \subseteq Elements(t) \cup 1..m
  <2> SUFFICES ASSUME NEW i \in 1..Len(s) PROVE s[i] \in Elements(t) \cup 1..m
    BY <1>2, Zenon DEF Elements
  <2>1. CASE i <= n
    <3>1. i \in 1..n /\ t[i] = s[i] /\ DOMAIN t = 1..n BY <1>2, <2>1
    <3> HIDE DEF t
    <3> QED BY <3>1, Zenon DEF Elements
  <2>2. CASE ~(i <= n)
    <3>1. Len(s) > MaxHeld BY <1>2, <2>2 DEF Smaller
    <3> HIDE DEF t, n, m
    <3> DEFINE k == Len(s)
    <3>2. i \in 1..k /\ k \in Nat /\ k \in 1..k /\ DOMAIN s = 1..k BY <1>2
    <3>3. \A j \in 1..k : s[j] \in Nat /\ s[j] \in Elements(s) BY DEF Elements
    <3>4. i < k => s[i] < s[k] BY <3>2, Zenon DEF Rising
    <3> HIDE DEF k
    <3>5. i = k \/ i < k BY <3>2
    <3>6. s[i] >= 1 /\ s[i] \in Nat /\ s[k] \in Nat BY <3>2, <3>3, Zenon
    <3>7. s[i] \in 1..s[k] BY <3>4, <3>5, <3>6
    <3> QED BY <3>1, <3>7, Zenon DEF m, k
  <2> QED BY <2>1, <2>2, Zenon
<1>5. m \in Elements(s) \cup {0} BY <1>2 DEF Elements
<1> HIDE DEF t, m
<1> QED BY <1>1, <1>3, <1>4, <1>5, Zenon

\* The tail of a rising line rises.
LEMMA RisingTail ==
  ASSUME NEW s \in Seq(Nat), s # <<>>, Rising(s) PROVE Rising(Tail(s))
<1>1. Len(Tail(s)) = Len(s) - 1 /\ Len(s) \in Nat
      /\ \A i \in 1..(Len(s) - 1) : Tail(s)[i] = s[i + 1]
  OBVIOUS
<1> SUFFICES ASSUME NEW i \in 1..(Len(s) - 1), NEW j \in 1..(Len(s) - 1), i < j
             PROVE  s[i + 1] < s[j + 1]
  BY <1>1, Zenon DEF Rising
<1>2. i + 1 \in 1..Len(s) /\ j + 1 \in 1..Len(s) /\ i + 1 < j + 1 BY <1>1
<1> QED BY <1>2, Zenon DEF Rising

\* A recovered event is handled; if that fails, it and all behind it are held.
LEMMA DeliverKeeps ==
  ASSUME Typed, Typed', Honest, NEW c \in Chats, DeliverCaught(c)
  PROVE  Honest'
<1> DEFINE s == caught[c].events
           l == Head(s)
<1>0. /\ phase = "deliver" /\ c \in todo /\ s # <<>>
      /\ ~caught[c].skipped \/ caught[c].missing = {}
      /\ UNCHANGED <<phase, todo, last, base, pushes, seen, out, noticed>>
  BY Zenon DEF DeliverCaught
<1>1. PICK ok \in BOOLEAN :
        /\ HandleEvent(c, l, queue[c], ok)
        /\ caught' = [caught EXCEPT ![c].events = IF ok THEN Tail(@) ELSE <<>>]
        /\ IF ok THEN UNCHANGED <<held, lookups>> ELSE ScheduleHeld(c, HoldOf(s))
  BY Zenon DEF DeliverCaught
<1>2. Up /\ ~Early /\ ~ChainDue(c) BY <1>0, Zenon DEF Up, Early, ChainDue
<1>3. \A d \in Chats : StageKept(d) BY <1>0, <1>2, StageSame, Zenon
<1>4. FileInv(c) /\ MemInv(c) /\ CaughtInv(c) /\ HeldInv(c) /\ StreamInv(c)
  BY <1>2, Honestly, Zenon
<1>5. /\ first[c] \in Nat /\ last[c] \in Nat /\ Lo(c) \in Nat /\ Lo(c)' \in Nat /\ s \in Seq(Nat)
      /\ caught[c].missing \in SUBSET Nat /\ held[c].on \in BOOLEAN
  BY Sizes, SizesNext, Zenon DEF Sized
<1>6. /\ first[c] # 0 /\ held[c].on = FALSE /\ held[c].events = <<>> /\ held[c].missed = 0
      /\ Rising(s)
  BY <1>0, <1>4, <1>5, Zenon DEF CaughtInv, HeldInv
<1>7. InLine(s, Lo(c), Accounted(c))
  <2>1. InLine(s, Lo(c), Accounted(c) \cup caught[c].missing) BY <1>4, Zenon DEF CaughtInv
  <2>2. \A e \in Elements(s), m \in caught[c].missing : e < m
    BY <1>0, <1>4, Zenon DEF CaughtInv
  <2> HIDE DEF s
  <2> QED BY <1>5, <2>1, <2>2, LineUnder, Zenon
<1>8. \A e \in Elements(s) : e \in 1..last[c] /\ Lo(c) <= e + 1 BY <1>4, Zenon DEF CaughtInv
<1>9. /\ caught'[c].events = (IF ok THEN Tail(s) ELSE <<>>)
      /\ caught'[c].missing = caught[c].missing /\ caught'[c].skipped = caught[c].skipped
      /\ \A d \in Chats \ {c} : caught'[d] = caught[d]
  <2> DEFINE t == IF ok THEN Tail(s) ELSE <<>>
  <2>1. DOMAIN caught = Chats /\ caught[c] \in Catches BY Zenon DEF Typed
  <2>2. caught' = [caught EXCEPT ![c] = [caught[c] EXCEPT !.events = t]] BY <1>1, Zenon
  <2> HIDE DEF t
  <2>3. /\ caught'[c] = [caught[c] EXCEPT !.events = t]
        /\ \A d \in Chats \ {c} : caught'[d] = caught[d]
    BY <2>1, <2>2, Zenon
  <2>4. /\ caught'[c].events = t /\ caught'[c].missing = caught[c].missing
        /\ caught'[c].skipped = caught[c].skipped
    BY <2>1, <2>3, Zenon DEF Catches
  <2> QED BY <2>3, <2>4, Zenon DEF t
<1> HIDE DEF s
<1>10. /\ l \in Nat /\ Tail(s) \in Seq(Nat) /\ Lo(c)..(l - 1) \subseteq Accounted(c)
       /\ InLine(Tail(s), Lo(c), Accounted(c) \cup {l})
       /\ Elements(s) = {l} \cup Elements(Tail(s))
  BY <1>0, <1>5, <1>7, LineHead, Zenon
<1> HIDE DEF l
<1>11. l \in 1..last[c] /\ Lo(c) <= l + 1 BY <1>8, <1>10, Zenon
<1>12. Handled(c, l, ok)
  <2>1. ~Early' BY <1>2, <1>3, Zenon DEF StageKept
  <2> QED BY <1>0, <1>1, <1>4, <1>6, <1>10, <1>11, <2>1, HandledWell, Zenon DEF l
<1>13. Grown(c) /\ FileInv(c)' /\ MemInv(c)' /\ first'[c] # 0 /\ (ok => l \in Accounted(c)')
  BY <1>6, <1>12, Zenon DEF Handled
<1>14. /\ ok => held'[c] = held[c]
       /\ ~ok => /\ held'[c].on /\ held'[c].events = HoldOf(s).events
                 /\ held'[c].missed = HoldOf(s).missed
       /\ \A d \in Chats \ {c} : held'[d] = held[d]
  <2>1. CASE ok BY <1>1, <2>1, Zenon
  <2>2. CASE ~ok
    <3>1. access'[c] \in BOOLEAN BY Zenon DEF Typed
    <3> DEFINE h == HoldOf(s)
    <3>2. h \in Holds /\ h.on BY <1>0, <1>5, HoldTypes, Zenon
    <3>3. ScheduleHeld(c, h) BY <1>1, <2>2, Zenon DEF s
    <3> HIDE DEF h
    <3>4. /\ held'[c].on = h.on /\ held'[c].events = h.events /\ held'[c].missed = h.missed
          /\ \A d \in Chats \ {c} : held'[d] = held[d]
      BY <3>1, <3>2, <3>3, ScheduleTypes, Zenon
    <3> QED BY <2>2, <3>2, <3>4, Zenon DEF h
  <2> QED BY <2>1, <2>2, Zenon
<1>15. \A d \in Chats \ {c} : Aside(d)
  <2>1. HandleEvent(c, l, queue[c], ok) BY <1>1, Zenon DEF l
  <2>2. \A d \in Chats \ {c} : held'[d] = held[d] /\ caught'[d] = caught[d] /\ out'[d] = out[d]
    BY <1>0, <1>9, <1>14, Zenon
  <2> QED BY <1>0, <1>3, <1>10, <2>1, <2>2, HandleAside, Zenon
<1>16. /\ InLine(HoldOf(s).events, Lo(c), Accounted(c))
       /\ Elements(HoldOf(s).events) \subseteq Elements(s)
       /\ Elements(s) \subseteq Elements(HoldOf(s).events) \cup 1..HoldOf(s).missed
       /\ HoldOf(s).missed \in Elements(s) \cup {0}
       /\ HoldOf(s).events \in Seq(Nat)
  <2>1. \A e \in Elements(s) : e >= 1 BY <1>5, <1>8
  <2>2. HoldOf(s) \in Holds BY <1>0, <1>5, HoldTypes, Zenon
  <2>3. HoldOf(s).events \in Seq(Nat) BY <2>2, Zenon DEF Holds
  <2> QED BY <1>0, <1>5, <1>6, <1>7, <2>1, <2>3, HoldLine, Zenon
<1>17. \A p \in Nat : Lo(c)' <= p /\ p \in Accounted(c) => p \in Accounted(c)'
  BY <1>13, Zenon DEF Grown
<1>18. Lo(c)' <= Lo(c) BY <1>13, FloorDown, Zenon
<1>19. \A e \in Elements(s) : e \in 1..last'[c] /\ Lo(c)' <= e + 1
  BY <1>0, <1>5, <1>8, <1>18
<1>20. CaughtInv(c)'
  <2>1. caught'[c].missing \subseteq 1..last'[c] BY <1>0, <1>4, <1>9, Zenon DEF CaughtInv
  <2>2. CASE ok
    <3>1. InLine(Tail(s), Lo(c)', Accounted(c)' \cup caught[c].missing)
      <4>1. \A p \in Nat : Lo(c)' <= p /\ p \in Accounted(c) \cup {l}
                             => p \in Accounted(c)' \cup caught[c].missing
        BY <1>13, <1>17, <2>2, Zenon
      <4>2. Accounted(c)' \subseteq Accounted(c)' \cup caught[c].missing BY Zenon
      <4> QED BY <1>5, <1>10, <1>13, <4>1, <4>2, LineGrown, Zenon
    <3>2. Rising(Tail(s)) BY <1>0, <1>5, <1>6, RisingTail, Zenon
    <3>3. caught'[c].events = Tail(s) /\ held'[c].on = FALSE BY <1>6, <1>9, <1>14, <2>2, Zenon
    <3>4. \A e \in Elements(Tail(s)) : e \in Elements(s) BY <1>10, Zenon
    <3>5. ~Emptied(c)' \* the room is not finished
      <4>1. ~Emptied(c) BY <1>0, <1>4, Zenon DEF CaughtInv, s
      <4> QED BY <1>3, <4>1, Zenon DEF StageKept
    <3>6. ~caught[c].skipped => \A e \in Elements(s), m \in caught[c].missing : e < m
      BY <1>4, Zenon DEF CaughtInv, s
    <3>7. /\ \A e \in Elements(Tail(s)) : e \in 1..last'[c] /\ Lo(c)' <= e + 1
          /\ ~caught[c].skipped => \A e \in Elements(Tail(s)), m \in caught[c].missing : e < m
      BY <1>19, <3>4, <3>6, Zenon
    <3> QED BY <1>9, <1>13, <2>1, <3>1, <3>2, <3>3, <3>5, <3>7, Zenon DEF CaughtInv
  <2>3. CASE ~ok
    <3>1. caught'[c].events = <<>> BY <1>9, <2>3, Zenon
    <3>2. ~Emptied(c)'
      <4>1. ~Emptied(c) BY <1>0, <1>4, Zenon DEF CaughtInv, s
      <4> QED BY <1>3, <4>1, Zenon DEF StageKept
    <3>3. Rising(<<>>) BY DEF Rising
    <3>4. /\ InLine(caught'[c].events, Lo(c)', Accounted(c)' \cup caught'[c].missing)
          /\ Elements(caught'[c].events) = {} /\ Rising(caught'[c].events)
      BY <3>1, <3>3, LineEmpty, Zenon
    <3> HIDE DEF Rising
    <3> QED BY <1>13, <2>1, <3>1, <3>2, <3>4, Zenon DEF CaughtInv
  <2> QED BY <2>2, <2>3, Zenon
<1>21. HeldInv(c)'
  <2>1. ~Early' /\ ~Unheld(c)'
    BY <1>0, Zenon DEF Early, Unheld
  <2>2. CASE ok
    <3>1. held'[c] = held[c] /\ last'[c] = last[c] /\ base'[c] = base[c] BY <1>0, <1>14, <2>2, Zenon
    <3>2. last'[c] >= last[c] BY <1>5, <3>1
    <3> QED BY <1>4, <1>13, <2>1, <3>1, <3>2, HeldKept, Zenon
  <2>3. CASE ~ok
    <3>1. held'[c].on /\ held'[c].events = HoldOf(s).events /\ held'[c].missed = HoldOf(s).missed
      BY <1>14, <2>3, Zenon
    <3>2. InLine(HoldOf(s).events, Lo(c)', Accounted(c)')
      BY <1>5, <1>13, <1>16, <1>17, LineGrown, Zenon
    <3>3. /\ \A e \in Elements(HoldOf(s).events) : e \in 1..last'[c] /\ Lo(c)' <= e + 1
          /\ HoldOf(s).missed <= last'[c]
      <4>1. 0 <= last'[c] BY <1>0, <1>5
      <4>2. \A e \in Elements(s) : e <= last'[c] BY <1>5, <1>19
      <4> QED BY <1>16, <1>19, <4>1, <4>2, Zenon
    <3> QED BY <1>13, <2>1, <3>1, <3>2, <3>3, Zenon DEF HeldInv
  <2> QED BY <2>2, <2>3, Zenon
<1>22. Buffered(c) = {} /\ (~ok => Elements(s) \subseteq Buffered(c)')
  <2>1. 1..0 = {} OBVIOUS
  <2>2. held[c].events = <<>> /\ held[c].missed = 0 BY <1>6, Zenon
  <2> QED BY <1>14, <1>16, <2>1, <2>2, LineEmpty, Zenon DEF Buffered
<1>23. Remembered(c)
  <2>1. Decoded(c) \subseteq Decoded(c)'
    BY <1>0, <1>13, <1>22, Zenon DEF Decoded, Grown
  <2>2. Elements(s) \subseteq Cover(c)'
    <3>1. CASE ok
      <4>1. caught'[c].events = Tail(s) BY <1>9, <3>1, Zenon
      <4> QED BY <1>10, <1>13, <3>1, <4>1, Zenon DEF Cover, Decoded, Coming
    <3>2. CASE ~ok BY <1>22, <3>2, Zenon DEF Cover, Decoded
    <3> QED BY <3>1, <3>2, Zenon
  <2>3. Coming(c) \subseteq Cover(c)'
    <3>1. Coming(c) = Elements(s) \cup caught[c].missing BY <1>2, Zenon DEF Coming, s
    <3>2. caught[c].missing \subseteq Cover(c)' BY <1>9, Zenon DEF Cover, Coming
    <3> QED BY <2>2, <3>1, <3>2, Zenon
  <2> QED BY <2>1, <2>3, Zenon DEF Remembered, Cover
<1>24. StreamInv(c)'
  <2>1. out'[c] = <<>> /\ out[c] = <<>>
    BY <1>0, <1>4, Zenon DEF StreamInv, Pumping
  <2>2. InLine(out'[c], Lo(c)', (Accounted(c) \cup Buffered(c))') BY <2>1, LineEmpty, Zenon
  <2>3. Open' => Open BY <1>3, Zenon DEF StageKept
  <2> QED BY <1>0, <1>4, <1>13, <1>23, <2>1, <2>2, <2>3, StreamKept, Zenon
<1> QED BY <1>2, <1>13, <1>15, <1>20, <1>21, <1>24, OneChat, Zenon

=============================================================================
