--------------------------- MODULE DeliveryProofs ---------------------------
(***************************************************************************)
(* The theorems about Delivery: the steps of the live stream, of the       *)
(* retries and of a login keep DeliveryInv, it holds initially, and it     *)
(* implies that no message is lost or delivered out of order, that no held *)
(* chat is forgotten, and that Delivery implements AtLeastOnce.            *)
(***************************************************************************)
EXTENDS DeliveryLemmas

-----------------------------------------------------------------------------
(* The live stream *)

\* A push joins the line of undecoded ones.
LEMMA Pushed ==
  ASSUME Typed, Typed', Honest, Up, NEW c \in Chats, NEW l \in Nat,
         UNCHANGED <<phase, todo, mem, disk, base, caught, seen, out, held, bridged, noticed,
                     first>>,
         \A d \in Chats \ {c} : last'[d] = last[d] /\ pushes'[d] = pushes[d],
         pushes'[c] = IF Open THEN Append(pushes[c], l) ELSE pushes[c],
         l >= base[c] + 1, l <= last[c] + 1,
         last'[c] = Larger(last[c], l)
  PROVE  Honest'
<1>1. \A d \in Chats : StageKept(d) BY StageSame, Zenon
<1>2. FileInv(c) /\ MemInv(c) /\ CaughtInv(c) /\ HeldInv(c) /\ StreamInv(c)
  BY Honestly, Zenon
<1>3. /\ first[c] \in Nat /\ base[c] \in Nat /\ last[c] \in Nat /\ Lo(c) \in Nat
      /\ pushes[c] \in Seq(Nat)
  BY Sizes, Zenon DEF Sized
<1>4. last'[c] >= last[c] /\ l <= last'[c] /\ (last'[c] = last[c] \/ last'[c] = l)
  BY <1>3 DEF Larger
<1>5. Settled(c)
  <2>1. noticed[c] \subseteq 1..last[c] BY <1>2, Zenon DEF FileInv, Accounted
  <2> QED BY <1>4, <2>1, Zenon DEF Settled
<1>6. Grown(c) /\ FileInv(c)' BY <1>2, <1>5, FileKept, Zenon
<1>7. MemInv(c)' BY <1>1, <1>2, <1>5, MemKept, Zenon DEF StageKept
<1>8. CaughtInv(c)' BY <1>1, <1>2, <1>4, <1>6, CaughtKept, Zenon DEF StageKept
<1>9. HeldInv(c)' BY <1>1, <1>2, <1>4, <1>6, HeldKept, Zenon DEF StageKept
<1>10. /\ Lo(c)' = Lo(c) /\ Accounted(c)' = Accounted(c) /\ Buffered(c)' = Buffered(c)
       /\ Decoded(c)' = Decoded(c) /\ Cover(c)' = Cover(c) /\ (Open' <=> Open)
       /\ (Pumping' <=> Pumping)
  BY Zenon DEF Lo, Accounted, Buffered, Decoded, Cover, Coming, ChainDue, Open, Pumping
<1>11. StreamInv(c)'
  <2>1. \A e \in Elements(out'[c]) : e \in 1..last'[c] /\ Lo(c)' <= e + 1
    <3>1. \A e \in Elements(out[c]) : e \in 1..last[c] /\ Lo(c) <= e + 1
      BY <1>2, Zenon DEF StreamInv
    <3> QED BY <1>3, <1>4, <1>10, <3>1
  <2>2. CASE ~Open
    <3>1. Elements(pushes'[c]) \subseteq (base[c] + 1)..last'[c]
      <4>1. Elements(pushes[c]) \subseteq (base[c] + 1)..last[c] BY <1>2, Zenon DEF StreamInv
      <4>2. pushes'[c] = pushes[c] BY <2>2, Zenon
      <4>3. last'[c] \in Nat BY <1>3, Zenon DEF Larger
      <4> QED BY <1>3, <1>4, <4>1, <4>2, <4>3
    <3> QED BY <1>2, <1>10, <2>1, <2>2, <3>1, Zenon DEF StreamInv
  <2>3. CASE Open
    <3> DEFINE s == pushes[c]
    <3>1. pushes'[c] = Append(s, l) BY <2>3, Zenon
    <3>2. /\ InLine(s, Lo(c), Cover(c)) /\ Lo(c)..last[c] \subseteq Cover(c) \cup Elements(s)
          /\ Elements(s) \subseteq (base[c] + 1)..last[c]
      BY <1>2, <2>3, Zenon DEF StreamInv
    <3> HIDE DEF s
    <3>3. Lo(c)..(l - 1) \subseteq Cover(c) \cup Elements(s) BY <1>3, <3>2
    <3>4. InLine(Append(s, l), Lo(c), Cover(c)) /\ Elements(Append(s, l)) = Elements(s) \cup {l}
      <4>1. s \in Seq(Nat) BY <1>3, Zenon DEF s
      <4>2. InLine(s, Lo(c), Cover(c)) BY <3>2, Zenon
      <4>3. Lo(c) \in Nat BY <1>3, Zenon
      <4> HIDE DEF s
      <4> QED BY <3>3, <4>1, <4>2, <4>3, LineJoin
    <3>5. Lo(c)..last'[c] \subseteq Cover(c) \cup (Elements(s) \cup {l})
      <4>1. last'[c] = last[c] \/ (last'[c] = l /\ l = last[c] + 1) BY <1>3 DEF Larger
      <4> QED BY <1>3, <3>2, <4>1
    <3>6. Elements(s) \cup {l} \subseteq (base[c] + 1)..last'[c]
      <4>1. last'[c] \in Nat BY <1>3, Zenon DEF Larger
      <4> QED BY <1>3, <1>4, <3>2, <4>1
    <3>7. /\ InLine(pushes'[c], Lo(c)', Cover(c)')
          /\ Lo(c)'..last'[c] \subseteq Cover(c)' \cup Elements(pushes'[c])
          /\ Elements(pushes'[c]) \subseteq (base[c] + 1)..last'[c]
      BY <1>10, <3>1, <3>4, <3>5, <3>6, Zenon
    <3> QED BY <1>2, <1>10, <2>1, <3>7, Zenon DEF StreamInv
  <2> QED BY <2>2, <2>3, Zenon
<1>12. \A d \in Chats \ {c} : Aside(d) BY <1>1, QuietAside, Zenon
<1> QED BY <1>6, <1>7, <1>8, <1>9, <1>11, <1>12, OneChat, Zenon

\* A new message is pushed behind the others, or found by the next login.
LEMMA AppendKeeps ==
  ASSUME Typed, Typed', Honest, NEW c \in Chats, ServerAppend(c)
  PROVE  Honest'
<1>0. /\ last' = [last EXCEPT ![c] = last[c] + 1]
      /\ pushes' = IF phase \in {"down", "closing"} THEN pushes
                   ELSE [pushes EXCEPT ![c] = Append(pushes[c], last[c] + 1)]
      /\ UNCHANGED <<phase, todo, mem, disk, base, caught, seen, out, held, bridged, noticed,
                     first>>
  BY Zenon DEF ServerAppend
<1>1. last[c] \in Nat BY Sizes, Zenon DEF Sized
<1>2. /\ last'[c] = last[c] + 1
      /\ \A d \in Chats \ {c} : last'[d] = last[d] /\ pushes'[d] = pushes[d]
      /\ pushes'[c] = IF Open THEN Append(pushes[c], last[c] + 1) ELSE pushes[c]
  <2>1. DOMAIN last = Chats /\ DOMAIN pushes = Chats BY Zenon DEF Typed
  <2> QED BY <1>0, <2>1, Zenon DEF Open
<1>3. CASE Up
  <2>1. base[c] \in Nat BY Sizes, Zenon DEF Sized
  <2>2. base[c] <= last[c] BY <1>3, Honestly, Zenon DEF MemInv
  <2>3. /\ last[c] + 1 \in Nat /\ last[c] + 1 >= base[c] + 1 /\ last[c] + 1 <= last[c] + 1
        /\ last'[c] = Larger(last[c], last[c] + 1)
    BY <1>1, <1>2, <2>1, <2>2 DEF Larger
  <2> QED BY <1>0, <1>2, <1>3, <2>3, Pushed, Zenon
<1>4. CASE ~Up
  <2>1. ~Up' BY <1>0, <1>4, Zenon DEF Up
  <2> SUFFICES ASSUME NEW d \in Chats PROVE FileInv(d)' BY <2>1, Zenon DEF Honest, ChatInv
  <2>2. FileInv(d) BY Zenon DEF Honest, ChatInv
  <2>3. noticed[d] \subseteq 1..last[d] BY <2>2, Zenon DEF FileInv, Accounted
  <2>4. last'[d] >= last[d]
    <3>1. last[d] \in Nat BY Sizes, Zenon DEF Sized
    <3> QED BY <1>2, <3>1
  <2>5. Settled(d) BY <1>0, <2>3, <2>4, Zenon DEF Settled
  <2> QED BY <1>4, <2>2, <2>5, FileKept, Zenon
<1> QED BY <1>3, <1>4, Zenon

\* The server may push a message again.
LEMMA RepeatKeeps ==
  ASSUME Typed, Typed', Honest, NEW c \in Chats, NEW l \in LogIDs, RepeatPush(c, l)
  PROVE  Honest'
<1>0. /\ phase = "live" /\ l \in (base[c] + 1)..last[c]
      /\ pushes' = [pushes EXCEPT ![c] = Append(pushes[c], l)]
      /\ UNCHANGED <<last, phase, todo, mem, disk, base, caught, seen, out, held, bridged,
                     noticed, first>>
  BY Zenon DEF RepeatPush
<1>1. last[c] \in Nat /\ base[c] \in Nat BY Sizes, Zenon DEF Sized
<1>2. l \in Nat /\ l >= base[c] + 1 /\ l <= last[c] + 1 /\ last'[c] = Larger(last[c], l)
  BY <1>0, <1>1 DEF Larger
<1>3. Up /\ Open BY <1>0, Zenon DEF Up, Open
<1>4. /\ \A d \in Chats \ {c} : last'[d] = last[d] /\ pushes'[d] = pushes[d]
      /\ pushes'[c] = IF Open THEN Append(pushes[c], l) ELSE pushes[c]
  <2>1. DOMAIN pushes = Chats BY Zenon DEF Typed
  <2> QED BY <1>0, <1>3, <2>1, Zenon
<1> QED BY <1>0, <1>2, <1>3, <1>4, Pushed, Zenon

\* RecordDeliveryStart leaves the floor where it is, once there is one.
Floor(c, l) ==
  IF mem.cursor[c] > 0 THEN mem.start[c]
  ELSE IF mem.start[c] = 0 THEN l ELSE Smaller(mem.start[c], l)

\* Admitting a push records its floor in memory and in the file; if that fails
\* the memory is as before, and the file may be either.
LEMMA Admits ==
  ASSUME Typed, NEW c \in Chats, NEW l \in Nat, NEW ok \in BOOLEAN, AdmitStart(c, l, ok)
  PROVE  /\ mem'.cursor[c] = mem.cursor[c]
         /\ IF ok THEN /\ mem'.start[c] = Floor(c, l)
                       /\ disk' = mem' \/ (mem' = mem /\ disk' = disk)
                  ELSE /\ mem' = mem
                       /\ \/ disk' = disk
                          \/ disk'.cursor[c] = mem.cursor[c] /\ disk'.start[c] = Floor(c, l)
         /\ \A d \in Chats \ {c} :
              /\ mem'.cursor[d] = mem.cursor[d] /\ mem'.start[d] = mem.start[d]
              /\ mem'.known[d] = mem.known[d]
              /\ \/ disk'.cursor[d] = disk.cursor[d] /\ disk'.start[d] = disk.start[d]
                 \/ disk'.cursor[d] = mem.cursor[d] /\ disk'.start[d] = mem.start[d]
<1> DEFINE next == RecordDeliveryStart(mem, c, l)
<1>1. Started(mem, next, c, l) BY StartChanges, Zenon DEF Typed
<1>2. \/ ok /\ mem' = mem /\ disk' = disk /\ next = mem
      \/ ok /\ mem' = next /\ disk' = next
      \/ ~ok /\ mem' = mem /\ (disk' = disk \/ disk' = next)
  BY Zenon DEF AdmitStart, Write
<1> HIDE DEF next
<1>3. next.cursor[c] = mem.cursor[c] /\ next.start[c] = Floor(c, l)
  BY <1>1, Zenon DEF Started, Floor
<1>4. \A d \in Chats \ {c} : /\ next.cursor[d] = mem.cursor[d] /\ next.start[d] = mem.start[d]
                             /\ next.known[d] = mem.known[d]
  BY <1>1, Zenon DEF Started
<1> QED BY <1>2, <1>3, <1>4, Zenon

\* The first undecoded push: nothing before it is unknown.
LEMMA HeadPush ==
  ASSUME Typed, NEW c \in Chats, StreamInv(c), Open, pushes[c] # <<>>
  PROVE  LET l == Head(pushes[c])
         IN  /\ l \in Nat /\ l >= base[c] + 1 /\ l <= last[c]
             /\ Lo(c)..(l - 1) \subseteq Cover(c)
             /\ Tail(pushes[c]) \in Seq(Nat)
             /\ InLine(Tail(pushes[c]), Lo(c), Cover(c) \cup {l})
             /\ Elements(pushes[c]) = {l} \cup Elements(Tail(pushes[c]))
<1> DEFINE s == pushes[c]
<1>1. s \in Seq(Nat) /\ Lo(c) \in Nat /\ base[c] \in Nat /\ last[c] \in Nat
  BY Sizes, Zenon DEF Sized
<1>2. InLine(s, Lo(c), Cover(c)) /\ Elements(s) \subseteq (base[c] + 1)..last[c]
  BY Zenon DEF StreamInv
<1>3. s # <<>> BY Zenon
<1> HIDE DEF s
<1>4. /\ Head(s) \in Nat /\ Tail(s) \in Seq(Nat) /\ Lo(c)..(Head(s) - 1) \subseteq Cover(c)
      /\ InLine(Tail(s), Lo(c), Cover(c) \cup {Head(s)})
      /\ Elements(s) = {Head(s)} \cup Elements(Tail(s))
  BY <1>1, <1>2, <1>3, LineHead, Zenon
<1>5. Head(s) \in (base[c] + 1)..last[c] BY <1>2, <1>4, Zenon
<1>6. Head(s) >= base[c] + 1 /\ Head(s) <= last[c] BY <1>1, <1>5
<1> QED BY <1>4, <1>6, Zenon DEF s

\* The stream goes on behind a push that is known now.
LEMMA TailPush ==
  ASSUME Typed, Typed', NEW c \in Chats, StreamInv(c), Open, pushes[c] # <<>>,
         pushes'[c] = Tail(pushes[c]), Lo(c)' = Lo(c), last' = last, base' = base,
         Cover(c) \subseteq Cover(c)', Head(pushes[c]) \in Cover(c)'
  PROVE  /\ Elements(pushes'[c]) \subseteq (base'[c] + 1)..last'[c]
         /\ InLine(pushes'[c], Lo(c)', Cover(c)')
         /\ Lo(c)'..last'[c] \subseteq Cover(c)' \cup Elements(pushes'[c])
<1> DEFINE s == pushes[c]
           l == Head(s)
           t == Tail(s)
<1>1. /\ l \in Nat /\ t \in Seq(Nat) /\ InLine(t, Lo(c), Cover(c) \cup {l})
      /\ Elements(s) = {l} \cup Elements(t)
  BY HeadPush, Zenon
<1>2. /\ Elements(s) \subseteq (base[c] + 1)..last[c]
      /\ Lo(c)..last[c] \subseteq Cover(c) \cup Elements(s)
  BY Zenon DEF StreamInv
<1>3. l \in Cover(c)' /\ pushes'[c] = t /\ Lo(c) \in Nat BY Sizes, Zenon DEF Sized
<1> HIDE DEF s, l, t
<1>4. InLine(t, Lo(c), Cover(c)')
  <2>1. \A p \in Nat : Lo(c) <= p /\ (p < Lo(c) \/ p \in Cover(c) \cup {l}) => p \in Cover(c)'
    BY <1>3
  <2> QED BY <1>1, <1>3, <2>1, LineKept, Zenon
<1> QED BY <1>1, <1>2, <1>3, <1>4, Zenon

\* A push is dropped if it is committed or was seen; otherwise it is admitted
\* and queued, or the session ends.
LEMMA DecodeKeeps ==
  ASSUME Typed, Typed', Honest, NEW c \in Chats, Decode(c)
  PROVE  Honest'
<1> DEFINE l == Head(pushes[c])
           drop == IsCommitted(mem, c, l) \/ <<c, l>> \in Elements(seen)
<1>0. /\ phase = "live" /\ pushes[c] # <<>>
      /\ pushes' = [pushes EXCEPT ![c] = Tail(pushes[c])]
      /\ UNCHANGED <<last, base, caught, held, bridged, noticed, todo>>
  BY Zenon DEF Decode
<1>1. Up /\ Open /\ Pumping BY <1>0, Zenon DEF Up, Open, Pumping
<1>2. ~Early /\ ~ChainDue(c) /\ Emptied(c) /\ ~Unheld(c) BY <1>1, Lively, Zenon
<1>3. FileInv(c) /\ MemInv(c) /\ CaughtInv(c) /\ HeldInv(c) /\ StreamInv(c)
  BY <1>1, Honestly, Zenon
<1>4. /\ first[c] \in Nat /\ base[c] \in Nat /\ last[c] \in Nat /\ Lo(c) \in Nat
      /\ mem.cursor[c] \in Nat /\ mem.start[c] \in Nat
  BY Sizes, Zenon DEF Sized
<1>5. /\ l \in Nat /\ l >= base[c] + 1 /\ l <= last[c] /\ Lo(c)..(l - 1) \subseteq Cover(c)
  BY <1>0, <1>1, <1>3, HeadPush, Zenon
<1>6. Cover(c) = Decoded(c)
  <2>1. caught[c].events = <<>> /\ caught[c].missing = {} BY <1>2, <1>3, Zenon DEF CaughtInv
  <2>2. Coming(c) = {} BY <1>2, <2>1, LineEmpty, Zenon DEF Coming
  <2> QED BY <2>2, Zenon DEF Cover
<1>7. /\ pushes'[c] = Tail(pushes[c])
      /\ \A d \in Chats \ {c} : pushes'[d] = pushes[d]
  <2>1. DOMAIN pushes = Chats BY Zenon DEF Typed
  <2> QED BY <1>0, <2>1, Zenon
<1>8. /\ last'[c] >= last[c] /\ last'[c] = last[c] /\ base'[c] = base[c]
      /\ noticed[c] \subseteq 1..last[c] /\ Accounted(c)' = Accounted(c)
      /\ Buffered(c)' = Buffered(c)
  BY <1>0, <1>3, <1>4 DEF FileInv, Accounted, Buffered
\* All but the stream follows once the file and the memory are honest.
<1>9. ASSUME FileInv(c)', MemInv(c)', Lo(c)' = Lo(c), first'[c] = 0 => first[c] = 0,
             phase' \in {"live", "closing"}, StreamInv(c)', \A d \in Chats \ {c} : Aside(d)
      PROVE  Honest'
  <2>1. Grown(c) BY <1>8, <1>9, Zenon DEF Grown
  <2>2. Pumping' BY <1>9, Zenon DEF Pumping
  <2>3. ~Early' /\ ~Unheld(c)' BY <1>9, Zenon DEF Early, Unheld
  <2>4. CaughtInv(c)' BY <1>0, <1>2, <1>3, <1>8, <1>9, <2>1, CaughtKept, Zenon
  <2>5. HeldInv(c)' BY <1>0, <1>3, <1>8, <1>9, <2>1, <2>3, HeldKept, Zenon
  <2> QED BY <1>1, <1>9, <2>4, <2>5, OneChat, Zenon
<1>10. ASSUME phase' \in {"live", "closing"} PROVE \A d \in Chats : StageKept(d)
  BY <1>0, <1>10, Zenon DEF StageKept, Up, Open, Early, Pumping, ChainDue, Emptied, Unheld
<1> HIDE DEF drop
<1>11. CASE drop
  <2>1. UNCHANGED <<mem, disk, phase, seen, out, first>> BY <1>11, Zenon DEF Decode, drop
  <2>2. \A d \in Chats : StageKept(d) BY <1>1, <1>0, <2>1, StageSame, Zenon
  <2>3. \A d \in Chats \ {c} : Aside(d) BY <1>0, <1>7, <2>1, <2>2, QuietAside, Zenon
  <2>4. Settled(c) BY <1>0, <1>8, <2>1, Zenon DEF Settled
  <2>5. FileInv(c)' BY <1>3, <2>4, FileKept, Zenon
  <2>6. MemInv(c)' BY <1>1, <1>3, <2>1, <2>2, <2>4, MemKept, Zenon DEF StageKept
  <2>7. Lo(c)' = Lo(c) BY <1>0, <2>1, Zenon DEF Lo
  <2>8. l \in Decoded(c)
    <3>1. CASE IsCommitted(mem, c, l)
      <4>1. mem.cursor[c] > 0 /\ l <= mem.cursor[c] BY <3>1, Zenon DEF IsCommitted
      <4>2. first[c] > 0 BY <1>3, <1>4, <4>1 DEF MemInv
      <4>3. first[c]..mem.cursor[c] \subseteq Accounted(c) BY <1>3, <4>2, Zenon DEF MemInv, Behind
      <4>4. first[c] <= base[c] + 1 BY <1>3, Zenon DEF MemInv
      <4>5. l \in first[c]..mem.cursor[c] BY <1>4, <1>5, <4>1, <4>4
      <4> QED BY <4>3, <4>5, Zenon DEF Decoded
    <3>2. CASE <<c, l>> \in Elements(seen) BY <1>3, <1>5, <3>2, Zenon DEF StreamInv
    <3> QED BY <1>11, <3>1, <3>2, Zenon DEF drop
  <2>9. Decoded(c)' = Decoded(c) /\ Cover(c)' = Cover(c) /\ (Open' <=> Open) /\ (Pumping' <=> Pumping)
    BY <1>0, <1>8, <2>1, Zenon DEF Decoded, Cover, Coming, ChainDue, Open, Pumping
  <2>10. StreamInv(c)'
    <3>1. /\ Elements(pushes'[c]) \subseteq (base'[c] + 1)..last'[c]
          /\ InLine(pushes'[c], Lo(c)', Cover(c)')
          /\ Lo(c)'..last'[c] \subseteq Cover(c)' \cup Elements(pushes'[c])
      <4>1. Head(pushes[c]) \in Cover(c)' /\ Cover(c) \subseteq Cover(c)'
        BY <1>6, <2>8, <2>9, Zenon
      <4> QED BY <1>0, <1>1, <1>3, <1>7, <2>7, <4>1, TailPush, Zenon
    <3> QED BY <1>0, <1>3, <1>8, <2>1, <2>7, <2>9, <3>1, Zenon DEF StreamInv
  <2> QED BY <1>0, <1>9, <2>1, <2>3, <2>5, <2>6, <2>7, <2>10, Zenon
<1>12. ASSUME ~drop, NEW ok \in BOOLEAN, AdmitStart(c, l, ok),
              IF ok THEN /\ seen' = Remember(c, l)
                         /\ out' = [out EXCEPT ![c] = Append(out[c], l)]
                         /\ first' = IF first[c] = 0 THEN [first EXCEPT ![c] = l] ELSE first
                         /\ phase' = phase
                    ELSE phase' = "closing" /\ UNCHANGED <<seen, out, first>>
       PROVE  Honest'
  <2>0. phase' \in {"live", "closing"} BY <1>0, <1>12, Zenon
  <2>1. \A d \in Chats : StageKept(d) BY <1>10, <2>0, Zenon
  <2>2. /\ mem'.cursor[c] = mem.cursor[c]
        /\ IF ok THEN /\ mem'.start[c] = Floor(c, l)
                      /\ disk' = mem' \/ (mem' = mem /\ disk' = disk)
                 ELSE /\ mem' = mem
                      /\ \/ disk' = disk
                         \/ disk'.cursor[c] = mem.cursor[c] /\ disk'.start[c] = Floor(c, l)
        /\ \A d \in Chats \ {c} :
             /\ mem'.cursor[d] = mem.cursor[d] /\ mem'.start[d] = mem.start[d]
             /\ mem'.known[d] = mem.known[d]
             /\ \/ disk'.cursor[d] = disk.cursor[d] /\ disk'.start[d] = disk.start[d]
                \/ disk'.cursor[d] = mem.cursor[d] /\ disk'.start[d] = mem.start[d]
    BY <1>5, <1>12, Admits, Zenon
  <2> HIDE DEF l
  <2>3. /\ ok => out'[c] = Append(out[c], l)
        /\ first'[c] = IF ok /\ first[c] = 0 THEN l ELSE first[c]
        /\ \A d \in Chats \ {c} : out'[d] = out[d] /\ first'[d] = first[d]
    <3>1. DOMAIN out = Chats /\ DOMAIN first = Chats BY Zenon DEF Typed
    <3> QED BY <1>12, <3>1, Zenon
  <2>4. /\ \A x \in Elements(seen') : x \in Elements(seen) \cup {<<c, l>>}
        /\ ~ok => seen' = seen
    <3>1. CASE ok
      <4> DEFINE x == <<c, l>>
                 longer == Append(seen, x)
      <4>1. seen \in Seq(Chats \X Nat) /\ x \in Chats \X Nat BY <1>5, Zenon DEF Typed
      <4>2. seen' = IF Len(longer) > SeenLimit THEN Tail(longer) ELSE longer
        BY <1>12, <3>1, Zenon DEF Remember
      <4> HIDE DEF x
      <4>3. \A i \in DOMAIN longer : longer[i] \in Elements(seen) \cup {x}
        BY <4>1 DEF Elements
      <4>4. longer \in Seq(Chats \X Nat) /\ longer # <<>> BY <4>1
      <4> HIDE DEF longer
      <4>5. \A i \in DOMAIN Tail(longer) : i + 1 \in DOMAIN longer /\ Tail(longer)[i] = longer[i + 1]
        BY <4>4
      <4>6. \A i \in DOMAIN seen' : seen'[i] \in Elements(seen) \cup {x}
        BY <4>2, <4>3, <4>5, Zenon
      <4> QED BY <3>1, <4>6, Zenon DEF Elements, x
    <3>2. CASE ~ok BY <1>12, <3>2, Zenon
    <3> QED BY <3>1, <3>2, Zenon
  <2>5. \A d \in Chats \ {c} : Aside(d)
    <3>1. \A d \in Chats \ {c} : \A k \in Nat : <<d, k>> \in Elements(seen') => <<d, k>> \in Elements(seen)
      <4> SUFFICES ASSUME NEW d \in Chats \ {c}, NEW k \in Nat, <<d, k>> \in Elements(seen')
                   PROVE  <<d, k>> \in Elements(seen)
        BY Zenon
      <4>1. <<d, k>> # <<c, l>> BY Zenon
      <4> QED BY <2>4, <4>1, Zenon
    <3> QED BY <1>0, <1>7, <2>1, <2>2, <2>3, <3>1, Zenon DEF Aside
  <2>6. Lo(c)' = Lo(c) /\ FileInv(c)' /\ MemInv(c)' /\ (ok => first'[c] > 0)
    <3>1. CASE first[c] > 0
      <4>1. Floor(c, l) = mem.start[c]
        <5>1. first[c] <= base[c] + 1 /\ (mem.cursor[c] > 0 \/ mem.start[c] = first[c])
          BY <1>3, <3>1, Zenon DEF MemInv, Behind
        <5> QED BY <1>4, <1>5, <3>1, <5>1 DEF Floor, Smaller
      <4>2. first'[c] = first[c] BY <1>4, <2>3, <3>1
      <4>3. Settled(c)
        <5>1. mem'.start[c] = mem.start[c] BY <2>2, <4>1, Zenon
        <5>2. \/ disk'.cursor[c] = disk.cursor[c] /\ disk'.start[c] = disk.start[c]
              \/ disk'.cursor[c] = mem.cursor[c] /\ disk'.start[c] = mem.start[c]
          BY <2>2, <4>1, Zenon
        <5> QED BY <1>0, <1>1, <1>8, <2>2, <4>2, <5>1, <5>2, Zenon DEF Settled
      <4>4. FileInv(c)' BY <1>3, <4>3, FileKept, Zenon
      <4>5. MemInv(c)' BY <1>1, <1>2, <1>3, <2>1, <4>3, MemKept, Zenon DEF StageKept
      <4>6. Lo(c)' = Lo(c) BY <1>0, <4>2, Zenon DEF Lo
      <4> QED BY <3>1, <4>2, <4>4, <4>5, <4>6, Zenon
    <3>2. CASE ~(first[c] > 0)
      <4>1. first[c] = 0 /\ Lo(c) = base[c] + 1 BY <1>4, <3>2 DEF Lo
      <4>2. /\ mem.cursor[c] = 0 /\ mem.start[c] = 0 /\ bridged[c] \subseteq 1..base[c]
            /\ noticed[c] = {} /\ Elements(held[c].events) \subseteq 1..base[c]
            /\ held[c].missed = 0 /\ out[c] = <<>> /\ base[c] <= last[c]
        BY <1>3, <4>1, Zenon DEF FileInv, MemInv, HeldInv, StreamInv
      <4>3. Decoded(c) \subseteq 1..base[c]
        BY <4>2, LineEmpty DEF Decoded, Accounted, Buffered
      <4>4. l = base[c] + 1
        <5>1. ~(base[c] + 1 <= l - 1)
          <6>1. base[c] + 1 \notin Decoded(c) BY <1>4, <4>3
          <6>2. base[c] + 1 <= l - 1 => base[c] + 1 \in Lo(c)..(l - 1) BY <1>4, <1>5, <4>1
          <6>3. Lo(c)..(l - 1) \subseteq Decoded(c) BY <1>5, <1>6, Zenon DEF l
          <6> QED BY <6>1, <6>2, <6>3, Zenon
        <5> QED BY <1>4, <1>5, <5>1 DEF l
      <4>5. Floor(c, l) = l BY <4>2 DEF Floor
      <4>6. Accounted(c)' \subseteq 1..last'[c] BY <1>3, <1>8, Zenon DEF FileInv
      <4>7. l <= last[c] BY <1>5, Zenon DEF l
      <4>8. ~Early' BY <1>2, <2>1, Zenon DEF StageKept
      <4>9. CASE ok
        <5>1. first'[c] = l /\ mem'.cursor[c] = 0 /\ mem'.start[c] = l
          BY <2>2, <2>3, <4>1, <4>2, <4>5, <4>9, Zenon
        <5>2. disk' = mem' BY <1>4, <2>2, <4>2, <4>4, <4>9, <5>1
        <5>3. first'[c] > 0 /\ ~(first'[c] = 0) BY <1>4, <4>4, <5>1
        <5>4. Lo(c)' = Lo(c) BY <1>4, <4>1, <4>4, <5>1, <5>3, Zenon DEF Lo
        <5>5. l..0 = {} BY <1>4, <4>4
        <5>6. Behind(mem, c)' BY <5>1, <5>5 DEF Behind
        <5>7. Behind(disk, c)' BY <5>1, <5>2, <5>5 DEF Behind
        <5>8. \A p \in bridged'[c] : first'[c]..p \subseteq Accounted(c)'
          <6>1. \A p \in 1..base[c] : l..p = {} BY <1>4, <4>4
          <6>2. bridged'[c] = bridged[c] BY <1>0, Zenon
          <6> QED BY <4>2, <5>1, <6>1, <6>2, Zenon
        <5>9. 0 <= last[c] /\ l <= base[c] + 1 BY <1>4, <4>4
        <5>10. FileInv(c)'
          BY <1>8, <4>6, <4>7, <5>1, <5>2, <5>3, <5>7, <5>8, <5>9, Zenon DEF FileInv
        <5>11. MemInv(c)'
          BY <1>8, <4>2, <4>7, <4>8, <5>1, <5>3, <5>6, <5>9, Zenon DEF MemInv
        <5> QED BY <5>3, <5>4, <5>10, <5>11, Zenon
      <4>10. CASE ~ok
        <5>1. first'[c] = 0 /\ mem' = mem BY <2>2, <2>3, <4>1, <4>10, Zenon
        <5>2. Lo(c)' = Lo(c) BY <1>0, <4>1, <5>1, Zenon DEF Lo
        <5>3. CASE disk' = disk
          <6>1. Settled(c) BY <1>0, <1>8, <4>1, <5>1, <5>3, Zenon DEF Settled
          <6>2. FileInv(c)' BY <1>3, <6>1, FileKept, Zenon
          <6>3. MemInv(c)' BY <1>1, <1>3, <4>8, <6>1, MemKept, Zenon
          <6> QED BY <4>10, <5>2, <6>2, <6>3, Zenon
        <5>4. CASE disk'.cursor[c] = mem.cursor[c] /\ disk'.start[c] = Floor(c, l)
          <6>1. disk'.cursor[c] = 0 /\ disk'.start[c] = l BY <4>2, <4>5, <5>4, Zenon
          <6>2. bridged'[c] \subseteq 1..(l - 1) BY <1>0, <1>4, <4>2, <4>4
          <6>3. 0 <= last[c] /\ l > base[c] /\ ~(0 > 0) /\ 0 <= base[c] + 1 BY <1>4, <4>4
          <6>4. FileInv(c)'
            BY <1>0, <1>8, <4>2, <4>6, <4>7, <5>1, <6>1, <6>2, <6>3, Zenon DEF FileInv
          <6>5. MemInv(c)'
            <7>1. 0 \in {0, base'[c]} BY Zenon
            <7>2. bridged'[c] \subseteq 1..base'[c] BY <1>0, <4>2, Zenon
            <7> QED BY <1>8, <4>2, <4>8, <5>1, <6>1, <6>3, <7>1, <7>2, Zenon DEF MemInv
          <6> QED BY <4>10, <5>2, <6>4, <6>5, Zenon
        <5> QED BY <2>2, <4>10, <5>3, <5>4, Zenon
      <4> QED BY <4>9, <4>10, Zenon
    <3> QED BY <3>1, <3>2, Zenon
  <2>7. first'[c] = 0 => first[c] = 0 BY <1>4, <2>3, <2>6, Zenon
  <2>8. StreamInv(c)'
    <3>1. CASE ok
      <4>1. out[c] \in Seq(Nat) /\ l \in Nat /\ Lo(c)..(l - 1) \subseteq Decoded(c)
            /\ Lo(c) <= l + 1
        <5>1. out[c] \in Seq(Nat) BY Sizes, Zenon DEF Sized
        <5>2. first[c] <= base[c] + 1 BY <1>3, Zenon DEF MemInv
        <5>3. Lo(c) <= l BY <1>4, <1>5, <5>2 DEF Lo, l
        <5> QED BY <1>4, <1>5, <1>6, <5>1, <5>3 DEF l
      <4>2. /\ InLine(Append(out[c], l), Lo(c), Accounted(c) \cup Buffered(c))
            /\ Elements(Append(out[c], l)) = Elements(out[c]) \cup {l}
        <5>1. InLine(out[c], Lo(c), Accounted(c) \cup Buffered(c)) BY <1>3, Zenon DEF StreamInv
        <5>2. Lo(c)..(l - 1) \subseteq (Accounted(c) \cup Buffered(c)) \cup Elements(out[c])
          BY <4>1, Zenon DEF Decoded
        <5>3. Lo(c) \in Nat /\ out[c] \in Seq(Nat) /\ l \in Nat BY <1>4, <4>1, Zenon
        <5> DEFINE S == Accounted(c) \cup Buffered(c)
        <5> HIDE DEF S
        <5>4. InLine(out[c], Lo(c), S) /\ Lo(c)..(l - 1) \subseteq S \cup Elements(out[c])
          BY <5>1, <5>2, Zenon DEF S
        <5>5. /\ InLine(Append(out[c], l), Lo(c), S)
              /\ Elements(Append(out[c], l)) = Elements(out[c]) \cup {l}
          BY <5>3, <5>4, LineJoin
        <5> QED BY <5>5, Zenon DEF S
      <4>3. out'[c] = Append(out[c], l) BY <2>3, <3>1, Zenon
      <4>4. Decoded(c)' = Decoded(c) \cup {l} BY <1>8, <4>2, <4>3, Zenon DEF Decoded
      <4>5. Cover(c) \subseteq Cover(c)' /\ l \in Cover(c)' BY <1>6, <4>4, Zenon DEF Cover
      <4>6. /\ Elements(pushes'[c]) \subseteq (base'[c] + 1)..last'[c]
            /\ InLine(pushes'[c], Lo(c)', Cover(c)')
            /\ Lo(c)'..last'[c] \subseteq Cover(c)' \cup Elements(pushes'[c])
        <5>1. Head(pushes[c]) \in Cover(c)' BY <4>5, Zenon DEF l
        <5> QED BY <1>0, <1>1, <1>3, <1>7, <2>6, <4>5, <5>1, TailPush, Zenon
      <4>7. \A e \in Elements(out'[c]) : e \in 1..last'[c] /\ Lo(c)' <= e + 1
        <5>1. \A e \in Elements(out[c]) : e \in 1..last[c] /\ Lo(c) <= e + 1
          BY <1>3, Zenon DEF StreamInv
        <5>2. l \in 1..last[c] BY <1>4, <1>5 DEF l
        <5> QED BY <1>8, <2>6, <4>1, <4>2, <4>3, <5>1, <5>2, Zenon
      <4>8. \A k \in Nat : <<c, k>> \in Elements(seen') =>
              first'[c] > 0 /\ Lo(c)' <= k /\ k \in Decoded(c)'
        <5> SUFFICES ASSUME NEW k \in Nat, <<c, k>> \in Elements(seen')
                     PROVE  Lo(c) <= k /\ k \in Decoded(c) \cup {l}
          BY <2>6, <3>1, <4>4, Zenon
        <5>1. <<c, k>> \in Elements(seen) \/ k = l
          <6>1. <<c, k>> = <<c, l>> => k = l BY Zenon
          <6> QED BY <2>4, <6>1, Zenon
        <5>2. CASE <<c, k>> \in Elements(seen) BY <1>3, <5>2, Zenon DEF StreamInv
        <5>3. CASE k = l
          <6>1. first[c] <= base[c] + 1 BY <1>3, Zenon DEF MemInv
          <6>2. Lo(c) <= l BY <1>4, <1>5, <6>1 DEF Lo, l
          <6> QED BY <5>3, <6>2, Zenon
        <5> QED BY <5>1, <5>2, <5>3, Zenon
      <4>9. Pumping' /\ ~(first'[c] = 0) BY <2>0, <2>6, <3>1 DEF Pumping
      <4>10. InLine(out'[c], Lo(c)', (Accounted(c) \cup Buffered(c))')
        BY <1>8, <2>6, <4>2, <4>3, Zenon
      <4> QED BY <4>6, <4>7, <4>8, <4>9, <4>10, Zenon DEF StreamInv
    <3>2. CASE ~ok
      <4>1. ~Open' /\ Pumping' BY <1>12, <3>2, Zenon DEF Open, Pumping
      <4>2. out' = out /\ first' = first /\ seen' = seen BY <1>12, <3>2, Zenon
      <4>3. Decoded(c)' = Decoded(c) BY <1>8, <4>2, Zenon DEF Decoded
      <4>4. Elements(pushes'[c]) \subseteq (base'[c] + 1)..last'[c]
        <5>1. Elements(pushes[c]) = {l} \cup Elements(Tail(pushes[c]))
          BY <1>0, <1>1, <1>3, HeadPush, Zenon DEF l
        <5>2. Elements(pushes[c]) \subseteq (base[c] + 1)..last[c] BY <1>3, Zenon DEF StreamInv
        <5> QED BY <1>7, <1>8, <5>1, <5>2, Zenon
      <4> QED BY <1>3, <1>8, <2>6, <4>1, <4>2, <4>3, <4>4, <1>1, Zenon DEF StreamInv
    <3> QED BY <3>1, <3>2, Zenon
  <2> QED BY <1>9, <2>0, <2>5, <2>6, <2>7, <2>8, Zenon
<1> QED
  <2>1. CASE ~drop
    <3>1. \E ok \in BOOLEAN :
            /\ AdmitStart(c, l, ok)
            /\ IF ok THEN /\ seen' = Remember(c, l)
                          /\ out' = [out EXCEPT ![c] = Append(out[c], l)]
                          /\ first' = IF first[c] = 0 THEN [first EXCEPT ![c] = l] ELSE first
                          /\ phase' = phase
                     ELSE phase' = "closing" /\ UNCHANGED <<seen, out, first>>
      BY <2>1, Zenon DEF Decode, drop
    <3> QED BY <1>12, <2>1, <3>1, Zenon
  <2> QED BY <1>11, <2>1, Zenon

\* A step of the pump that drops no promised position of chat c.
LEMMA Serves ==
  ASSUME Typed, Typed', Honest, Pumping, NEW c \in Chats,
         UNCHANGED <<phase, todo, last, base, caught, pushes, seen>>,
         \A d \in Chats \ {c} : Aside(d), Grown(c), FileInv(c)', MemInv(c)', HeldInv(c)',
         first'[c] = 0 => first[c] = 0 /\ out'[c] = <<>>,
         InLine(out'[c], Lo(c)', (Accounted(c) \cup Buffered(c))'),
         Elements(out'[c]) \subseteq Elements(out[c]),
         \A p \in Nat : Lo(c)' <= p /\ p \in Decoded(c) => p \in Decoded(c)'
  PROVE  Honest'
<1>1. Up /\ ~ChainDue(c) /\ Emptied(c) BY Lively, Zenon
<1>2. CaughtInv(c) /\ StreamInv(c) BY <1>1, Honestly, Zenon
<1>3. StageKept(c) BY <1>1, StageSame, Zenon
<1>4. Pumping' /\ (Open' => Open) /\ ~ChainDue(c)' BY <1>1, <1>3, Zenon DEF StageKept
<1>5. last'[c] >= last[c] /\ last'[c] = last[c] /\ base'[c] = base[c]
  <2>1. last[c] \in Nat BY Sizes, Zenon DEF Sized
  <2> QED BY <2>1
<1>6. caught[c].events = <<>> BY <1>1, <1>2, Zenon DEF CaughtInv
<1>7. CaughtInv(c)' BY <1>1, <1>2, <1>5, <1>6, CaughtKept, Zenon
<1>8. Remembered(c)
  <2>1. Coming(c)' = Coming(c) BY <1>1, <1>4, Zenon DEF Coming
  <2> QED BY <2>1, Zenon DEF Remembered, Cover
<1>9. StreamInv(c)' BY <1>2, <1>4, <1>5, <1>8, StreamKept, Zenon
<1> QED BY <1>1, <1>7, <1>9, OneChat, Zenon

\* The pump or a retry handled position l of chat c.
LEMMA HandledLine ==
  ASSUME Typed, Typed', Honest, Pumping, NEW c \in Chats, NEW l \in Nat, NEW ok \in BOOLEAN,
         HandleEvent(c, l, queue[c], ok), UNCHANGED <<phase, todo, last, base, noticed>>,
         l \in 1..last[c], Lo(c)..(l - 1) \subseteq Accounted(c), Lo(c) <= l + 1,
         first[c] = 0 => l <= base[c]
  PROVE  Handled(c, l, ok)
<1>1. Up /\ ~Early BY Lively, Zenon
<1>2. FileInv(c) /\ MemInv(c) BY <1>1, Honestly, Zenon
<1>3. first[c] = 0 => l = base[c]
  <2>1. base[c] \in Nat BY Sizes, Zenon DEF Sized
  <2> QED BY <2>1 DEF Lo
<1>4. ~Early' BY <1>1, Zenon DEF Early
<1> QED BY <1>2, <1>3, <1>4, HandledWell, Zenon

\* A failed retry leaves the chat's buffer as it is.
LEMMA HeldAgain ==
  ASSUME Typed, Typed', NEW c \in Chats, ScheduleAgain(c)
  PROVE  /\ held'[c].on = held[c].on /\ held'[c].events = held[c].events
         /\ held'[c].missed = held[c].missed
         /\ \A d \in Chats \ {c} : held'[d] = held[d]
         /\ lookups' >= lookups
         /\ lookups' = 0 => held'[c].due \/ held'[c].paused \/ ~access'[c]
<1> DEFINE n == held[c].attempts + 1
           h == [held[c] EXCEPT !.attempts = n]
<1>1. held[c] \in Holds BY Zenon DEF Typed
<1>2. n \in Nat BY <1>1 DEF Holds
<1>3. ScheduleHeld(c, h) BY Zenon DEF ScheduleAgain
<1> HIDE DEF n
<1>4. /\ h \in Holds /\ h.events = held[c].events /\ h.on = held[c].on
      /\ h.missed = held[c].missed
  BY <1>1, <1>2, Zenon DEF Holds
<1> HIDE DEF h
<1>5. access'[c] \in BOOLEAN BY Zenon DEF Typed
<1>6. /\ held'[c].on = h.on /\ held'[c].events = h.events /\ held'[c].missed = h.missed
      /\ \A d \in Chats \ {c} : held'[d] = held[d]
      /\ lookups' >= lookups
      /\ lookups' = 0 => held'[c].due \/ held'[c].paused \/ ~access'[c]
  BY <1>3, <1>4, <1>5, ScheduleTypes, Zenon
<1> QED BY <1>4, <1>6, Zenon

\* The front of a hold is handled again.
LEMMA RetryKeeps ==
  ASSUME Typed, Typed', Honest, Pumping, NEW c \in Chats, RetryEvent(c)
  PROVE  Honest'
<1> DEFINE s == held[c].events
           l == Head(s)
<1>0. /\ s # <<>> /\ UNCHANGED <<phase, todo, last, base, caught, pushes, seen, out, noticed>>
  BY Zenon DEF RetryEvent
<1>1. PICK ok \in BOOLEAN :
        /\ HandleEvent(c, l, queue[c], ok)
        /\ IF ok THEN /\ held' = [held EXCEPT ![c].events = Tail(@)]
                      /\ UNCHANGED <<retrying, lookups>>
                 ELSE ScheduleAgain(c) /\ retrying' = retrying \ {c}
  BY Zenon DEF RetryEvent
<1>2. Up BY Lively, Zenon
<1>3. FileInv(c) /\ MemInv(c) /\ HeldInv(c) /\ StreamInv(c) BY <1>2, Honestly, Zenon
<1>4. /\ s \in Seq(Nat) /\ Lo(c) \in Nat /\ Lo(c)' \in Nat /\ last[c] \in Nat
      /\ held[c].missed \in Nat
  BY Sizes, SizesNext, Zenon DEF Sized
<1>5. /\ InLine(s, Lo(c), Accounted(c))
      /\ \A e \in Elements(s) : e \in 1..last[c] /\ Lo(c) <= e + 1
      /\ first[c] = 0 => Elements(s) \subseteq 1..base[c]
  BY <1>3, Zenon DEF HeldInv
<1> HIDE DEF s
<1>6. /\ l \in Nat /\ Tail(s) \in Seq(Nat) /\ Lo(c)..(l - 1) \subseteq Accounted(c)
      /\ InLine(Tail(s), Lo(c), Accounted(c) \cup {l})
      /\ Elements(s) = {l} \cup Elements(Tail(s))
  BY <1>0, <1>4, <1>5, LineHead, Zenon
<1> HIDE DEF l
<1>7. l \in 1..last[c] /\ Lo(c) <= l + 1 /\ (first[c] = 0 => l <= base[c])
  <2>1. l \in Elements(s) BY <1>6, Zenon
  <2>2. first[c] = 0 => l \in 1..base[c] BY <1>5, <2>1, Zenon
  <2>3. base[c] \in Nat BY Sizes, Zenon DEF Sized
  <2> QED BY <1>5, <2>1, <2>2, <2>3
<1>8. Handled(c, l, ok) BY <1>0, <1>1, <1>6, <1>7, HandledLine, Zenon
<1>9. /\ held'[c].events = IF ok THEN Tail(s) ELSE s
      /\ held'[c].on = held[c].on /\ held'[c].missed = held[c].missed
      /\ \A d \in Chats \ {c} : held'[d] = held[d]
  <2>0. held \in [Chats -> Holds] /\ held[c] \in Holds BY Zenon DEF Typed
  <2>1. CASE ok
    <3> DEFINE h == [held[c] EXCEPT !.events = Tail(s)]
    <3>1. held' = [held EXCEPT ![c] = h] BY <1>1, <2>1, Zenon DEF s
    <3>2. h.events = Tail(s) /\ h.on = held[c].on /\ h.missed = held[c].missed
      BY <2>0, Zenon DEF Holds
    <3> HIDE DEF h
    <3>3. held'[c] = h /\ \A d \in Chats \ {c} : held'[d] = held[d] BY <2>0, <3>1, Zenon
    <3> QED BY <2>1, <3>2, <3>3, Zenon
  <2>2. CASE ~ok
    <3>1. ScheduleAgain(c) BY <1>1, <2>2, Zenon
    <3> QED BY <2>2, <3>1, HeldAgain, Zenon DEF s
  <2> QED BY <2>1, <2>2, Zenon
<1>10. \A d \in Chats : StageKept(d) BY <1>0, <1>2, StageSame, Zenon
<1>11. \A d \in Chats \ {c} : Aside(d)
  BY <1>0, <1>1, <1>6, <1>9, <1>10, HandleAside, Zenon
<1>12. Grown(c) /\ FileInv(c)' /\ MemInv(c)' /\ (first'[c] = 0 => first[c] = 0)
       /\ (ok => l \in Accounted(c)' /\ first'[c] > 0) /\ (~ok => first'[c] = first[c])
  BY <1>8, Zenon DEF Handled
<1>13. ~Early' /\ ~Unheld(c)'
  <2>1. Pumping' BY <1>0, Zenon DEF Pumping
  <2> QED BY <2>1, Zenon DEF Pumping, Early, Unheld
<1>14. last'[c] >= last[c] /\ last'[c] = last[c] /\ base'[c] = base[c] BY <1>0, <1>4
<1>15. Accounted(c) \subseteq Accounted(c)' BY <1>12, Zenon DEF Grown
<1>16. Buffered(c) \subseteq (Accounted(c) \cup Buffered(c))'
  <2>1. CASE ok BY <1>6, <1>9, <1>12, <2>1, Zenon DEF Buffered, s
  <2>2. CASE ~ok BY <1>9, <2>2, Zenon DEF Buffered, s
  <2> QED BY <2>1, <2>2, Zenon
<1>17. HeldInv(c)'
  <2>1. CASE ok
    <3>1. InLine(Tail(s), Lo(c)', Accounted(c)')
      <4>1. Accounted(c) \cup {l} \subseteq Accounted(c)' BY <1>12, <1>15, <2>1, Zenon
      <4> QED BY <1>4, <1>6, <1>12, <4>1, LineGrown, Zenon
    <3>2. Lo(c)' <= Lo(c) BY <1>12, FloorDown, Zenon
    <3>3. \A e \in Elements(Tail(s)) : e \in 1..last[c] /\ Lo(c)' <= e + 1
      BY <1>4, <1>5, <1>6, <3>2
    <3>4. held[c].missed <= last[c] /\ (~held[c].on => s = <<>>) BY <1>3, Zenon DEF HeldInv, s
    <3>5. held[c].on /\ ~(first'[c] = 0) BY <1>0, <1>12, <2>1, <3>4
    <3>6. held'[c].events = Tail(s) BY <1>9, <2>1, Zenon
    <3> QED BY <1>9, <1>13, <1>14, <3>1, <3>3, <3>4, <3>5, <3>6, Zenon DEF HeldInv
  <2>2. CASE ~ok
    <3>1. held'[c].events = held[c].events BY <1>9, <2>2, Zenon DEF s
    <3> QED BY <1>3, <1>9, <1>12, <1>13, <1>14, <3>1, HeldKept, Zenon
  <2> QED BY <2>1, <2>2, Zenon
<1>18. out'[c] = out[c] BY <1>0, Zenon
<1>19. Decoded(c) \subseteq Decoded(c)' BY <1>15, <1>16, <1>18, Zenon DEF Decoded
<1>20. InLine(out'[c], Lo(c)', (Accounted(c) \cup Buffered(c))')
  BY <1>3, <1>12, <1>16, <1>18, OutKept, Zenon
<1>21. first'[c] = 0 => first[c] = 0 /\ out'[c] = <<>> BY <1>3, <1>12, <1>18, Zenon DEF StreamInv
<1> QED BY <1>0, <1>11, <1>12, <1>17, <1>18, <1>19, <1>20, <1>21, Serves, Zenon

\* The front of the queue is handled, or held behind what is held already.
LEMMA PumpKeeps ==
  ASSUME Typed, Typed', Honest, NEW c \in Chats, Pump(c)
  PROVE  Honest'
<1> DEFINE s == out[c]
           l == Head(s)
<1>0. /\ Pumping /\ s # <<>> /\ out' = [out EXCEPT ![c] = Tail(s)]
      /\ UNCHANGED <<phase, todo, last, base, caught, pushes, seen, noticed>>
  BY Zenon DEF Pump
<1>1. Up BY <1>0, Lively, Zenon
<1>2. FileInv(c) /\ MemInv(c) /\ HeldInv(c) /\ StreamInv(c) BY <1>1, Honestly, Zenon
<1>3. /\ s \in Seq(Nat) /\ Lo(c) \in Nat /\ Lo(c)' \in Nat /\ last[c] \in Nat
      /\ held[c].events \in Seq(Nat) /\ held[c].missed \in Nat /\ first[c] \in Nat
  BY Sizes, SizesNext, Zenon DEF Sized
<1>4. /\ InLine(s, Lo(c), Accounted(c) \cup Buffered(c))
      /\ \A e \in Elements(s) : e \in 1..last[c] /\ Lo(c) <= e + 1
  BY <1>2, Zenon DEF StreamInv
<1>5. first[c] > 0
  <2>1. ~(first[c] = 0) BY <1>0, <1>2, Zenon DEF StreamInv
  <2> QED BY <1>3, <2>1
<1>6. out'[c] = Tail(s) /\ \A d \in Chats \ {c} : out'[d] = out[d]
  <2>1. DOMAIN out = Chats BY Zenon DEF Typed
  <2> QED BY <1>0, <2>1, Zenon
<1> HIDE DEF s
<1>7. /\ l \in Nat /\ Tail(s) \in Seq(Nat) /\ Lo(c)..(l - 1) \subseteq Accounted(c) \cup Buffered(c)
      /\ InLine(Tail(s), Lo(c), (Accounted(c) \cup Buffered(c)) \cup {l})
      /\ Elements(s) = {l} \cup Elements(Tail(s))
  BY <1>0, <1>3, <1>4, LineHead, Zenon
<1>8. l \in 1..last[c] /\ Lo(c) <= l + 1
  <2>1. l \in Elements(s) BY <1>7, Zenon
  <2> QED BY <1>4, <2>1, Zenon
<1>9. \A d \in Chats : StageKept(d) BY <1>0, <1>1, StageSame, Zenon
<1>10. ~Early' /\ ~Unheld(c)'
  <2>1. Pumping' BY <1>0, Zenon DEF Pumping
  <2> QED BY <2>1, Zenon DEF Pumping, Early, Unheld
<1>11. last'[c] >= last[c] /\ last'[c] = last[c] /\ base'[c] = base[c] BY <1>0, <1>3
<1>12. ASSUME \A d \in Chats \ {c} : Aside(d), Grown(c), FileInv(c)', MemInv(c)', HeldInv(c)',
              first'[c] > 0, Buffered(c) \subseteq (Accounted(c) \cup Buffered(c))',
              l \in (Accounted(c) \cup Buffered(c))'
       PROVE  Honest'
  <2> DEFINE S == (Accounted(c) \cup Buffered(c)) \cup {l}
             T == (Accounted(c) \cup Buffered(c))'
  <2>1. S \subseteq T BY <1>12, Zenon DEF Grown
  <2>2. Decoded(c) \subseteq Decoded(c)' /\ Elements(out'[c]) \subseteq Elements(out[c])
    BY <1>6, <1>7, <2>1, Zenon DEF Decoded, s
  <2>3. InLine(out'[c], Lo(c)', T)
    <3>1. Accounted(c)' \subseteq T BY Zenon
    <3>2. InLine(Tail(s), Lo(c), S) BY <1>7, Zenon
    <3> HIDE DEF S, T
    <3>3. InLine(Tail(s), Lo(c)', T) BY <1>3, <1>7, <1>12, <2>1, <3>1, <3>2, LineGrown, Zenon
    <3> QED BY <1>6, <3>3, Zenon
  <2>4. ~(first'[c] = 0) BY <1>12, <1>3
  <2> QED BY <1>0, <1>12, <2>2, <2>3, <2>4, Serves, Zenon
<1> HIDE DEF l
<1>13. CASE held[c].on
  <2>1. /\ held' = [held EXCEPT ![c] = Add(held[c], l)]
        /\ UNCHANGED <<mem, disk, bridged, first>>
    BY <1>13, Zenon DEF Pump, l, s
  <2>2. held'[c] = Add(held[c], l) /\ \A d \in Chats \ {c} : held'[d] = held[d]
    <3>1. DOMAIN held = Chats BY Zenon DEF Typed
    <3> DEFINE h == Add(held[c], l)
    <3> HIDE DEF h
    <3>2. held' = [held EXCEPT ![c] = h] BY <2>1, Zenon DEF h
    <3>3. held'[c] = h /\ \A d \in Chats \ {c} : held'[d] = held[d] BY <3>1, <3>2, Zenon
    <3> QED BY <3>3, Zenon DEF h
  <2>3. \A d \in Chats \ {c} : Aside(d)
    BY <1>0, <1>6, <1>9, <2>1, <2>2, QuietAside, Zenon
  <2>4. Settled(c)
    <3>1. noticed[c] \subseteq 1..last[c] BY <1>2, Zenon DEF FileInv, Accounted
    <3> QED BY <1>0, <1>11, <2>1, <3>1, Zenon DEF Settled
  <2>5. Grown(c) /\ FileInv(c)' BY <1>2, <2>4, FileKept, Zenon
  <2>6. MemInv(c)' BY <1>1, <1>2, <1>10, <2>4, MemKept, Zenon
  <2>7. /\ Lo(c)' = Lo(c) /\ Accounted(c)' = Accounted(c) /\ first'[c] = first[c]
    BY <1>0, <2>1, Zenon DEF Lo, Accounted
  <2>8. /\ InLine(held[c].events, Lo(c), Accounted(c))
        /\ \A e \in Elements(held[c].events) : e \in 1..last[c] /\ Lo(c) <= e + 1
        /\ held[c].missed <= last[c]
    BY <1>2, Zenon DEF HeldInv
  <2>9. held[c] \in Holds BY Zenon DEF Typed
  <2>10. HeldInv(c)' /\ Buffered(c) \subseteq Buffered(c)' /\ l \in Buffered(c)'
    <3>1. CASE held[c].missed = 0 /\ Len(held[c].events) < MaxHeld
      <4>1. /\ held'[c].on /\ held'[c].events = Append(held[c].events, l)
            /\ held'[c].missed = held[c].missed
        BY <1>13, <2>2, <2>9, <3>1, Zenon DEF Add, Holds
      <4>2. Lo(c)..(l - 1) \subseteq Accounted(c) \cup Elements(held[c].events)
        <5>1. Buffered(c) = Elements(held[c].events) BY <3>1 DEF Buffered
        <5> QED BY <1>7, <5>1, Zenon DEF l
      <4>3. /\ InLine(Append(held[c].events, l), Lo(c), Accounted(c))
            /\ Elements(Append(held[c].events, l)) = Elements(held[c].events) \cup {l}
        <5> DEFINE S == Accounted(c)
                   t == held[c].events
        <5>1. /\ l \in Nat /\ t \in Seq(Nat) /\ Lo(c) \in Nat /\ InLine(t, Lo(c), S)
              /\ Lo(c)..(l - 1) \subseteq S \cup Elements(t)
          BY <1>3, <1>7, <2>8, <4>2, Zenon DEF l
        <5> HIDE DEF S, t
        <5>2. /\ InLine(Append(t, l), Lo(c), S)
              /\ Elements(Append(t, l)) = Elements(t) \cup {l}
          BY <5>1, LineJoin, Zenon
        <5> QED BY <5>2, Zenon DEF S, t
      <4>4. \A e \in Elements(held'[c].events) : e \in 1..last[c] /\ Lo(c) <= e + 1
        BY <1>8, <2>8, <4>1, <4>3, Zenon
      <4>5. InLine(held'[c].events, Lo(c), Accounted(c)) BY <4>1, <4>3, Zenon
      <4>6. Buffered(c) \subseteq Buffered(c)' /\ l \in Buffered(c)'
        BY <4>1, <4>3, Zenon DEF Buffered
      <4>7. ~(first'[c] = 0) BY <1>5, <2>7
      <4> QED BY <1>10, <1>11, <2>7, <2>8, <4>1, <4>4, <4>5, <4>6, <4>7, Zenon DEF HeldInv
    <3>2. CASE ~(held[c].missed = 0 /\ Len(held[c].events) < MaxHeld)
      <4>1. /\ held'[c].on /\ held'[c].events = held[c].events
            /\ held'[c].missed = Larger(held[c].missed, l)
        BY <1>13, <2>2, <2>9, <3>2, Zenon DEF Add, Holds
      <4>2. /\ held'[c].missed <= last[c] /\ 1..held[c].missed \subseteq 1..held'[c].missed
            /\ l \in 1..held'[c].missed
        BY <1>3, <1>8, <2>8, <4>1 DEF Larger
      <4>3. Buffered(c) \subseteq Buffered(c)' /\ l \in Buffered(c)'
        BY <4>1, <4>2, Zenon DEF Buffered
      <4>4. ~(first'[c] = 0) BY <1>5, <2>7
      <4> QED BY <1>10, <1>11, <2>7, <2>8, <4>1, <4>2, <4>3, <4>4, Zenon DEF HeldInv
    <3> QED BY <3>1, <3>2, Zenon
  <2> QED BY <1>5, <1>12, <2>3, <2>5, <2>6, <2>7, <2>10, Zenon
<1>14. CASE ~held[c].on
  <2>1. PICK ok \in BOOLEAN :
          /\ HandleEvent(c, l, queue[c], ok)
          /\ IF ok THEN UNCHANGED <<held, lookups>> ELSE ScheduleHeld(c, HoldOf(<<l>>))
    BY <1>14, Zenon DEF Pump, l, s
  <2>2. Buffered(c) = {}
    <3>1. held[c].events = <<>> /\ held[c].missed = 0 BY <1>2, <1>14, Zenon DEF HeldInv
    <3> QED BY <3>1, LineEmpty DEF Buffered
  <2>3. l \in Nat /\ Lo(c)..(l - 1) \subseteq Accounted(c) BY <1>7, <2>2, Zenon DEF l
  <2>4. Handled(c, l, ok)
    <3>1. ~(first[c] = 0) BY <1>5
    <3> QED BY <1>0, <1>8, <2>1, <2>3, <3>1, HandledLine, Zenon
  <2>5. /\ Grown(c) /\ FileInv(c)' /\ MemInv(c)' /\ (first'[c] = 0 => first[c] = 0)
        /\ (ok => l \in Accounted(c)') /\ (~ok => first'[c] = first[c])
    BY <2>4, Zenon DEF Handled
  <2>6. /\ \A d \in Chats \ {c} : held'[d] = held[d]
        /\ ok => held'[c] = held[c]
        /\ ~ok => held'[c].on /\ held'[c].events = <<l>> /\ held'[c].missed = 0
    <3>1. CASE ok BY <2>1, <3>1, Zenon
    <3>2. CASE ~ok
      <4>1. access'[c] \in BOOLEAN BY Zenon DEF Typed
      <4> DEFINE h == HoldOf(<<l>>)
      <4>2. h \in Holds /\ h.on /\ h.events = <<l>> /\ h.missed = 0 BY <2>3, HoldOne, Zenon
      <4>3. ScheduleHeld(c, h) BY <2>1, <3>2, Zenon
      <4> HIDE DEF h
      <4>4. /\ held'[c].on = h.on /\ held'[c].events = h.events /\ held'[c].missed = h.missed
            /\ \A d \in Chats \ {c} : held'[d] = held[d]
        BY <4>1, <4>2, <4>3, ScheduleTypes, Zenon
      <4> QED BY <3>2, <4>2, <4>4, Zenon
    <3> QED BY <3>1, <3>2, Zenon
  <2>7. \A d \in Chats \ {c} : Aside(d)
    <3>1. \A d \in Chats \ {c} : caught'[d] = caught[d] BY <1>0, Zenon
    <3> QED BY <1>0, <1>6, <1>9, <2>1, <2>3, <2>6, <3>1, HandleAside, Zenon
  <2>8. first'[c] > 0 /\ ~(first'[c] = 0)
    <3>1. first'[c] \in Nat BY SizesNext, Zenon DEF Sized
    <3> QED BY <1>5, <2>5, <3>1
  <2>9. HeldInv(c)' /\ l \in (Accounted(c) \cup Buffered(c))'
    <3>1. CASE ok
      <4>1. held'[c].on = held[c].on /\ held'[c].events = held[c].events
            /\ held'[c].missed = held[c].missed
        BY <2>6, <3>1, Zenon
      <4> QED BY <1>2, <1>10, <1>11, <2>5, <3>1, <4>1, HeldKept, Zenon
    <3>2. CASE ~ok
      <4>1. Lo(c)' = Lo(c) BY <1>11, <2>5, <3>2, Zenon DEF Lo
      <4>2. Lo(c)..(l - 1) \subseteq Accounted(c)' BY <2>3, <2>5, Zenon DEF Grown
      <4>3. InLine(<<l>>, Lo(c), Accounted(c)') BY <1>3, <2>3, <4>2, LineOne, Zenon
      <4>4. Elements(<<l>>) = {l} BY <2>3, HoldOne, Zenon
      <4>5. l \in Buffered(c)' BY <2>6, <3>2, <4>4, Zenon DEF Buffered
      <4>6. 0 <= last[c] BY <1>3
      <4>7. \A e \in {l} : e \in 1..last[c] /\ Lo(c) <= e + 1 BY <1>8, Zenon
      <4> QED BY <1>10, <1>11, <2>6, <2>8, <3>2, <4>1, <4>3, <4>4, <4>5, <4>6, <4>7, Zenon DEF HeldInv
    <3> QED BY <3>1, <3>2, Zenon
  <2> QED BY <1>12, <2>2, <2>5, <2>7, <2>8, <2>9, Zenon
<1> QED BY <1>13, <1>14, Zenon

\* An emptied hold that overflowed is refilled from the resume position.
LEMMA CatchUpKeeps ==
  ASSUME Typed, Typed', Honest, Pumping, NEW c \in Chats, RetryCatchUp(c)
  PROVE  Honest'
<1> DEFINE m == held[c].missed
           r == ResumePosition(mem, c)
           interval == [i \in 1..(m - r) |-> r + i]
<1>0. /\ held[c].events = <<>> /\ m > 0
      /\ UNCHANGED <<phase, todo, last, base, caught, pushes, seen, out, bridged, noticed, first>>
  BY Zenon DEF RetryCatchUp
<1>1. PICK ok \in BOOLEAN, events \in {<<>>, interval} :
        /\ CatchUp(c, m, ok, events)
        /\ IF ok THEN held' = [held EXCEPT ![c].events = events, ![c].missed = 0]
                 ELSE ScheduleAgain(c)
  BY Zenon DEF RetryCatchUp
<1>2. Up BY Lively, Zenon
<1>3. FileInv(c) /\ MemInv(c) /\ HeldInv(c) /\ StreamInv(c) BY <1>2, Honestly, Zenon
<1>4. /\ Lo(c) \in Nat /\ Lo(c)' \in Nat /\ last[c] \in Nat /\ m \in Nat /\ first[c] \in Nat
  BY Sizes, SizesNext, Zenon DEF Sized
<1>5. m <= last[c] /\ held[c].on /\ first[c] > 0
  BY <1>0, <1>3, <1>4 DEF HeldInv
<1>6. r \in Nat /\ first[c] <= r + 1 /\ first[c]..r \subseteq Accounted(c)
  BY <1>3, <1>5, Resumes, Zenon
<1>7. /\ GapOnly(mem, mem') /\ (disk' = disk \/ disk' = mem')
      /\ ok => events = IF r >= m THEN <<>> ELSE interval
  <2>1. CP(mem) BY Zenon DEF Typed
  <2>2. \A from, to : GapOnly(mem, RecordGap(mem, c, from, to)) BY <2>1, GapChanges, Zenon
  <2>3. \A to : GapOnly(mem, ResolveGapThrough(mem, c, to)) BY <2>1, GapChanges, Zenon
  <2>4. GapOnly(mem, mem) BY <2>1, Zenon DEF GapOnly
  <2> DEFINE resolved == IF HasGapThrough(mem, c, m) THEN ResolveGapThrough(mem, c, m) ELSE mem
  <2>5. GapOnly(mem, resolved) BY <2>3, <2>4, Zenon
  <2> HIDE DEF m, r, interval, resolved
  <2>6. \/ /\ ok /\ events = IF r >= m THEN <<>> ELSE interval
           /\ mem' = resolved /\ disk' = IF resolved = mem THEN disk ELSE resolved
        \/ /\ ~ok /\ mem' = mem /\ disk' = disk
        \/ /\ ~ok /\ mem' = RecordGap(mem, c, r + 1, m) /\ disk' = mem'
    BY <1>1, Zenon DEF CatchUp, resolved, r, interval
  <2> QED BY <2>2, <2>4, <2>5, <2>6, Zenon
<1>8. Elements(interval) = (r + 1)..m /\ interval \in Seq(Nat)
      /\ (\A i, j \in 1..Len(interval) : i < j => interval[i] < interval[j])
      /\ Len(interval) \in Nat
  BY <1>4, <1>6, IntervalTypes, Zenon
<1>9. /\ held'[c].on = held[c].on
      /\ ok => held'[c].events = events /\ held'[c].missed = 0
      /\ ~ok => held'[c].events = <<>> /\ held'[c].missed = m
      /\ \A d \in Chats \ {c} : held'[d] = held[d]
  <2> HIDE DEF interval
  <2>0. held \in [Chats -> Holds] /\ held[c] \in Holds BY Zenon DEF Typed
  <2>1. CASE ok
    <3> DEFINE h == [held[c] EXCEPT !.events = events, !.missed = 0]
    <3>1. held' = [held EXCEPT ![c] = h] BY <1>1, <2>1, <2>0, Zenon
    <3>2. h.events = events /\ h.on = held[c].on /\ h.missed = 0 BY <2>0, Zenon DEF Holds
    <3> HIDE DEF h
    <3>3. held'[c] = h /\ \A d \in Chats \ {c} : held'[d] = held[d] BY <2>0, <3>1, Zenon
    <3> QED BY <2>1, <3>2, <3>3, Zenon
  <2>2. CASE ~ok
    <3>1. ScheduleAgain(c) BY <1>1, <2>2, Zenon
    <3> QED BY <1>0, <2>2, <3>1, HeldAgain, Zenon
  <2> QED BY <2>1, <2>2, Zenon
<1> HIDE DEF interval, r, m
<1>10. \A d \in Chats : StageKept(d) BY <1>0, <1>2, StageSame, Zenon
<1>11. \A d \in Chats \ {c} : Aside(d)
  <2>1. \A d \in Chats \ {c} : caught'[d] = caught[d] BY <1>0, Zenon
  <2> QED BY <1>0, <1>7, <1>9, <1>10, <2>1, GapAside, Zenon
<1>12. last'[c] >= last[c] /\ last'[c] = last[c] /\ base'[c] = base[c] /\ first'[c] = first[c]
  BY <1>0, <1>4
<1>13. ~Early' /\ ~Unheld(c)'
  <2>1. Pumping' BY <1>0, Zenon DEF Pumping
  <2> QED BY <2>1, Zenon DEF Pumping, Early, Unheld
<1>14. Settled(c)
  <2>1. noticed[c] \subseteq 1..last[c] BY <1>3, Zenon DEF FileInv, Accounted
  <2>2. mem'.cursor[c] = mem.cursor[c] /\ mem'.start[c] = mem.start[c] BY <1>7, Zenon DEF GapOnly
  <2> QED BY <1>0, <1>2, <1>7, <1>12, <2>1, <2>2, Zenon DEF Settled
<1>15. Grown(c) /\ FileInv(c)' BY <1>3, <1>14, FileKept, Zenon
<1>16. MemInv(c)' BY <1>2, <1>3, <1>13, <1>14, MemKept, Zenon
<1>17. Lo(c)' = Lo(c) /\ Lo(c) = first[c] /\ Accounted(c)' = Accounted(c)
  BY <1>0, <1>5, Zenon DEF Lo, Accounted
<1>18. Buffered(c) = 1..m BY <1>0, LineEmpty, Zenon DEF Buffered, m
<1>19. HeldInv(c)' /\ \A p \in Nat : Lo(c)' <= p /\ p \in Buffered(c) => p \in (Accounted(c) \cup Buffered(c))'
  <2>1. CASE ok /\ r < m
    <3>1. events = interval BY <1>4, <1>6, <1>7, <2>1
    <3>2. InLine(interval, first[c], Accounted(c))
      <4>1. \A i \in 1..Len(interval) :
              first[c]..(interval[i] - 1) \subseteq Accounted(c) \cup Elements(interval)
        <5> SUFFICES ASSUME NEW i \in 1..Len(interval), NEW p \in first[c]..(interval[i] - 1)
                     PROVE  p \in first[c]..r \cup (r + 1)..m
          BY <1>6, <1>8, Zenon
        <5>1. interval[i] \in (r + 1)..m BY <1>8 DEF Elements
        <5> QED BY <1>4, <1>6, <5>1
      <4> QED BY <1>4, <1>8, <4>1, LineAscending, Zenon
    <3>3. \A e \in Elements(interval) : e \in 1..last[c] /\ first[c] <= e + 1
      BY <1>4, <1>5, <1>6, <1>8
    <3>4. Buffered(c)' = (r + 1)..m
      <4>1. held'[c].events = interval /\ held'[c].missed = 0 BY <1>9, <2>1, <3>1, Zenon
      <4>2. Elements(interval) = (r + 1)..m BY <1>8, Zenon
      <4>3. Buffered(c)' = Elements(interval) \cup 1..0 BY <4>1, Zenon DEF Buffered
      <4>4. 1..0 = {} OBVIOUS
      <4> QED BY <4>2, <4>3, <4>4, Zenon
    <3>5. \A p \in 1..m : first[c] <= p => p \in first[c]..r \cup (r + 1)..m BY <1>4, <1>6
    <3>6. 0 <= last[c] /\ ~(first'[c] = 0) BY <1>4, <1>5, <1>12
    <3>7. HeldInv(c)'
      BY <1>5, <1>9, <1>12, <1>13, <1>17, <2>1, <3>1, <3>2, <3>3, <3>6, Zenon DEF HeldInv
    <3>8. \A p \in 1..m : first[c] <= p => p \in Accounted(c) \cup Buffered(c)'
      BY <1>6, <3>4, <3>5, Zenon
    <3> QED BY <1>17, <1>18, <3>7, <3>8, Zenon
  <2>2. CASE ok /\ ~(r < m)
    <3>1. events = <<>> BY <1>4, <1>6, <1>7, <2>2
    <3>2. \A p \in 1..m : first[c] <= p => p \in first[c]..r BY <1>4, <1>6, <2>2
    <3>3. 0 <= last[c] /\ ~(first'[c] = 0) BY <1>4, <1>5, <1>12
    <3>4. HeldInv(c)'
      BY <1>5, <1>9, <1>12, <1>13, <1>17, <2>2, <3>1, <3>3, LineEmpty, Zenon DEF HeldInv
    <3>5. \A p \in 1..m : first[c] <= p => p \in Accounted(c) BY <1>6, <3>2, Zenon
    <3> QED BY <1>17, <1>18, <3>4, <3>5, Zenon
  <2>3. CASE ~ok
    <3>1. held'[c].events = held[c].events /\ held'[c].missed = held[c].missed
      BY <1>0, <1>9, <2>3, Zenon DEF m
    <3>2. HeldInv(c)' BY <1>3, <1>9, <1>12, <1>13, <1>15, <3>1, HeldKept, Zenon
    <3> QED BY <3>1, <3>2, Zenon DEF Buffered
  <2> QED BY <2>1, <2>2, <2>3, Zenon
<1>20. out'[c] = out[c] BY <1>0, Zenon
<1>21. \A p \in Nat : Lo(c)' <= p /\ p \in Decoded(c) => p \in Decoded(c)'
  BY <1>17, <1>19, <1>20, Zenon DEF Decoded
<1>22. InLine(out'[c], Lo(c)', (Accounted(c) \cup Buffered(c))')
  BY <1>3, <1>15, <1>19, <1>20, OutKept, Zenon
<1>23. ~(first'[c] = 0) /\ Elements(out'[c]) \subseteq Elements(out[c]) BY <1>5, <1>12, <1>20
<1> QED BY <1>0, <1>11, <1>15, <1>16, <1>19, <1>21, <1>22, <1>23, Serves, Zenon

\* An empty hold is released.
LEMMA ReleaseKeeps ==
  ASSUME Typed, Typed', Honest, Pumping, NEW c \in Chats, Release(c)
  PROVE  Honest'
<1>0. /\ held[c].events = <<>> /\ held[c].missed = 0 /\ held' = [held EXCEPT ![c] = NotHeld]
      /\ UNCHANGED <<phase, todo, mem, disk, last, base, caught, pushes, seen, out, bridged,
                     noticed, first>>
  BY Zenon DEF Release
<1>1. Up BY Lively, Zenon
<1>2. FileInv(c) /\ MemInv(c) /\ HeldInv(c) /\ StreamInv(c) BY <1>1, Honestly, Zenon
<1>3. held'[c] = NotHeld /\ \A d \in Chats \ {c} : held'[d] = held[d]
  <2>1. DOMAIN held = Chats BY Zenon DEF Typed
  <2> QED BY <1>0, <2>1, Zenon
<1>4. held'[c].events = <<>> /\ held'[c].missed = 0 /\ ~held'[c].on BY <1>3 DEF NotHeld
<1>5. \A d \in Chats : StageKept(d) BY <1>0, <1>1, StageSame, Zenon
<1>6. \A d \in Chats \ {c} : Aside(d) BY <1>0, <1>3, <1>5, QuietAside, Zenon
<1>7. last'[c] >= last[c] /\ last'[c] = last[c] /\ base'[c] = base[c] /\ first'[c] = first[c]
  <2>1. last[c] \in Nat BY Sizes, Zenon DEF Sized
  <2> QED BY <1>0, <2>1
<1>8. Settled(c)
  <2>1. noticed[c] \subseteq 1..last[c] BY <1>2, Zenon DEF FileInv, Accounted
  <2> QED BY <1>0, <1>7, <2>1, Zenon DEF Settled
<1>9. Grown(c) /\ FileInv(c)' BY <1>2, <1>8, FileKept, Zenon
<1>10. Early' => Early /\ mem'.known[c] = mem.known[c] BY <1>0, Zenon DEF Early
<1>11. MemInv(c)' BY <1>1, <1>2, <1>8, <1>10, MemKept, Zenon
<1>12. Buffered(c)' = Buffered(c) /\ Accounted(c)' = Accounted(c)
       /\ Lo(c)' = Lo(c) /\ out'[c] = out[c]
  BY <1>0, <1>4, Zenon DEF Buffered, Accounted, Lo
<1>13. HeldInv(c)'
  <2>1. 0 <= last'[c] /\ Elements(<<>>) \subseteq 1..base'[c]
    <3>1. last'[c] \in Nat BY SizesNext, Zenon DEF Sized
    <3> QED BY <3>1, LineEmpty
  <2> QED BY <1>4, <2>1, LineEmpty, Zenon DEF HeldInv
<1>14. Decoded(c)' = Decoded(c) BY <1>12, Zenon DEF Decoded
<1>15. InLine(out'[c], Lo(c)', (Accounted(c) \cup Buffered(c))')
  BY <1>2, <1>12, Zenon DEF StreamInv
<1>16. first'[c] = 0 => first[c] = 0 /\ out'[c] = <<>> BY <1>2, <1>7, <1>12, Zenon DEF StreamInv
<1> QED BY <1>0, <1>6, <1>9, <1>11, <1>12, <1>13, <1>14, <1>15, <1>16, Serves, Zenon

-----------------------------------------------------------------------------
(* The steps that are about no position *)

\* A step that moves no message keeps every invariant.
LEMMA StandsStill ==
  ASSUME Typed, Typed', Honest, Up, \A d \in Chats : StageKept(d),
         UNCHANGED <<mem, disk, last, base, caught, pushes, seen, out, bridged, noticed, first>>,
         \A d \in Chats : /\ held'[d].on = held[d].on /\ held'[d].events = held[d].events
                          /\ held'[d].missed = held[d].missed
  PROVE  Honest'
<1>1. \A d \in Chats : Aside(d) BY QuietAside, Zenon
<1> QED BY <1>1, AsideKept, Zenon DEF Honest

\* The count of attempts is apart from the rest of a hold.
LEMMA AttemptsOnly ==
  ASSUME NEW h \in Holds, NEW n
  PROVE  /\ [h EXCEPT !.attempts = n].on = h.on
         /\ [h EXCEPT !.attempts = n].events = h.events
         /\ [h EXCEPT !.attempts = n].missed = h.missed
         /\ [h EXCEPT !.attempts = n].due = h.due
         /\ [h EXCEPT !.attempts = n].paused = h.paused
BY Zenon DEF Holds

\* A converged membership resets a hold's attempts and nothing else.
LEMMA ConvergeHolds ==
  ASSUME Typed, NEW c \in Chats, Converge(c), NEW d \in Chats
  PROVE  /\ held'[d].on = held[d].on /\ held'[d].events = held[d].events
         /\ held'[d].missed = held[d].missed
         /\ held'[d].due = held[d].due /\ held'[d].paused = held[d].paused
<1>0. held \in [Chats -> Holds] BY Zenon DEF Typed
<1>1. CASE held' = held BY <1>1, Zenon
<1>2. CASE held' = [held EXCEPT ![c].attempts = 0]
  <2> DEFINE h == [held[c] EXCEPT !.attempts = 0]
  <2>1. held[c] \in Holds BY <1>0, Zenon
  <2>2. /\ h.on = held[c].on /\ h.events = held[c].events /\ h.missed = held[c].missed
        /\ h.due = held[c].due /\ h.paused = held[c].paused
    BY <2>1, AttemptsOnly, Zenon
  <2>3. held' = [held EXCEPT ![c] = h] BY <1>2, Zenon
  <2> HIDE DEF h
  <2>4. held'[d] = IF d = c THEN h ELSE held[d] BY <1>0, <2>3, Zenon
  <2> QED BY <2>2, <2>4, Zenon
<1> QED BY <1>1, <1>2, Zenon DEF Converge

\* So does the operator's resumption, for every waiting hold.
LEMMA ResumeHolds ==
  ASSUME Typed, ResumeAll, NEW d \in Chats
  PROVE  /\ held'[d].on = held[d].on /\ held'[d].events = held[d].events
         /\ held'[d].missed = held[d].missed
         /\ held'[d].due = held[d].due /\ held'[d].paused = held[d].paused
<1>0. held[d] \in Holds BY Zenon DEF Typed
<1>1. held'[d] = IF Waiting(d) THEN [held[d] EXCEPT !.attempts = 0] ELSE held[d]
  BY Zenon DEF ResumeAll
<1> DEFINE h == [held[d] EXCEPT !.attempts = 0]
<1>2. /\ h.on = held[d].on /\ h.events = held[d].events /\ h.missed = held[d].missed
      /\ h.due = held[d].due /\ h.paused = held[d].paused
  BY <1>0, AttemptsOnly, Zenon
<1> HIDE DEF h
<1>3. held'[d] = IF Waiting(d) THEN h ELSE held[d] BY <1>1, Zenon DEF h
<1> QED BY <1>2, <1>3, Zenon

\* The timers and the two resets move no message.
LEMMA QuietKeeps ==
  ASSUME Typed, Typed', Honest, NEW c \in Chats, RetryDue(c) \/ Converge(c) \/ ResumeAll
  PROVE  Honest'
<1>0. Pumping BY Zenon DEF RetryDue, Converge, ResumeAll
<1>1. Up BY <1>0, Lively, Zenon
<1>2. UNCHANGED <<phase, todo, mem, disk, last, base, caught, pushes, seen, out, bridged, noticed,
                  first>>
  BY Zenon DEF RetryDue, Converge, ResumeAll
<1>3. \A d \in Chats : StageKept(d) BY <1>1, <1>2, StageSame, Zenon
<1>4. \A d \in Chats : /\ held'[d].on = held[d].on /\ held'[d].events = held[d].events
                       /\ held'[d].missed = held[d].missed
  <2>1. CASE RetryDue(c)
    <3>1. held' = held BY <2>1, Zenon DEF RetryDue
    <3> QED BY <3>1, Zenon
  <2>2. CASE Converge(c) BY <2>2, ConvergeHolds, Zenon
  <2>3. CASE ResumeAll BY <2>3, ResumeHolds, Zenon
  <2> QED BY <2>1, <2>2, <2>3, Zenon
<1> QED BY <1>1, <1>2, <1>3, <1>4, StandsStill, Zenon

\* Discovery opens the seeding.
LEMMA DiscoverKeeps ==
  ASSUME Typed, Typed', Honest, Discover
  PROVE  Honest'
<1>0. /\ phase = "discover" /\ phase' = "seed" /\ todo' = Chats
      /\ UNCHANGED <<mem, disk, last, base, caught, pushes, seen, out, held, bridged, noticed,
                     first>>
  BY Zenon DEF Discover, Successor
<1>1. Up BY <1>0, Zenon DEF Up
<1>2. \A d \in Chats : StageKept(d)
  BY <1>0, Zenon DEF StageKept, Up, Open, Early, Pumping, ChainDue, Emptied, Unheld
<1> QED BY <1>0, <1>1, <1>2, StandsStill, Zenon

\* A step without a session that touches no position.
LEMMA FileStands ==
  ASSUME NEW d \in Chats, FileInv(d), UNCHANGED <<disk, last, bridged, noticed, first>>
  PROVE  FileInv(d)'
BY Zenon DEF FileInv, Behind, Accounted

\* Asking for a resumption moves no message.
LEMMA RequestKeeps ==
  ASSUME Typed, Typed', Honest,
         UNCHANGED <<phase, todo, mem, disk, last, base, caught, pushes, seen, out, held, bridged,
                     noticed, first>>
  PROVE  Honest'
<1>1. CASE Up
  <2>1. \A d \in Chats : StageKept(d) BY <1>1, StageSame, Zenon
  <2> QED BY <1>1, <2>1, StandsStill, Zenon
<1>2. CASE ~Up
  <2>1. ~Up' BY <1>2, Zenon DEF Up
  <2> QED BY <2>1, FileStands, Zenon DEF Honest, ChatInv
<1> QED BY <1>1, <1>2, Zenon

\* The end of a session leaves the file as it is.
LEMMA DownKeeps ==
  ASSUME Honest, GoDown, UNCHANGED <<last, bridged, noticed, first>>
  PROVE  Honest'
<1>1. ~Up' /\ disk' = disk BY Zenon DEF GoDown, Up
<1> QED BY <1>1, FileStands, Zenon DEF Honest, ChatInv

-----------------------------------------------------------------------------
(* A new session *)

\* A login starts from the file: everything from the floor on is accounted for,
\* or in the interval the chain will recover, or pushed later.
LEMMA ConnectKeeps ==
  ASSUME Typed, Typed', DownInv, Honest, Connect
  PROVE  Honest'
<1> DEFINE observed == [c \in Chats |-> IF last[c] > 0 THEN last[c] ELSE NoTarget]
           next == InstallSession(disk, observed, {}, TRUE)
<1>0. /\ phase = "down" /\ phase' = IF StartupHistory THEN "chain" ELSE "discover"
      /\ mem' = next /\ disk' = next /\ todo' = Chats /\ base' = last
      /\ \A c \in Chats : first'[c] = IF first[c] > 0 THEN first[c]
                                      ELSE Larger(disk.cursor[c], disk.start[c])
      /\ UNCHANGED <<last, caught, pushes, seen, out, held, bridged, noticed>>
  BY Zenon DEF Connect
<1>1. Installed(disk, next, observed)
  <2>1. CP(disk) BY Zenon DEF Typed
  <2>2. observed \in [Chats -> Int]
    <3>1. \A c \in Chats : last[c] \in Nat BY Sizes, Zenon DEF Sized
    <3> QED BY <3>1 DEF NoTarget
  <2> HIDE DEF observed
  <2> QED BY <2>1, <2>2, InstallChanges, Zenon
<1> HIDE DEF next
<1>2. ~Up /\ Up' /\ Early' /\ ~Pumping' BY <1>0, Zenon DEF Up, Early, Pumping
<1> SUFFICES ASSUME NEW c \in Chats
             PROVE  FileInv(c)' /\ MemInv(c)' /\ CaughtInv(c)' /\ HeldInv(c)' /\ StreamInv(c)'
  BY Zenon DEF Honest, ChatInv, UpInv
<1> DEFINE k == disk.cursor[c]
           f == disk.start[c]
           n == last[c]
           o == first[c]
           F == first'[c]
           A == Accounted(c)
<1>3. k \in Nat /\ f \in Nat /\ n \in Nat /\ o \in Nat /\ F \in Nat
  BY Sizes, SizesNext, Zenon DEF Sized
<1>4. FileInv(c) BY Zenon DEF Honest, ChatInv
<1>5. /\ disk'.cursor[c] = k /\ disk'.start[c] = f /\ mem'.cursor[c] = k /\ mem'.start[c] = f
      /\ mem'.known[c] = IF k > 0 THEN Larger(observed[c], k) ELSE observed[c]
  BY <1>0, <1>1, Zenon DEF Installed
<1>6. observed[c] = IF n > 0 THEN n ELSE -1 BY Zenon DEF NoTarget
<1> HIDE DEF observed
<1>7. F = (IF o > 0 THEN o ELSE Larger(k, f)) /\ last'[c] = n /\ base'[c] = n
      /\ Accounted(c)' = A /\ bridged'[c] = bridged[c] /\ noticed'[c] = noticed[c]
  BY <1>0, Zenon DEF Accounted
<1>8. /\ o <= n /\ A \subseteq 1..n /\ k <= n /\ f <= n
      /\ o > 0 => /\ o..k \subseteq A /\ (IF k > 0 THEN o <= k + 1 ELSE f = o)
                  /\ \A p \in bridged[c] : o..p \subseteq A
      /\ o = 0 => /\ noticed[c] = {}
                  /\ k > 0 => f = 0 /\ k \in bridged[c] /\ bridged[c] \subseteq 1..k
                  /\ f > 0 => bridged[c] \subseteq 1..(f - 1)
  BY <1>4, Zenon DEF FileInv, Behind
<1>9. bridged[c] \subseteq A /\ bridged[c] \in SUBSET Nat
  BY Sizes, Zenon DEF Accounted, Sized
<1> HIDE DEF k, f, n, o, F, A
<1>10. /\ F <= n
       /\ F > 0 => /\ F..k \subseteq A /\ (IF k > 0 THEN F <= k + 1 ELSE f = F)
                   /\ \A p \in bridged[c] : F..p \subseteq A
       /\ F = 0 => o = 0 /\ k = 0 /\ f = 0
  <2>1. CASE o > 0 BY <1>3, <1>7, <1>8, <2>1
  <2>2. CASE ~(o > 0) /\ k > 0
    <3>1. F = k BY <1>3, <1>7, <1>8, <2>2 DEF Larger
    <3>2. bridged[c] \subseteq 1..k /\ k \in A BY <1>3, <1>8, <1>9, <2>2
    <3>3. \A p \in 1..k : k..p \subseteq {k} BY <1>3
    <3>4. k..k = {k} /\ k <= k + 1 /\ ~(k = 0) BY <1>3, <2>2
    <3> QED BY <1>8, <2>2, <3>1, <3>2, <3>3, <3>4, Zenon
  <2>3. CASE ~(o > 0) /\ ~(k > 0) /\ f > 0
    <3>1. F = f /\ k = 0 BY <1>3, <1>7, <2>3 DEF Larger
    <3>2. bridged[c] \subseteq 1..(f - 1) BY <1>3, <1>8, <2>3
    <3>3. (\A p \in 1..(f - 1) : f..p = {}) /\ f..0 = {} /\ ~(f = 0) BY <1>3, <2>3
    <3>4. \A p \in bridged[c] : f..p \subseteq A BY <3>2, <3>3, Zenon
    <3>5. f..0 \subseteq A BY <3>3, Zenon
    <3> QED BY <1>8, <2>3, <3>1, <3>3, <3>4, <3>5, Zenon
  <2>4. CASE ~(o > 0) /\ ~(k > 0) /\ ~(f > 0)
    <3>1. F = 0 /\ o = 0 /\ k = 0 /\ f = 0 BY <1>3, <1>7, <2>4 DEF Larger
    <3> QED BY <1>3, <3>1
  <2> QED BY <2>1, <2>2, <2>3, <2>4, Zenon
<1>11. FileInv(c)'
  <2>1. F = 0 => noticed[c] = {} /\ ~(k > 0) /\ ~(f > 0) BY <1>8, <1>10
  <2> QED BY <1>5, <1>7, <1>8, <1>10, <2>1, Zenon DEF FileInv, Behind, F, A
<1>12. MemInv(c)'
  <2>1. n <= n /\ F <= n + 1 BY <1>3, <1>10
  <2>2. mem'.known[c] = IF n > 0 THEN n ELSE -1 BY <1>3, <1>5, <1>6, <1>8 DEF Larger
  <2>3. bridged[c] \subseteq 1..n BY <1>8, <1>9, Zenon
  <2>4. F = 0 => k = 0 /\ f = 0 /\ k \in {0, n} BY <1>10, Zenon
  <2> QED BY <1>5, <1>7, <1>8, <1>10, <2>1, <2>2, <2>3, <2>4, Zenon DEF MemInv, Behind, F, A, NoTarget
<1>13. /\ caught'[c].events = <<>> /\ caught'[c].missing = {} /\ ~held'[c].on
       /\ held'[c].events = <<>> /\ held'[c].missed = 0 /\ out'[c] = <<>> /\ pushes'[c] = <<>>
       /\ seen' = <<>>
  BY <1>0, <1>2, Zenon DEF DownInv
<1>14. CaughtInv(c)'
  <2>1. Rising(<<>>) BY DEF Rising
  <2> QED BY <1>13, <2>1, LineEmpty, Zenon DEF CaughtInv
<1>15. HeldInv(c)'
  <2>1. 0 <= last'[c] /\ Elements(<<>>) \subseteq 1..base'[c] BY <1>3, <1>7, LineEmpty
  <2> QED BY <1>13, <2>1, LineEmpty, Zenon DEF HeldInv
<1>16. StreamInv(c)'
  <2>1. Lo(c)'..last'[c] \subseteq Cover(c)'
    <3>1. CASE F = 0
      <4>1. Lo(c)' = n + 1 BY <1>7, <3>1 DEF Lo, F
      <4>2. (n + 1)..n = {} BY <1>3
      <4> QED BY <1>7, <4>1, <4>2, Zenon
    <3>2. CASE ~(F = 0)
      <4>1. Lo(c)' = F BY <1>3, <3>2 DEF Lo, F
      <4>2. ChainDue(c)' BY <1>0, Zenon DEF ChainDue
      <4> DEFINE r == ResumePosition(mem', c)
      <4>3. r = IF k > 0 THEN k ELSE IF f > 0 THEN f - 1 ELSE 0 BY <1>5, Zenon DEF ResumePosition
      <4>4. F..n \subseteq F..k \cup (r + 1)..n /\ F..k \subseteq A
        BY <1>3, <1>10, <3>2, <4>3
      <4>5. (r + 1)..n \subseteq Cover(c)'
        BY <1>7, <4>2, Zenon DEF Cover, Coming
      <4> HIDE DEF r
      <4>6. A \subseteq Cover(c)' BY <1>7, Zenon DEF Cover, Decoded
      <4> QED BY <1>7, <4>1, <4>4, <4>5, <4>6, Zenon
    <3> QED BY <3>1, <3>2, Zenon
  <2>2. Elements(<<>>) \subseteq (base'[c] + 1)..last'[c] BY LineEmpty, Zenon
  <2>3. \A l \in Nat : ~(<<c, l>> \in Elements(seen')) BY <1>13, LineEmpty, Zenon
  <2> QED BY <1>13, <2>1, <2>2, <2>3, LineEmpty, Zenon DEF StreamInv
<1> QED BY <1>11, <1>12, <1>14, <1>15, <1>16, Zenon

-----------------------------------------------------------------------------
(* The invariant *)

\* Only the pump of a live session retries.
LEMMA RetryingServes ==
  ASSUME DownInv, NEW c \in Chats, c \in retrying PROVE Pumping
BY Zenon DEF DownInv

\* The memory of a session ends with it.
LEMMA DownKept ==
  ASSUME Typed, DownInv, Next PROVE DownInv'
<1>1. ASSUME Up', Pumping' \/ retrying' = {} PROVE DownInv'
  BY <1>1, Zenon DEF DownInv
<1>2. ASSUME Pumping, phase' = phase PROVE Up' /\ Pumping' BY <1>2, Zenon DEF Pumping, Up
<1>3. ASSUME ~Pumping, retrying' = retrying PROVE retrying' = {} BY <1>3, Zenon DEF DownInv
<1>4. CASE Connect
  <2>1. Up' /\ ~Pumping /\ retrying' = retrying BY <1>4, Zenon DEF Connect, Up, Pumping
  <2> QED BY <1>1, <1>3, <2>1, Zenon
<1>5. CASE Discover
  <2>1. Up' /\ ~Pumping /\ retrying' = retrying BY <1>5, Zenon DEF Discover, Successor, Up, Pumping
  <2> QED BY <1>1, <1>3, <2>1, Zenon
<1>6. CASE EndSession \/ CloseSession
  <2>1. GoDown BY <1>6, Zenon DEF EndSession, CloseSession
  <2>2. /\ retrying' = {} /\ mem' = disk' /\ seen' = <<>>
        /\ caught' = [c \in Chats |-> NotCaught] /\ held' = [c \in Chats |-> NotHeld]
        /\ out' = [c \in Chats |-> <<>>] /\ pushes' = [c \in Chats |-> <<>>]
    BY <2>1, Zenon DEF GoDown
  <2>3. /\ NotCaught.events = <<>> /\ NotCaught.missing = {} /\ ~NotHeld.on
        /\ NotHeld.events = <<>> /\ NotHeld.missed = 0
    BY Zenon DEF NotCaught, NotHeld
  <2>4. \A c \in Chats : /\ caught'[c] = NotCaught /\ held'[c] = NotHeld
                         /\ out'[c] = <<>> /\ pushes'[c] = <<>>
    BY <2>2, Zenon
  <2> QED BY <2>2, <2>3, <2>4, Zenon DEF DownInv
<1>7. CASE RequestResume
  <2>1. UNCHANGED <<mem, phase, caught, pushes, seen, out, held, retrying>> /\ disk' = disk
    BY <1>7, Zenon DEF RequestResume, session
  <2> QED BY <2>1, Zenon DEF DownInv, Up, Pumping
<1>8. CASE ResumeAll BY <1>1, <1>2, <1>8, Zenon DEF ResumeAll
<1>9. ASSUME NEW c \in Chats,
             \/ Bootstrap(c) \/ Retry(c)
             \/ ServerAppend(c) \/ Decode(c) \/ Pump(c) \/ RetryDue(c) \/ Converge(c)
             \/ \E l \in LogIDs : RepeatPush(c, l)
      PROVE  DownInv'
  <2>1. CASE Seed(c) \/ Chain(c) \/ FinishRoom(c)
    <3>1. /\ c \in todo /\ Finished(c) /\ phase \in {"seed", "chain", "deliver"}
          /\ retrying' = retrying
      BY <2>1, Zenon DEF Seed, Chain, FinishRoom
    <3>2. Up' /\ ~Pumping BY <3>1, StageEnds, Zenon
    <3> QED BY <1>1, <1>3, <3>1, <3>2, Zenon
  <2>2. CASE Notice(c) \/ DeliverCaught(c)
    <3>1. Up' /\ ~Pumping /\ retrying' = retrying
      BY <2>2, Zenon DEF Notice, DeliverCaught, Up, Pumping
    <3> QED BY <1>1, <1>3, <3>1, Zenon
  <2>3. CASE Retry(c)
    <3>1. c \in retrying /\ phase' = phase
      BY <2>3, Zenon DEF Retry, RetryEvent, RetryCatchUp, Release
    <3> QED BY <1>1, <1>2, <3>1, RetryingServes, Zenon
  <2>4. CASE ServerAppend(c)
    <3>1. UNCHANGED <<mem, disk, phase, caught, seen, out, held, retrying>>
          /\ (~Up => pushes' = pushes)
      BY <2>4, Zenon DEF ServerAppend, Up
    <3> QED BY <3>1, Zenon DEF DownInv, Up, Pumping
  <2>5. CASE Decode(c)
    <3>1. Up' /\ Pumping' BY <2>5, Zenon DEF Decode, Up, Pumping
    <3> QED BY <1>1, <3>1, Zenon
  <2>6. CASE Pump(c) \/ RetryDue(c) \/ Converge(c)
    <3>1. Pumping /\ phase' = phase BY <2>6, Zenon DEF Pump, RetryDue, Converge
    <3> QED BY <1>1, <1>2, <3>1, Zenon
  <2>7. CASE \E l \in LogIDs : RepeatPush(c, l)
    <3>1. Pumping /\ phase' = phase BY <2>7, Zenon DEF RepeatPush, Pumping
    <3> QED BY <1>1, <1>2, <3>1, Zenon
  <2> QED BY <1>9, <2>1, <2>2, <2>3, <2>4, <2>5, <2>6, <2>7, Zenon DEF Bootstrap
<1> QED BY <1>4, <1>5, <1>6, <1>7, <1>8, <1>9, Zenon DEF Next

\* Every step keeps the invariant of every chat.
LEMMA HonestKept ==
  ASSUME Typed, Typed', DownInv, Honest, Next PROVE Honest'
<1>1. CASE EndSession \/ CloseSession
  <2>1. GoDown /\ UNCHANGED <<last, bridged, noticed, first>>
    BY <1>1, Zenon DEF EndSession, CloseSession
  <2> QED BY <2>1, DownKeeps, Zenon
<1>2. CASE RequestResume
  <2>1. UNCHANGED <<phase, todo, mem, disk, last, base, caught, pushes, seen, out, held, bridged,
                    noticed, first>>
    BY <1>2, Zenon DEF RequestResume, session
  <2> QED BY <2>1, RequestKeeps, Zenon
<1>3. CASE ResumeAll
  <2>1. CASE Chats = {} BY <2>1, Zenon DEF Honest
  <2>2. ASSUME NEW c \in Chats PROVE Honest' BY <1>3, QuietKeeps, Zenon
  <2> QED BY <2>1, <2>2, Zenon
<1>4. ASSUME NEW c \in Chats,
             \/ Bootstrap(c) \/ Retry(c)
             \/ ServerAppend(c) \/ Decode(c) \/ Pump(c) \/ RetryDue(c) \/ Converge(c)
             \/ \E l \in LogIDs : RepeatPush(c, l)
      PROVE  Honest'
  <2>1. CASE Bootstrap(c)
    BY <2>1, SeedKeeps, ChainKeeps, NoticeKeeps, DeliverKeeps, FinishKeeps, Zenon DEF Bootstrap
  <2>2. CASE Retry(c)
    <3>1. Pumping
      <4>1. c \in retrying BY <2>2, Zenon DEF Retry, RetryEvent, RetryCatchUp, Release
      <4> QED BY <4>1, RetryingServes, Zenon
    <3> QED BY <2>2, <3>1, RetryKeeps, CatchUpKeeps, ReleaseKeeps, Zenon DEF Retry
  <2>3. CASE ServerAppend(c) \/ Decode(c) \/ Pump(c)
    BY <2>3, AppendKeeps, DecodeKeeps, PumpKeeps, Zenon
  <2>4. CASE RetryDue(c) \/ Converge(c) BY <2>4, QuietKeeps, Zenon
  <2>5. CASE \E l \in LogIDs : RepeatPush(c, l) BY <2>5, RepeatKeeps, Zenon
  <2> QED BY <1>4, <2>1, <2>2, <2>3, <2>4, <2>5, Zenon
<1> QED BY <1>1, <1>2, <1>3, <1>4, ConnectKeeps, DiscoverKeeps, Zenon DEF Next

\* The types hold initially.
LEMMA TypesStart == Init => Typed
<1> SUFFICES ASSUME Init PROVE Typed BY Zenon
<1>1. NotCaught \in Catches BY DEF NotCaught, Catches
<1>2. NotHeld \in Holds BY DEF NotHeld, Holds
<1>3. CP(Fresh)
  <2>1. /\ DOMAIN Fresh = {"version", "clean", "cursor", "known", "gap", "read", "start"}
        /\ Fresh.cursor = [c \in Chats |-> 0] /\ Fresh.start = [c \in Chats |-> 0]
        /\ Fresh.known = [c \in Chats |-> -1]
    BY Zenon DEF Fresh, NoTarget
  <2> QED BY <2>1 DEF CP
<1> HIDE DEF NotCaught, NotHeld, Fresh
<1>4. /\ caught \in [Chats -> Catches] /\ held \in [Chats -> Holds]
      /\ pushes \in [Chats -> Seq(Nat)] /\ out \in [Chats -> Seq(Nat)]
      /\ seen \in Seq(Chats \X Nat)
  BY <1>1, <1>2 DEF Init
<1>5. /\ last \in [Chats -> 0..MaxLog] /\ base \in [Chats -> Nat] /\ first \in [Chats -> Nat]
      /\ bridged \in [Chats -> SUBSET Nat] /\ noticed \in [Chats -> SUBSET Nat]
      /\ access \in [Chats -> BOOLEAN]
  BY MaxLogAssumption DEF Init
<1>6. phase \in Phases /\ todo \subseteq Chats /\ lookups \in Nat /\ CP(mem) /\ CP(disk)
  BY <1>3, Zenon DEF Init, Phases
<1> QED BY <1>4, <1>5, <1>6, Zenon DEF Typed

\* So does the invariant.
LEMMA DeliveryStarts == Init => DeliveryInv
<1> SUFFICES ASSUME Init PROVE DeliveryInv BY Zenon
<1>1. Typed BY TypesStart, Zenon
<1>2. /\ NotCaught.events = <<>> /\ NotCaught.missing = {} /\ ~NotHeld.on
      /\ NotHeld.events = <<>> /\ NotHeld.missed = 0
  BY Zenon DEF NotCaught, NotHeld
<1>3. /\ phase = "down" /\ retrying = {} /\ mem = disk /\ seen = <<>>
      /\ \A c \in Chats : /\ caught[c] = NotCaught /\ held[c] = NotHeld
                          /\ out[c] = <<>> /\ pushes[c] = <<>>
  BY Zenon DEF Init
<1>4. DownInv BY <1>2, <1>3, Zenon DEF DownInv
<1>5. ASSUME NEW c \in Chats PROVE ChatInv(c)
  <2>1. ~Up BY <1>3, Zenon DEF Up
  <2>2. /\ first[c] = 0 /\ last[c] = 0 /\ bridged[c] = {} /\ noticed[c] = {}
        /\ disk.cursor[c] = 0 /\ disk.start[c] = 0
    BY Zenon DEF Init, Fresh
  <2>3. FileInv(c) BY <2>2 DEF FileInv, Accounted
  <2> QED BY <2>1, <2>3, Zenon DEF ChatInv
<1> QED BY <1>1, <1>4, <1>5, Zenon DEF DeliveryInv

\* Every step keeps the invariant.
LEMMA DeliveryStep == DeliveryInv /\ [Next]_vars => DeliveryInv'
<1> SUFFICES ASSUME DeliveryInv, [Next]_vars PROVE DeliveryInv' BY Zenon
<1>1. Typed /\ DownInv /\ Honest BY Zenon DEF DeliveryInv, Honest
<1>2. Typed' BY <1>1, TypesKept, Zenon
<1>3. CASE Next
  <2>1. DownInv' BY <1>1, <1>3, DownKept, Zenon
  <2>2. Honest' BY <1>1, <1>2, <1>3, HonestKept, Zenon
  <2> QED BY <1>2, <2>1, <2>2, Zenon DEF DeliveryInv, Honest
<1>4. CASE UNCHANGED vars
  <2>1. UNCHANGED <<mem, disk, phase, todo, last, base, caught, pushes, seen, out, held, bridged,
                    noticed, first, retrying>>
    BY <1>4, Zenon DEF vars, session
  <2>2. DownInv' BY <1>1, <2>1, Zenon DEF DownInv, Up, Pumping
  <2>3. Honest' BY <1>1, <1>2, <2>1, RequestKeeps, Zenon
  <2> QED BY <1>2, <2>2, <2>3, Zenon DEF DeliveryInv, Honest
<1> QED BY <1>3, <1>4, Zenon

\* What is written of each chat is honest, in the file and in every stage of a
\* session, however sessions end and writes fail.
THEOREM DeliveryHonest == Spec => []DeliveryInv
BY DeliveryStarts, DeliveryStep, PTL DEF Spec

\* No cursor passes a promised position that Matrix never got and no notice
\* covers, and a chat's messages reach Matrix in order (handleEvent,
\* CommitEvent, catchUp, retryHeld), for any chats, log, buffer and fault count.
THEOREM LossFree == Spec => []LosslessInOrder
<1>1. DeliveryInv => LosslessInOrder
  <2> SUFFICES ASSUME DeliveryInv PROVE LosslessInOrder BY Zenon
  <2>1. \A c \in Chats : FileInv(c) /\ (Up => MemInv(c)) /\ (~Up => mem = disk)
    BY Zenon DEF DeliveryInv, ChatInv, UpInv, DownInv
  <2>2. \A c \in Chats : first[c] > 0 =>
          /\ first[c]..mem.cursor[c] \subseteq Accounted(c)
          /\ first[c]..disk.cursor[c] \subseteq Accounted(c)
          /\ \A p \in bridged[c] : first[c]..p \subseteq Accounted(c)
    BY <2>1, Zenon DEF FileInv, MemInv, Behind
  <2> QED BY <2>2, Zenon DEF LosslessInOrder, NoLoss, InOrder
<1> QED BY <1>1, DeliveryHonest, PTL

\* In a live session every promised position is accounted for or is in a buffer
\* the pump or a retry reads (decodeEventStream, heldChat.add, hold).
THEOREM NoneForgotten == Spec => []NothingForgotten
<1>1. DeliveryInv => NothingForgotten
  <2> SUFFICES ASSUME DeliveryInv, phase = "live", NEW c \in Chats,
                      NEW p \in first[c]..last[c], first[c] > 0
               PROVE  \/ p \in Accounted(c) \cup Elements(pushes[c]) \cup Elements(out[c])
                                 \cup Elements(held[c].events)
                      \/ p <= held[c].missed
    BY Zenon DEF NothingForgotten
  <2>1. Typed BY Zenon DEF DeliveryInv
  <2>2. Up /\ Open /\ Pumping BY Zenon DEF Up, Open, Pumping
  <2>3. StreamInv(c) /\ CaughtInv(c) BY <2>2, Zenon DEF DeliveryInv, ChatInv, UpInv
  <2>4. Lo(c) = first[c] BY Zenon DEF Lo
  <2>5. p \in Cover(c) \cup Elements(pushes[c]) BY <2>2, <2>3, <2>4, Zenon DEF StreamInv
  <2>6. Coming(c) = {}
    <3>1. Emptied(c) /\ ~ChainDue(c) BY <2>2, Lively, Zenon
    <3>2. caught[c].events = <<>> /\ caught[c].missing = {} BY <2>3, <3>1, Zenon DEF CaughtInv
    <3> QED BY <3>1, <3>2, LineEmpty, Zenon DEF Coming
  <2>7. p \in 1..held[c].missed => p <= held[c].missed
    <3>1. held[c].missed \in Nat BY <2>1, Sizes, Zenon DEF Sized
    <3> QED BY <3>1
  <2> QED BY <2>5, <2>6, <2>7, Zenon DEF Cover, Decoded, Buffered
<1> QED BY <1>1, DeliveryHonest, PTL

-----------------------------------------------------------------------------
(* A held chat is woken *)

\* The wakeup HeldHasWakeup asks for, of one chat.
Wake(d) ==
  held[d].on /\ lookups = 0
    => held[d].due \/ held[d].paused \/ ~access[d] \/ d \in retrying

\* A step that leaves chat d's hold, access and retry alone.
Undisturbed(d) ==
  /\ held'[d].on = held[d].on /\ held'[d].due = held[d].due
  /\ held'[d].paused = held[d].paused /\ access'[d] = access[d]
  /\ d \in retrying => d \in retrying'

\* A wakeup lasts while nothing disturbs it.
LEMMA WakeStands ==
  ASSUME lookups \in Nat, lookups' \in Nat, lookups' >= lookups, NEW d \in Chats, Wake(d),
         Undisturbed(d)
  PROVE  Wake(d)'
<1>1. lookups' = 0 => lookups = 0 OBVIOUS
<1> QED BY <1>1, Zenon DEF Wake, Undisturbed

\* Handling an event changes the access to its own chat only.
LEMMA HandleAccess ==
  ASSUME Typed, NEW c \in Chats, NEW l, NEW q, NEW ok \in BOOLEAN, HandleEvent(c, l, q, ok),
         NEW d \in Chats \ {c}
  PROVE  access'[d] = access[d]
<1>1. access \in [Chats -> BOOLEAN] BY Zenon DEF Typed
<1>2. \/ access' = access
      \/ access' = [access EXCEPT ![c] = access[c] /\ l \notin Notices]
      \/ access' = [access EXCEPT ![c] = TRUE]
  BY Zenon DEF HandleEvent
<1> QED BY <1>1, <1>2, Zenon

\* A chat that was not held is handled, or is held after that.
LEMMA HandleWakes ==
  ASSUME Typed, Typed', HeldHasWakeup, NEW c \in Chats, NEW l, NEW q, NEW ok \in BOOLEAN,
         HandleEvent(c, l, q, ok), retrying' = retrying, ~held[c].on, NEW h \in Holds,
         IF ok THEN UNCHANGED <<held, lookups>> ELSE ScheduleHeld(c, h)
  PROVE  HeldHasWakeup'
<1>1. lookups \in Nat /\ lookups' \in Nat /\ access'[c] \in BOOLEAN BY Zenon DEF Typed
<1>2. CASE ok
  <2>1. lookups' >= lookups /\ held' = held BY <1>1, <1>2
  <2>2. ASSUME NEW d \in Chats PROVE Wake(d)'
    <3>1. CASE d = c BY <2>1, <3>1, Zenon DEF Wake
    <3>2. CASE d # c
      <4>1. access'[d] = access[d] BY <3>2, HandleAccess, Zenon
      <4>2. Undisturbed(d) BY <2>1, <4>1, Zenon DEF Undisturbed
      <4>3. Wake(d) BY Zenon DEF HeldHasWakeup, Wake
      <4> QED BY <1>1, <2>1, <4>2, <4>3, WakeStands, Zenon
    <3> QED BY <3>1, <3>2, Zenon
  <2> QED BY <2>2, Zenon DEF Wake, HeldHasWakeup
<1>3. CASE ~ok
  <2>1. /\ \A d \in Chats \ {c} : held'[d] = held[d]
        /\ lookups' >= lookups
        /\ lookups' = 0 => held'[c].due \/ held'[c].paused \/ ~access'[c]
    BY <1>1, <1>3, ScheduleTypes, Zenon
  <2>2. ASSUME NEW d \in Chats PROVE Wake(d)'
    <3>1. CASE d = c BY <2>1, <3>1, Zenon DEF Wake
    <3>2. CASE d # c
      <4>1. access'[d] = access[d] BY <3>2, HandleAccess, Zenon
      <4>2. held'[d] = held[d] BY <2>1, <3>2, Zenon
      <4>3. Undisturbed(d) BY <4>1, <4>2, Zenon DEF Undisturbed
      <4>4. Wake(d) BY Zenon DEF HeldHasWakeup, Wake
      <4> QED BY <1>1, <2>1, <4>3, <4>4, WakeStands, Zenon
    <3> QED BY <3>1, <3>2, Zenon
  <2> QED BY <2>2, Zenon DEF Wake, HeldHasWakeup
<1> QED BY <1>2, <1>3, Zenon

\* A retry of chat c failed and was scheduled again.
LEMMA AgainWakes ==
  ASSUME Typed, Typed', HeldHasWakeup, NEW c \in Chats, ScheduleAgain(c),
         retrying' = retrying \ {c}, \A d \in Chats \ {c} : access'[d] = access[d]
  PROVE  HeldHasWakeup'
<1>1. lookups \in Nat /\ lookups' \in Nat BY Zenon DEF Typed
<1>2. /\ \A d \in Chats \ {c} : held'[d] = held[d]
      /\ lookups' >= lookups
      /\ lookups' = 0 => held'[c].due \/ held'[c].paused \/ ~access'[c]
  BY HeldAgain, Zenon
<1>3. ASSUME NEW d \in Chats PROVE Wake(d)'
  <2>1. CASE d = c BY <1>2, <2>1, Zenon DEF Wake
  <2>2. CASE d # c
    <3>1. held'[d] = held[d] /\ (d \in retrying => d \in retrying') BY <1>2, <2>2, Zenon
    <3>2. Undisturbed(d) BY <2>2, <3>1, Zenon DEF Undisturbed
    <3>3. Wake(d) BY Zenon DEF HeldHasWakeup, Wake
    <3> QED BY <1>1, <1>2, <3>2, <3>3, WakeStands, Zenon
  <2> QED BY <2>1, <2>2, Zenon
<1> QED BY <1>3, Zenon DEF Wake, HeldHasWakeup

\* The other steps leave every chat a reason to be woken.
LEMMA QuietWakes ==
  ASSUME Typed, Typed', HeldHasWakeup, lookups' = lookups,
         \A d \in Chats : Undisturbed(d) \/ ~held'[d].on \/ d \in retrying' \/ held'[d].due
  PROVE  HeldHasWakeup'
<1>1. lookups \in Nat /\ lookups' \in Nat BY Zenon DEF Typed
<1>2. lookups' >= lookups BY <1>1
<1>3. ASSUME NEW d \in Chats PROVE Wake(d)'
  <2>1. CASE Undisturbed(d)
    <3>1. Wake(d) BY Zenon DEF HeldHasWakeup, Wake
    <3> QED BY <1>1, <1>2, <2>1, <3>1, WakeStands, Zenon
  <2>2. CASE ~held'[d].on \/ d \in retrying' \/ held'[d].due BY <2>2, Zenon DEF Wake
  <2> QED BY <2>1, <2>2, Zenon
<1> QED BY <1>3, Zenon DEF Wake, HeldHasWakeup

\* Every step leaves every hold with a wakeup.
LEMMA WakeKept ==
  ASSUME Typed, Typed', DownInv, Honest, HeldHasWakeup, Next
  PROVE  HeldHasWakeup'
<1>1. ASSUME held' = held, access' = access, retrying' = retrying, lookups' = lookups
      PROVE  HeldHasWakeup'
  BY <1>1, Zenon DEF HeldHasWakeup
<1>2. CASE Connect \/ RequestResume
  BY <1>1, <1>2, Zenon DEF Connect, RequestResume, session
<1>3. CASE EndSession \/ CloseSession
  <2>1. held' = [c \in Chats |-> NotHeld] /\ ~NotHeld.on
    BY <1>3, Zenon DEF EndSession, CloseSession, GoDown, NotHeld
  <2>2. \A c \in Chats : ~held'[c].on BY <2>1, Zenon
  <2> QED BY <2>2, Zenon DEF HeldHasWakeup
<1>4. CASE Discover
  <2>1. phase = "discover" /\ held' = held BY <1>4, Zenon DEF Discover
  <2>2. \A c \in Chats : Up /\ Unheld(c) BY <2>1, Zenon DEF Up, Unheld
  <2>3. \A c \in Chats : ~held'[c].on BY <2>1, <2>2, Zenon DEF Honest, ChatInv, UpInv, HeldInv
  <2> QED BY <2>3, Zenon DEF HeldHasWakeup
<1>5. CASE ResumeAll
  <2>1. /\ retrying = {} /\ retrying' = {c \in Chats : Waiting(c)}
        /\ lookups' = lookups /\ access' = access
    BY <1>5, Zenon DEF ResumeAll
  <2>2. \A d \in Chats : Undisturbed(d)
    BY <1>5, <2>1, ResumeHolds, Zenon DEF Undisturbed
  <2> QED BY <2>1, <2>2, QuietWakes, Zenon
<1>6. ASSUME NEW c \in Chats,
             \/ Bootstrap(c) \/ Retry(c)
             \/ ServerAppend(c) \/ Decode(c) \/ Pump(c) \/ RetryDue(c) \/ Converge(c)
             \/ \E l \in LogIDs : RepeatPush(c, l)
      PROVE  HeldHasWakeup'
  <2>1. CASE Seed(c)
    <3>1. CASE UNCHANGED <<access, held, lookups>> BY <1>1, <2>1, <3>1, Zenon DEF Seed
    <3>2. ASSUME NEW ok \in BOOLEAN, mem.known[c] > 0,
                 HandleEvent(c, mem.known[c], <<mem.known[c]>>, ok),
                 IF ok THEN UNCHANGED <<held, lookups>> ELSE ScheduleHeld(c, HoldOf(<<mem.known[c]>>))
          PROVE  HeldHasWakeup'
      <4>1. phase = "seed" /\ c \in todo /\ retrying' = retrying BY <2>1, Zenon DEF Seed
      <4>2. Up /\ Unheld(c) BY <4>1, Zenon DEF Up, Unheld
      <4>3. ~held[c].on BY <4>2, Honestly, Zenon DEF HeldInv
      <4>4. mem.known[c] \in Nat
        <5>1. mem.known[c] \in Int BY Sizes, Zenon DEF Sized
        <5> QED BY <3>2, <5>1
      <4>5. HoldOf(<<mem.known[c]>>) \in Holds BY <4>4, HoldOne, Zenon
      <4> QED BY <3>2, <4>1, <4>3, <4>5, HandleWakes, Zenon
    <3> QED BY <2>1, <3>1, <3>2, Zenon DEF Seed
  <2>2. CASE Chain(c) \/ Notice(c) \/ ServerAppend(c) \/ Decode(c)
    BY <1>1, <2>2, Zenon DEF Chain, Notice, ServerAppend, Decode
  <2>3. CASE \E l \in LogIDs : RepeatPush(c, l) BY <1>1, <2>3, Zenon DEF RepeatPush
  <2>4. CASE DeliverCaught(c)
    <3>1. /\ phase = "deliver" /\ caught[c].events # <<>> /\ retrying' = retrying
          /\ \E ok \in BOOLEAN :
               /\ HandleEvent(c, Head(caught[c].events), queue[c], ok)
               /\ IF ok THEN UNCHANGED <<held, lookups>>
                        ELSE ScheduleHeld(c, HoldOf(caught[c].events))
      BY <2>4, Zenon DEF DeliverCaught
    <3>2. Up BY <3>1, Zenon DEF Up
    <3>3. ~held[c].on BY <3>1, <3>2, Honestly, Zenon DEF CaughtInv
    <3>4. HoldOf(caught[c].events) \in Holds
      <4>1. caught[c].events \in Seq(Nat) BY Sizes, Zenon DEF Sized
      <4> QED BY <3>1, <4>1, HoldTypes, Zenon
    <3> QED BY <3>1, <3>3, <3>4, HandleWakes, Zenon
  <2>5. CASE FinishRoom(c)
    <3>1. held' = held /\ retrying' = retrying /\ lookups' = lookups BY <2>5, Zenon DEF FinishRoom
    <3>2. access' = access \/ access' = [access EXCEPT ![c] = FALSE]
      BY <2>5, Zenon DEF FinishRoom
    <3>3. access \in [Chats -> BOOLEAN] BY Zenon DEF Typed
    <3>4. \A d \in Chats : ~access[d] => ~access'[d] BY <3>2, <3>3, Zenon
    <3> QED BY <3>1, <3>4, Zenon DEF HeldHasWakeup
  <2>6. CASE Pump(c)
    <3>1. CASE held[c].on
      <4>1. /\ held' = [held EXCEPT ![c] = Add(held[c], Head(out[c]))]
            /\ access' = access /\ lookups' = lookups /\ retrying' = retrying
        BY <2>6, <3>1, Zenon DEF Pump
      <4>2. held \in [Chats -> Holds] /\ held[c] \in Holds BY Zenon DEF Typed
      <4> DEFINE h == Add(held[c], Head(out[c]))
      <4>3. h.on = held[c].on /\ h.due = held[c].due /\ h.paused = held[c].paused
        BY <4>2, Zenon DEF Holds, Add
      <4> HIDE DEF h
      <4>4. held' = [held EXCEPT ![c] = h] BY <4>1, Zenon DEF h
      <4>5. \A d \in Chats : held'[d] = IF d = c THEN h ELSE held[d] BY <4>2, <4>4, Zenon
      <4>6. \A d \in Chats : Undisturbed(d) BY <4>1, <4>3, <4>5, Zenon DEF Undisturbed
      <4> QED BY <4>1, <4>6, QuietWakes, Zenon
    <3>2. CASE ~held[c].on
      <4> DEFINE l == Head(out[c])
      <4>1. /\ out[c] # <<>> /\ retrying' = retrying
            /\ \E ok \in BOOLEAN :
                 /\ HandleEvent(c, l, queue[c], ok)
                 /\ IF ok THEN UNCHANGED <<held, lookups>> ELSE ScheduleHeld(c, HoldOf(<<l>>))
        BY <2>6, <3>2, Zenon DEF Pump
      <4>2. l \in Nat
        <5>1. out[c] \in Seq(Nat) BY Sizes, Zenon DEF Sized
        <5> QED BY <4>1, <5>1
      <4> HIDE DEF l
      <4>3. HoldOf(<<l>>) \in Holds BY <4>2, HoldOne, Zenon
      <4> QED BY <3>2, <4>1, <4>3, HandleWakes, Zenon
    <3> QED BY <3>1, <3>2, Zenon
  <2>7. CASE RetryDue(c)
    <3>1. /\ retrying = {} /\ retrying' = {c} /\ lookups' = lookups /\ access' = access
          /\ held' = held
      BY <2>7, Zenon DEF RetryDue
    <3>2. \A d \in Chats : Undisturbed(d) BY <3>1, Zenon DEF Undisturbed
    <3> QED BY <3>1, <3>2, QuietWakes, Zenon
  <2>8. CASE Converge(c)
    <3>1. /\ retrying = {} /\ lookups' = lookups /\ access' = [access EXCEPT ![c] = TRUE]
          /\ IF Waiting(c) THEN retrying' = {c} ELSE UNCHANGED <<retrying, held>>
      BY <2>8, Zenon DEF Converge
    <3>2. access \in [Chats -> BOOLEAN] BY Zenon DEF Typed
    <3>3. \A d \in Chats \ {c} : access'[d] = access[d] BY <3>1, <3>2, Zenon
    <3>4. \A d \in Chats \ {c} : Undisturbed(d)
      BY <2>8, <3>1, <3>3, ConvergeHolds, Zenon DEF Undisturbed
    <3>5. ~held'[c].on \/ c \in retrying' \/ held'[c].due
      BY <3>1, Zenon DEF Waiting
    <3> QED BY <3>1, <3>4, <3>5, QuietWakes, Zenon
  <2>9. CASE RetryEvent(c)
    <3> DEFINE l == Head(held[c].events)
    <3>1. /\ c \in retrying
          /\ \E ok \in BOOLEAN :
               /\ HandleEvent(c, l, queue[c], ok)
               /\ IF ok THEN /\ held' = [held EXCEPT ![c].events = Tail(@)]
                             /\ UNCHANGED <<retrying, lookups>>
                        ELSE ScheduleAgain(c) /\ retrying' = retrying \ {c}
      BY <2>9, Zenon DEF RetryEvent
    <3> HIDE DEF l
    <3>2. PICK ok \in BOOLEAN :
            /\ HandleEvent(c, l, queue[c], ok)
            /\ IF ok THEN /\ held' = [held EXCEPT ![c].events = Tail(@)]
                          /\ UNCHANGED <<retrying, lookups>>
                     ELSE ScheduleAgain(c) /\ retrying' = retrying \ {c}
      BY <3>1, Zenon
    <3>3. \A d \in Chats \ {c} : access'[d] = access[d] BY <3>2, HandleAccess, Zenon
    <3>4. CASE ok
      <4>1. DOMAIN held = Chats BY Zenon DEF Typed
      <4>2. \A d \in Chats \ {c} : held'[d] = held[d] BY <3>2, <3>4, <4>1, Zenon
      <4>3. retrying' = retrying /\ lookups' = lookups BY <3>2, <3>4, Zenon
      <4>4. \A d \in Chats \ {c} : Undisturbed(d)
        BY <3>3, <4>2, <4>3, Zenon DEF Undisturbed
      <4> QED BY <3>1, <4>3, <4>4, QuietWakes, Zenon
    <3>5. CASE ~ok BY <3>2, <3>3, <3>5, AgainWakes, Zenon
    <3> QED BY <3>4, <3>5, Zenon
  <2>10. CASE RetryCatchUp(c)
    <3>1. /\ c \in retrying /\ access' = access
          /\ \/ \E events : /\ held' = [held EXCEPT ![c].events = events, ![c].missed = 0]
                            /\ UNCHANGED <<retrying, lookups>>
             \/ ScheduleAgain(c) /\ retrying' = retrying \ {c}
      BY <2>10, Zenon DEF RetryCatchUp
    <3>2. CASE ScheduleAgain(c) /\ retrying' = retrying \ {c}
      BY <3>1, <3>2, AgainWakes, Zenon
    <3>3. ASSUME NEW events, held' = [held EXCEPT ![c].events = events, ![c].missed = 0],
                 UNCHANGED <<retrying, lookups>>
          PROVE  HeldHasWakeup'
      <4>1. DOMAIN held = Chats BY Zenon DEF Typed
      <4>2. \A d \in Chats \ {c} : held'[d] = held[d] BY <3>3, <4>1, Zenon
      <4>3. \A d \in Chats \ {c} : Undisturbed(d)
        BY <3>1, <3>3, <4>2, Zenon DEF Undisturbed
      <4> QED BY <3>1, <3>3, <4>3, QuietWakes, Zenon
    <3> QED BY <3>1, <3>2, <3>3, Zenon
  <2>11. CASE Release(c)
    <3>1. /\ held' = [held EXCEPT ![c] = NotHeld] /\ retrying' = retrying \ {c}
          /\ access' = access /\ lookups' = lookups
      BY <2>11, Zenon DEF Release
    <3>2. DOMAIN held = Chats /\ ~NotHeld.on BY Zenon DEF Typed, NotHeld
    <3> HIDE DEF NotHeld
    <3>3. ~held'[c].on /\ \A d \in Chats \ {c} : held'[d] = held[d] BY <3>1, <3>2, Zenon
    <3>4. \A d \in Chats \ {c} : d \in retrying => d \in retrying' BY <3>1, Zenon
    <3>5. \A d \in Chats \ {c} : Undisturbed(d)
      BY <3>1, <3>3, <3>4, Zenon DEF Undisturbed
    <3> QED BY <3>1, <3>3, <3>5, QuietWakes, Zenon
  <2> QED
    BY <1>6, <2>1, <2>2, <2>3, <2>4, <2>5, <2>6, <2>7, <2>8, <2>9, <2>10, <2>11, Zenon
    DEF Bootstrap, Retry
<1> QED BY <1>2, <1>3, <1>4, <1>5, <1>6, Zenon DEF Next

\* A held chat always has something that will wake it: its timer, the command
\* offered for a paused chat, the membership retry of a blocked one, or the
\* retry that runs (scheduleHeld, resumeHeld, applyMetadataRefresh, retryHeld).
THEOREM HeldWakes == Spec => []HeldHasWakeup
<1>1. Init => HeldHasWakeup BY DEF Init, HeldHasWakeup, NotHeld
<1>2. DeliveryInv /\ DeliveryInv' /\ HeldHasWakeup /\ [Next]_vars => HeldHasWakeup'
  <2> SUFFICES ASSUME DeliveryInv, DeliveryInv', HeldHasWakeup, [Next]_vars
               PROVE  HeldHasWakeup'
    BY Zenon
  <2>1. Typed /\ Typed' /\ DownInv /\ Honest BY Zenon DEF DeliveryInv, Honest
  <2>2. CASE UNCHANGED vars BY <2>2, Zenon DEF vars, session, HeldHasWakeup
  <2> QED BY <2>1, <2>2, WakeKept, Zenon
<1> QED BY <1>1, <1>2, DeliveryHonest, PTL DEF Spec

-----------------------------------------------------------------------------
(* Delivery implements its promise *)

\* What chat d's answer gains in a step.
Extended(d) ==
  /\ Accounted(d) \subseteq Accounted(d)'
  /\ first[d] > 0 => /\ first'[d] \in 1..first[d]
                     /\ first'[d]..(first[d] - 1) \subseteq Accounted(d)'

\* A chat whose floor stays has its answers extended.
LEMMA AnswerStands ==
  ASSUME Typed, NEW d \in Chats, first'[d] = first[d], bridged[d] \subseteq bridged'[d],
         noticed[d] \subseteq noticed'[d]
  PROVE  Extended(d)
<1>1. first[d] \in Nat BY Sizes, Zenon DEF Sized
<1>2. Accounted(d) \subseteq Accounted(d)' BY Zenon DEF Accounted
<1> QED BY <1>1, <1>2 DEF Extended

\* Handling an event extends what is accounted for.
LEMMA HandleExtends ==
  ASSUME Typed, NEW c \in Chats, NEW l \in Nat, NEW q, NEW ok \in BOOLEAN,
         HandleEvent(c, l, q, ok), noticed' = noticed, l >= 1,
         first[c] > 0 => first[c] <= l + 1
  PROVE  \A d \in Chats : Extended(d)
<1>1. /\ bridged'[c] = bridged[c] \/ bridged'[c] = bridged[c] \cup {l}
      /\ \/ first'[c] = first[c]
         \/ /\ l \in bridged'[c]
            /\ first'[c] = IF first[c] = 0 \/ l < first[c] THEN l ELSE first[c]
      /\ \A d \in Chats \ {c} : first'[d] = first[d] /\ bridged'[d] = bridged[d]
  <2>1. /\ Outcome(c, l, ok)
        /\ \A d \in Chats \ {c} : first'[d] = first[d] /\ bridged'[d] = bridged[d]
    BY Outcomes, Zenon
  <2>2. /\ bridged'[c] = bridged[c] \/ bridged'[c] = bridged[c] \cup {l}
        /\ \/ first' = first
           \/ /\ l \in bridged'[c]
              /\ first'[c] = IF first[c] = 0 \/ l < first[c] THEN l ELSE first[c]
    BY <2>1, Zenon DEF Outcome
  <2> QED BY <2>1, <2>2, Zenon
<1>2. \A d \in Chats \ {c} : Extended(d) BY <1>1, AnswerStands, Zenon
<1>3. Extended(c)
  <2>1. first[c] \in Nat BY Sizes, Zenon DEF Sized
  <2>2. CASE first'[c] = first[c]
    <3>1. bridged[c] \subseteq bridged'[c] BY <1>1, Zenon
    <3> QED BY <2>2, <3>1, AnswerStands, Zenon
  <2>3. CASE ~(first'[c] = first[c])
    <3>1. l \in bridged'[c] /\ (first[c] > 0 => first'[c] = l /\ l < first[c]) BY <1>1, <2>1, <2>3
    <3>2. first[c] > 0 => first'[c] \in 1..first[c] /\ first'[c]..(first[c] - 1) \subseteq {l}
      BY <2>1, <3>1
    <3>3. Accounted(c) \subseteq Accounted(c)' /\ l \in Accounted(c)'
      BY <1>1, <3>1, Zenon DEF Accounted
    <3> QED BY <3>2, <3>3, Zenon DEF Extended
  <2> QED BY <2>2, <2>3, Zenon
<1> QED BY <1>2, <1>3, Zenon

\* So does every step of the client.
LEMMA StepExtends ==
  ASSUME Typed, DownInv, Honest, Next, ~\E c \in Chats : ServerAppend(c)
  PROVE  last' = last /\ \A d \in Chats : Extended(d)
<1>1. ASSUME UNCHANGED <<bridged, noticed, first>> PROVE \A d \in Chats : Extended(d)
  BY <1>1, AnswerStands, Zenon
<1>2. CASE Discover \/ EndSession \/ CloseSession \/ RequestResume \/ ResumeAll
  BY <1>1, <1>2, Zenon
  DEF Discover, EndSession, CloseSession, RequestResume, ResumeAll, session
<1>3. CASE Connect
  <2>1. last' = last /\ UNCHANGED <<bridged, noticed>> BY <1>3, Zenon DEF Connect
  <2>2. ASSUME NEW d \in Chats PROVE Extended(d)
    <3>1. CASE first[d] > 0
      <4>1. first'[d] = first[d] BY <1>3, <3>1, Zenon DEF Connect
      <4> QED BY <2>1, <4>1, AnswerStands, Zenon
    <3>2. CASE ~(first[d] > 0) BY <2>1, <3>2, Zenon DEF Extended, Accounted
    <3> QED BY <3>1, <3>2, Zenon
  <2> QED BY <2>1, <2>2, Zenon
<1>4. ASSUME NEW c \in Chats,
             \/ Bootstrap(c) \/ Retry(c)
             \/ Decode(c) \/ Pump(c) \/ RetryDue(c) \/ Converge(c)
             \/ \E l \in LogIDs : RepeatPush(c, l)
      PROVE  last' = last /\ \A d \in Chats : Extended(d)
  <2>0. /\ last[c] \in Nat /\ first[c] \in Nat
        /\ caught[c].events \in Seq(Nat) /\ out[c] \in Seq(Nat) /\ held[c].events \in Seq(Nat)
    BY Sizes, Zenon DEF Sized
  <2>1. ASSUME NEW s \in Seq(Nat), s # <<>>, NEW q, NEW ok \in BOOLEAN,
               HandleEvent(c, Head(s), q, ok), noticed' = noticed,
               \A e \in Elements(s) : e \in 1..last[c] /\ Lo(c) <= e + 1
        PROVE  \A d \in Chats : Extended(d)
    <3> DEFINE l == Head(s)
    <3>1. l \in Nat /\ l \in Elements(s)
      <4>1. l = s[1] /\ 1 \in DOMAIN s BY <2>1
      <4> QED BY <2>1, <4>1 DEF Elements
    <3> HIDE DEF l
    <3>2. l \in 1..last[c] /\ Lo(c) <= l + 1 BY <2>1, <3>1, Zenon
    <3>3. l >= 1 /\ (first[c] > 0 => first[c] <= l + 1) BY <2>0, <3>2 DEF Lo
    <3>4. HandleEvent(c, l, q, ok) BY <2>1, Zenon DEF l
    <3> QED BY <2>1, <3>1, <3>3, <3>4, HandleExtends, Zenon
  <2>2. CASE Chain(c) \/ FinishRoom(c) \/ RetryDue(c) \/ Converge(c) \/ RetryCatchUp(c) \/ Release(c)
    BY <1>1, <2>2, Zenon DEF Chain, FinishRoom, RetryDue, Converge, RetryCatchUp, Release
  <2>3. CASE \E l \in LogIDs : RepeatPush(c, l) BY <1>1, <2>3, Zenon DEF RepeatPush
  <2>4. CASE Notice(c)
    <3>1. /\ UNCHANGED <<last, bridged, first>>
          /\ noticed' = [noticed EXCEPT ![c] = noticed[c] \cup caught[c].missing]
      BY <2>4, Zenon DEF Notice
    <3>2. DOMAIN noticed = Chats BY Zenon DEF Typed
    <3>3. \A d \in Chats : noticed[d] \subseteq noticed'[d] BY <3>1, <3>2, Zenon
    <3> QED BY <3>1, <3>3, AnswerStands, Zenon
  <2>5. CASE Decode(c)
    <3>1. /\ UNCHANGED <<last, bridged, noticed>> /\ (first[c] > 0 => first' = first)
          /\ first' = first \/ first' = [first EXCEPT ![c] = Head(pushes[c])]
      BY <2>5, <2>0 DEF Decode
    <3>2. DOMAIN first = Chats BY Zenon DEF Typed
    <3>3. \A d \in Chats \ {c} : first'[d] = first[d] BY <3>1, <3>2, Zenon
    <3>4. \A d \in Chats \ {c} : Extended(d) BY <3>1, <3>3, AnswerStands, Zenon
    <3>5. CASE first[c] > 0 BY <1>1, <3>1, <3>5, Zenon
    <3>6. CASE ~(first[c] > 0)
      <4>1. Extended(c) BY <3>1, <3>6, Zenon DEF Extended, Accounted
      <4> QED BY <3>1, <3>4, <4>1, Zenon
    <3> QED BY <3>5, <3>6, Zenon
  <2>6. CASE Seed(c)
    <3>1. last' = last /\ noticed' = noticed BY <2>6, Zenon DEF Seed
    <3>2. CASE UNCHANGED <<bridged, first>> BY <1>1, <3>1, <3>2, Zenon
    <3>3. ASSUME NEW ok \in BOOLEAN, mem.cursor[c] = 0, mem.start[c] = 0, mem.known[c] > 0,
                 HandleEvent(c, mem.known[c], <<mem.known[c]>>, ok)
          PROVE  \A d \in Chats : Extended(d)
      <4>1. mem.known[c] \in Int BY Sizes, Zenon DEF Sized
      <4>2. mem.known[c] \in Nat /\ mem.known[c] >= 1 BY <3>3, <4>1
      <4>3. ~(first[c] > 0)
        <5>1. Up BY <2>6, Zenon DEF Seed, Up
        <5>2. first[c] > 0 => mem.start[c] = first[c] BY <3>3, <5>1, Honestly DEF MemInv, Behind
        <5> QED BY <3>3, <5>2
      <4> QED BY <3>1, <3>3, <4>2, <4>3, HandleExtends, Zenon
    <3> QED BY <2>6, <3>1, <3>2, <3>3, Zenon DEF Seed
  <2>7. CASE DeliverCaught(c)
    <3>1. Up BY <2>7, Zenon DEF DeliverCaught, Up
    <3>2. \A e \in Elements(caught[c].events) : e \in 1..last[c] /\ Lo(c) <= e + 1
      BY <3>1, Honestly, Zenon DEF CaughtInv
    <3>3. /\ last' = last /\ noticed' = noticed /\ caught[c].events # <<>>
          /\ \E ok \in BOOLEAN : HandleEvent(c, Head(caught[c].events), queue[c], ok)
      BY <2>7, Zenon DEF DeliverCaught
    <3> QED BY <2>0, <2>1, <3>2, <3>3, Zenon
  <2>8. CASE Pump(c)
    <3>1. last' = last /\ noticed' = noticed /\ out[c] # <<>> /\ Up
      BY <2>8, Zenon DEF Pump, Pumping, Up
    <3>2. \A e \in Elements(out[c]) : e \in 1..last[c] /\ Lo(c) <= e + 1
      BY <3>1, Honestly, Zenon DEF StreamInv
    <3>3. CASE UNCHANGED <<bridged, first>> BY <1>1, <3>1, <3>3, Zenon
    <3>4. CASE \E ok \in BOOLEAN : HandleEvent(c, Head(out[c]), queue[c], ok)
      BY <2>0, <2>1, <3>1, <3>2, <3>4, Zenon
    <3> QED BY <2>8, <3>1, <3>3, <3>4, Zenon DEF Pump
  <2>9. CASE RetryEvent(c)
    <3>1. Up
      <4>1. c \in retrying BY <2>9, Zenon DEF RetryEvent
      <4> QED BY <4>1, RetryingServes, Lively, Zenon
    <3>2. \A e \in Elements(held[c].events) : e \in 1..last[c] /\ Lo(c) <= e + 1
      BY <3>1, Honestly, Zenon DEF HeldInv
    <3>3. /\ last' = last /\ noticed' = noticed /\ held[c].events # <<>>
          /\ \E ok \in BOOLEAN : HandleEvent(c, Head(held[c].events), queue[c], ok)
      BY <2>9, Zenon DEF RetryEvent
    <3> QED BY <2>0, <2>1, <3>2, <3>3, Zenon
  <2> QED
    BY <1>4, <2>2, <2>3, <2>4, <2>5, <2>6, <2>7, <2>8, <2>9, Zenon DEF Bootstrap, Retry
<1> QED BY <1>2, <1>3, <1>4, Zenon DEF Next

\* Every step is a step of AtLeastOnce on the durable state, or none.
LEMMA StepPromises ==
  DeliveryInv /\ DeliveryInv' /\ [Next]_vars => [Promise!Next]_(Promise!vars)
<1> SUFFICES ASSUME DeliveryInv, DeliveryInv', [Next]_vars
             PROVE  [Promise!Next]_(Promise!vars)
  BY Zenon
<1>0. Typed /\ Typed' /\ DownInv /\ Honest BY Zenon DEF DeliveryInv, Honest
<1>1. CASE UNCHANGED vars
  <2>1. UNCHANGED <<last, first, bridged, noticed, disk>> BY <1>1, Zenon DEF vars
  <2> QED BY <2>1, Zenon DEF Promise!vars, Accounted
<1>2. ASSUME NEW c \in Chats, ServerAppend(c) PROVE Promise!Arrive(c)
  <2>1. /\ last[c] < MaxLog /\ last' = [last EXCEPT ![c] = last[c] + 1]
        /\ UNCHANGED <<first, bridged, noticed, disk>>
    BY <1>2, Zenon DEF ServerAppend
  <2>2. [d \in Chats |-> Accounted(d)]' = [d \in Chats |-> Accounted(d)]
    BY <2>1, Zenon DEF Accounted
  <2> QED BY <2>1, <2>2, Zenon DEF Promise!Arrive
<1>3. ASSUME Next, ~\E c \in Chats : ServerAppend(c) PROVE Promise!Progress
  <2>1. last' = last /\ \A d \in Chats : Extended(d) BY <1>0, <1>3, StepExtends, Zenon
  <2>2. /\ last \in [Chats -> 0..MaxLog] /\ first' \in [Chats -> Nat]
        /\ disk'.cursor \in [Chats -> Nat] /\ \A d \in Chats : first[d] \in Nat
    BY <1>0, Zenon DEF Typed, CP
  <2>3. \A d \in Chats :
          /\ first'[d] <= last[d] /\ disk'.cursor[d] <= last[d] /\ Accounted(d)' \subseteq 1..last[d]
          /\ first'[d] > 0 => first'[d]..disk'.cursor[d] \subseteq Accounted(d)'
    <3>1. \A d \in Chats : FileInv(d)' BY Zenon DEF DeliveryInv, ChatInv
    <3> QED BY <2>1, <3>1, Zenon DEF FileInv, Behind
  <2>4. first' \in [Chats -> 0..MaxLog] /\ disk'.cursor \in [Chats -> 0..MaxLog]
    BY <2>2, <2>3, MaxLogAssumption
  <2> DEFINE settled == [d \in Chats |-> Accounted(d)]
  <2>5. /\ \A d \in Chats : settled[d] = Accounted(d) /\ settled'[d] = Accounted(d)'
        /\ settled' \in [Chats -> SUBSET (1..MaxLog)]
    <3>1. \A d \in Chats : Accounted(d)' \in SUBSET (1..MaxLog) BY <2>2, <2>3, MaxLogAssumption
    <3> QED BY <3>1, Zenon
  <2>6. \A d \in Chats :
          /\ settled[d] \subseteq settled'[d] /\ settled'[d] \subseteq 1..last[d]
          /\ first'[d] > 0 => first'[d]..disk'.cursor[d] \subseteq settled'[d]
          /\ first[d] > 0 => /\ first'[d] \in 1..first[d]
                             /\ first'[d]..(first[d] - 1) \subseteq settled'[d]
    BY <2>1, <2>3, <2>5, Zenon DEF Extended
  <2> QED BY <2>1, <2>4, <2>5, <2>6, Zenon DEF Promise!Progress
<1> QED BY <1>1, <1>2, <1>3, Zenon DEF Promise!Next

\* The bridge implements at-least-once delivery: what the durable state shows of
\* each step of handleEvent, CommitEvent, catchUp and recovery is a step that
\* AtLeastOnce allows.
THEOREM DeliveryImplements == Spec => ImplementsAtLeastOnce
<1>1. Init => Promise!Init
  <2> SUFFICES ASSUME Init PROVE Promise!Init BY Zenon
  <2>1. /\ last = [c \in Chats |-> 0] /\ first = [c \in Chats |-> 0]
        /\ disk.cursor = [c \in Chats |-> 0]
    BY Zenon DEF Init, Fresh
  <2>2. [c \in Chats |-> Accounted(c)] = [c \in Chats |-> {}] BY Zenon DEF Init, Accounted
  <2> QED BY <2>1, <2>2, Zenon DEF Promise!Init
<1> QED BY <1>1, StepPromises, DeliveryHonest, PTL DEF Spec, ImplementsAtLeastOnce, Promise!Spec

=============================================================================
