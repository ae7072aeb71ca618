---------------------------- MODULE RenewalProofs ----------------------------
(***************************************************************************)
(* Credential renewal for any number of goroutines, calls, expiries, lost  *)
(* replies and failed writes.                                              *)
(***************************************************************************)
EXTENDS Renewal, TLAPS

Places == {"idle", "use", "rejected", "refresh", "store", "publish", "unlock",
           "unlockOK", "again", "repeat"}
Critical == {"refresh", "store", "publish", "unlock", "unlockOK"}

Typed ==
  /\ pc \in [Procs -> Places]
  /\ held \in [Procs -> Nat] /\ got \in [Procs -> Nat]
  /\ mem \in Nat /\ disk \in Nat /\ server \in Nat /\ expiries \in Nat
  /\ accepted \in BOOLEAN /\ closed \in BOOLEAN /\ damaged \in BOOLEAN

\* renewMu is held by whoever renews.
Exclusive == \A p \in Procs : pc[p] \in Critical => renewMu = p

\* Nobody has a pair the server has not issued, and one that was rejected and is
\* still the server's has expired.
Issued ==
  /\ mem <= server /\ server <= expiries /\ (~accepted => server < expiries)
  /\ \A p \in Procs : /\ held[p] <= server /\ got[p] <= server
                      /\ pc[p] \in {"rejected", "refresh"} /\ held[p] = server => ~accepted

\* What a renewal knows of the pair it presents, received and stored.
Renewing ==
  \A p \in Procs : /\ pc[p] = "refresh" => held[p] = mem
                   /\ pc[p] \in {"store", "publish"} => got[p] = server
                   /\ pc[p] = "publish" => disk = got[p]

\* Without a fault the memory is behind the server only during a renewal.
Follows ==
  ~damaged /\ ~closed => mem = server \/ \E p \in Procs : pc[p] \in {"store", "publish"}

RenewalInv == Typed /\ Exclusive /\ Issued /\ Renewing /\ Follows /\ MemoryIsStored

\* What the steps outside renewMu have in common: goroutine p moves between places
\* without the lock, and may take a snapshot of the memory.
LEMMA OutsideKeeps ==
  ASSUME RenewalInv, NEW p \in Procs, NEW at \in Places \ Critical,
         pc[p] \notin {"refresh", "store", "publish"},
         pc' = [pc EXCEPT ![p] = at],
         held' = held \/ held' = [held EXCEPT ![p] = mem],
         at = "rejected" => held' = held /\ (held[p] # server \/ ~accepted),
         UNCHANGED <<got, mem, disk, closed, serverVars, damaged>>,
         renewMu' = renewMu \/ pc[p] \in Critical
  PROVE  RenewalInv'
<1>1. Typed'
  BY DEF RenewalInv, Typed, serverVars, Places, Critical
<1>2. Exclusive'
  BY DEF RenewalInv, Typed, Exclusive, Critical, Places
<1>3. Issued'
  <2>1. UNCHANGED <<mem, server, expiries, accepted, got>>
    BY DEF serverVars
  <2>2. ASSUME NEW q \in Procs
        PROVE  /\ held'[q] <= server
               /\ pc'[q] \in {"rejected", "refresh"} /\ held'[q] = server => ~accepted
    BY DEF RenewalInv, Typed, Issued, Critical, Places
  <2> QED BY <2>1, <2>2 DEF RenewalInv, Issued
<1>4. Renewing'
  BY DEF RenewalInv, Typed, Renewing, Critical, Places, serverVars
<1>5. Follows' /\ MemoryIsStored'
  BY DEF RenewalInv, Typed, Follows, MemoryIsStored, Critical, Places, serverVars
<1> QED BY <1>1, <1>2, <1>3, <1>4, <1>5 DEF RenewalInv

\* Taking renewMu: nobody else renews, and the pair in memory is the rejected one.
LEMMA TakeKeeps ==
  ASSUME "free" \notin Procs, RenewalInv, NEW p \in Procs, TakeRenewMu(p)
  PROVE  RenewalInv'
<1>1. CASE mem # held[p]
  <2>1. pc' = [pc EXCEPT ![p] = "again"] /\ UNCHANGED <<held, got, mem, disk, closed, serverVars, damaged, renewMu>>
    BY <1>1 DEF TakeRenewMu, Go
  <2>2. pc[p] = "rejected" /\ "again" \in Places \ Critical
    BY DEF TakeRenewMu, Places, Critical
  <2> QED BY <2>1, <2>2, OutsideKeeps
<1>2. CASE mem = held[p]
  <2>1. /\ pc[p] = "rejected" /\ renewMu = "free" /\ renewMu' = p
        /\ pc' = [pc EXCEPT ![p] = "refresh"]
        /\ UNCHANGED <<held, got, mem, disk, closed, server, accepted, expiries, damaged>>
    BY <1>2 DEF TakeRenewMu, Go, serverVars
  <2>2. \A q \in Procs : pc[q] \notin Critical
    BY <2>1 DEF RenewalInv, Exclusive
  <2>3. \A q \in Procs : pc'[q] = IF q = p THEN "refresh" ELSE pc[q]
    BY <2>1 DEF RenewalInv, Typed
  <2>4. Typed'
    BY <2>1 DEF RenewalInv, Typed, Places
  <2>5. Exclusive' /\ Renewing'
    BY <1>2, <2>1, <2>2, <2>3 DEF Exclusive, Renewing, Critical
  <2>6. Issued'
    BY <2>1, <2>3 DEF RenewalInv, Issued
  <2>7. Follows' /\ MemoryIsStored'
    BY <2>1, <2>2, <2>3 DEF RenewalInv, Follows, MemoryIsStored, Critical
  <2> QED BY <2>4, <2>5, <2>6, <2>7 DEF RenewalInv
<1> QED BY <1>1, <1>2

\* The holder of renewMu presents its pair.
LEMMA RefreshKeeps ==
  ASSUME RenewalInv, NEW p \in Procs, NEW lost \in BOOLEAN, Refresh(p, lost)
  PROVE  RenewalInv'
<1>1. pc[p] = "refresh" /\ held[p] = mem /\ UNCHANGED <<held, mem, disk, closed, renewMu, expiries>>
  BY DEF Refresh, RenewalInv, Renewing, clientVars
<1>2. \A q \in Procs \ {p} : pc[q] \notin Critical
  BY <1>1 DEF RenewalInv, Exclusive, Critical
<1>3. CASE held[p] = server
  <2> DEFINE at == IF lost THEN "unlock" ELSE "store"
  <2>1. /\ server' = server + 1 /\ accepted' = TRUE /\ got' = [got EXCEPT ![p] = server + 1]
        /\ damaged' = (damaged \/ lost) /\ pc' = [pc EXCEPT ![p] = at]
    BY <1>3 DEF Refresh, Go
  <2>2. at \in Critical /\ at \in Places /\ at \notin {"rejected", "refresh", "publish"}
    BY DEF Critical, Places
  <2>3. \A q \in Procs : /\ pc'[q] = IF q = p THEN at ELSE pc[q]
                         /\ got'[q] = IF q = p THEN server + 1 ELSE got[q]
    BY <2>1 DEF RenewalInv, Typed
  <2>4. server < expiries
    BY <1>1, <1>3 DEF RenewalInv, Issued
  <2>5. Typed'
    BY <1>1, <2>1, <2>2 DEF RenewalInv, Typed
  <2>6. Exclusive' /\ Renewing'
    BY <1>1, <1>2, <2>1, <2>2, <2>3 DEF RenewalInv, Exclusive, Renewing, Critical
  <2>7. Issued'
    BY <1>1, <1>2, <2>1, <2>2, <2>3, <2>4 DEF RenewalInv, Typed, Issued
  <2>8. Follows'
    <3>1. CASE lost
      BY <2>1, <3>1 DEF Follows
    <3>2. CASE ~lost
      BY <2>3, <3>2 DEF Follows
    <3> QED BY <3>1, <3>2
  <2>9. MemoryIsStored'
    BY <1>1, <1>2 DEF RenewalInv, MemoryIsStored, Critical
  <2> QED BY <2>5, <2>6, <2>7, <2>8, <2>9 DEF RenewalInv
<1>4. CASE held[p] # server
  <2>1. pc' = [pc EXCEPT ![p] = "unlock"] /\ UNCHANGED <<server, accepted, got, damaged>>
    BY <1>4 DEF Refresh, Go
  <2>2. \A q \in Procs : pc'[q] = IF q = p THEN "unlock" ELSE pc[q]
    BY <2>1 DEF RenewalInv, Typed
  <2>3. Typed'
    BY <1>1, <2>1 DEF RenewalInv, Typed, Places
  <2>4. Exclusive' /\ Renewing' /\ Issued'
    BY <1>1, <2>1, <2>2 DEF RenewalInv, Exclusive, Renewing, Issued, Critical
  <2>5. Follows' /\ MemoryIsStored'
    BY <1>1, <1>2, <2>1, <2>2 DEF RenewalInv, Follows, MemoryIsStored, Critical
  <2> QED BY <2>3, <2>4, <2>5 DEF RenewalInv
<1> QED BY <1>3, <1>4

\* The pair it received goes to the state file.
LEMMA StoreKeeps ==
  ASSUME RenewalInv, NEW p \in Procs, NEW ok \in BOOLEAN, Store(p, ok)
  PROVE  RenewalInv'
<1>1. /\ pc[p] = "store" /\ got[p] = server
      /\ UNCHANGED <<held, got, mem, closed, renewMu, server, accepted, expiries>>
  BY DEF Store, RenewalInv, Renewing, serverVars
<1>2. \A q \in Procs \ {p} : pc[q] \notin Critical
  BY <1>1 DEF RenewalInv, Exclusive, Critical
<1>3. CASE ok /\ disk = held[p]
  <2>1. disk' = got[p] /\ pc' = [pc EXCEPT ![p] = "publish"] /\ UNCHANGED damaged
    BY <1>3 DEF Store, Go
  <2>2. \A q \in Procs : pc'[q] = IF q = p THEN "publish" ELSE pc[q]
    BY <2>1 DEF RenewalInv, Typed
  <2>3. Typed'
    BY <1>1, <2>1 DEF RenewalInv, Typed, Places
  <2>4. Exclusive' /\ Renewing' /\ Issued'
    BY <1>1, <1>2, <2>1, <2>2 DEF RenewalInv, Exclusive, Renewing, Issued, Critical
  <2>5. Follows' /\ MemoryIsStored'
    BY <2>2 DEF Follows, MemoryIsStored
  <2> QED BY <2>3, <2>4, <2>5 DEF RenewalInv
<1>4. CASE ~(ok /\ disk = held[p])
  <2>1. damaged' = TRUE /\ pc' = [pc EXCEPT ![p] = "unlock"] /\ UNCHANGED disk
    BY <1>4 DEF Store, Go
  <2>2. \A q \in Procs : pc'[q] = IF q = p THEN "unlock" ELSE pc[q]
    BY <2>1 DEF RenewalInv, Typed
  <2>3. Typed'
    BY <1>1, <2>1 DEF RenewalInv, Typed, Places
  <2>4. Exclusive' /\ Renewing' /\ Issued'
    BY <1>1, <2>1, <2>2 DEF RenewalInv, Exclusive, Renewing, Issued, Critical
  <2>5. Follows'
    BY <2>1 DEF Follows
  <2>6. MemoryIsStored'
    BY <1>1, <1>2, <2>1 DEF RenewalInv, MemoryIsStored, Critical
  <2> QED BY <2>3, <2>4, <2>5, <2>6 DEF RenewalInv
<1> QED BY <1>3, <1>4

\* The memory follows the file.
LEMMA PublishKeeps ==
  ASSUME RenewalInv, NEW p \in Procs, Publish(p)
  PROVE  RenewalInv'
<1>1. /\ pc[p] = "publish" /\ got[p] = server /\ disk = got[p]
      /\ UNCHANGED <<held, got, disk, closed, renewMu, server, accepted, expiries, damaged>>
  BY DEF Publish, RenewalInv, Renewing, serverVars
<1>2. \A q \in Procs \ {p} : pc[q] \notin Critical
  BY <1>1 DEF RenewalInv, Exclusive, Critical
<1>3. PICK at \in {"unlock", "unlockOK"} :
        /\ pc' = [pc EXCEPT ![p] = at]
        /\ (closed /\ mem' = mem) \/ mem' = got[p]
  BY DEF Publish, Go
<1>4. \A q \in Procs : pc'[q] = IF q = p THEN at ELSE pc[q]
  BY <1>3 DEF RenewalInv, Typed
<1>5. Typed'
  BY <1>1, <1>3 DEF RenewalInv, Typed, Places
<1>6. Exclusive' /\ Renewing'
  BY <1>1, <1>2, <1>4 DEF RenewalInv, Exclusive, Renewing, Critical
<1>7. Issued'
  BY <1>1, <1>3, <1>4 DEF RenewalInv, Typed, Issued
<1>8. Follows' /\ MemoryIsStored'
  BY <1>1, <1>3 DEF Follows, MemoryIsStored
<1> QED BY <1>5, <1>6, <1>7, <1>8 DEF RenewalInv

\* A goroutine's step.
LEMMA ProcKeeps ==
  ASSUME "free" \notin Procs, RenewalInv, NEW p \in Procs,
         \/ Start(p) \/ Use(p) \/ Again(p) \/ Repeat(p) \/ TakeRenewMu(p)
         \/ \E lost \in BOOLEAN : Refresh(p, lost)
         \/ \E ok \in BOOLEAN : Store(p, ok)
         \/ Publish(p) \/ Unlock(p)
  PROVE  RenewalInv'
<1>1. CASE Start(p)
  <2>1. "use" \in Places \ Critical
    BY DEF Places, Critical
  <2> QED BY <1>1, <2>1, OutsideKeeps DEF Start, Go, clientVars
<1>2. CASE Use(p)
  <2>1. {"idle", "rejected"} \subseteq Places \ Critical
    BY DEF Places, Critical
  <2>2. PICK at \in {"idle", "rejected"} :
          pc' = [pc EXCEPT ![p] = at] /\ (at = "rejected" => held[p] # server \/ ~accepted)
    BY <1>2 DEF Use, Go
  <2> QED BY <1>2, <2>1, <2>2, OutsideKeeps DEF Use, clientVars
<1>3. CASE Again(p)
  <2>1. {"idle", "use", "repeat"} \subseteq Places \ Critical
    BY DEF Places, Critical
  <2>2. PICK at \in {"idle", "use", "repeat"} :
          pc' = [pc EXCEPT ![p] = at] /\ (held' = held \/ held' = [held EXCEPT ![p] = mem])
    BY <1>3 DEF Again, Go
  <2> QED BY <1>3, <2>1, <2>2, OutsideKeeps DEF Again, clientVars
<1>4. CASE Repeat(p)
  <2>1. "idle" \in Places \ Critical
    BY DEF Places, Critical
  <2> QED BY <1>4, <2>1, OutsideKeeps DEF Repeat, Go, clientVars
<1>5. CASE Unlock(p)
  <2>1. {"idle", "again"} \subseteq Places \ Critical
    BY DEF Places, Critical
  <2>2. PICK at \in {"idle", "again"} : pc' = [pc EXCEPT ![p] = at]
    BY <1>5 DEF Unlock, Go
  <2>3. pc[p] \in Critical
    BY <1>5 DEF Unlock, Critical
  <2> QED BY <1>5, <2>1, <2>2, <2>3, OutsideKeeps DEF Unlock
<1> QED BY <1>1, <1>2, <1>3, <1>4, <1>5, TakeKeeps, RefreshKeeps, StoreKeeps, PublishKeeps

\* The server's expiry, the end of the client, and stuttering.
LEMMA RenewalStep ==
  ASSUME "free" \notin Procs, RenewalInv, [Next]_vars
  PROVE  RenewalInv'
<1>1. CASE UNCHANGED vars
  BY <1>1 DEF vars, procVars, clientVars, serverVars, RenewalInv, Typed, Exclusive, Issued,
              Renewing, Follows, MemoryIsStored
<1>2. CASE Expire
  <2>1. /\ accepted /\ accepted' = FALSE /\ expiries' = expiries + 1
        /\ UNCHANGED <<pc, held, got, renewMu, mem, disk, closed, server, damaged>>
    BY <1>2 DEF Expire, procVars, clientVars
  <2>2. Typed'
    <3>1. expiries' \in Nat
      BY <2>1 DEF RenewalInv, Typed
    <3>2. accepted' \in BOOLEAN
      BY <2>1
    <3> QED BY <2>1, <3>1, <3>2, Zenon DEF RenewalInv, Typed
  <2>3. Issued'
    BY <2>1 DEF RenewalInv, Typed, Issued
  <2>4. Exclusive' /\ Renewing' /\ Follows' /\ MemoryIsStored'
    BY <2>1 DEF RenewalInv, Exclusive, Renewing, Follows, MemoryIsStored
  <2> QED BY <2>2, <2>3, <2>4 DEF RenewalInv
<1>3. CASE CloseClient
  BY <1>3 DEF CloseClient, procVars, serverVars, RenewalInv, Typed, Exclusive, Issued,
              Renewing, Follows, MemoryIsStored
<1>4. CASE Next /\ ~Expire /\ ~CloseClient
  BY <1>4, ProcKeeps DEF Next
<1> QED BY <1>1, <1>2, <1>3, <1>4

\* The server rotates the pair once per expiry, a spent refresh token is presented only
\* after a fault or a close, and the memory never runs ahead of the state file
\* (renewRejected, renewCredentials).
THEOREM RenewalIsExclusive ==
  ASSUME "free" \notin Procs
  PROVE  Spec => [](OneRotationPerExpiry /\ RefreshTokenCurrent /\ MemoryIsStored)
<1>1. Init => RenewalInv
  <2> SUFFICES ASSUME Init PROVE RenewalInv
    OBVIOUS
  <2>1. Typed
    BY DEF Init, Typed, Places
  <2>2. Exclusive /\ Renewing
    BY DEF Init, Exclusive, Renewing, Critical
  <2>3. Issued
    BY DEF Init, Issued
  <2>4. Follows /\ MemoryIsStored
    BY DEF Init, Follows, MemoryIsStored
  <2> QED BY <2>1, <2>2, <2>3, <2>4 DEF RenewalInv
<1>2. RenewalInv /\ [Next]_vars => RenewalInv'
  BY RenewalStep
<1>3. RenewalInv => OneRotationPerExpiry /\ RefreshTokenCurrent /\ MemoryIsStored
  <2>1. ASSUME RenewalInv, NEW p \in Procs, pc[p] = "refresh", ~damaged, ~closed
        PROVE  held[p] = server
    <3>1. held[p] = mem /\ \A q \in Procs : pc[q] \in Critical => q = p
      BY <2>1 DEF RenewalInv, Renewing, Exclusive, Critical
    <3> QED BY <2>1, <3>1 DEF RenewalInv, Follows, Critical
  <2> QED BY <2>1 DEF RenewalInv, Issued, OneRotationPerExpiry, RefreshTokenCurrent
<1> QED BY <1>1, <1>2, <1>3, PTL DEF Spec
==============================================================================
