------------------------------- MODULE Renewal -------------------------------
(***************************************************************************)
(* Credential renewal (internal/client/renewal.go) by the connect loop of  *)
(* client.go and by web API calls that got a 401, which share one Client.  *)
(* A credential pair (access and refresh token) is its generation number:  *)
(* the server rotates the pair on every renewal, and a refresh token that  *)
(* is not the server's current one is refused for good (-998 or -999).     *)
(***************************************************************************)
EXTENDS Integers

CONSTANTS
  Connectors,   \* goroutines in Client.connect: ensureSession admits one
  WebCallers,   \* goroutines in webCall
  MaxCalls,     \* bound: calls of each goroutine
  MaxExpiries,  \* bound: times the server stops accepting the access token
  Faults        \* a renewal reply or a store write may be lost

Procs == Connectors \cup WebCallers

VARIABLES
  pc, calls,
  held,      \* the pair each goroutine's snapshot of c.state holds
  got,       \* the pair its renewal received
  renewMu,   \* the goroutine holding renewMu, or "free"
  mem,       \* c.state.Credentials
  disk,      \* the state file
  server,    \* the server's current pair
  accepted,  \* the server still accepts its access token
  expiries,
  closed,    \* Client.closed
  damaged    \* a fault has happened

procVars == <<pc, calls, held, got>>
clientVars == <<renewMu, mem, disk, closed>>
serverVars == <<server, accepted, expiries>>
vars == <<procVars, clientVars, serverVars, damaged>>

Init ==
  /\ pc = [p \in Procs |-> "idle"] /\ calls = [p \in Procs |-> 0]
  /\ held = [p \in Procs |-> 0] /\ got = [p \in Procs |-> 0]
  /\ renewMu = "free" /\ mem = 0 /\ disk = 0 /\ closed = FALSE
  /\ server = 0 /\ accepted = TRUE /\ expiries = 0
  /\ damaged = FALSE

Go(p, at) == pc' = [pc EXCEPT ![p] = at]

-----------------------------------------------------------------------------
(* connect and webCall *)

Start(p) ==
  /\ pc[p] = "idle" /\ calls[p] < MaxCalls /\ ~closed
  /\ Go(p, "use")
  /\ calls' = [calls EXCEPT ![p] = @ + 1]
  /\ held' = [held EXCEPT ![p] = mem]
  /\ UNCHANGED <<got, clientVars, serverVars, damaged>>

\* LOGINLIST, or the web operation.  Another failure also ends the call.
Use(p) ==
  /\ pc[p] = "use"
  /\ \/ Go(p, "idle")
     \/ (held[p] # server \/ ~accepted) /\ ~(p \in Connectors /\ closed) /\ Go(p, "rejected")
  /\ UNCHANGED <<calls, held, got, clientVars, serverVars, damaged>>

\* After the renewal: connect dials again, as often as it is rejected, until
\* its context ends; webCall repeats the operation once.
Again(p) ==
  /\ pc[p] = "again"
  /\ \/ Go(p, "idle") /\ UNCHANGED held
     \/ p \in Connectors /\ Go(p, "use") /\ held' = [held EXCEPT ![p] = mem]
     \/ p \in WebCallers /\ ~closed /\ Go(p, "repeat") /\ held' = [held EXCEPT ![p] = mem]
  /\ UNCHANGED <<calls, got, clientVars, serverVars, damaged>>

Repeat(p) ==
  /\ pc[p] = "repeat" /\ Go(p, "idle")
  /\ UNCHANGED <<calls, held, got, clientVars, serverVars, damaged>>

-----------------------------------------------------------------------------
(* renewRejected and renewCredentials *)

MutantAlwaysRenews(p) ==
  /\ pc[p] = "rejected" /\ renewMu = "free"
  /\ renewMu' = p /\ Go(p, "refresh") /\ held' = [held EXCEPT ![p] = mem]
  /\ UNCHANGED <<calls, got, mem, disk, closed, serverVars, damaged>>

MutantRenewsUnlocked(p) ==
  /\ pc[p] = "rejected"
  /\ Go(p, IF mem # held[p] THEN "again" ELSE "refresh")
  /\ UNCHANGED <<calls, held, got, clientVars, serverVars, damaged>>

\* Under renewMu: a token someone has replaced meanwhile needs no renewal.
TakeRenewMu(p) ==
  /\ pc[p] = "rejected" /\ renewMu = "free"
  /\ IF mem # held[p] THEN Go(p, "again") /\ UNCHANGED renewMu
                      ELSE Go(p, "refresh") /\ renewMu' = p
  /\ UNCHANGED <<calls, held, got, mem, disk, closed, serverVars,
                 damaged>>

\* tokenrefresh.Execute with the refresh token of held[p].
Refresh(p, lost) ==
  /\ pc[p] = "refresh" /\ (lost => Faults)
  /\ IF held[p] = server
       THEN /\ server' = server + 1 /\ accepted' = TRUE
            /\ got' = [got EXCEPT ![p] = server + 1]
            /\ damaged' = (damaged \/ lost)
            /\ Go(p, IF lost THEN "unlock" ELSE "store")
       ELSE Go(p, "unlock") /\ UNCHANGED <<server, accepted, got, damaged>>
  /\ UNCHANGED <<calls, held, clientVars, expiries>>

MutantStoresLast(p, ok) ==
  /\ pc[p] = "store" /\ (ok \/ Faults)
  /\ mem' = got[p] /\ Go(p, "unlockOK")
  /\ disk' = IF ok THEN got[p] ELSE disk
  /\ damaged' = (damaged \/ ~ok)
  /\ UNCHANGED <<calls, held, got, renewMu, closed, serverVars>>

\* CompareAndSwapCredentials: the file still holds what was rotated.
Store(p, ok) ==
  /\ pc[p] = "store" /\ (ok \/ Faults)
  /\ IF ok /\ disk = held[p]
       THEN disk' = got[p] /\ Go(p, "publish") /\ UNCHANGED damaged
       ELSE Go(p, "unlock") /\ damaged' = TRUE /\ UNCHANGED disk
  /\ UNCHANGED <<calls, held, got, renewMu, mem, closed, serverVars>>

Publish(p) ==
  /\ pc[p] = "publish"
  /\ IF closed THEN Go(p, "unlock") /\ UNCHANGED mem
               ELSE Go(p, "unlockOK") /\ mem' = got[p]
  /\ UNCHANGED <<calls, held, got, renewMu, disk, closed, serverVars,
                 damaged>>

Unlock(p) ==
  /\ pc[p] \in {"unlock", "unlockOK"}
  /\ renewMu' = "free" /\ Go(p, IF pc[p] = "unlock" THEN "idle" ELSE "again")
  /\ UNCHANGED <<calls, held, got, mem, disk, closed, serverVars,
                 damaged>>

-----------------------------------------------------------------------------
(* The server, and the end of this client's ownership *)

Expire ==
  /\ accepted /\ expiries < MaxExpiries
  /\ accepted' = FALSE /\ expiries' = expiries + 1
  /\ UNCHANGED <<procVars, clientVars, server, damaged>>

\* Shutdown closes the client; it does not wait for web calls.
CloseClient ==
  /\ ~closed /\ closed' = TRUE
  /\ UNCHANGED <<procVars, renewMu, mem, disk, serverVars, damaged>>

Next ==
  \/ \E p \in Procs : \/ Start(p) \/ Use(p) \/ Again(p) \/ Repeat(p) \/ TakeRenewMu(p)
                      \/ \E lost \in BOOLEAN : Refresh(p, lost)
                      \/ \E ok \in BOOLEAN : Store(p, ok)
                      \/ Publish(p) \/ Unlock(p)
  \/ Expire \/ CloseClient

Spec == Init /\ [][Next]_vars

-----------------------------------------------------------------------------
(* Properties *)

\* Types.
TypeOK ==
  /\ pc \in [Procs -> {"idle", "use", "rejected", "refresh", "store", "publish", "unlock",
                       "unlockOK", "again", "repeat"}]
  /\ {mem, disk, server} \subseteq 0..MaxExpiries
  /\ renewMu \in Procs \cup {"free"}
  /\ {accepted, closed, damaged} \subseteq BOOLEAN

\* However many callers were rejected with the same token, the server is asked
\* for one rotation per expiry (renewRejected).
OneRotationPerExpiry == server <= expiries

\* While the client is open, a spent refresh token is never presented unless a
\* renewal's reply or its write was lost (renewMu and the check under it).
RefreshTokenCurrent ==
  \A p \in Procs : pc[p] = "refresh" /\ ~damaged /\ ~closed => held[p] = server

\* The client never uses credentials that are not in the state file: a crash
\* at any point restarts with what the client had (store before publish).
MemoryIsStored ==
  mem = disk \/ closed \/ \E p \in Procs : pc[p] = "publish"

==============================================================================
