---------------------------- MODULE AtLeastOnce -----------------------------
(***************************************************************************)
(* What delivery promises, without sessions, queues or failures: the       *)
(* server's log of a chat grows; from some first position on the bridge    *)
(* answers for every message; it settles positions (in Matrix, or in a gap *)
(* notice) and moves a durable cursor, which never covers a position it    *)
(* answers for and has not settled.  The cursor may step back: that only   *)
(* means that settled messages are handled again.                          *)
(***************************************************************************)
EXTENDS Naturals

CONSTANTS Chats, MaxLog

VARIABLES
  last,      \* the server's last log of each chat
  first,     \* the first position answered for, 0 before
  settled,   \* positions in Matrix or in a notice
  cursor     \* the durable cursor

vars == <<last, first, settled, cursor>>

Init ==
  /\ last = [c \in Chats |-> 0] /\ first = [c \in Chats |-> 0]
  /\ settled = [c \in Chats |-> {}] /\ cursor = [c \in Chats |-> 0]

Arrive(c) ==
  /\ last[c] < MaxLog
  /\ last' = [last EXCEPT ![c] = last[c] + 1]
  /\ UNCHANGED <<first, settled, cursor>>

\* The bridge settles positions, answers for more of them, moves cursors, or
\* does some of this at once.  An answer once given is only extended, downwards
\* and to settled positions.
Progress ==
  /\ UNCHANGED last
  /\ first' \in [Chats -> 0..MaxLog] /\ cursor' \in [Chats -> 0..MaxLog]
  /\ settled' \in [Chats -> SUBSET (1..MaxLog)]
  /\ \A c \in Chats :
       /\ settled[c] \subseteq settled'[c] /\ settled'[c] \subseteq 1..last[c]
       /\ first'[c] > 0 => first'[c]..cursor'[c] \subseteq settled'[c]
       /\ first[c] > 0 =>
            first'[c] \in 1..first[c] /\ first'[c]..(first[c] - 1) \subseteq settled'[c]

Next == Progress \/ \E c \in Chats : Arrive(c)

Spec == Init /\ [][Next]_vars
=============================================================================
