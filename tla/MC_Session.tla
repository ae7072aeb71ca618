----------------------------- MODULE MC_Session -----------------------------
(* Small instances of Session: two callers of the same method, so that only  *)
(* the packet ID tells their replies apart; one caller and the keepalive     *)
(* that outlast an ID's reuse; pushes through a channel of one.              *)
EXTENDS Session, TLC

CallersAlike == Permutations(Callers)

SameMethod == [c \in Callers |-> "GETMEM"]

\* Every caller makes `each` calls, `one` of them `more` instead.
Load(each, one, more, pings, pushes) ==
  [calls |-> [p \in Procs |-> IF p \in Pings THEN pings
                              ELSE IF p = one THEN more ELSE each],
   pushes |-> pushes]

Mixed == UNION {{Load(1, c, 1, 1, 0), Load(0, c, 1, 2, 0),
                 Load(0, c, 1, 0, 2)} : c \in Callers}

Single == {Load(0, c, 1, 1, 0) : c \in Callers}
=============================================================================
