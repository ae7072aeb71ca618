---------------------------- MODULE AcquiredPages ----------------------------
(***************************************************************************)
(* The pages of the acquired history store (client/history_store.go) and   *)
(* what they cover.  A page is the immutable answer to one request for the *)
(* messages of a chat in (cur, max]; rows are the messages it holds, last  *)
(* the highest of them.  It vouches for the whole interval (cur, last].    *)
(***************************************************************************)
EXTENDS Integers, FiniteSets

HighestOf(S) == CHOOSE x \in S : \A y \in S : y <= x
LowestOf(S) == CHOOSE x \in S : \A y \in S : x <= y

MutantVouchesForRequest(chat, cur, max, rows) ==
  [chat |-> chat, cur |-> cur, max |-> max, last |-> max,
   rows |-> {l \in rows : cur < l /\ l <= max}]

AcquiredPage(chat, cur, max, rows) ==
  LET selected == {l \in rows : cur < l /\ l <= max}
  IN  [chat |-> chat, cur |-> cur, max |-> max, rows |-> selected,
       last |-> HighestOf(selected)]

\* Files are named by the request: historyPageName.
SamePageName(p, q) == p.chat = q.chat /\ p.cur = q.cur /\ p.max = q.max

SavePage(pages, p) == {q \in pages : ~SamePageName(p, q)} \cup {p}

PagesOf(pages, chat) == {p \in pages : p.chat = chat}

\* The highest message acquired, connected or not.
PageHigh(pages, chat) == HighestOf({0} \cup {p.last : p \in PagesOf(pages, chat)})

(* coveredThroughLocked: starting at cur, a page that starts at or below   *)
(* the end of what is covered extends it.  The loop stops at the first end *)
(* that no page extends.                                                   *)
CoveredThrough(pages, chat, cur, max) ==
  LET Extends(p, end) ==
        p.cur <= end /\ p.last > end /\ max > end
      ends == {cur} \cup {IF p.last < max THEN p.last ELSE max :
                            p \in PagesOf(pages, chat)}
  IN  LowestOf({end \in ends : end >= cur /\
                  \A p \in PagesOf(pages, chat) : ~Extends(p, end)})

\* openHistoryStore refuses a journal that is ahead of the pages.
Reopenable(pages, journal) ==
  \A chat \in DOMAIN journal : journal[chat] <= PageHigh(pages, chat)
==============================================================================
