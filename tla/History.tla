-------------------------------- MODULE History --------------------------------
(***************************************************************************)
(* The conversation of a chat in bot_sessions (load_history and save_history *)
(* of assistant/session.py, _save_turn_history of assistant/chat.py).  Turns  *)
(* of updates and of the voice worker read it at their beginning and write it *)
(* back whole, with their own exchange, at their end.                        *)
(***************************************************************************)
EXTENDS Naturals, Sequences

CONSTANTS
  TurnIds,     \* turns under way, at most
  MaxKept,     \* exchanges that MAX_HISTORY_MESSAGES leaves
  MaxExchanges \* bound: answers

VARIABLES
  row,        \* the row: [told, stamp], with no stamp if there is none
  turn,       \* per turn: [at, told, seen]
  exchanges,  \* history: turns that answered
  stamps,     \* clock of updated_at
  oldest,     \* stamps below it are older than HISTORY_TTL_SECONDS
  last        \* history: the exchange and the stamp of the last row written

historyVars == <<row, turn, exchanges, stamps, oldest, last>>

NoRow == [told |-> <<>>, stamp |-> 0]
Rest  == [at |-> "rest", told |-> <<>>, seen |-> 0]

HistoryInit ==
  /\ row = NoRow /\ turn = [t \in TurnIds |-> Rest] /\ exchanges = 0
  /\ stamps = 0 /\ oldest = 1 /\ last = [exchange |-> 0, stamp |-> 0]

Expired(stamp) == stamp # 0 /\ stamp < oldest

\* load_history: an expired conversation is as good as none, and to be deleted.
LoadHistory(t) ==
  /\ turn[t].at = "rest" /\ exchanges < MaxExchanges
  /\ turn' = [turn EXCEPT ![t] =
       IF Expired(row.stamp) THEN [at |-> "delete", told |-> <<>>, seen |-> row.stamp]
                             ELSE [at |-> "answer", told |-> row.told, seen |-> 0]]
  /\ UNCHANGED <<row, exchanges, stamps, oldest, last>>

DeletesChat(t) ==   \* mutant of DeleteHistory: by the chat alone
  /\ turn[t].at = "delete"
  /\ row' = NoRow
  /\ turn' = [turn EXCEPT ![t].at = "answer"]
  /\ UNCHANGED <<exchanges, stamps, oldest, last>>

\* Only the row that was read.
DeleteHistory(t) ==
  /\ turn[t].at = "delete"
  /\ row' = IF row.stamp = turn[t].seen /\ Expired(row.stamp) THEN NoRow ELSE row
  /\ turn' = [turn EXCEPT ![t].at = "answer"]
  /\ UNCHANGED <<exchanges, stamps, oldest, last>>

NewestOf(s) == SubSeq(s, IF Len(s) > MaxKept THEN Len(s) - MaxKept + 1 ELSE 1, Len(s))

\* save_history
SaveHistory(t) ==
  /\ turn[t].at = "answer" /\ exchanges < MaxExchanges
  /\ exchanges' = exchanges + 1 /\ stamps' = stamps + 1
  /\ row' = [told |-> NewestOf(Append(turn[t].told, exchanges')), stamp |-> stamps']
  /\ last' = [exchange |-> exchanges', stamp |-> stamps']
  /\ turn' = [turn EXCEPT ![t] = Rest]
  /\ UNCHANGED oldest

\* Without an answer (no API key, a failed request) nothing is saved; saving may fail.
Fails(t) ==
  /\ turn[t].at = "answer"
  /\ turn' = [turn EXCEPT ![t] = Rest]
  /\ UNCHANGED <<row, exchanges, stamps, oldest, last>>

\* A week without a turn; turns are much shorter.
Week ==
  /\ oldest <= stamps
  /\ oldest' = stamps + 1
  /\ \A t \in TurnIds : turn[t].at = "rest"
  /\ UNCHANGED <<row, turn, exchanges, stamps, last>>

HistoryNext == (\E t \in TurnIds : LoadHistory(t) \/ DeleteHistory(t) \/ SaveHistory(t) \/ Fails(t)) \/ Week

HistorySpec == HistoryInit /\ [][HistoryNext]_historyVars

-----------------------------------------------------------------------------
\* The exchange that was saved last stays until it expires: a turn that found an
\* expired conversation does not take the one saved meanwhile with it ("the new
\* history must survive instead of being removed by a stale reader", session.py).
FreshHistorySurvives ==
  last.stamp # 0 /\ ~Expired(last.stamp)
    => \E i \in DOMAIN row.told : row.told[i] = last.exchange

\* No exchange is lost to another turn.  Not so (see the README): each turn writes
\* back what it read.
NoneLost ==
  oldest = 1 /\ exchanges <= MaxKept
    => \A e \in 1..exchanges : \E i \in DOMAIN row.told : row.told[i] = e
=============================================================================
