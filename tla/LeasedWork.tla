----------------------------- MODULE LeasedWork -----------------------------
(***************************************************************************)
(* What a leased outbox promises, with no clocks, workers or retries: work *)
(* is open, held by exactly one ticket, done or dead.  A ticket is never    *)
(* used twice, only held work is finished, done work is never touched      *)
(* again and dead work comes back only by being opened explicitly.         *)
(***************************************************************************)
EXTENDS Naturals

CONSTANT Work

VARIABLES
  phase,     \* [Work -> {"open", "held", "done", "dead"}]
  holder,    \* [Work -> Nat], the ticket that holds the work; 0: none
  tickets    \* the tickets issued so far

vars == <<phase, holder, tickets>>

Init ==
  /\ phase = [k \in Work |-> "open"]
  /\ holder = [k \in Work |-> 0]
  /\ tickets = 0

Same(k) == phase'[k] = phase[k] /\ holder'[k] = holder[k]

\* Work that nobody holds, or whose holder is presumed dead, gets a new ticket.
Grant(k) ==
  /\ phase[k] \in {"open", "held"}
  /\ phase'[k] = "held"
  /\ holder'[k] = tickets + 1

\* The holder settles its work, or the work outlives its last holder.
Settle(k) ==
  /\ phase[k] = "held"
  /\ phase'[k] \in {"open", "done", "dead"}
  /\ holder'[k] = 0

Reopen(k) ==
  /\ phase[k] = "dead"
  /\ phase'[k] = "open"
  /\ holder'[k] = 0

\* At most one ticket is issued in a step; other work may settle in the same step.
Issue ==
  /\ tickets' = tickets + 1
  /\ \E k \in Work : Grant(k) /\ \A m \in Work \ {k} : Same(m) \/ Settle(m)

Close ==
  /\ tickets' = tickets
  /\ \A k \in Work : Same(k) \/ Settle(k)

Open ==
  /\ tickets' = tickets
  /\ \A k \in Work : Same(k) \/ Reopen(k)

Next == Issue \/ Close \/ Open

Spec == Init /\ [][Next]_vars
=============================================================================
