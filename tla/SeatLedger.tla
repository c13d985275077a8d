----------------------------- MODULE SeatLedger -----------------------------
(***************************************************************************)
(* What selling seats comes to, whatever tables, sweeps, webhooks and      *)
(* failures it is made of: each seat has one sale in its life.             *)
(*                                                                         *)
(* A request holds all the seats it names or none of them.  Only a held    *)
(* seat is sold, and to nobody but its holder.  A hold or a sale that ends *)
(* ends for good: the seat has no second sale.                             *)
(***************************************************************************)
CONSTANTS
  Users,   \* who may hold seats
  Seats,   \* the seats for sale
  NoOne    \* the holder of a seat that was never held

VARIABLE ledger   \* ledger[s]: how far the sale of seat s is, and to whom

Fresh == [state |-> "free", holder |-> NoOne]

LedgerInit == ledger = [s \in Seats |-> Fresh]

(* The seats of S, all of them in one step, come to stand as entry says. *)
Write(S, entry) == ledger' = [s \in Seats |-> IF s \in S THEN entry[s] ELSE ledger[s]]

Moved(state) == [s \in Seats |-> [ledger[s] EXCEPT !.state = state]]

Hold(u, S) ==
  /\ \A s \in S : ledger[s] = Fresh
  /\ Write(S, [s \in Seats |-> [state |-> "held", holder |-> u]])

Sell(S) ==
  /\ \A s \in S : ledger[s].state = "held"
  /\ Write(S, Moved("sold"))

End(S) ==
  /\ \A s \in S : ledger[s].state \in {"held", "sold"}
  /\ Write(S, Moved("ended"))

LedgerNext ==
  \/ \E u \in Users, S \in SUBSET Seats : Hold(u, S)
  \/ \E S \in SUBSET Seats : Sell(S)
  \/ \E S \in SUBSET Seats : End(S)

LedgerSpec == LedgerInit /\ [][LedgerNext]_ledger
=============================================================================
