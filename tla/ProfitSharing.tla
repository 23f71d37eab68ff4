---------------------------- MODULE ProfitSharing ----------------------------
(***************************************************************************)
(* What the sales side promises about the shareholders' pool: 15% of every *)
(* paid order falls due once, when the order is paid, and every due amount *)
(* is paid out in one dividend at most.  Each action is one request of the *)
(* back office; OrderDividends describes the SQL transactions behind them. *)
(***************************************************************************)
EXTENDS Integers, Sequences

CONSTANT Orders      \* the ids of sales orders

VARIABLES order,     \* sales_orders.status; "none" before, "deleted" after
          due,       \* paid orders whose pool is in no dividend yet
          batches    \* the orders gathered by each dividend, oldest first

vars == <<order, due, batches>>

Shared == {o \in Orders : \E d \in DOMAIN batches : o \in batches[d]}
-----------------------------------------------------------------------------
Init ==
    /\ order = [o \in Orders |-> "none"]
    /\ due = {}
    /\ batches = <<>>

Create(o) ==
    /\ order[o] = "none"
    /\ order' = [order EXCEPT ![o] = "pending"]
    /\ UNCHANGED <<due, batches>>

Cancel(o) ==
    /\ order[o] = "pending"
    /\ order' = [order EXCEPT ![o] = "cancelled"]
    /\ UNCHANGED <<due, batches>>

Pay(o) ==
    /\ order[o] = "pending"
    /\ order' = [order EXCEPT ![o] = "paid"]
    /\ due' = due \cup {o}
    /\ UNCHANGED batches

(***************************************************************************)
(* With dividend_auto_distribute = on, a payment shares what it adds       *)
(* together with what was due before.                                      *)
(***************************************************************************)
PayAndShare(o, gathered) ==
    /\ order[o] = "pending"
    /\ order' = [order EXCEPT ![o] = "paid"]
    /\ due' = due \ gathered
    /\ batches' = Append(batches, gathered \cup {o})

Share(gathered) ==
    /\ gathered # {}
    /\ due' = due \ gathered
    /\ batches' = Append(batches, gathered)
    /\ UNCHANGED order

Delete(o) ==
    /\ order[o] \in {"pending", "paid", "cancelled"}
    /\ order' = [order EXCEPT ![o] = "deleted"]
    /\ due' = due \ {o}
    /\ UNCHANGED batches

Next ==
    \/ \E o \in Orders : \/ Create(o) \/ Cancel(o) \/ Pay(o) \/ Delete(o)
                         \/ \E gathered \in SUBSET due : PayAndShare(o, gathered)
    \/ \E gathered \in SUBSET due : Share(gathered)

Spec == Init /\ [][Next]_vars
-----------------------------------------------------------------------------
(***************************************************************************)
(* No order is in two dividends (service/distribution.go: an order never   *)
(* shares its dividend twice).                                             *)
(***************************************************************************)
SharedOnce ==
    \A d, e \in DOMAIN batches : d # e => batches[d] \cap batches[e] = {}

(***************************************************************************)
(* Cancelled and paid exclude each other and are final, up to deletion.    *)
(***************************************************************************)
OrderMovesForward ==
    [][\A o \in Orders :
          /\ order[o] = "deleted" => order'[o] = "deleted"
          /\ order[o] \in {"paid", "cancelled"} => order'[o] \in {order[o], "deleted"}]_vars
=============================================================================
