-------------------------- MODULE MCOrderDividends --------------------------
(***************************************************************************)
(* Small instances of OrderDividends: all orders are sold by one seller.   *)
(***************************************************************************)
EXTENDS OrderDividends

CONSTANTS admin, saler

MCTwoOrders   == 1..2
MCThreeOrders == 1..3
MCSellerOf    == [o \in Orders |-> saler]
=============================================================================
