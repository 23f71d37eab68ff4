---------------------------- MODULE MCOrderSplit ----------------------------
(***************************************************************************)
(* The rates the program starts with, a table that favours sellers, and    *)
(* one that leaves operations nothing but the rounding; subtotals around   *)
(* the halves of these rates and around the least amount of the equal      *)
(* share.                                                                  *)
(***************************************************************************)
EXTENDS OrderSplit

Table(s, a, e, p, c, m, t) ==
    [seller |-> s, affiliate |-> a, equal |-> e, pool |-> p, cost |-> c, min |-> m, pit |-> t]

MCDefault   == Table(25, 10, 5, 15, 30, 1000, 10)
MCConfigs   == {Table(25, 10, 5, 15, 30, 20, 10), Table(50, 10, 5, 15, 10, 20, 10),
                Table(25, 15, 15, 15, 30, 10, 10)}
MCSubtotals == 1..30 \cup {999, 1000, 1001}
=============================================================================
