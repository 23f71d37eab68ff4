------------------------------- MODULE Equity -------------------------------
(***************************************************************************)
(* The vocabulary of the equity side, shared by the abstract specification *)
(* (SharePlacement) and the transaction-level one (ShareIssuance).         *)
(*                                                                         *)
(* The owner and the number of shares of an investment are copied from its *)
(* contract and tier when it is created and never change, so they are      *)
(* constants of the investment's identity.                                 *)
(***************************************************************************)
EXTENDS Naturals, FiniteSets

CONSTANTS Users,        \* accounts that are not administrators
          Invs,         \* rows of table investments that may ever be created
          Rounds,       \* rows of table offering (funding rounds)
          InvUser,      \* investments.user_id
          InvShares,    \* investments.shares
          ForSale,      \* offering.shares_for_sale
          MaxPool       \* an upper bound of ForSale

ASSUME PlacementAssumption ==
    /\ IsFiniteSet(Users) /\ IsFiniteSet(Invs) /\ IsFiniteSet(Rounds)
    /\ InvUser \in [Invs -> Users]
    /\ InvShares \in [Invs -> Nat \ {0}]
    /\ MaxPool \in Nat
    /\ ForSale \in [Rounds -> 1..MaxPool]

Status      == {"none", "pending", "reconciled", "approved", "rejected"}
RoundStatus == {"none", "open", "closed"}

(***************************************************************************)
(* One element per share: the shares issued for a set of investments, and  *)
(* the shares counted as sold by a counter per round.                      *)
(***************************************************************************)
IssuedUnits(S)  == UNION {{i} \X (1..InvShares[i]) : i \in S}
SharesOf(S)     == Cardinality(IssuedUnits(S))
SoldUnits(s)    == UNION {{r} \X (1..s[r]) : r \in Rounds}
TotalSold(s)    == Cardinality(SoldUnits(s))

InvsOf(u)       == {i \in Invs : InvUser[i] = u}

(***************************************************************************)
(* The shares_sold counters the CHECK offering_sold_within_pool accepts.   *)
(***************************************************************************)
WithinPool      == {s \in [Rounds -> 0..MaxPool] :
                        \A r \in Rounds : s[r] <= ForSale[r]}
=============================================================================
