--------------------------- MODULE SharePlacement ---------------------------
(***************************************************************************)
(* What the equity side of the platform promises (README "8 INVARIANTS",   *)
(* 1-4 and 7): every operation on investments, the share ledger, the       *)
(* shareholdings read model and the offering's shares_sold counter is one  *)
(* atomic step.  ShareIssuance describes the SQL transactions that         *)
(* implement these steps; here a whole transaction is one action.          *)
(***************************************************************************)
EXTENDS Equity

VARIABLES users,     \* accounts that exist
          status,    \* investments.status; "none" when there is no such row
          declared,  \* investments whose payment has declared_at
          paid,      \* investments whose payment has reconciled_at
          ledger,    \* investments with an issuance row in share_ledger
          holding,   \* shareholdings.shares per account (0: no row)
          round,     \* offering.status; "none" when there is no such row
          sold       \* offering.shares_sold

vars == <<users, status, declared, paid, ledger, holding, round, sold>>

-----------------------------------------------------------------------------
Init ==
    /\ users = Users
    /\ status = [i \in Invs |-> "none"]
    /\ declared = {} /\ paid = {} /\ ledger = {}
    /\ holding = [u \in Users |-> 0]
    /\ round \in [Rounds -> {"none", "open"}]
    /\ sold = [r \in Rounds |-> 0]

Create(i) ==
    /\ status[i] = "none"
    /\ InvUser[i] \in users
    /\ status' = [status EXCEPT ![i] = "pending"]
    /\ UNCHANGED <<users, declared, paid, ledger, holding, round, sold>>

DeclareTransfer(i) ==
    /\ status[i] # "none"
    /\ declared' = declared \cup {i}
    /\ UNCHANGED <<users, status, paid, ledger, holding, round, sold>>

Reconcile(i) ==
    /\ status[i] = "pending"
    /\ i \in declared
    /\ status' = [status EXCEPT ![i] = "reconciled"]
    /\ paid' = paid \cup {i}
    /\ UNCHANGED <<users, declared, ledger, holding, round, sold>>

Reject(i) ==
    /\ status[i] \in {"pending", "reconciled"}
    /\ status' = [status EXCEPT ![i] = "rejected"]
    /\ UNCHANGED <<users, declared, paid, ledger, holding, round, sold>>

(***************************************************************************)
(* Approval: the status, the ledger row, the holding and the counter of    *)
(* one round change together or not at all.  Which round is left open: the *)
(* code reads the active round before it locks it.                         *)
(***************************************************************************)
Issue(i, r) ==
    /\ status[i] = "reconciled"
    /\ i \in paid
    /\ round[r] # "none"
    /\ sold[r] + InvShares[i] <= ForSale[r]
    /\ status' = [status EXCEPT ![i] = "approved"]
    /\ ledger' = ledger \cup {i}
    /\ holding' = [holding EXCEPT ![InvUser[i]] = @ + InvShares[i]]
    /\ sold' = [sold EXCEPT ![r] = @ + InvShares[i]]
    /\ UNCHANGED <<users, declared, paid, round>>

OpenRound(r, closing) ==
    /\ round[r] = "none"
    /\ round' = [o \in Rounds |-> CASE o = r          -> "open"
                                    [] o \in closing  -> "closed"
                                    [] OTHER          -> round[o]]
    /\ UNCHANGED <<users, status, declared, paid, ledger, holding, sold>>

(***************************************************************************)
(* Deleting an account removes its whole financial footprint and rebuilds  *)
(* the counters (a second deletion of the same account only does the       *)
(* latter).  The promise about the counters is only on their total.        *)
(***************************************************************************)
Erase(u, s) ==
    /\ users' = users \ {u}
    /\ status' = [i \in Invs |-> IF i \in InvsOf(u) THEN "none" ELSE status[i]]
    /\ declared' = declared \ InvsOf(u)
    /\ paid' = paid \ InvsOf(u)
    /\ ledger' = ledger \ InvsOf(u)
    /\ holding' = [holding EXCEPT ![u] = 0]
    /\ TotalSold(s) = SharesOf(ledger \ InvsOf(u))
    /\ sold' = s
    /\ UNCHANGED round

Next ==
    \/ \E i \in Invs : Create(i) \/ DeclareTransfer(i) \/ Reconcile(i) \/ Reject(i)
    \/ \E i \in Invs, r \in Rounds : Issue(i, r)
    \/ \E r \in Rounds, closing \in SUBSET {o \in Rounds : round[o] = "open"} :
           OpenRound(r, closing)
    \/ \E u \in Users, s \in WithinPool : Erase(u, s)

Spec == Init /\ [][Next]_vars
-----------------------------------------------------------------------------
(***************************************************************************)
(* Every variable has its type, and money-related rows only exist for      *)
(* existing investments of existing accounts.                              *)
(***************************************************************************)
TypeOK ==
    /\ users \subseteq Users
    /\ status \in [Invs -> Status]
    /\ declared \subseteq Invs
    /\ paid \subseteq Invs
    /\ ledger \subseteq Invs
    /\ holding \in [Users -> Nat]
    /\ round \in [Rounds -> RoundStatus]
    /\ sold \in [Rounds -> Nat]

(***************************************************************************)
(* Shares are issued exactly for the approved investments, and only on a   *)
(* payment that was declared and reconciled (INVARIANTS 2, 3 and 7).       *)
(***************************************************************************)
IssuedIffApproved ==
    \A i \in Invs :
        /\ i \in ledger <=> status[i] = "approved"
        /\ i \in ledger => i \in paid
        /\ i \in paid => i \in declared

(***************************************************************************)
(* The read model equals the ledger, account by account (INVARIANT 4).     *)
(***************************************************************************)
HoldingsMatchLedger ==
    \A u \in Users : holding[u] = SharesOf(ledger \cap InvsOf(u))

(***************************************************************************)
(* No round sells more than its pool (CHECK offering_sold_within_pool).    *)
(***************************************************************************)
SoldWithinPool ==
    \A r \in Rounds : sold[r] <= ForSale[r]

(***************************************************************************)
(* The rounds together count as sold exactly the shares that are issued:   *)
(* what makes the pool check mean anything, across approvals, new rounds   *)
(* and account deletions.                                                  *)
(***************************************************************************)
SoldMatchesIssued ==
    TotalSold(sold) = SharesOf(ledger)

(***************************************************************************)
(* The lifecycle only moves forward, and an approved investment leaves     *)
(* that state only by the deletion of its owner's account (INVARIANT 2).   *)
(***************************************************************************)
StatusMovesForward ==
    [][\A i \in Invs : status'[i] # status[i] =>
          \/ status[i] = "none" /\ status'[i] = "pending"
          \/ status[i] = "pending" /\ status'[i] \in {"reconciled", "rejected"}
          \/ status[i] = "reconciled" /\ status'[i] \in {"approved", "rejected"}
          \/ status'[i] = "none" /\ InvUser[i] \notin users']_vars
=============================================================================
