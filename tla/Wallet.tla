------------------------------- MODULE Wallet -------------------------------
(***************************************************************************)
(* The two wallets of an account: commissions (of investments and of sales *)
(* orders) and dividends.  A balance is stored nowhere: it is what the     *)
(* account is owed minus what it has withdrawn, summed when it is asked    *)
(* for (service/wallet.go).  A request of a withdrawal reads these sums    *)
(* one query after the other, outside any transaction, and inserts its row *)
(* afterwards, so requests overlap with everything else.                   *)
(*                                                                         *)
(* A cause is the sales order, the investment or the dividend that credits *)
(* accounts; its credits appear in one transaction and are removed with it.*)
(***************************************************************************)
EXTENDS Integers, FiniteSets

CONSTANTS Users,
          Causes,    \* sales orders, investments and dividends
          KindOf,    \* "sales", "investment" or "dividend"
          Credits,   \* rows of sales_commissions, commissions, dividend_payouts
          CauseOf,
          OwnerOf,   \* beneficiary_id, dividend_payouts.user_id
          Net,       \* net_amount, dividend_payouts.amount
          Requests,  \* calls that may each insert one row of withdrawals
          Amounts    \* the amounts asked for

ASSUME WalletAssumption ==
    /\ IsFiniteSet(Credits) /\ IsFiniteSet(Requests)
    /\ KindOf \in [Causes -> {"sales", "investment", "dividend"}]
    /\ CauseOf \in [Credits -> Causes]
    /\ OwnerOf \in [Credits -> Users]
    /\ Net \in [Credits -> Nat \ {0}]
    /\ Amounts \subseteq Int

VARIABLES credit,      \* status of each credit; "none" before, "removed" after
          withdrawal,  \* withdrawals.status of the row a request inserted
          request,     \* each call, with the sums it has read
          openToday,   \* whether today is a day of withdrawal
          disturbed    \* history: wallets whose requests overlapped, or that
                       \* lost a credit or took back a rejected withdrawal
vars == <<credit, withdrawal, request, openToday, disturbed>>

Sources          == {"commission", "dividend"}
CreditStatus     == {"none", "pending", "approved", "paid", "removed"}
WithdrawalStatus == {"none", "pending", "approved", "paid", "rejected"}

New  == [pc |-> "new", user |-> "none", source |-> "commission",
         amount |-> 0, earned |-> 0, admin |-> FALSE]
Call == {New} \cup [pc : {"earned", "sales", "withdrawn", "insert", "done"},
                    user : Users, source : Sources, amount : {a \in Amounts : a > 0},
                    earned : Nat, admin : BOOLEAN]

TypeOK ==
    /\ credit \in [Credits -> CreditStatus]
    /\ withdrawal \in [Requests -> WithdrawalStatus]
    /\ request \in [Requests -> Call]
    /\ openToday \in BOOLEAN
    /\ disturbed \subseteq Users \X Sources

(***************************************************************************)
(* The sums the queries compute, one element per dong.                     *)
(***************************************************************************)
Dong(S, amount)  == Cardinality(UNION {{x} \X (1..amount[x]) : x \in S})
Counted          == {c \in Credits : credit[c] \in {"pending", "approved", "paid"}}
CreditsOf(u, kind) == {c \in Counted : OwnerOf[c] = u /\ KindOf[CauseOf[c]] = kind}

SumCommissionEarned(u)      == Dong(CreditsOf(u, "investment"), Net)
SumSalesCommissionEarned(u) == Dong(CreditsOf(u, "sales"), Net)
SumDividendPayouts(u)       == Dong(CreditsOf(u, "dividend"), Net)

Pending(u, kind) == Dong({c \in CreditsOf(u, kind) : credit[c] = "pending"}, Net)

Asked == [r \in Requests |-> request[r].amount]

\* mutant: rejected withdrawals are counted again by the wallets
SumWithdrawalsAll(u, source) ==
    Dong({r \in Requests : /\ withdrawal[r] # "none"
                           /\ request[r].user = u /\ request[r].source = source}, Asked)

SumWithdrawals(u, source) ==
    Dong({r \in Requests : /\ withdrawal[r] \notin {"none", "rejected"}
                           /\ request[r].user = u /\ request[r].source = source}, Asked)

Earned(u, source) ==
    IF source = "dividend" THEN SumDividendPayouts(u)
                           ELSE SumCommissionEarned(u) + SumSalesCommissionEarned(u)
Available(u, source) == Earned(u, source) - SumWithdrawals(u, source)

(***************************************************************************)
(* ListWalletBalances: one query that joins the accounts that are owed a   *)
(* commission with their sums.                                             *)
(***************************************************************************)
Listed == {OwnerOf[c] : c \in {d \in Counted : KindOf[CauseOf[d]] # "dividend"}}
ListWalletBalances ==
    [u \in Listed |->
        LET mine == {c \in Counted : OwnerOf[c] = u /\ KindOf[CauseOf[c]] # "dividend"}
            took == {r \in Requests : /\ request[r].user = u /\ request[r].source = "commission"
                                      /\ withdrawal[r] \in {"pending", "approved", "paid"}}
        IN [earned    |-> Dong(mine, Net),
            withdrawn |-> Dong(took, Asked),
            pending   |-> Dong({c \in mine : credit[c] = "pending"}, Net)]]

Init ==
    /\ credit = [c \in Credits |-> "none"]
    /\ withdrawal = [r \in Requests |-> "none"]
    /\ request = [r \in Requests |-> New]
    /\ openToday \in BOOLEAN
    /\ disturbed = {}

(***************************************************************************)
(* Credits.  An order is paid, an investment approved or a dividend        *)
(* declared.  ApproveCommission and PayCommission exist for commissions of *)
(* investments only; a payout is marked paid, alone or with all others of  *)
(* its dividend; a commission of a sales order stays pending.              *)
(***************************************************************************)
Of(cause) == {c \in Credits : CauseOf[c] = cause}

Credited(cause) ==
    /\ \A c \in Of(cause) : credit[c] = "none"
    /\ credit' = [c \in Credits |-> IF c \in Of(cause) THEN "pending" ELSE credit[c]]
    /\ UNCHANGED <<withdrawal, request, openToday, disturbed>>

Advance(c, kind, from, to) ==
    /\ KindOf[CauseOf[c]] = kind
    /\ credit[c] = from
    /\ credit' = [credit EXCEPT ![c] = to]
    /\ UNCHANGED <<withdrawal, request, openToday, disturbed>>

ApproveCommission(c) == Advance(c, "investment", "pending", "approved")
PayCommission(c)     == Advance(c, "investment", "approved", "paid")
MarkPaid(c)          == Advance(c, "dividend", "pending", "paid")

\* DeleteOrder, DeleteUser of the investor, DeleteDividend
Removed(cause) ==
    /\ \E c \in Of(cause) : c \in Counted
    /\ credit' = [c \in Credits |-> IF c \in Of(cause) THEN "removed" ELSE credit[c]]
    /\ disturbed' = disturbed \cup
          {<<OwnerOf[c], IF KindOf[cause] = "dividend" THEN "dividend" ELSE "commission">> :
               c \in Of(cause)}
    /\ UNCHANGED <<withdrawal, request, openToday>>

(***************************************************************************)
(* Requests.  The owner's request is refused on other days than those      *)
(* configured; an administrator's request for an account is not.           *)
(***************************************************************************)
Running(r)   == request[r].pc \in {"earned", "sales", "withdrawn", "insert"}
WalletOf(r)  == <<request[r].user, request[r].source>>
Goto(r, pc)  == request' = [request EXCEPT ![r].pc = pc]

Start(r, u, source, amount, admin) ==
    /\ request[r].pc = "new"
    /\ amount > 0
    /\ request' = [request EXCEPT ![r] = [pc |-> "earned", user |-> u, source |-> source,
                      amount |-> amount, earned |-> 0, admin |-> admin]]
    /\ disturbed' = IF \E q \in Requests : Running(q) /\ WalletOf(q) = <<u, source>>
                    THEN disturbed \cup {<<u, source>>} ELSE disturbed
    /\ UNCHANGED <<credit, withdrawal, openToday>>

RequestWithdrawal(r, u, amount)         == openToday /\ Start(r, u, "commission", amount, FALSE)
RequestDividendWithdrawal(r, u, amount) == openToday /\ Start(r, u, "dividend", amount, FALSE)
AdminRequestWithdrawal(r, u, amount)    == Start(r, u, "commission", amount, TRUE)

ReadEarned(r) ==
    LET u == request[r].user IN
    /\ request[r].pc = "earned"
    /\ request' = IF request[r].source = "dividend"
                  THEN [request EXCEPT ![r].pc = "withdrawn", ![r].earned = SumDividendPayouts(u)]
                  ELSE [request EXCEPT ![r].pc = "sales", ![r].earned = SumCommissionEarned(u)]
    /\ UNCHANGED <<credit, withdrawal, openToday, disturbed>>

ReadSalesEarned(r) ==
    /\ request[r].pc = "sales"
    /\ request' = [request EXCEPT ![r].pc = "withdrawn",
                      ![r].earned = @ + SumSalesCommissionEarned(request[r].user)]
    /\ UNCHANGED <<credit, withdrawal, openToday, disturbed>>

\* mutant: the amount asked for is compared with what was earned
ReadWithdrawnIgnored(r) ==
    /\ request[r].pc = "withdrawn"
    /\ Goto(r, IF request[r].amount > request[r].earned THEN "done" ELSE "insert")
    /\ UNCHANGED <<credit, withdrawal, openToday, disturbed>>

ReadWithdrawn(r) ==
    /\ request[r].pc = "withdrawn"
    /\ LET taken == SumWithdrawals(request[r].user, request[r].source)
       IN  Goto(r, IF request[r].amount > request[r].earned - taken THEN "done" ELSE "insert")
    /\ UNCHANGED <<credit, withdrawal, openToday, disturbed>>

CreateWithdrawal(r) ==
    /\ request[r].pc = "insert"
    /\ withdrawal' = [withdrawal EXCEPT ![r] = "pending"]
    /\ Goto(r, "done")
    /\ UNCHANGED <<credit, openToday, disturbed>>

\* a read fails, the client gives up or the server stops: nothing was written
Fail(r) ==
    /\ Running(r)
    /\ Goto(r, "done")
    /\ UNCHANGED <<credit, withdrawal, openToday, disturbed>>

(***************************************************************************)
(* Process sets any of the three statuses, whatever the status was.        *)
(***************************************************************************)
Process(r, status) ==
    /\ withdrawal[r] # "none"
    /\ status \in {"approved", "paid", "rejected"}
    /\ withdrawal' = [withdrawal EXCEPT ![r] = status]
    /\ disturbed' = IF withdrawal[r] = "rejected" /\ status # "rejected"
                    THEN disturbed \cup {WalletOf(r)} ELSE disturbed
    /\ UNCHANGED <<credit, request, openToday>>

Midnight ==
    /\ openToday' = ~openToday
    /\ UNCHANGED <<credit, withdrawal, request, disturbed>>

Next ==
    \/ \E cause \in Causes : Credited(cause) \/ Removed(cause)
    \/ \E c \in Credits : ApproveCommission(c) \/ PayCommission(c) \/ MarkPaid(c)
    \/ \E r \in Requests, u \in Users, amount \in Amounts :
          \/ RequestWithdrawal(r, u, amount)
          \/ RequestDividendWithdrawal(r, u, amount)
          \/ AdminRequestWithdrawal(r, u, amount)
    \/ \E r \in Requests :
          \/ ReadEarned(r) \/ ReadSalesEarned(r) \/ ReadWithdrawn(r)
          \/ CreateWithdrawal(r) \/ Fail(r)
          \/ \E status \in WithdrawalStatus : Process(r, status)
    \/ Midnight

Spec == Init /\ [][Next]_vars

(***************************************************************************)
(* A wallet is overdrawn only if two of its requests overlapped, a credit  *)
(* was removed after it had been withdrawn, or an administrator took back  *)
(* the rejection of a withdrawal: stale sums alone, whatever happens to    *)
(* other wallets and whatever is earned meanwhile, never overdraw it.      *)
(***************************************************************************)
OverdrawnOnlyIfDisturbed ==
    \A u \in Users, source \in Sources :
        Available(u, source) < 0 => <<u, source>> \in disturbed

(***************************************************************************)
(* The balances the administrator is shown are those the account is shown: *)
(* the joined query and the separate sums of Balance agree.                *)
(***************************************************************************)
ListMatchesBalance ==
    \A u \in Listed :
        LET row == ListWalletBalances[u] IN
        /\ row.earned - row.withdrawn = Available(u, "commission")
        /\ row.pending = Pending(u, "investment") + Pending(u, "sales")

(***************************************************************************)
(* The wallets are separate: no step changes the balance of two wallets of *)
(* one account (withdrawals of both are rows of one table).                *)
(***************************************************************************)
WalletsSeparate ==
    [][\A u \in Users : \/ Available(u, "commission")' = Available(u, "commission")
                        \/ Available(u, "dividend")' = Available(u, "dividend")]_vars

-----------------------------------------------------------------------------
(***************************************************************************)
(* What the comments and documents say and the code does not keep: TLC     *)
(* finds a counterexample when one of these is named in the configuration. *)
(***************************************************************************)
(***************************************************************************)
(* "creates a pending withdrawal if the wallet has enough available        *)
(* balance": as long as no credit is removed, the wallet covers every      *)
(* withdrawal at the moment its row is inserted.                           *)
(***************************************************************************)
EnoughBalance ==
    [][\A r \in Requests :
          /\ withdrawal[r] = "none" /\ withdrawal'[r] = "pending"
          /\ \A c \in Credits : credit[c] # "removed"
          => request[r].amount <= Available(request[r].user, request[r].source)]_vars

(***************************************************************************)
(* "PayAll ... adds it to the dividend wallet": the money of a payout that *)
(* has not been marked paid is not withdrawn.                              *)
(***************************************************************************)
OnlyPaidPayoutsWithdrawn ==
    \A u \in Users :
        disturbed = {} =>
        SumWithdrawals(u, "dividend")
            <= Dong({c \in CreditsOf(u, "dividend") : credit[c] = "paid"}, Net)
=============================================================================
