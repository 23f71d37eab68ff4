------------------------------ MODULE Payouts ------------------------------
(***************************************************************************)
(* Dividends an administrator declares, and their payouts: Declare, PayAll,*)
(* MarkPaid and DeleteDividend of service/dividend.go, Distribute,         *)
(* DistributeTiered and DeleteDistribution of service/distribution.go, and *)
(* what DeleteUser of service/identity.go does to payouts.  A worker is    *)
(* one request; a transaction takes row locks statement by statement and   *)
(* its writes appear at its commit.                                        *)
(***************************************************************************)
EXTENDS Integers, FiniteSets, SequencesExt, Sums

CONSTANTS Dividends, Holders, Workers,
          Admins,    \* holders that are administrators: their accounts stay
          Holdings,  \* the shareholdings a declaration may find
          Totals     \* the amounts that may be declared

ASSUME PayoutsAssumption ==
    /\ IsFiniteSet(Dividends) /\ IsFiniteSet(Holders) /\ IsFiniteSet(Workers)
    /\ Holdings \subseteq [Holders -> Nat]
    /\ Totals \subseteq Int

VARIABLES dividend,  \* rows of dividends: how each came to be, and its total
          payout,    \* dividend_payouts: "none", "unpaid" or "paid"
          amount,    \* dividend_payouts.amount, remembered when its account is gone
          record,    \* dividends that a row of revenue_distributions refers to
          gone,      \* holders whose account was deleted
          settled,   \* history: how often each payout was committed as paid
          tx         \* what each worker is doing

tables == <<dividend, payout, amount, record, gone, settled>>
vars   == <<tables, tx>>

Absent == [by |-> "none", total |-> 0]
Idle   == [pc |-> "idle", dividend |-> "none", holder |-> "none",
           todo |-> <<>>, locks |-> {}, seen |-> FALSE, all |-> FALSE]

Row(d, h)  == <<"dividend_payouts", d, h>>
Parent(d)  == <<"dividends", d, d>>
Payouts    == {Row(d, h) : d \in Dividends, h \in Holders}
Rows       == Payouts \cup {Parent(d) : d \in Dividends}
Status(row) == payout[row[2]][row[3]]

Transaction ==
    [pc : {"idle", "record", "mark", "parent", "cascade", "erase"},
     dividend : Dividends \cup {"none"}, holder : Holders \cup {"none"},
     todo : Seq(Payouts), locks : SUBSET Rows, seen : BOOLEAN, all : BOOLEAN]

RowsOK ==
    /\ dividend \in [Dividends ->
           [by : {"none", "declare", "distribute", "tiered", "deleted"}, total : Totals \cup {0}]]
    /\ payout \in [Dividends -> [Holders -> {"none", "unpaid", "paid"}]]
    /\ record \subseteq Dividends
    /\ gone \subseteq Holders
    /\ settled \in [Dividends -> [Holders -> Nat]]
    /\ tx \in [Workers -> Transaction]
    /\ \A w \in Workers :
          /\ tx[w].pc \in {"record", "mark", "parent", "cascade"} => tx[w].dividend \in Dividends
          /\ tx[w].pc = "erase" => tx[w].holder \in Holders

TypeOK == RowsOK /\ amount \in [Dividends -> [Holders -> Nat]]

Live(d)         == dividend[d].by \notin {"none", "deleted"}
Held(w, row)    == \E v \in Workers \ {w} : row \in tx[v].locks
PayoutsOf(d)    == {row \in Payouts : row[2] = d /\ Status(row) # "none"}
PayoutsTo(h)    == {row \in Payouts : row[3] = h /\ Status(row) # "none"}
Finish(w)       == tx' = [tx EXCEPT ![w] = Idle]

(***************************************************************************)
(* Sorted by amount, the largest first; equal amounts come in any order.   *)
(***************************************************************************)
InOrder(d, S) == {s \in SetToSeqs(S) : \A i, j \in 1..Len(s) :
                      i < j => amount[d][s[i][3]] >= amount[d][s[j][3]]}

(***************************************************************************)
(* Shares of the total, rounded down.  Declare divides in float64, which   *)
(* rounds down exactly as here while the total times a holding is below    *)
(* 2^53.                                                                   *)
(***************************************************************************)
SharesIn(holding) == Sum(holding)

\* mutant: every payout is rounded up
ProRataUp(total, holding) ==
    [h \in Holders |-> (total * holding[h] + SharesIn(holding) - 1) \div SharesIn(holding)]

ProRata(total, holding) ==
    [h \in Holders |-> (total * holding[h]) \div SharesIn(holding)]

Init ==
    /\ dividend = [d \in Dividends |-> Absent]
    /\ payout = [d \in Dividends |-> [h \in Holders |-> "none"]]
    /\ amount = [d \in Dividends |-> [h \in Holders |-> 0]]
    /\ record = {} /\ gone = {}
    /\ settled = [d \in Dividends |-> [h \in Holders |-> 0]]
    /\ tx = [w \in Workers |-> Idle]

(***************************************************************************)
(* The rows of one declaration: everyone with shares is in it.  A deleted  *)
(* account has none, and the foreign key refuses its payout.               *)
(***************************************************************************)
CreateDividend(d, by, total, shared, among) ==
    /\ dividend[d] = Absent /\ among \cap gone = {}
    /\ dividend' = [dividend EXCEPT ![d] = [by |-> by, total |-> total]]
    /\ payout' = [payout EXCEPT ![d] = [h \in Holders |-> IF h \in among THEN "unpaid" ELSE "none"]]
    /\ amount' = [amount EXCEPT ![d] = shared]
    /\ UNCHANGED <<gone, settled>>

Declared(d, by, total, holding) ==
    /\ total > 0
    /\ SharesIn(holding) > 0
    /\ CreateDividend(d, by, total, ProRata(total, holding), {h \in Holders : holding[h] > 0})
    /\ UNCHANGED record

Declare(w, d) ==
    /\ tx[w].pc = "idle"
    /\ \E total \in Totals, holding \in Holdings : Declared(d, "declare", total, holding)
    /\ UNCHANGED tx

Distribute(w, d) ==
    /\ tx[w].pc = "idle"
    /\ \E total \in Totals, holding \in Holdings : Declared(d, "distribute", total, holding)
    /\ tx' = [tx EXCEPT ![w] = [Idle EXCEPT !.pc = "record", !.dividend = d]]

\* mutant: the record is written whether or not the dividend still exists
RecordAnyway(w) ==
    /\ tx[w].pc = "record"
    /\ record' = record \cup {tx[w].dividend}
    /\ Finish(w)
    /\ UNCHANGED <<dividend, payout, amount, gone, settled>>

\* the second statement of Distribute; its foreign key waits for a deletion
CreateRevenueDistribution(w) ==
    LET d == tx[w].dividend IN
    /\ tx[w].pc = "record"
    /\ ~Held(w, Parent(d))
    /\ record' = IF Live(d) THEN record \cup {d} ELSE record
    /\ Finish(w)
    /\ UNCHANGED <<dividend, payout, amount, gone, settled>>

\* one transaction; the plan shares out the whole total
DistributeTiered(w, d) ==
    /\ tx[w].pc = "idle"
    /\ \E total \in Totals : \E plan \in [Holders -> 0..total] :
          /\ total > 0
          /\ Sum(plan) = total
          /\ CreateDividend(d, "tiered", total, plan, {h \in Holders : plan[h] > 0})
    /\ record' = record \cup {d}
    /\ UNCHANGED tx

(***************************************************************************)
(* PayAll reads the payouts, then marks those it saw unpaid one by one;    *)
(* MarkPaid is the same for one of them.  A row that somebody else has     *)
(* paid or deleted meanwhile is an error and nothing is committed.         *)
(***************************************************************************)
BeginMarking(w, d, todo, all) ==
    /\ tx[w].pc = "idle"
    /\ tx' = [tx EXCEPT ![w] = [Idle EXCEPT !.pc = "mark", !.dividend = d, !.todo = todo,
                                      !.all = all]]
    /\ UNCHANGED tables

PayAll(w, d) == \E todo \in InOrder(d, {row \in PayoutsOf(d) : Status(row) = "unpaid"}) :
                    BeginMarking(w, d, todo, TRUE)
MarkPaid(w, d) == \E row \in PayoutsOf(d) : BeginMarking(w, d, <<row>>, FALSE)

\* mutant: the update forgets "AND paid_at IS NULL"
MarkAnyPayoutPaid(w) ==
    LET row == Head(tx[w].todo) IN
    /\ tx[w].pc = "mark" /\ tx[w].todo # <<>>
    /\ ~Held(w, row)
    /\ IF Status(row) # "none"
       THEN tx' = [tx EXCEPT ![w].todo = Tail(@), ![w].locks = @ \cup {row}]
       ELSE Finish(w)
    /\ UNCHANGED tables

MarkPayoutPaid(w) ==
    LET row == Head(tx[w].todo) IN
    /\ tx[w].pc = "mark" /\ tx[w].todo # <<>>
    /\ ~Held(w, row)
    /\ IF Status(row) = "unpaid"
       THEN tx' = [tx EXCEPT ![w].todo = Tail(@), ![w].locks = @ \cup {row}]
       ELSE Finish(w)
    /\ UNCHANGED tables

\* mutant: committed after each row
CommitEachMark(w) ==
    LET d == tx[w].dividend
        rows == {h \in Holders : Row(d, h) \in tx[w].locks} IN
    /\ tx[w].pc = "mark" /\ (tx[w].todo = <<>> \/ rows # {})
    /\ payout' = [payout EXCEPT ![d] = [h \in Holders |-> IF h \in rows THEN "paid" ELSE @[h]]]
    /\ settled' = [settled EXCEPT ![d] = [h \in Holders |-> @[h] + (IF h \in rows THEN 1 ELSE 0)]]
    /\ tx' = [tx EXCEPT ![w] = IF tx[w].todo = <<>> THEN Idle ELSE [@ EXCEPT !.locks = {}]]
    /\ UNCHANGED <<dividend, amount, record, gone>>

CommitMarks(w) ==
    LET d == tx[w].dividend
        rows == {h \in Holders : Row(d, h) \in tx[w].locks} IN
    /\ tx[w].pc = "mark" /\ tx[w].todo = <<>>
    /\ payout' = [payout EXCEPT ![d] = [h \in Holders |-> IF h \in rows THEN "paid" ELSE @[h]]]
    /\ settled' = [settled EXCEPT ![d] = [h \in Holders |-> @[h] + (IF h \in rows THEN 1 ELSE 0)]]
    /\ Finish(w)
    /\ UNCHANGED <<dividend, amount, record, gone>>

(***************************************************************************)
(* DeleteDividend removes the records that refer to the dividend, then the *)
(* dividend, and the cascade its payouts, row by row in any order.         *)
(* DeleteDistribution does the same starting from the record.              *)
(***************************************************************************)
BeginDelete(w, d) ==
    /\ tx[w].pc = "idle"
    /\ tx' = [tx EXCEPT ![w] = [Idle EXCEPT !.pc = "parent", !.dividend = d, !.seen = d \in record]]
    /\ UNCHANGED tables

DeleteDividend(w, d)     == Live(d) /\ BeginDelete(w, d)
DeleteDistribution(w, d) == d \in record /\ BeginDelete(w, d)

\* refused if a record appeared since; nothing to do if the dividend is gone
DeleteParent(w) ==
    LET d == tx[w].dividend IN
    /\ tx[w].pc = "parent"
    /\ ~Held(w, Parent(d))
    /\ IF Live(d) /\ (d \in record => tx[w].seen)
       THEN \E todo \in SetToSeqs(PayoutsOf(d)) :
               tx' = [tx EXCEPT ![w].pc = "cascade", ![w].todo = todo, ![w].locks = {Parent(d)}]
       ELSE Finish(w)
    /\ UNCHANGED tables

DeletePayout(w) ==
    LET row == Head(tx[w].todo) IN
    /\ tx[w].pc \in {"cascade", "erase"} /\ tx[w].todo # <<>>
    /\ ~Held(w, row)
    /\ tx' = [tx EXCEPT ![w].todo = Tail(@), ![w].locks = @ \cup {row}]
    /\ UNCHANGED tables

CommitDelete(w) ==
    LET d == tx[w].dividend IN
    /\ tx[w].pc = "cascade" /\ tx[w].todo = <<>>
    /\ dividend' = [dividend EXCEPT ![d] = [by |-> "deleted", total |-> 0]]
    /\ payout' = [payout EXCEPT ![d] = [h \in Holders |-> "none"]]
    /\ amount' = [amount EXCEPT ![d] = [h \in Holders |-> 0]]
    /\ record' = record \ {d}
    /\ Finish(w)
    /\ UNCHANGED <<gone, settled>>

(***************************************************************************)
(* DeleteUser removes the payouts of the account, those its statement      *)
(* sees, and in the end the account, which is refused if a payout that was *)
(* declared since refers to it.                                            *)
(***************************************************************************)
DeleteUser(w, h) ==
    /\ tx[w].pc = "idle" /\ h \notin gone \cup Admins
    /\ \E todo \in SetToSeqs(PayoutsTo(h)) :
          tx' = [tx EXCEPT ![w] = [Idle EXCEPT !.pc = "erase", !.holder = h, !.todo = todo]]
    /\ UNCHANGED tables

\* mutant: the account goes although payouts refer to it
EraseAnyway(w) ==
    LET h == tx[w].holder IN
    /\ tx[w].pc = "erase" /\ tx[w].todo = <<>>
    /\ gone' = gone \cup {h}
    /\ payout' = [d \in Dividends |->
                     IF Row(d, h) \in tx[w].locks THEN [payout[d] EXCEPT ![h] = "none"]
                                                  ELSE payout[d]]
    /\ Finish(w)
    /\ UNCHANGED <<dividend, amount, record, settled>>

CommitErase(w) ==
    LET h == tx[w].holder IN
    /\ tx[w].pc = "erase" /\ tx[w].todo = <<>>
    /\ IF PayoutsTo(h) \subseteq tx[w].locks
       THEN /\ gone' = gone \cup {h}
            /\ payout' = [d \in Dividends |-> [payout[d] EXCEPT ![h] = "none"]]
       ELSE UNCHANGED <<gone, payout>>
    /\ Finish(w)
    /\ UNCHANGED <<dividend, amount, record, settled>>

(***************************************************************************)
(* A crash, a timeout or an error: nothing of the transaction remains, but *)
(* what Distribute has committed before does.                              *)
(***************************************************************************)
Rollback(w) ==
    /\ tx[w].pc # "idle"
    /\ Finish(w)
    /\ UNCHANGED tables

(***************************************************************************)
(* PostgreSQL ends one of the transactions that wait for each other.       *)
(***************************************************************************)
Next1(w)   == IF tx[w].pc = "parent" THEN Parent(tx[w].dividend) ELSE Head(tx[w].todo)
Waits(w)   == /\ \/ tx[w].pc = "parent"
                 \/ tx[w].pc \in {"mark", "cascade", "erase"} /\ tx[w].todo # <<>>
              /\ Held(w, Next1(w))
Circle(S)  == \A w \in S : Waits(w) /\ \E v \in S \ {w} : Next1(w) \in tx[v].locks

\* mutant: nobody detects a deadlock
NoVictim(w) == FALSE /\ Rollback(w)

DeadlockVictim(w) ==
    /\ \E S \in SUBSET Workers : w \in S /\ Circle(S)
    /\ Rollback(w)

Work(w) ==
    \/ CreateRevenueDistribution(w)
    \/ MarkPayoutPaid(w) \/ CommitMarks(w)
    \/ DeleteParent(w) \/ DeletePayout(w) \/ CommitDelete(w) \/ CommitErase(w)

Next ==
    \E w \in Workers :
        \/ Work(w) \/ DeadlockVictim(w) \/ Rollback(w)
        \/ \E h \in Holders : DeleteUser(w, h)
        \/ \E d \in Dividends :
              \/ Declare(w, d) \/ Distribute(w, d) \/ DistributeTiered(w, d)
              \/ PayAll(w, d) \/ MarkPaid(w, d)
              \/ DeleteDividend(w, d) \/ DeleteDistribution(w, d)

(***************************************************************************)
(* A request that has begun is executed to its end, and a lock that is     *)
(* released again and again is granted to who waits for it: PostgreSQL     *)
(* queues the waiters, hence strong fairness.  Nobody has to begin.        *)
(***************************************************************************)
Fairness == \A w \in Workers : SF_vars(Work(w)) /\ WF_vars(DeadlockVictim(w))

Spec == Init /\ [][Next]_vars /\ Fairness

(***************************************************************************)
(* No payout is paid twice, whatever PayAll and MarkPaid overlap.          *)
(***************************************************************************)
PaidOnce ==
    \A d \in Dividends, h \in Holders :
        /\ settled[d][h] <= 1
        /\ payout[d][h] = "paid" => settled[d][h] = 1

(***************************************************************************)
(* PayAll is all or nothing: the step by which it pays anything leaves no  *)
(* payout of the dividend unpaid.                                          *)
(***************************************************************************)
PayAllPaysAll ==
    [][\A w \in Workers :
          tx[w].all /\ tx'[w] # tx[w] /\ settled' # settled
              => \A h \in Holders : payout'[tx[w].dividend][h] # "unpaid"]_vars

(***************************************************************************)
(* A dividend never pays out more than its total, and what the rounding of *)
(* Declare keeps back is less than one dong per shareholder.               *)
(***************************************************************************)
PayoutsWithinTotal ==
    \A d \in Dividends : Live(d) =>
        /\ Sum(amount[d]) <= dividend[d].total
        /\ dividend[d].total - Sum(amount[d]) < Cardinality(Holders)

(***************************************************************************)
(* A record of a distribution refers to a dividend that exists and that a  *)
(* distribution declared, whatever deletes it before the record is written,*)
(* and a tiered distribution has its record as long as it exists.          *)
(***************************************************************************)
RecordsMatchDistributions ==
    \A d \in Dividends :
        /\ d \in record => dividend[d].by \in {"distribute", "tiered"}
        /\ dividend[d].by = "tiered" => d \in record

(***************************************************************************)
(* A deleted account leaves no payout behind, neither one that was being   *)
(* marked as paid nor one that was declared meanwhile.                     *)
(***************************************************************************)
DeletedLeaveNoPayout == \A d \in Dividends, h \in gone : payout[d][h] = "none"

(***************************************************************************)
(* Every request ends, although PayAll, MarkPaid and deletions wait for    *)
(* each other's rows in different orders.                                  *)
(***************************************************************************)
EveryRequestEnds == \A w \in Workers : tx[w].pc # "idle" ~> tx[w].pc = "idle"

-----------------------------------------------------------------------------
(***************************************************************************)
(* What the comments and documents say and the code does not keep: TLC     *)
(* finds a counterexample when one of these is named in the configuration. *)
(***************************************************************************)
(***************************************************************************)
(* "all atomic.  Mirrors Distribute()": a dividend of a distribution that  *)
(* is not under way has its record.                                        *)
(***************************************************************************)
DistributionsRecorded ==
    \A d \in Dividends :
        dividend[d].by \in {"distribute", "tiered"} =>
            d \in record \/ \E w \in Workers : tx[w].pc = "record" /\ tx[w].dividend = d

(***************************************************************************)
(* "already paid: skipped (idempotent)": PayAll is never stopped by a      *)
(* payout that somebody else has paid meanwhile.                           *)
(***************************************************************************)
PaidSkipped ==
    \A w \in Workers :
        /\ tx[w].pc = "mark" /\ tx[w].todo # <<>>
        /\ Len(tx[w].todo) + Cardinality(tx[w].locks) > 1
        => Status(Head(tx[w].todo)) # "paid"
=============================================================================
