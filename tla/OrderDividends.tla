--------------------------- MODULE OrderDividends ---------------------------
(***************************************************************************)
(* Sales orders and the dividends paid from them: the SQL transactions of  *)
(* service/sales_orders.go and of the sweep in service/distribution.go,    *)
(* statement by statement at READ COMMITTED, with the row locks PostgreSQL *)
(* takes.  The writes of a transaction appear at its commit step, its      *)
(* locks at the statement that takes them.  A worker is one request being  *)
(* served (HTTP, or the command cmd/sweep-dividend).                       *)
(*                                                                         *)
(* A dividend is a batch of orders; how its amount is divided among the    *)
(* shareholders is not part of this module.                                *)
(***************************************************************************)
EXTENDS Integers, FiniteSets, Sequences

CONSTANTS Orders,    \* numbered by sales_distributions.created_at
          Workers,
          Admins,
          Salers,
          SellerOf,  \* sales_orders.seller_id
          None

ASSUME OrdersAssumption ==
    /\ Orders \subseteq Nat
    /\ IsFiniteSet(Workers)
    /\ SellerOf \in [Orders -> Salers]
    /\ None \notin Orders \cup Admins \cup Salers

VARIABLES order,      \* sales_orders.status; "none" before, "deleted" after
          split,      \* orders that have a row in sales_distributions
          swept,      \* those whose row has swept = true
          dividends,  \* all dividends ever committed, oldest first
          tx          \* the transaction each worker is running

tables == <<order, split, swept, dividends>>
vars   == <<order, split, swept, dividends, tx>>

OrderStatus == {"none", "pending", "paid", "cancelled", "deleted"}

Dividend == [orders : SUBSET Orders, by : Admins \cup Salers, live : BOOLEAN]

(***************************************************************************)
(* Locks.  An insert into sales_distributions owns its row and takes FOR   *)
(* KEY SHARE on the order it refers to (ParentKey); UPDATE sales_orders    *)
(* takes FOR NO KEY UPDATE (OrderRow), which goes with the former; DELETE  *)
(* excludes both.                                                          *)
(***************************************************************************)
SplitRow(o)  == <<"sales_distributions", o>>
ParentKey(o) == <<"sales_orders key", o>>
OrderRow(o)  == <<"sales_orders", o>>

Row == {"sales_distributions", "sales_orders key", "sales_orders"} \X Orders

Idle == [pc |-> "idle", order |-> None, by |-> None, want |-> {}, got |-> {}, locks |-> {}]

Paying == {"split", "parent", "mark", "auto"}

Free(w, row)  == \A v \in Workers \ {w} : row \notin tx[v].locks
Unlocked(row) == \A v \in Workers : row \notin tx[v].locks
Finish(w)     == tx' = [tx EXCEPT ![w] = Idle]

PaysOrder(t)  == t.order # None /\ t.pc # "cascade"
Own(t)        == IF PaysOrder(t) THEN {t.order} ELSE {}

(***************************************************************************)
(* WHERE sd.swept = false, over committed rows, of a query and of an       *)
(* UPDATE.  Every committed row belongs to a paid order.                   *)
(***************************************************************************)
AnySplit(o)   == o \in split             \* mutant: the flag is not looked at
NeverSwept(o) == o \notin swept          \* mutant: LEFT JOIN, a missing row passes

Unswept(o) == o \in split /\ o \notin swept

(***************************************************************************)
(* ORDER BY sd.created_at FOR UPDATE OF sd: which row is locked next.      *)
(***************************************************************************)
AnyOf(orders) == orders                 \* mutant: no ORDER BY

First(orders) == {o \in orders : \A p \in orders : o <= p}
-----------------------------------------------------------------------------
Init ==
    /\ order = [o \in Orders |-> "none"]
    /\ split = {} /\ swept = {}
    /\ dividends = <<>>
    /\ tx = [w \in Workers |-> Idle]

(***************************************************************************)
(* CreateOrder and the public checkout.  The id is new: nobody waits.      *)
(***************************************************************************)
Create(o) ==
    /\ order[o] = "none"
    /\ order' = [order EXCEPT ![o] = "pending"]
    /\ UNCHANGED <<split, swept, dividends, tx>>

(***************************************************************************)
(* CancelOrder, by an administrator or the seller; its one lock is taken   *)
(* by CancelSalesOrder, whose WHERE clause tests the status again.         *)
(***************************************************************************)
CancelAny(o) ==                         \* mutant: no AND status = 'pending'
    /\ order[o] \in {"pending", "paid"}
    /\ Unlocked(OrderRow(o))
    /\ order' = [order EXCEPT ![o] = "cancelled"]
    /\ UNCHANGED <<split, swept, dividends, tx>>

Cancel(o) ==
    /\ order[o] = "pending"
    /\ Unlocked(OrderRow(o))
    /\ order' = [order EXCEPT ![o] = "cancelled"]
    /\ UNCHANGED <<split, swept, dividends, tx>>
-----------------------------------------------------------------------------
(***************************************************************************)
(* PayOrder.  GetSalesOrder reads without a lock; an administrator or the  *)
(* seller of the order may go on.                                          *)
(***************************************************************************)
PayBegin(w, u, o) ==
    /\ tx[w].pc = "idle"
    /\ u \in Admins \cup {SellerOf[o]}
    /\ order[o] = "pending"
    /\ tx' = [tx EXCEPT ![w].pc = "split", ![w].order = o, ![w].by = u]
    /\ UNCHANGED tables

(***************************************************************************)
(* CreateSalesDistribution: the primary key is the order, so the insert    *)
(* waits for another payment of the order and fails if that committed ...  *)
(***************************************************************************)
InsertSplit(w) ==
    LET o == tx[w].order IN
    /\ tx[w].pc = "split"
    /\ Free(w, SplitRow(o))
    /\ o \notin split
    /\ tx' = [tx EXCEPT ![w].pc = "parent", ![w].locks = {SplitRow(o)}]
    /\ UNCHANGED tables

(***************************************************************************)
(* ... and its foreign key waits for a deletion of the order and fails if  *)
(* that committed.  The commission rows refer to the same key.             *)
(***************************************************************************)
CheckParent(w) ==
    LET o == tx[w].order IN
    /\ tx[w].pc = "parent"
    /\ Free(w, ParentKey(o))
    /\ order[o] # "deleted"
    /\ tx' = [tx EXCEPT ![w].pc = "mark", ![w].locks = @ \cup {ParentKey(o)}]
    /\ UNCHANGED tables

(***************************************************************************)
(* MarkSalesOrderPaid tests the status again under the row's lock.         *)
(***************************************************************************)
MarkPaidAnyway(w) ==                    \* mutant: no AND status = 'pending'
    /\ tx[w].pc = "mark"
    /\ Free(w, OrderRow(tx[w].order))
    /\ tx' = [tx EXCEPT ![w].pc = "auto", ![w].locks = @ \cup {OrderRow(tx[w].order)}]
    /\ UNCHANGED tables

MarkPaid(w) ==
    LET o == tx[w].order IN
    /\ tx[w].pc = "mark"
    /\ Free(w, OrderRow(o))
    /\ order[o] = "pending"
    /\ tx' = [tx EXCEPT ![w].pc = "auto", ![w].locks = @ \cup {OrderRow(o)}]
    /\ UNCHANGED tables
-----------------------------------------------------------------------------
(***************************************************************************)
(* ListUnsweptPaidDistributions, by a payment with dividend_auto_distribute*)
(* on (whatever the setting is at this moment) or by SweepDividend.  The   *)
(* snapshot shows committed rows and the payment's own.                    *)
(***************************************************************************)
SweepBegin(w, u) ==
    /\ tx[w].pc = "idle"
    /\ u \in Admins
    /\ tx' = [tx EXCEPT ![w].pc = "lock", ![w].by = u, ![w].want = {o \in Orders : Unswept(o)}]
    /\ UNCHANGED tables

AutoSweep(w) ==
    /\ tx[w].pc = "auto"
    /\ tx' = [tx EXCEPT ![w].pc = "lock",
                        ![w].want = {o \in Orders : Unswept(o)} \cup {tx[w].order}]
    /\ UNCHANGED tables

(***************************************************************************)
(* The rows are locked one by one; after a wait the WHERE clause is tested *)
(* again on the row as it is then.  A row that fails it, because somebody  *)
(* has swept it, is passed over and stays locked; one that is gone is not. *)
(***************************************************************************)
LockSplit(w) ==
    \E o \in First(tx[w].want) :
        /\ tx[w].pc = "lock"
        /\ Free(w, SplitRow(o))
        /\ tx' = [tx EXCEPT ![w].want = @ \ {o},
                            ![w].got = IF Unswept(o) \/ o \in Own(tx[w]) THEN @ \cup {o} ELSE @,
                            ![w].locks = IF o \in split THEN @ \cup {SplitRow(o)} ELSE @]
        /\ UNCHANGED tables

(***************************************************************************)
(* CreateDividend, the payouts and MarkSalesDistributionSwept, which must  *)
(* change exactly one row per order; then the commit, also of the payment. *)
(***************************************************************************)
ShareUnmarked(w) ==                     \* mutant: the payment's own row is not marked
    LET t == tx[w] IN
    /\ t.pc = "lock" /\ t.want = {} /\ t.got # {}
    /\ \A o \in t.got \ Own(t) : Unswept(o)
    /\ dividends' = Append(dividends, [orders |-> t.got, by |-> t.by, live |-> TRUE])
    /\ swept' = swept \cup (t.got \ Own(t))
    /\ split' = split \cup Own(t)
    /\ order' = [o \in Orders |-> IF o \in Own(t) THEN "paid" ELSE order[o]]
    /\ Finish(w)

Share(w) ==
    LET t == tx[w] IN
    /\ t.pc = "lock" /\ t.want = {} /\ t.got # {}
    /\ \A o \in t.got \ Own(t) : Unswept(o)
    /\ dividends' = Append(dividends, [orders |-> t.got, by |-> t.by, live |-> TRUE])
    /\ swept' = swept \cup t.got
    /\ split' = split \cup Own(t)
    /\ order' = [o \in Orders |-> IF o \in Own(t) THEN "paid" ELSE order[o]]
    /\ Finish(w)

(***************************************************************************)
(* A payment without sharing: the setting is off, or there is nobody or    *)
(* nothing to share with (ErrNoActiveShareholders, ErrNothingToSweep).     *)
(***************************************************************************)
PayUnshared(w) ==
    /\ PaysOrder(tx[w])
    /\ tx[w].pc = "auto" \/ (tx[w].pc = "lock" /\ tx[w].want = {})
    /\ order' = [order EXCEPT ![tx[w].order] = "paid"]
    /\ split' = split \cup Own(tx[w])
    /\ Finish(w)
    /\ UNCHANGED <<swept, dividends>>
-----------------------------------------------------------------------------
(***************************************************************************)
(* DeleteOrder: DELETE FROM sales_orders, by an administrator ...          *)
(***************************************************************************)
DeleteBegin(w, o) ==
    /\ tx[w].pc = "idle"
    /\ order[o] \notin {"none", "deleted"}
    /\ Unlocked(OrderRow(o)) /\ Unlocked(ParentKey(o))
    /\ tx' = [tx EXCEPT ![w].pc = "cascade", ![w].order = o,
                        ![w].locks = {OrderRow(o), ParentKey(o)}]
    /\ UNCHANGED tables

(***************************************************************************)
(* ... and its cascade, which waits for the row of sales_distributions if  *)
(* it sees one.  Dividends that were paid from the order stay.             *)
(***************************************************************************)
DeleteAtOnce(w) ==                      \* mutant: the cascade does not wait
    LET o == tx[w].order IN
    /\ tx[w].pc = "cascade"
    /\ order' = [order EXCEPT ![o] = "deleted"]
    /\ split' = split \ {o}
    /\ swept' = swept \ {o}
    /\ Finish(w)
    /\ UNCHANGED dividends

DeleteCommit(w) ==
    LET o == tx[w].order IN
    /\ tx[w].pc = "cascade"
    /\ o \in split => Free(w, SplitRow(o))
    /\ order' = [order EXCEPT ![o] = "deleted"]
    /\ split' = split \ {o}
    /\ swept' = swept \ {o}
    /\ Finish(w)
    /\ UNCHANGED dividends

(***************************************************************************)
(* DeleteDividend and DeleteDistribution remove the dividend with its      *)
(* payouts and its revenue_distributions.  The orders stay swept.          *)
(***************************************************************************)
DropDividend(d) ==
    /\ dividends[d].live
    /\ dividends' = [dividends EXCEPT ![d].live = FALSE]
    /\ UNCHANGED <<order, split, swept, tx>>

(***************************************************************************)
(* Any error, a cancelled request, the choice as a deadlock victim or a    *)
(* crash rolls the transaction back.                                       *)
(***************************************************************************)
Rollback(w) ==
    /\ tx[w].pc # "idle"
    /\ Finish(w)
    /\ UNCHANGED tables

Transaction(w) ==
    \/ \E o \in Orders : DeleteBegin(w, o) \/ \E u \in Admins \cup Salers : PayBegin(w, u, o)
    \/ \E u \in Admins : SweepBegin(w, u)
    \/ InsertSplit(w) \/ CheckParent(w) \/ MarkPaid(w)
    \/ AutoSweep(w) \/ LockSplit(w) \/ Share(w) \/ PayUnshared(w)
    \/ DeleteCommit(w)
    \/ Rollback(w)

Next ==
    \/ \E o \in Orders : Create(o) \/ Cancel(o)
    \/ \E d \in DOMAIN dividends : DropDividend(d)
    \/ \E w \in Workers : Transaction(w)

Spec == Init /\ [][Next]_vars
-----------------------------------------------------------------------------
Tx == [pc : {"idle", "lock", "cascade"} \cup Paying,
       order : Orders \cup {None}, by : Admins \cup Salers \cup {None},
       want : SUBSET Orders, got : SUBSET Orders, locks : SUBSET Row]

(***************************************************************************)
(* The types; only orders with a split row can be swept.                   *)
(***************************************************************************)
TypeOK ==
    /\ order \in [Orders -> OrderStatus]
    /\ split \subseteq Orders
    /\ swept \subseteq split
    /\ dividends \in Seq(Dividend)
    /\ tx \in [Workers -> Tx]

Sharing == INSTANCE ProfitSharing WITH
    due     <- split \ swept,
    batches <- [d \in DOMAIN dividends |-> dividends[d].orders]

(***************************************************************************)
(* No order's pool is shared by two dividends, the removed ones included,  *)
(* although sweeps, automatic sweeps and deletions of orders overlap       *)
(* (service/distribution.go: "idempotent" by the flag and FOR UPDATE).     *)
(***************************************************************************)
SharedOnce == Sharing!SharedOnce

(***************************************************************************)
(* A split row is marked swept exactly when a dividend has gathered it.    *)
(***************************************************************************)
SweptIffShared == \A o \in split : o \in swept <=> o \in Sharing!Shared

(***************************************************************************)
(* The money of an order is split if and only if the order is paid: a      *)
(* payment that loses against a cancellation, a deletion or another        *)
(* payment leaves nothing behind.                                          *)
(***************************************************************************)
SplitIffPaid == \A o \in Orders : o \in split <=> order[o] = "paid"

(***************************************************************************)
(* What a transaction relies on between its statements.  A payment about   *)
(* to commit owns its order, which is still pending, and gathers it if it  *)
(* sweeps; every row a sweep has gathered is locked and still unswept; a   *)
(* deletion owns its order.                                                *)
(***************************************************************************)
Settled(t) == t.pc = "auto" \/ (t.pc = "lock" /\ PaysOrder(t))

Secured(t) ==
    /\ t.pc = "idle" => t.order = None
    /\ t.pc \in {"idle", "split"} => t.locks = {}
    /\ t.pc # "lock" => t.got = {}
    /\ t.pc \in Paying \cup {"cascade"} => t.order \in Orders
    /\ t.pc \in Paying \cup {"lock"} => t.by \in Admins \cup Salers
    /\ Settled(t) => OrderRow(t.order) \in t.locks /\ order[t.order] = "pending"
    /\ t.pc \in {"parent", "mark"} \/ Settled(t) => SplitRow(t.order) \in t.locks
    /\ t.pc = "lock" => Own(t) \subseteq t.want \cup t.got
    /\ \A o \in t.got : SplitRow(o) \in t.locks /\ (Unswept(o) \/ o \in Own(t))
    /\ t.pc = "cascade" => /\ OrderRow(t.order) \in t.locks
                           /\ order[t.order] \in {"pending", "paid", "cancelled"}

(***************************************************************************)
(* No two transactions hold the same lock, and what each has read stays    *)
(* true until it commits.                                                  *)
(***************************************************************************)
LocksProtect ==
    /\ \A w \in Workers : Secured(tx[w])
    /\ \A v, w \in Workers : v # w => tx[v].locks \cap tx[w].locks = {}

(***************************************************************************)
(* Only orders that were paid are shared: none that is pending, cancelled  *)
(* or not there yet.                                                       *)
(***************************************************************************)
SharedWerePaid == \A o \in Sharing!Shared : order[o] \in {"paid", "deleted"}

(***************************************************************************)
(* Orders only move forward, paid and cancelled exclude each other.        *)
(***************************************************************************)
OrderMovesForward == Sharing!OrderMovesForward

(***************************************************************************)
(* The row a transaction must lock to go on.                               *)
(***************************************************************************)
Needs(w) ==
    LET o == tx[w].order IN
    CASE tx[w].pc = "split"                   -> {SplitRow(o)}
      [] tx[w].pc = "parent"                  -> {ParentKey(o)}
      [] tx[w].pc = "mark"                    -> {OrderRow(o)}
      [] tx[w].pc = "lock"                    -> {SplitRow(p) : p \in First(tx[w].want)}
      [] tx[w].pc = "cascade" /\ o \in split  -> {SplitRow(o)}
      [] OTHER                                -> {}

WaitsFor(v, w) == v # w /\ Needs(v) \cap tx[w].locks # {}

(***************************************************************************)
(* What a transaction holds at each statement.  Apart from its own order's *)
(* row, which no committed row can be mistaken for, a sweep holds split    *)
(* rows that come before all it still wants, so it never waits for a row   *)
(* that comes before one it holds.                                         *)
(***************************************************************************)
RowsHeld(t) == {o \in Orders : SplitRow(o) \in t.locks}

InOrder(t) ==
    /\ t.pc = "parent"  => t.locks = {SplitRow(t.order)}
    /\ t.pc = "mark"    => t.locks = {SplitRow(t.order), ParentKey(t.order)}
    /\ t.pc = "cascade" => t.locks = {OrderRow(t.order), ParentKey(t.order)}
    /\ t.pc \in {"auto", "lock"} =>
          t.locks \subseteq {SplitRow(o) : o \in Orders}
                           \cup {ParentKey(o) : o \in Own(t)} \cup {OrderRow(o) : o \in Own(t)}
    /\ t.pc \in {"parent", "mark"} \/ Settled(t) => t.order \notin split
    /\ t.pc = "auto" => RowsHeld(t) \subseteq Own(t)
    /\ t.pc = "lock" =>
          /\ \A o \in t.want \ Own(t) : order[o] \in {"paid", "deleted"}
          /\ \A o \in RowsHeld(t) \ Own(t), p \in t.want : o < p

(***************************************************************************)
(* Every sweep goes through the rows in one order.                         *)
(***************************************************************************)
LocksInOrder == \A w \in Workers : InOrder(tx[w])

(***************************************************************************)
(* No transactions wait for each other in a circle: among any of them, one *)
(* waits for none of them.  So a payment is never the victim of a deadlock *)
(* with another payment, a sweep or the deletion of an order.              *)
(***************************************************************************)
NoDeadlock ==
    \A group \in (SUBSET Workers) \ {{}} :
        \E w \in group : \A v \in group : ~WaitsFor(w, v)

(***************************************************************************)
(* The transactions implement the atomic promise.                          *)
(***************************************************************************)
ImplementsSharing == Sharing!Spec
-----------------------------------------------------------------------------
(***************************************************************************)
(* What the comments and documents say and the code does not keep: TLC     *)
(* finds a counterexample when one of these is named in the configuration. *)
(***************************************************************************)
(***************************************************************************)
(* INVARIANT 6: "dividends exist ONLY because an admin created this row.   *)
(* No auto/cron path." (db/queries/dividend.sql).                          *)
(***************************************************************************)
DividendsByAdmin == \A d \in DOMAIN dividends : dividends[d].by \in Admins
=============================================================================
