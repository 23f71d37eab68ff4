------------------------ MODULE OrderDividendsProofs ------------------------
(***************************************************************************)
(* Proofs about OrderDividends, for any numbers of orders, administrators  *)
(* and sellers and any finite number of concurrent requests.               *)
(***************************************************************************)
EXTENDS OrderDividends, OrderSplit, FiniteSetTheorems, TLAPS

USE OrdersAssumption DEF OrdersAssumption

IInv == /\ TypeOK /\ LocksProtect
        /\ SharedOnce /\ SweptIffShared /\ SplitIffPaid /\ SharedWerePaid

(***************************************************************************)
(* Rows of different tables or orders are different locks.                 *)
(***************************************************************************)
LEMMA RowFacts ==
    /\ \A o \in Orders : {SplitRow(o), ParentKey(o), OrderRow(o)} \subseteq Row
    /\ \A o, p : SplitRow(o) = SplitRow(p) => o = p
    /\ \A o, p : OrderRow(o) = OrderRow(p) => o = p
    /\ \A o, p : ParentKey(o) = ParentKey(p) => o = p
    /\ \A o, p : /\ SplitRow(o) # OrderRow(p) /\ SplitRow(o) # ParentKey(p)
                 /\ ParentKey(o) # OrderRow(p)
<1>1. \A o \in Orders : SplitRow(o) \in Row /\ ParentKey(o) \in Row /\ OrderRow(o) \in Row
  BY DEF SplitRow, ParentKey, OrderRow, Row
<1>2. /\ \A o, p : SplitRow(o) = SplitRow(p) => o = p
      /\ \A o, p : OrderRow(o) = OrderRow(p) => o = p
      /\ \A o, p : ParentKey(o) = ParentKey(p) => o = p
      /\ \A o, p : /\ SplitRow(o) # OrderRow(p) /\ SplitRow(o) # ParentKey(p)
                   /\ ParentKey(o) # OrderRow(p)
  BY DEF SplitRow, OrderRow, ParentKey
<1> QED
  BY <1>1, <1>2

(***************************************************************************)
(* A transaction at rest holds nothing.                                    *)
(***************************************************************************)
LEMMA IdleFacts == Idle \in Tx /\ Secured(Idle) /\ Idle.locks = {}
BY DEF Idle, Tx, Secured, Settled, PaysOrder, Paying

(***************************************************************************)
(* Nothing else that IInv says depends on the transactions.                *)
(***************************************************************************)
LEMMA TxStep ==
    ASSUME IInv, NEW w \in Workers, UNCHANGED tables,
           NEW t \in Tx, tx' = [tx EXCEPT ![w] = t], Secured(t),
           \A v \in Workers \ {w} : t.locks \cap tx[v].locks = {}
    PROVE  IInv'
<1>1. UNCHANGED <<order, split, swept, dividends>>
  BY DEF tables
<1>2. tx' \in [Workers -> Tx] /\ \A v \in Workers : tx'[v] = IF v = w THEN t ELSE tx[v]
  BY DEF IInv, TypeOK
<1>3. TypeOK'
  BY <1>1, <1>2 DEF IInv, TypeOK
<1>4. \A s : Secured(s) => Secured(s)'
  BY <1>1 DEF Secured, Settled, PaysOrder, Own, Unswept
<1>5. \A v \in Workers : Secured(tx'[v])
  BY <1>2 DEF IInv, LocksProtect
<1>6. \A v \in Workers : Secured(tx[v])'
  BY <1>1, <1>5 DEF Secured, Settled, PaysOrder, Own, Unswept
<1>7. \A u, v \in Workers : u # v => tx'[u].locks \cap tx'[v].locks = {}
  BY <1>2 DEF IInv, LocksProtect
<1>8. LocksProtect'
  BY <1>6, <1>7 DEF LocksProtect
<1>9. SharedOnce' /\ SweptIffShared' /\ SplitIffPaid' /\ SharedWerePaid'
  BY <1>1 DEF IInv, SharedOnce, SweptIffShared, SplitIffPaid, SharedWerePaid,
     Sharing!SharedOnce, Sharing!Shared
<1> QED
  BY <1>3, <1>8, <1>9 DEF IInv

(***************************************************************************)
(* The statements that only take locks or read.                            *)
(***************************************************************************)
LEMMA PayBeginStep ==
    ASSUME IInv, NEW w \in Workers, NEW u \in Admins \cup Salers, NEW o \in Orders,
           PayBegin(w, u, o)
    PROVE  IInv'
<1> DEFINE t == [tx[w] EXCEPT !.pc = "split", !.order = o, !.by = u]
<1>1. tx[w] \in Tx /\ Secured(tx[w]) /\ tx[w].pc = "idle" /\ tx \in [Workers -> Tx]
  BY DEF IInv, TypeOK, LocksProtect, PayBegin
<1>2. t \in Tx /\ t.locks = {} /\ t.got = {} /\ t.pc = "split" /\ t.order = o /\ t.by = u
  BY <1>1 DEF Tx, Paying, Secured
<1>3. Secured(t)
  BY <1>2 DEF Secured, Settled, PaysOrder, Paying
<1>4. tx' = [tx EXCEPT ![w] = t] /\ UNCHANGED tables
  BY <1>1 DEF PayBegin
<1> QED
  BY <1>2, <1>3, <1>4, TxStep

(***************************************************************************)
(* The query of a sweep locks nothing yet.                                 *)
(***************************************************************************)
LEMMA SweepBeginStep ==
    ASSUME IInv, NEW w \in Workers, NEW u \in Admins, SweepBegin(w, u)
    PROVE  IInv'
<1> DEFINE t == [tx[w] EXCEPT !.pc = "lock", !.by = u, !.want = {o \in Orders : Unswept(o)}]
<1>1. tx[w] \in Tx /\ Secured(tx[w]) /\ tx[w].pc = "idle" /\ tx \in [Workers -> Tx]
  BY DEF IInv, TypeOK, LocksProtect, SweepBegin
<1>2. t \in Tx /\ t.locks = {} /\ t.got = {} /\ t.pc = "lock" /\ t.order = None /\ t.by = u
  BY <1>1 DEF Tx, Paying, Secured
<1>3. Secured(t)
  BY <1>2 DEF Secured, Settled, PaysOrder, Own, Paying
<1>4. tx' = [tx EXCEPT ![w] = t] /\ UNCHANGED tables
  BY <1>1 DEF SweepBegin
<1> QED
  BY <1>2, <1>3, <1>4, TxStep

(***************************************************************************)
(* The insert owns the row of the order it pays.                           *)
(***************************************************************************)
LEMMA InsertSplitStep ==
    ASSUME IInv, NEW w \in Workers, InsertSplit(w)
    PROVE  IInv'
<1> DEFINE o == tx[w].order
           t == [tx[w] EXCEPT !.pc = "parent", !.locks = {SplitRow(o)}]
<1>1. tx[w] \in Tx /\ Secured(tx[w]) /\ tx[w].pc = "split" /\ tx \in [Workers -> Tx]
  BY DEF IInv, TypeOK, LocksProtect, InsertSplit
<1>2. o \in Orders /\ tx[w].by \in Admins \cup Salers /\ tx[w].got = {}
  BY <1>1 DEF Secured, Paying
<1>3. /\ t \in Tx /\ t.locks = {SplitRow(o)} /\ t.got = {}
      /\ t.pc = "parent" /\ t.order = o /\ t.by = tx[w].by
  BY <1>1, <1>2, RowFacts DEF Tx, Paying
<1>4. Secured(t)
  BY <1>2, <1>3 DEF Secured, Settled, PaysOrder, Paying
<1>5. \A v \in Workers \ {w} : t.locks \cap tx[v].locks = {}
  BY <1>3 DEF InsertSplit, Free
<1>6. tx' = [tx EXCEPT ![w] = t] /\ UNCHANGED tables
  BY <1>1 DEF InsertSplit
<1> QED
  BY <1>3, <1>4, <1>5, <1>6, TxStep

(***************************************************************************)
(* The foreign key adds the key of the order.                              *)
(***************************************************************************)
LEMMA CheckParentStep ==
    ASSUME IInv, NEW w \in Workers, CheckParent(w)
    PROVE  IInv'
<1> DEFINE o == tx[w].order
           t == [tx[w] EXCEPT !.pc = "mark", !.locks = @ \cup {ParentKey(o)}]
<1>1. tx[w] \in Tx /\ Secured(tx[w]) /\ tx[w].pc = "parent" /\ tx \in [Workers -> Tx]
  BY DEF IInv, TypeOK, LocksProtect, CheckParent
<1>2. /\ o \in Orders /\ tx[w].by \in Admins \cup Salers /\ tx[w].got = {}
      /\ SplitRow(o) \in tx[w].locks
  BY <1>1 DEF Secured, Paying
<1>3. /\ t \in Tx /\ t.locks = tx[w].locks \cup {ParentKey(o)} /\ t.got = {}
      /\ t.pc = "mark" /\ t.order = o /\ t.by = tx[w].by
  BY <1>1, <1>2, RowFacts DEF Tx, Paying
<1>4. Secured(t)
  BY <1>2, <1>3 DEF Secured, Settled, PaysOrder, Paying
<1>5. \A v \in Workers \ {w} : t.locks \cap tx[v].locks = {}
  BY <1>3 DEF CheckParent, Free, IInv, LocksProtect
<1>6. tx' = [tx EXCEPT ![w] = t] /\ UNCHANGED tables
  BY <1>1 DEF CheckParent
<1> QED
  BY <1>3, <1>4, <1>5, <1>6, TxStep

(***************************************************************************)
(* The order is still pending, and now locked by its payment.              *)
(***************************************************************************)
LEMMA MarkPaidStep ==
    ASSUME IInv, NEW w \in Workers, MarkPaid(w)
    PROVE  IInv'
<1> DEFINE o == tx[w].order
           t == [tx[w] EXCEPT !.pc = "auto", !.locks = @ \cup {OrderRow(o)}]
<1>1. tx[w] \in Tx /\ Secured(tx[w]) /\ tx[w].pc = "mark" /\ tx \in [Workers -> Tx]
  BY DEF IInv, TypeOK, LocksProtect, MarkPaid
<1>2. /\ o \in Orders /\ tx[w].by \in Admins \cup Salers /\ tx[w].got = {}
      /\ SplitRow(o) \in tx[w].locks /\ order[o] = "pending"
  BY <1>1 DEF Secured, Paying, MarkPaid
<1>3. /\ t \in Tx /\ t.locks = tx[w].locks \cup {OrderRow(o)} /\ t.got = {}
      /\ t.pc = "auto" /\ t.order = o /\ t.by = tx[w].by
  BY <1>1, <1>2, RowFacts DEF Tx, Paying
<1>4. Secured(t)
  BY <1>2, <1>3 DEF Secured, Settled, PaysOrder, Paying
<1>5. \A v \in Workers \ {w} : t.locks \cap tx[v].locks = {}
  BY <1>3 DEF MarkPaid, Free, IInv, LocksProtect
<1>6. tx' = [tx EXCEPT ![w] = t] /\ UNCHANGED tables
  BY <1>1 DEF MarkPaid
<1> QED
  BY <1>3, <1>4, <1>5, <1>6, TxStep

(***************************************************************************)
(* A payment that sweeps wants its own order too.                          *)
(***************************************************************************)
LEMMA AutoSweepStep ==
    ASSUME IInv, NEW w \in Workers, AutoSweep(w)
    PROVE  IInv'
<1> DEFINE t == [tx[w] EXCEPT !.pc = "lock",
                              !.want = {p \in Orders : Unswept(p)} \cup {tx[w].order}]
<1>1. tx[w] \in Tx /\ Secured(tx[w]) /\ tx[w].pc = "auto" /\ tx \in [Workers -> Tx]
  BY DEF IInv, TypeOK, LocksProtect, AutoSweep
<1>2. /\ tx[w].order \in Orders /\ tx[w].by \in Admins \cup Salers /\ tx[w].got = {}
      /\ SplitRow(tx[w].order) \in tx[w].locks /\ OrderRow(tx[w].order) \in tx[w].locks
      /\ order[tx[w].order] = "pending"
  BY <1>1 DEF Secured, Settled, Paying
<1>3. /\ t \in Tx /\ t.locks = tx[w].locks /\ t.got = {}
      /\ t.pc = "lock" /\ t.order = tx[w].order /\ t.by = tx[w].by
      /\ tx[w].order \in t.want
  BY <1>1, <1>2 DEF Tx, Paying
<1>4. Secured(t)
  BY <1>2, <1>3 DEF Secured, Settled, PaysOrder, Own, Paying
<1>5. \A v \in Workers \ {w} : t.locks \cap tx[v].locks = {}
  BY <1>3 DEF IInv, LocksProtect
<1>6. tx' = [tx EXCEPT ![w] = t] /\ UNCHANGED tables
  BY <1>1 DEF AutoSweep
<1> QED
  BY <1>3, <1>4, <1>5, <1>6, TxStep

(***************************************************************************)
(* A row is gathered only once it is locked and still unswept.             *)
(***************************************************************************)
LEMMA LockSplitStep ==
    ASSUME IInv, NEW w \in Workers, LockSplit(w)
    PROVE  IInv'
<1>1. tx[w] \in Tx /\ Secured(tx[w]) /\ tx[w].pc = "lock" /\ tx \in [Workers -> Tx]
  BY DEF IInv, TypeOK, LocksProtect, LockSplit
<1>2. PICK o \in First(tx[w].want) :
          /\ Free(w, SplitRow(o))
          /\ tx' = [tx EXCEPT ![w].want = @ \ {o},
                              ![w].got = IF Unswept(o) \/ o \in Own(tx[w])
                                         THEN @ \cup {o} ELSE @,
                              ![w].locks = IF o \in split THEN @ \cup {SplitRow(o)} ELSE @]
          /\ UNCHANGED tables
  BY DEF LockSplit
<1> DEFINE t == [tx[w] EXCEPT !.want = @ \ {o},
                              !.got = IF Unswept(o) \/ o \in Own(tx[w])
                                      THEN @ \cup {o} ELSE @,
                              !.locks = IF o \in split THEN @ \cup {SplitRow(o)} ELSE @]
<1>3. o \in Orders
  BY <1>1 DEF First, Tx
<1>4. /\ t \in Tx /\ t.pc = "lock" /\ t.order = tx[w].order /\ t.by = tx[w].by
      /\ t.got = (IF Unswept(o) \/ o \in Own(tx[w]) THEN tx[w].got \cup {o} ELSE tx[w].got)
      /\ t.locks = (IF o \in split THEN tx[w].locks \cup {SplitRow(o)} ELSE tx[w].locks)
      /\ t.want = tx[w].want \ {o}
  <2> DEFINE got   == IF Unswept(o) \/ o \in Own(tx[w]) THEN tx[w].got \cup {o} ELSE tx[w].got
             locks == IF o \in split THEN tx[w].locks \cup {SplitRow(o)} ELSE tx[w].locks
  <2>1. got \in SUBSET Orders /\ locks \in SUBSET Row /\ tx[w].want \ {o} \in SUBSET Orders
    BY <1>1, <1>3, RowFacts DEF Tx
  <2>2. t = [tx[w] EXCEPT !.want = @ \ {o}, !.got = got, !.locks = locks]
    BY <1>1 DEF Tx
  <2> HIDE DEF got, locks
  <2>3. t \in Tx /\ t.pc = "lock" /\ t.order = tx[w].order /\ t.by = tx[w].by
    BY <1>1, <2>1, <2>2 DEF Tx
  <2>4. t.got = got /\ t.locks = locks /\ t.want = tx[w].want \ {o}
    BY <1>1, <2>2 DEF Tx
  <2> QED
    BY <2>3, <2>4 DEF got, locks
<1>5. Own(t) = Own(tx[w]) /\ (Settled(t) <=> Settled(tx[w])) /\ (PaysOrder(t) <=> PaysOrder(tx[w]))
  BY <1>1, <1>4 DEF Own, PaysOrder, Settled
<1>6. o \in Own(tx[w]) => SplitRow(o) \in tx[w].locks
  BY <1>1 DEF Own, PaysOrder, Secured, Settled
<1>7. \A p \in t.got : SplitRow(p) \in t.locks /\ (Unswept(p) \/ p \in Own(t))
  BY <1>1, <1>4, <1>5, <1>6 DEF Secured, Unswept
<1>8. Settled(t) => /\ OrderRow(t.order) \in t.locks /\ order[t.order] = "pending"
                    /\ SplitRow(t.order) \in t.locks
  BY <1>1, <1>4, <1>5 DEF Secured
<1>9. t.by \in Admins \cup Salers /\ Own(t) \subseteq t.want \cup t.got
  BY <1>1, <1>4, <1>5 DEF Secured
<1>10. Secured(t)
  BY <1>4, <1>7, <1>8, <1>9 DEF Secured, Paying
<1>11. \A v \in Workers \ {w} : t.locks \cap tx[v].locks = {}
  BY <1>2, <1>4 DEF Free, IInv, LocksProtect
<1>12. tx' = [tx EXCEPT ![w] = t] /\ UNCHANGED tables
  BY <1>1, <1>2
<1> QED
  BY <1>4, <1>10, <1>11, <1>12, TxStep

(***************************************************************************)
(* A deletion owns its order.                                              *)
(***************************************************************************)
LEMMA DeleteBeginStep ==
    ASSUME IInv, NEW w \in Workers, NEW o \in Orders, DeleteBegin(w, o)
    PROVE  IInv'
<1> DEFINE t == [tx[w] EXCEPT !.pc = "cascade", !.order = o,
                              !.locks = {OrderRow(o), ParentKey(o)}]
<1>1. tx[w] \in Tx /\ Secured(tx[w]) /\ tx[w].pc = "idle" /\ tx \in [Workers -> Tx]
  BY DEF IInv, TypeOK, LocksProtect, DeleteBegin
<1>2. /\ t \in Tx /\ t.locks = {OrderRow(o), ParentKey(o)} /\ t.got = {}
      /\ t.pc = "cascade" /\ t.order = o
  <2>1. {OrderRow(o), ParentKey(o)} \in SUBSET Row
    BY RowFacts
  <2>2. tx[w].got = {}
    BY <1>1 DEF Secured
  <2> QED
    BY <1>1, <2>1, <2>2 DEF Tx
<1>3. order[o] \in {"pending", "paid", "cancelled"}
  BY DEF DeleteBegin, IInv, TypeOK, OrderStatus
<1>4. Secured(t)
  BY <1>2, <1>3 DEF Secured, Settled, PaysOrder, Paying
<1>5. \A v \in Workers \ {w} : t.locks \cap tx[v].locks = {}
  BY <1>2 DEF DeleteBegin, Unlocked
<1>6. tx' = [tx EXCEPT ![w] = t] /\ UNCHANGED tables
  BY <1>1 DEF DeleteBegin
<1> QED
  BY <1>2, <1>4, <1>5, <1>6, TxStep

(***************************************************************************)
(* A rollback keeps the invariant.                                         *)
(***************************************************************************)
LEMMA RollbackStep ==
    ASSUME IInv, NEW w \in Workers, Rollback(w)
    PROVE  IInv'
<1>1. tx' = [tx EXCEPT ![w] = Idle] /\ UNCHANGED tables
  BY DEF Rollback, Finish
<1> QED
  BY <1>1, IdleFacts, TxStep
-----------------------------------------------------------------------------
(***************************************************************************)
(* A step that changes tables keeps every other transaction secured if it  *)
(* leaves alone what that transaction has locked.                          *)
(***************************************************************************)
LEMMA OthersSecured ==
    ASSUME IInv, tx' \in [Workers -> Tx],
           \A v \in Workers :
              \/ tx'[v] = Idle
              \/ /\ tx'[v] = tx[v]
                 /\ Settled(tx[v]) => order'[tx[v].order] = "pending"
                 /\ tx[v].pc = "cascade" =>
                       order'[tx[v].order] \in {"pending", "paid", "cancelled"}
                 /\ \A o \in tx[v].got : Unswept(o) => Unswept(o)'
    PROVE  LocksProtect'
<1>1. \A u, v \in Workers : u # v => tx'[u].locks \cap tx'[v].locks = {}
  BY IdleFacts DEF IInv, LocksProtect
<1>2. ASSUME NEW v \in Workers PROVE Secured(tx[v])'
  <2>1. CASE tx'[v] = Idle
    BY <2>1 DEF Secured, Settled, PaysOrder, Paying, Idle
  <2>2. CASE /\ tx'[v] = tx[v]
             /\ Settled(tx[v]) => order'[tx[v].order] = "pending"
             /\ tx[v].pc = "cascade" =>
                   order'[tx[v].order] \in {"pending", "paid", "cancelled"}
             /\ \A o \in tx[v].got : Unswept(o) => Unswept(o)'
    <3>1. Secured(tx[v])
      BY DEF IInv, LocksProtect
    <3>2. (Settled(tx[v])' <=> Settled(tx[v])) /\ Own(tx[v])' = Own(tx[v])
      BY <2>2 DEF Settled, PaysOrder, Own
    <3> QED
      BY <2>2, <3>1, <3>2 DEF Secured
  <2> QED
    BY <2>1, <2>2
<1> QED
  BY <1>1, <1>2 DEF LocksProtect

(***************************************************************************)
(* What is shared depends on the batches of the dividends only.            *)
(***************************************************************************)
LEMMA SameBatches ==
    ASSUME SharedOnce, DOMAIN dividends' = DOMAIN dividends,
           \A d \in DOMAIN dividends : dividends'[d].orders = dividends[d].orders
    PROVE  SharedOnce' /\ Sharing!Shared' = Sharing!Shared
BY DEF SharedOnce, Sharing!SharedOnce, Sharing!Shared

(***************************************************************************)
(* A transaction that is about to commit a payment is the only one that    *)
(* has its order.                                                          *)
(***************************************************************************)
LEMMA Exclusive ==
    ASSUME IInv, NEW v \in Workers, NEW w \in Workers, v # w
    PROVE  /\ (Settled(tx[v]) \/ tx[v].pc = "cascade") /\ (Settled(tx[w]) \/ tx[w].pc = "cascade")
                => tx[v].order # tx[w].order
           /\ tx[v].got \cap tx[w].got = {}
           /\ Settled(tx[w]) => tx[w].order \notin tx[v].got
<1>1. Secured(tx[v]) /\ Secured(tx[w]) /\ tx[v].locks \cap tx[w].locks = {}
  BY DEF IInv, LocksProtect
<1>2. /\ (Settled(tx[v]) \/ tx[v].pc = "cascade") => OrderRow(tx[v].order) \in tx[v].locks
      /\ (Settled(tx[w]) \/ tx[w].pc = "cascade") => OrderRow(tx[w].order) \in tx[w].locks
      /\ Settled(tx[w]) => SplitRow(tx[w].order) \in tx[w].locks
  BY <1>1 DEF Secured
<1>3. \A o \in tx[v].got : SplitRow(o) \in tx[v].locks
  BY <1>1 DEF Secured
<1>4. \A o \in tx[w].got : SplitRow(o) \in tx[w].locks
  BY <1>1 DEF Secured
<1> QED
  BY <1>1, <1>2, <1>3, <1>4

(***************************************************************************)
(* A new order keeps the invariant: no transaction refers to it.           *)
(***************************************************************************)
LEMMA CreateStep ==
    ASSUME IInv, NEW o \in Orders, Create(o)
    PROVE  IInv'
<1>1. /\ order[o] = "none" /\ order' = [order EXCEPT ![o] = "pending"]
      /\ UNCHANGED <<split, swept, dividends, tx>>
  BY DEF Create
<1>2. TypeOK'
  BY <1>1 DEF IInv, TypeOK, OrderStatus
<1>3. \A p \in Orders : order'[p] = IF p = o THEN "pending" ELSE order[p]
  BY <1>1 DEF IInv, TypeOK
<1>4. LocksProtect'
  <2>1. \A v \in Workers : Secured(tx[v]) /\ tx[v] \in Tx
    BY DEF IInv, LocksProtect, TypeOK
  <2>2. ASSUME NEW v \in Workers
        PROVE  /\ Settled(tx[v]) => order'[tx[v].order] = "pending"
               /\ tx[v].pc = "cascade" =>
                     order'[tx[v].order] \in {"pending", "paid", "cancelled"}
    <3>1. Settled(tx[v]) \/ tx[v].pc = "cascade" => tx[v].order \in Orders
      BY <2>1 DEF Secured, Settled, PaysOrder, Paying, Tx
    <3> QED
      BY <1>1, <1>3, <2>1, <3>1 DEF Secured
  <2>3. \A p : Unswept(p) => Unswept(p)'
    BY <1>1 DEF Unswept
  <2> QED
    BY <1>1, <2>2, <2>3, OthersSecured DEF IInv, TypeOK
<1>5. SharedOnce' /\ Sharing!Shared' = Sharing!Shared
  BY <1>1, SameBatches DEF IInv
<1>6. SweptIffShared' /\ SplitIffPaid' /\ SharedWerePaid'
  BY <1>1, <1>3, <1>5 DEF IInv, SweptIffShared, SplitIffPaid, SharedWerePaid, Sharing!Shared
<1> QED
  BY <1>2, <1>4, <1>5, <1>6 DEF IInv

(***************************************************************************)
(* A cancellation keeps the invariant: nobody holds the row of the order.  *)
(***************************************************************************)
LEMMA CancelStep ==
    ASSUME IInv, NEW o \in Orders, Cancel(o)
    PROVE  IInv'
<1>1. /\ order[o] = "pending" /\ order' = [order EXCEPT ![o] = "cancelled"]
      /\ UNCHANGED <<split, swept, dividends, tx>> /\ Unlocked(OrderRow(o))
  BY DEF Cancel
<1>2. TypeOK'
  BY <1>1 DEF IInv, TypeOK, OrderStatus
<1>3. \A p \in Orders : order'[p] = IF p = o THEN "cancelled" ELSE order[p]
  BY <1>1 DEF IInv, TypeOK
<1>4. LocksProtect'
  <2>1. \A v \in Workers : Secured(tx[v]) /\ tx[v] \in Tx
    BY DEF IInv, LocksProtect, TypeOK
  <2>2. ASSUME NEW v \in Workers
        PROVE  /\ Settled(tx[v]) => order'[tx[v].order] = "pending"
               /\ tx[v].pc = "cascade" =>
                     order'[tx[v].order] \in {"pending", "paid", "cancelled"}
    <3>1. Settled(tx[v]) \/ tx[v].pc = "cascade" => /\ tx[v].order \in Orders
                                                    /\ OrderRow(tx[v].order) \in tx[v].locks
      BY <2>1 DEF Secured, Settled, PaysOrder, Paying, Tx
    <3>2. OrderRow(o) \notin tx[v].locks
      BY <1>1 DEF Unlocked
    <3> QED
      BY <1>3, <2>1, <3>1, <3>2 DEF Secured
  <2>3. \A p : Unswept(p) => Unswept(p)'
    BY <1>1 DEF Unswept
  <2> QED
    BY <1>1, <2>2, <2>3, OthersSecured DEF IInv, TypeOK
<1>5. SharedOnce' /\ Sharing!Shared' = Sharing!Shared
  BY <1>1, SameBatches DEF IInv
<1>6. SweptIffShared' /\ SplitIffPaid' /\ SharedWerePaid'
  BY <1>1, <1>3, <1>5 DEF IInv, SweptIffShared, SplitIffPaid, SharedWerePaid, Sharing!Shared
<1> QED
  BY <1>2, <1>4, <1>5, <1>6 DEF IInv

(***************************************************************************)
(* Removing a dividend leaves its batch on record.                         *)
(***************************************************************************)
LEMMA DropDividendStep ==
    ASSUME IInv, NEW d \in DOMAIN dividends, DropDividend(d)
    PROVE  IInv'
<1>1. /\ dividends' = [dividends EXCEPT ![d].live = FALSE]
      /\ UNCHANGED <<order, split, swept, tx>>
  BY DEF DropDividend
<1>2. \A e \in DOMAIN dividends : dividends[e] \in Dividend
  BY DEF IInv, TypeOK
<1>3. /\ DOMAIN dividends' = DOMAIN dividends
      /\ \A e \in DOMAIN dividends : dividends'[e] \in Dividend
                                     /\ dividends'[e].orders = dividends[e].orders
  BY <1>1, <1>2 DEF Dividend
<1>4. dividends' \in Seq(Dividend)
  <2>1. dividends \in [1..Len(dividends) -> Dividend] /\ Len(dividends) \in Nat
    BY DEF IInv, TypeOK
  <2>2. dividends' \in [1..Len(dividends) -> Dividend]
    BY <1>1, <1>3, <2>1
  <2> QED
    BY <2>1, <2>2
<1>5. TypeOK'
  BY <1>1, <1>4 DEF IInv, TypeOK
<1>6. LocksProtect'
  BY <1>1 DEF IInv, LocksProtect, Secured, Settled, PaysOrder, Own, Unswept
<1>7. SharedOnce' /\ Sharing!Shared' = Sharing!Shared
  BY <1>3, SameBatches DEF IInv
<1>8. SweptIffShared' /\ SplitIffPaid' /\ SharedWerePaid'
  BY <1>1, <1>7 DEF IInv, SweptIffShared, SplitIffPaid, SharedWerePaid, Sharing!Shared
<1> QED
  BY <1>5, <1>6, <1>7, <1>8 DEF IInv

(***************************************************************************)
(* A payment that commits without sharing has its order, still pending and *)
(* without a split row, for itself.                                        *)
(***************************************************************************)
LEMMA PayUnsharedStep ==
    ASSUME IInv, NEW w \in Workers, PayUnshared(w)
    PROVE  IInv'
<1> DEFINE o == tx[w].order
<1>1. /\ Settled(tx[w]) /\ Own(tx[w]) = {o} /\ UNCHANGED <<swept, dividends>>
      /\ order' = [order EXCEPT ![o] = "paid"] /\ split' = split \cup {o}
      /\ tx' = [tx EXCEPT ![w] = Idle]
  BY DEF PayUnshared, Settled, Own, PaysOrder, Finish
<1>2. Secured(tx[w]) /\ tx[w] \in Tx
  BY DEF IInv, LocksProtect, TypeOK
<1>3. o \in Orders /\ order[o] = "pending" /\ o \notin split
  <2>1. o \in Orders
    BY <1>1, <1>2 DEF Secured, Settled, PaysOrder, Paying, Tx
  <2> QED
    BY <1>1, <1>2, <2>1 DEF Secured, IInv, SplitIffPaid
<1>4. \A p \in Orders : order'[p] = IF p = o THEN "paid" ELSE order[p]
  BY <1>1, <1>3 DEF IInv, TypeOK
<1>5. TypeOK'
  BY <1>1, <1>3, IdleFacts DEF IInv, TypeOK, OrderStatus
<1>6. LocksProtect'
  <2>1. ASSUME NEW v \in Workers, v # w
        PROVE  /\ tx'[v] = tx[v]
               /\ Settled(tx[v]) => order'[tx[v].order] = "pending"
               /\ tx[v].pc = "cascade" =>
                     order'[tx[v].order] \in {"pending", "paid", "cancelled"}
    <3>1. Secured(tx[v]) /\ tx[v] \in Tx
      BY DEF IInv, LocksProtect, TypeOK
    <3>2. Settled(tx[v]) \/ tx[v].pc = "cascade" => tx[v].order \in Orders
      BY <3>1 DEF Secured, Settled, PaysOrder, Paying, Tx
    <3>3. Settled(tx[v]) \/ tx[v].pc = "cascade" => tx[v].order # o
      BY <1>1, <2>1, Exclusive
    <3>4. tx'[v] = tx[v]
      BY <1>1, <2>1 DEF IInv, TypeOK
    <3> QED
      BY <1>4, <3>1, <3>2, <3>3, <3>4 DEF Secured
  <2>2. \A p : Unswept(p) => Unswept(p)'
    BY <1>1 DEF Unswept
  <2>3. tx'[w] = Idle
    BY <1>1 DEF IInv, TypeOK
  <2>4. tx' \in [Workers -> Tx]
    BY <1>5 DEF TypeOK
  <2> QED
    BY <2>1, <2>2, <2>3, <2>4, OthersSecured
<1>7. SharedOnce' /\ Sharing!Shared' = Sharing!Shared
  BY <1>1, SameBatches DEF IInv
<1>8. o \notin Sharing!Shared
  BY <1>3 DEF IInv, SharedWerePaid
<1>9. SweptIffShared' /\ SplitIffPaid' /\ SharedWerePaid'
  <2>1. o \notin swept
    BY <1>3 DEF IInv, TypeOK
  <2> QED
    BY <1>1, <1>3, <1>4, <1>7, <1>8, <2>1 DEF IInv, SweptIffShared, SplitIffPaid,
       SharedWerePaid, Sharing!Shared
<1> QED
  BY <1>5, <1>6, <1>7, <1>9 DEF IInv

(***************************************************************************)
(* What a dividend gathers was in no dividend before: swept rows are not   *)
(* gathered, and a pending order has never been shared.                    *)
(***************************************************************************)
LEMMA GatheredAreNew ==
    ASSUME IInv, NEW w \in Workers, tx[w].pc = "lock"
    PROVE  /\ tx[w].got \subseteq Orders
           /\ tx[w].got \subseteq (split \ swept) \cup Own(tx[w])
           /\ \A o \in Own(tx[w]) : o \in Orders /\ order[o] = "pending" /\ o \notin split
           /\ tx[w].got \cap Sharing!Shared = {}
<1>1. Secured(tx[w]) /\ tx[w] \in Tx
  BY DEF IInv, LocksProtect, TypeOK
<1>2. tx[w].got \subseteq Orders
  BY <1>1 DEF Tx
<1>3. tx[w].got \subseteq (split \ swept) \cup Own(tx[w])
  BY <1>1 DEF Secured, Unswept
<1>4. \A o \in Own(tx[w]) : o \in Orders /\ order[o] = "pending" /\ o \notin split
  <2>1. ASSUME NEW o \in Own(tx[w]) PROVE o = tx[w].order /\ Settled(tx[w]) /\ o \in Orders
    BY <1>1 DEF Own, PaysOrder, Settled, Tx
  <2> QED
    BY <1>1, <2>1 DEF Secured, IInv, SplitIffPaid
<1>5. ASSUME NEW o \in tx[w].got PROVE o \notin Sharing!Shared
  BY <1>2, <1>3, <1>4 DEF IInv, SweptIffShared, SharedWerePaid
<1> QED
  BY <1>2, <1>3, <1>4, <1>5

(***************************************************************************)
(* The sweep's commit.                                                     *)
(***************************************************************************)
LEMMA ShareStep ==
    ASSUME IInv, NEW w \in Workers, Share(w)
    PROVE  IInv'
<1> DEFINE t   == tx[w]
           new == [orders |-> t.got, by |-> t.by, live |-> TRUE]
<1>1. /\ t.pc = "lock" /\ t.got # {}
      /\ dividends' = Append(dividends, new)
      /\ swept' = swept \cup t.got
      /\ split' = split \cup Own(t)
      /\ order' = [o \in Orders |-> IF o \in Own(t) THEN "paid" ELSE order[o]]
      /\ tx' = [tx EXCEPT ![w] = Idle]
  BY DEF Share, Finish
<1>2. Secured(t) /\ t \in Tx
  BY DEF IInv, LocksProtect, TypeOK
<1>3. /\ t.got \subseteq Orders
      /\ t.got \subseteq (split \ swept) \cup Own(t)
      /\ \A o \in Own(t) : o \in Orders /\ order[o] = "pending" /\ o \notin split
      /\ t.got \cap Sharing!Shared = {}
  BY <1>1, GatheredAreNew
<1>4. new \in Dividend
  BY <1>1, <1>2, <1>3 DEF Dividend, Secured
<1>5. TypeOK'
  <2>1. dividends' \in Seq(Dividend)
    BY <1>1, <1>4 DEF IInv, TypeOK
  <2>2. tx' \in [Workers -> Tx]
    BY <1>1, IdleFacts DEF IInv, TypeOK
  <2>3. order' \in [Orders -> OrderStatus]
    BY <1>1 DEF IInv, TypeOK, OrderStatus
  <2>4. split' \subseteq Orders /\ swept' \subseteq split'
    BY <1>1, <1>3 DEF IInv, TypeOK
  <2> QED
    BY <2>1, <2>2, <2>3, <2>4 DEF TypeOK
<1>6. LocksProtect'
  <2>1. ASSUME NEW v \in Workers, v # w
        PROVE  /\ tx'[v] = tx[v]
               /\ Settled(tx[v]) => order'[tx[v].order] = "pending"
               /\ tx[v].pc = "cascade" =>
                     order'[tx[v].order] \in {"pending", "paid", "cancelled"}
               /\ \A o \in tx[v].got : Unswept(o) => Unswept(o)'
    <3>1. Secured(tx[v]) /\ tx[v] \in Tx
      BY DEF IInv, LocksProtect, TypeOK
    <3>2. Settled(tx[v]) \/ tx[v].pc = "cascade" => tx[v].order \in Orders
      BY <3>1 DEF Secured, Settled, PaysOrder, Paying, Tx
    <3>3. Settled(tx[v]) \/ tx[v].pc = "cascade" => tx[v].order \notin Own(t)
      <4>1. Own(t) # {} => Settled(t) /\ Own(t) = {t.order}
        BY <1>1 DEF Own, Settled
      <4> QED
        BY <2>1, <4>1, Exclusive
    <3>4. tx'[v] = tx[v]
      BY <1>1, <2>1 DEF IInv, TypeOK
    <3>5. tx[v].got \cap t.got = {}
      BY <2>1, Exclusive
    <3>6. \A o \in tx[v].got : Unswept(o) => Unswept(o)'
      BY <1>1, <3>5 DEF Unswept
    <3>7. Settled(tx[v]) \/ tx[v].pc = "cascade" => order'[tx[v].order] = order[tx[v].order]
      BY <1>1, <3>2, <3>3
    <3> QED
      BY <3>1, <3>4, <3>6, <3>7 DEF Secured
  <2>2. tx'[w] = Idle
    BY <1>1 DEF IInv, TypeOK
  <2>3. tx' \in [Workers -> Tx]
    BY <1>5 DEF TypeOK
  <2> QED
    BY <2>1, <2>2, <2>3, OthersSecured
<1>7. /\ DOMAIN dividends' = DOMAIN dividends \cup {Len(dividends) + 1}
      /\ Len(dividends) + 1 \notin DOMAIN dividends
      /\ \A d \in DOMAIN dividends : dividends'[d] = dividends[d]
      /\ dividends'[Len(dividends) + 1] = new
  BY <1>1, <1>4 DEF IInv, TypeOK
<1>8. dividends'[Len(dividends) + 1].orders = t.got
  BY <1>7
<1>9. \A d \in DOMAIN dividends : dividends[d].orders \cap t.got = {}
  <2>1. ASSUME NEW d \in DOMAIN dividends, NEW o \in t.got PROVE o \notin dividends[d].orders
    BY <1>3, <2>1 DEF Sharing!Shared
  <2> QED
    BY <2>1
<1>10. SharedOnce'
  <2>1. SharedOnce
    BY DEF IInv
  <2> QED
    BY <1>7, <1>8, <1>9, <2>1 DEF SharedOnce, Sharing!SharedOnce
<1>11. Sharing!Shared' = Sharing!Shared \cup t.got
  <2>1. ASSUME NEW o \in Orders
        PROVE  (\E d \in DOMAIN dividends' : o \in dividends'[d].orders)
                 <=> o \in t.got \/ \E d \in DOMAIN dividends : o \in dividends[d].orders
    BY <1>7, <1>8
  <2> QED
    BY <1>3, <2>1 DEF Sharing!Shared
<1>12. SweptIffShared'
  <2>1. \A o \in Own(t) : o \notin swept /\ o \notin Sharing!Shared
    BY <1>3 DEF IInv, TypeOK, SharedWerePaid
  <2> QED
    BY <1>1, <1>11, <2>1 DEF IInv, SweptIffShared
<1>13. SplitIffPaid'
  BY <1>1 DEF IInv, SplitIffPaid
<1>14. SharedWerePaid'
  <2>1. \A o \in t.got : order'[o] = "paid"
    BY <1>1, <1>3 DEF IInv, SplitIffPaid
  <2>2. \A o \in Sharing!Shared : o \in Orders /\ order'[o] \in {"paid", "deleted"}
    BY <1>1 DEF IInv, SharedWerePaid, Sharing!Shared
  <2> QED
    BY <1>11, <2>1, <2>2 DEF SharedWerePaid
<1> QED
  BY <1>5, <1>6, <1>10, <1>12, <1>13, <1>14 DEF IInv

(***************************************************************************)
(* The end of a deletion: no sweep has the row it removes.                 *)
(***************************************************************************)
LEMMA DeleteCommitStep ==
    ASSUME IInv, NEW w \in Workers, DeleteCommit(w)
    PROVE  IInv'
<1> DEFINE o == tx[w].order
<1>1. /\ tx[w].pc = "cascade"
      /\ o \in split => Free(w, SplitRow(o))
      /\ order' = [order EXCEPT ![o] = "deleted"]
      /\ split' = split \ {o} /\ swept' = swept \ {o}
      /\ tx' = [tx EXCEPT ![w] = Idle] /\ UNCHANGED dividends
  BY DEF DeleteCommit, Finish
<1>2. o \in Orders
  BY <1>1 DEF IInv, LocksProtect, Secured
<1>3. \A p \in Orders : order'[p] = IF p = o THEN "deleted" ELSE order[p]
  BY <1>1, <1>2 DEF IInv, TypeOK
<1>4. TypeOK'
  BY <1>1, <1>2, IdleFacts DEF IInv, TypeOK, OrderStatus
<1>5. LocksProtect'
  <2>1. ASSUME NEW v \in Workers, v # w
        PROVE  /\ tx'[v] = tx[v]
               /\ Settled(tx[v]) => order'[tx[v].order] = "pending"
               /\ tx[v].pc = "cascade" =>
                     order'[tx[v].order] \in {"pending", "paid", "cancelled"}
               /\ \A p \in tx[v].got : Unswept(p) => Unswept(p)'
    <3>1. Secured(tx[v]) /\ tx[v] \in Tx
      BY DEF IInv, LocksProtect, TypeOK
    <3>2. Settled(tx[v]) \/ tx[v].pc = "cascade" => tx[v].order \in Orders
      BY <3>1 DEF Secured, Settled, PaysOrder, Paying, Tx
    <3>3. Settled(tx[v]) \/ tx[v].pc = "cascade" => tx[v].order # o
      BY <1>1, <2>1, Exclusive
    <3>4. tx'[v] = tx[v]
      BY <1>1, <2>1 DEF IInv, TypeOK
    <3>5. o \in split => o \notin tx[v].got
      BY <1>1, <2>1, <3>1 DEF Secured, Free
    <3>6. \A p \in tx[v].got : Unswept(p) => Unswept(p)'
      BY <1>1, <3>5 DEF Unswept
    <3> QED
      BY <1>3, <3>1, <3>2, <3>3, <3>4, <3>6 DEF Secured
  <2>2. tx'[w] = Idle
    BY <1>1 DEF IInv, TypeOK
  <2>3. tx' \in [Workers -> Tx]
    BY <1>4 DEF TypeOK
  <2> QED
    BY <2>1, <2>2, <2>3, OthersSecured
<1>6. SharedOnce' /\ Sharing!Shared' = Sharing!Shared
  BY <1>1, SameBatches DEF IInv
<1>7. SweptIffShared' /\ SplitIffPaid' /\ SharedWerePaid'
  BY <1>1, <1>2, <1>3, <1>6 DEF IInv, SweptIffShared, SplitIffPaid, SharedWerePaid, Sharing!Shared
<1> QED
  BY <1>4, <1>5, <1>6, <1>7 DEF IInv
-----------------------------------------------------------------------------
(***************************************************************************)
(* The invariant holds in the empty database.                              *)
(***************************************************************************)
LEMMA InvInit == Init => IInv
<1> SUFFICES ASSUME Init PROVE IInv
  OBVIOUS
<1>1. TypeOK
  BY IdleFacts DEF Init, TypeOK, OrderStatus
<1>2. LocksProtect
  BY IdleFacts DEF Init, LocksProtect
<1>3. DOMAIN dividends = {}
  BY DEF Init
<1>4. SharedOnce /\ SweptIffShared /\ SplitIffPaid /\ SharedWerePaid
  BY <1>3 DEF Init, SharedOnce, SweptIffShared, SplitIffPaid, SharedWerePaid,
     Sharing!SharedOnce, Sharing!Shared
<1> QED
  BY <1>1, <1>2, <1>4 DEF IInv

(***************************************************************************)
(* One step, whoever takes it, keeps the invariant.                        *)
(***************************************************************************)
LEMMA InvNext == IInv /\ [Next]_vars => IInv'
<1> SUFFICES ASSUME IInv, [Next]_vars PROVE IInv'
  OBVIOUS
<1>1. ASSUME NEW o \in Orders, Create(o) \/ Cancel(o) PROVE IInv'
  BY <1>1, CreateStep, CancelStep
<1>2. ASSUME NEW d \in DOMAIN dividends, DropDividend(d) PROVE IInv'
  BY <1>2, DropDividendStep
<1>3. ASSUME NEW w \in Workers, Transaction(w) PROVE IInv'
  <2>1. ASSUME NEW o \in Orders, DeleteBegin(w, o) PROVE IInv'
    BY <2>1, DeleteBeginStep
  <2>2. ASSUME NEW o \in Orders, NEW u \in Admins \cup Salers, PayBegin(w, u, o) PROVE IInv'
    BY <2>2, PayBeginStep
  <2>3. ASSUME NEW u \in Admins, SweepBegin(w, u) PROVE IInv'
    BY <2>3, SweepBeginStep
  <2>4. CASE InsertSplit(w) \/ CheckParent(w) \/ MarkPaid(w)
    BY <2>4, InsertSplitStep, CheckParentStep, MarkPaidStep
  <2>5. CASE AutoSweep(w) \/ LockSplit(w) \/ Share(w) \/ PayUnshared(w)
    BY <2>5, AutoSweepStep, LockSplitStep, ShareStep, PayUnsharedStep
  <2>6. CASE DeleteCommit(w) \/ Rollback(w)
    BY <2>6, DeleteCommitStep, RollbackStep
  <2> QED
    BY <1>3, <2>1, <2>2, <2>3, <2>4, <2>5, <2>6 DEF Transaction
<1>4. CASE UNCHANGED vars
  <2>1. UNCHANGED <<order, split, swept, dividends, tx>>
    BY <1>4 DEF vars
  <2> QED
    BY <2>1 DEF IInv, TypeOK, LocksProtect, Secured, Settled, PaysOrder, Own, Unswept,
       SharedOnce, SweptIffShared, SplitIffPaid, SharedWerePaid, Sharing!SharedOnce,
       Sharing!Shared
<1> QED
  BY <1>1, <1>2, <1>3, <1>4 DEF Next

(***************************************************************************)
(* The inductive invariant holds in every reachable state.                 *)
(***************************************************************************)
THEOREM Invariance == Spec => []IInv
<1> QED
  BY InvInit, InvNext, PTL DEF Spec

(***************************************************************************)
(* Type correctness.                                                       *)
(***************************************************************************)
THEOREM TypeCorrect == Spec => []TypeOK
<1>1. IInv => TypeOK
  BY DEF IInv
<1> QED
  BY <1>1, Invariance, PTL

(***************************************************************************)
(* No two transactions hold the same lock, and what each has read stays    *)
(* true until it commits.                                                  *)
(***************************************************************************)
THEOREM LocksProtectAlways == Spec => []LocksProtect
<1>1. IInv => LocksProtect
  BY DEF IInv
<1> QED
  BY <1>1, Invariance, PTL

(***************************************************************************)
(* However many sweeps, payments and deletions overlap, no order is in two *)
(* dividends.                                                              *)
(***************************************************************************)
THEOREM NeverSharedTwice == Spec => []SharedOnce
<1>1. IInv => SharedOnce
  BY DEF IInv
<1> QED
  BY <1>1, Invariance, PTL

(***************************************************************************)
(* The flag swept says exactly whether a dividend has gathered the order.  *)
(***************************************************************************)
THEOREM SweptMeansShared == Spec => []SweptIffShared
<1>1. IInv => SweptIffShared
  BY DEF IInv
<1> QED
  BY <1>1, Invariance, PTL

(***************************************************************************)
(* Money is split for paid orders and no others.                           *)
(***************************************************************************)
THEOREM SplitMeansPaid == Spec => []SplitIffPaid
<1>1. IInv => SplitIffPaid
  BY DEF IInv
<1> QED
  BY <1>1, Invariance, PTL

(***************************************************************************)
(* Only orders that were paid are ever shared.                             *)
(***************************************************************************)
THEOREM OnlyPaidShared == Spec => []SharedWerePaid
<1>1. IInv => SharedWerePaid
  BY DEF IInv
<1> QED
  BY <1>1, Invariance, PTL
-----------------------------------------------------------------------------
(***************************************************************************)
(* The empty database has no order and no batch.                           *)
(***************************************************************************)
LEMMA RefineInit == Init => Sharing!Init
<1> SUFFICES ASSUME Init PROVE Sharing!Init
  OBVIOUS
<1>1. [d \in DOMAIN dividends |-> dividends[d].orders] = << >>
  BY DEF Init
<1> QED
  BY <1>1 DEF Init, Sharing!Init

(***************************************************************************)
(* The batches of the dividends after a commit.                            *)
(***************************************************************************)
LEMMA BatchAppended ==
    ASSUME TypeOK, NEW new \in Dividend, dividends' = Append(dividends, new)
    PROVE  [d \in DOMAIN dividends' |-> dividends'[d].orders]
             = Append([d \in DOMAIN dividends |-> dividends[d].orders], new.orders)
<1> DEFINE old == [d \in DOMAIN dividends |-> dividends[d].orders]
           n   == Len(dividends)
<1>1. dividends \in Seq(Dividend) /\ n \in Nat /\ DOMAIN dividends = 1..n
  BY DEF TypeOK
<1>2. \A d \in 1..n : dividends[d].orders \in SUBSET Orders
  <2>1. \A d \in 1..n : dividends[d] \in Dividend
    BY <1>1
  <2> QED
    BY <2>1 DEF Dividend
<1>3. old \in Seq(SUBSET Orders) /\ Len(old) = n
  <2>1. old \in [1..n -> SUBSET Orders]
    BY <1>1, <1>2
  <2> QED
    BY <1>1, <2>1
<1>4. new.orders \in SUBSET Orders
  BY DEF Dividend
<1>5. /\ DOMAIN dividends' = 1..(n + 1) /\ dividends'[n + 1] = new
      /\ \A d \in 1..n : dividends'[d] = dividends[d]
  BY <1>1
<1>6. Append(old, new.orders) \in [1..(n + 1) -> SUBSET Orders]
  <2> DEFINE app == Append(old, new.orders)
  <2>1. app \in Seq(SUBSET Orders) /\ Len(app) = n + 1
    BY <1>3, <1>4
  <2> HIDE DEF app, n
  <2>2. app \in [1..Len(app) -> SUBSET Orders]
    BY <2>1
  <2> QED
    BY <2>1, <2>2 DEF app
<1>7. \A d \in 1..n : Append(old, new.orders)[d] = dividends[d].orders
  BY <1>1, <1>3, <1>4
<1>8. Append(old, new.orders)[n + 1] = new.orders
  BY <1>3, <1>4
<1>9. ASSUME NEW d \in 1..(n + 1)
      PROVE  Append(old, new.orders)[d] = dividends'[d].orders
  <2>1. CASE d \in 1..n
    BY <1>5, <1>7, <2>1
  <2>2. CASE d = n + 1
    BY <1>5, <1>8, <2>2
  <2> QED
    BY <1>1, <2>1, <2>2
<1> HIDE DEF old, n
<1> QED
  <2>1. Append(old, new.orders) = [d \in 1..(n + 1) |-> dividends'[d].orders]
    BY <1>6, <1>9
  <2> QED
    BY <1>5, <2>1 DEF old

(***************************************************************************)
(* The sweep's commit is an atomic sharing, with or without a payment.     *)
(***************************************************************************)
LEMMA RefineShare ==
    ASSUME IInv, NEW w \in Workers, Share(w)
    PROVE  Sharing!Next
<1> DEFINE t        == tx[w]
           gathered == t.got \ Own(t)
           new      == [orders |-> t.got, by |-> t.by, live |-> TRUE]
<1>1. /\ t.pc = "lock" /\ t.got # {}
      /\ dividends' = Append(dividends, new)
      /\ swept' = swept \cup t.got
      /\ split' = split \cup Own(t)
      /\ order' = [o \in Orders |-> IF o \in Own(t) THEN "paid" ELSE order[o]]
  BY DEF Share
<1>2. /\ t.got \subseteq Orders
      /\ t.got \subseteq (split \ swept) \cup Own(t)
      /\ \A o \in Own(t) : o \in Orders /\ order[o] = "pending" /\ o \notin split
  BY <1>1, GatheredAreNew
<1>3. gathered \in SUBSET (split \ swept)
  BY <1>2
<1>4. [d \in DOMAIN dividends' |-> dividends'[d].orders]
        = Append([d \in DOMAIN dividends |-> dividends[d].orders], t.got)
  <2>1. new \in Dividend /\ new.orders = t.got
    BY <1>1, <1>2 DEF Dividend, IInv, LocksProtect, Secured
  <2> HIDE DEF new
  <2> QED
    BY <1>1, <2>1, BatchAppended DEF IInv
<1>5. \A o \in Own(t) : o \in t.got
  BY <1>1 DEF Share, IInv, LocksProtect, Secured
<1>6. PICK g : g = gathered
  OBVIOUS
<1>7. CASE Own(t) = {}
  <2>1. order' = order
    BY <1>1, <1>7 DEF IInv, TypeOK
  <2>2. g = t.got /\ (split' \ swept') = (split \ swept) \ g
    BY <1>1, <1>6, <1>7
  <2>3. Sharing!Share(g)
    BY <1>1, <1>4, <2>1, <2>2 DEF Sharing!Share
  <2>4. g \in SUBSET (split \ swept)
    BY <1>3, <1>6
  <2> QED
    BY <2>3, <2>4 DEF Sharing!Next
<1>8. CASE Own(t) # {}
  <2>1. PICK o \in Orders : Own(t) = {o} /\ order[o] = "pending" /\ o \notin split
    BY <1>2, <1>8 DEF Own
  <2>2. order' = [order EXCEPT ![o] = "paid"]
    BY <1>1, <2>1 DEF IInv, TypeOK
  <2>3. g \cup {o} = t.got /\ (split' \ swept') = (split \ swept) \ g
    BY <1>1, <1>5, <1>6, <2>1
  <2>4. Sharing!PayAndShare(o, g)
    BY <1>4, <2>1, <2>2, <2>3 DEF Sharing!PayAndShare
  <2>5. g \in SUBSET (split \ swept)
    BY <1>3, <1>6
  <2> QED
    BY <2>4, <2>5 DEF Sharing!Next
<1> QED
  BY <1>7, <1>8

(***************************************************************************)
(* Every step maps to an atomic step or to a stutter.                      *)
(***************************************************************************)
LEMMA RefineNext == IInv /\ [Next]_vars => [Sharing!Next]_(Sharing!vars)
<1> SUFFICES ASSUME IInv, [Next]_vars PROVE Sharing!Next \/ UNCHANGED Sharing!vars
  OBVIOUS
<1> DEFINE batches == [d \in DOMAIN dividends |-> dividends[d].orders]
<1>1. ASSUME UNCHANGED tables PROVE UNCHANGED Sharing!vars
  BY <1>1 DEF tables, Sharing!vars
<1>2. ASSUME NEW o \in Orders, Create(o) \/ Cancel(o) PROVE Sharing!Next
  BY <1>2 DEF Create, Cancel, Sharing!Create, Sharing!Cancel, Sharing!Next
<1>3. ASSUME NEW d \in DOMAIN dividends, DropDividend(d) PROVE UNCHANGED Sharing!vars
  <2>1. \A e \in DOMAIN dividends : dividends[e] \in Dividend
    BY DEF IInv, TypeOK
  <2>2. batches' = batches
    BY <1>3, <2>1 DEF DropDividend, Dividend
  <2> QED
    BY <1>3, <2>2 DEF DropDividend, Sharing!vars
<1>4. ASSUME NEW w \in Workers, PayUnshared(w) PROVE Sharing!Next
  <2>1. PICK o : o = tx[w].order
    OBVIOUS
  <2>2. Settled(tx[w]) /\ Own(tx[w]) = {o} /\ Secured(tx[w]) /\ tx[w] \in Tx
    BY <1>4, <2>1 DEF PayUnshared, Settled, Own, PaysOrder, IInv, LocksProtect, TypeOK
  <2>3. o \in Orders /\ order[o] = "pending"
    BY <2>1, <2>2 DEF Secured, Settled, PaysOrder, Paying, Tx
  <2>4. o \notin swept
    BY <2>3 DEF IInv, TypeOK, SplitIffPaid
  <2>5. (split' \ swept') = (split \ swept) \cup {o} /\ batches' = batches
    BY <1>4, <2>2, <2>4 DEF PayUnshared
  <2>6. Sharing!Pay(o)
    BY <1>4, <2>1, <2>3, <2>5 DEF PayUnshared, Sharing!Pay
  <2> QED
    BY <2>3, <2>6 DEF Sharing!Next
<1>5. ASSUME NEW w \in Workers, DeleteCommit(w) PROVE Sharing!Next
  <2>1. PICK o : o = tx[w].order
    OBVIOUS
  <2>2. o \in Orders /\ order[o] \in {"pending", "paid", "cancelled"}
    BY <1>5, <2>1 DEF DeleteCommit, IInv, LocksProtect, Secured
  <2>3. (split' \ swept') = (split \ swept) \ {o} /\ batches' = batches
    BY <1>5, <2>1 DEF DeleteCommit
  <2>4. Sharing!Delete(o)
    BY <1>5, <2>1, <2>2, <2>3 DEF DeleteCommit, Sharing!Delete
  <2> QED
    BY <2>2, <2>4 DEF Sharing!Next
<1>6. ASSUME NEW w \in Workers, Transaction(w) PROVE Sharing!Next \/ UNCHANGED Sharing!vars
  BY <1>1, <1>4, <1>5, <1>6, RefineShare DEF Transaction, DeleteBegin, PayBegin, SweepBegin,
     InsertSplit, CheckParent, MarkPaid, AutoSweep, LockSplit, Rollback
<1>7. CASE UNCHANGED vars
  BY <1>1, <1>7 DEF vars, tables
<1> QED
  BY <1>2, <1>3, <1>6, <1>7 DEF Next

(***************************************************************************)
(* The SQL transactions implement the atomic promise of ProfitSharing.     *)
(***************************************************************************)
THEOREM Refinement == Spec => ImplementsSharing
<1> QED
  BY RefineInit, RefineNext, Invariance, PTL DEF Spec, ImplementsSharing, Sharing!Spec

(***************************************************************************)
(* The atomic requests of ProfitSharing on their own: what is due was paid *)
(* and is in no batch, what is in a batch was paid and may be deleted      *)
(* since, and the batches are apart.                                       *)
(***************************************************************************)
Batches == [d \in DOMAIN dividends |-> dividends[d].orders]
Due     == split \ swept

SharingInv ==
    /\ order \in [Orders -> OrderStatus]
    /\ Batches \in Seq(SUBSET Orders) /\ Due \subseteq Orders
    /\ \A o \in Due : order[o] = "paid"
    /\ \A d \in DOMAIN Batches : \A o \in Batches[d] :
          o \notin Due /\ order[o] \in {"paid", "deleted"}
    /\ Sharing!SharedOnce

(***************************************************************************)
(* A batch of orders that no batch holds keeps the batches apart.          *)
(***************************************************************************)
LEMMA OneBatchMore ==
    ASSUME NEW old \in Seq(SUBSET Orders), NEW g \in SUBSET Orders, NEW new, new = Append(old, g),
           \A d, e \in DOMAIN old : d # e => old[d] \cap old[e] = {},
           \A d \in DOMAIN old : old[d] \cap g = {}
    PROVE  /\ new \in Seq(SUBSET Orders)
           /\ \A d \in DOMAIN new : new[d] = g \/ (d \in DOMAIN old /\ new[d] = old[d])
           /\ \A d, e \in DOMAIN new : d # e => new[d] \cap new[e] = {}
<1>1. PICK n \in Nat : n = Len(old)
  OBVIOUS
<1>2. DOMAIN old = 1..n /\ DOMAIN new = 1..(n + 1) /\ new \in Seq(SUBSET Orders)
  BY <1>1
<1>3. new[n + 1] = g /\ \A d \in 1..n : new[d] = old[d]
  BY <1>1
<1>4. \A d \in 1..(n + 1) : d = n + 1 \/ d \in 1..n
  OBVIOUS
<1> QED
  BY <1>2, <1>3, <1>4

(***************************************************************************)
(* A sharing gathers what is due, and with it the order it pays.           *)
(***************************************************************************)
LEMMA SharingShare ==
    ASSUME SharingInv, NEW g \in SUBSET Due, NEW paid \in SUBSET Orders,
           \A o \in paid : order[o] = "pending",
           order' = [o \in Orders |-> IF o \in paid THEN "paid" ELSE order[o]],
           Due' = Due \ g, Batches' = Append(Batches, g \cup paid)
    PROVE  SharingInv'
<1>1. \A o \in g \cup paid : o \in Orders /\ o \notin Due' /\ order'[o] = "paid"
  BY DEF SharingInv
<1>2. \A d \in DOMAIN Batches : Batches[d] \cap (g \cup paid) = {}
  BY DEF SharingInv
<1>3. /\ Batches \in Seq(SUBSET Orders)
      /\ \A d, e \in DOMAIN Batches : d # e => Batches[d] \cap Batches[e] = {}
  BY DEF SharingInv, Sharing!SharedOnce, Batches
<1>4. /\ Batches' \in Seq(SUBSET Orders)
      /\ \A d \in DOMAIN Batches' :
            Batches'[d] = g \cup paid \/ (d \in DOMAIN Batches /\ Batches'[d] = Batches[d])
      /\ \A d, e \in DOMAIN Batches' : d # e => Batches'[d] \cap Batches'[e] = {}
  <2>1. g \cup paid \in SUBSET Orders
    BY <1>1
  <2> HIDE DEF Batches
  <2> QED
    BY <1>2, <1>3, <2>1, OneBatchMore
<1>5. order' \in [Orders -> OrderStatus] /\ Due' \subseteq Orders
  BY DEF SharingInv, OrderStatus
<1>6. \A o \in Due' : order'[o] = "paid"
  BY DEF SharingInv
<1>7. ASSUME NEW d \in DOMAIN Batches', NEW o \in Batches'[d]
      PROVE  o \notin Due' /\ order'[o] \in {"paid", "deleted"}
  <2>1. CASE Batches'[d] = g \cup paid
    BY <1>1, <1>7, <2>1
  <2>2. CASE d \in DOMAIN Batches /\ Batches'[d] = Batches[d]
    <3>1. o \in Orders /\ o \notin Due /\ order[o] \in {"paid", "deleted"}
      BY <1>3, <1>7, <2>2 DEF SharingInv
    <3> QED
      BY <3>1
  <2> QED
    BY <1>4, <2>1, <2>2
<1>8. Sharing!SharedOnce'
  BY <1>4 DEF Sharing!SharedOnce, Batches
<1> QED
  BY <1>4, <1>5, <1>6, <1>7, <1>8 DEF SharingInv

(***************************************************************************)
(* Every other request moves one order; only a payment makes one due.      *)
(***************************************************************************)
LEMMA SharingMove ==
    ASSUME SharingInv, NEW o \in Orders, NEW s \in OrderStatus,
           order' = [order EXCEPT ![o] = s], UNCHANGED Batches,
           \/ order[o] \in {"none", "pending"} /\ Due' = Due
           \/ order[o] = "pending" /\ s = "paid" /\ Due' = Due \cup {o}
           \/ s = "deleted" /\ Due' = Due \ {o}
    PROVE  SharingInv'
<1>1. /\ order' \in [Orders -> OrderStatus] /\ Due' \subseteq Orders
      /\ \A p \in Due' : order'[p] = "paid"
  BY DEF SharingInv
<1>2. ASSUME NEW d \in DOMAIN Batches, NEW p \in Batches[d]
      PROVE  p \notin Due' /\ order'[p] \in {"paid", "deleted"}
  <2>1. p \in Orders /\ p \notin Due /\ order[p] \in {"paid", "deleted"}
    BY <1>2 DEF SharingInv
  <2> QED
    BY <2>1 DEF SharingInv
<1>3. Sharing!SharedOnce'
  BY DEF SharingInv, Sharing!SharedOnce, Batches
<1> QED
  BY <1>1, <1>2, <1>3 DEF SharingInv

LEMMA SharingNext == SharingInv /\ [Sharing!Next]_(Sharing!vars) => SharingInv'
<1> SUFFICES ASSUME SharingInv, [Sharing!Next]_(Sharing!vars) PROVE SharingInv'
  OBVIOUS
<1>1. ASSUME NEW o \in Orders, Sharing!Create(o) \/ Sharing!Cancel(o) PROVE SharingInv'
  <2>1. \E s \in OrderStatus : order' = [order EXCEPT ![o] = s]
    BY <1>1 DEF Sharing!Create, Sharing!Cancel, OrderStatus
  <2>2. order[o] \in {"none", "pending"} /\ Due' = Due /\ UNCHANGED Batches
    BY <1>1 DEF Sharing!Create, Sharing!Cancel, Due, Batches
  <2> QED
    BY <2>1, <2>2, SharingMove
<1>2. ASSUME NEW o \in Orders, Sharing!Pay(o) PROVE SharingInv'
  <2>1. /\ order[o] = "pending" /\ order' = [order EXCEPT ![o] = "paid"] /\ "paid" \in OrderStatus
        /\ Due' = Due \cup {o} /\ UNCHANGED Batches
    BY <1>2 DEF Sharing!Pay, Due, Batches, OrderStatus
  <2> QED
    BY <2>1, SharingMove
<1>3. ASSUME NEW o \in Orders, Sharing!Delete(o) PROVE SharingInv'
  <2>1. /\ order' = [order EXCEPT ![o] = "deleted"] /\ "deleted" \in OrderStatus
        /\ Due' = Due \ {o} /\ UNCHANGED Batches
    BY <1>3 DEF Sharing!Delete, Due, Batches, OrderStatus
  <2> QED
    BY <2>1, SharingMove
<1>4. ASSUME NEW o \in Orders, NEW g \in SUBSET Due, Sharing!PayAndShare(o, g) PROVE SharingInv'
  <2>1. /\ order[o] = "pending" /\ order' = [order EXCEPT ![o] = "paid"]
        /\ Due' = Due \ g /\ Batches' = Append(Batches, g \cup {o})
    BY <1>4 DEF Sharing!PayAndShare, Due, Batches
  <2>2. order' = [p \in Orders |-> IF p \in {o} THEN "paid" ELSE order[p]]
    BY <2>1 DEF SharingInv
  <2> QED
    BY <2>1, <2>2, SharingShare
<1>5. ASSUME NEW g \in SUBSET Due, Sharing!Share(g) PROVE SharingInv'
  <2>1. order' = order /\ Due' = Due \ g /\ Batches' = Append(Batches, g)
    BY <1>5 DEF Sharing!Share, Due, Batches
  <2>2. PICK none \in SUBSET Orders : none = {}
    OBVIOUS
  <2>3. /\ order' = [p \in Orders |-> IF p \in none THEN "paid" ELSE order[p]]
        /\ Batches' = Append(Batches, g \cup none)
        /\ \A p \in none : order[p] = "pending"
    <3>1. order = [p \in Orders |-> order[p]] /\ g \cup none = g
      BY <2>2 DEF SharingInv
    <3> QED
      BY <2>1, <2>2, <3>1
  <2> QED
    BY <2>1, <2>3, SharingShare
<1>6. CASE UNCHANGED Sharing!vars
  <2>1. order' = order /\ Due' = Due /\ Batches' = Batches
    BY <1>6 DEF Sharing!vars, Due, Batches
  <2> QED
    BY <2>1 DEF SharingInv, Sharing!SharedOnce, Batches
<1> QED
  BY <1>1, <1>2, <1>3, <1>4, <1>5, <1>6 DEF Sharing!Next, Due

LEMMA SharingInit == Sharing!Init => SharingInv
<1> SUFFICES ASSUME Sharing!Init PROVE SharingInv
  OBVIOUS
<1>1. order = [o \in Orders |-> "none"] /\ Due = {} /\ Batches = << >>
  BY DEF Sharing!Init, Due, Batches
<1> QED
  BY <1>1 DEF SharingInv, OrderStatus, Sharing!SharedOnce, Batches

(***************************************************************************)
(* The promise of ProfitSharing, that no order is shared by two dividends, *)
(* holds of its atomic requests, before any lock or flag implements them.  *)
(***************************************************************************)
THEOREM SharingKeepsPromise == Sharing!Spec => []Sharing!SharedOnce
<1>1. SharingInv => Sharing!SharedOnce
  BY DEF SharingInv
<1> QED
  BY <1>1, SharingInit, SharingNext, PTL DEF Sharing!Spec

(***************************************************************************)
(* Orders only move forward: each atomic step does, so each transaction.   *)
(***************************************************************************)
THEOREM OrdersForward == Spec => OrderMovesForward
<1> DEFINE Forward == \A o \in Orders :
               /\ order[o] = "deleted" => order'[o] = "deleted"
               /\ order[o] \in {"paid", "cancelled"} => order'[o] \in {order[o], "deleted"}
<1>1. IInv /\ [Next]_vars => [Forward]_(Sharing!vars)
  <2> SUFFICES ASSUME IInv, [Next]_vars PROVE [Forward]_(Sharing!vars)
    OBVIOUS
  <2>1. [Sharing!Next]_(Sharing!vars)
    BY RefineNext
  <2>2. order \in [Orders -> OrderStatus]
    BY DEF IInv, TypeOK
  <2>3. ASSUME NEW o \in Orders,
               Sharing!Create(o) \/ Sharing!Cancel(o) \/ Sharing!Pay(o) \/ Sharing!Delete(o)
        PROVE  Forward
    BY <2>2, <2>3 DEF Sharing!Create, Sharing!Cancel, Sharing!Pay, Sharing!Delete
  <2>4. ASSUME NEW o \in Orders, NEW g, Sharing!PayAndShare(o, g) PROVE Forward
    BY <2>2, <2>4 DEF Sharing!PayAndShare
  <2>5. ASSUME NEW g, Sharing!Share(g) PROVE Forward
    BY <2>5 DEF Sharing!Share
  <2> QED
    BY <2>1, <2>3, <2>4, <2>5 DEF Sharing!Next
<1> QED
  BY <1>1, Invariance, PTL DEF Spec, OrderMovesForward, Sharing!OrderMovesForward
-----------------------------------------------------------------------------
(***************************************************************************)
(* Locks are taken in order.  A step of one transaction leaves what the    *)
(* others hold, and the orders they want, alone.                           *)
(***************************************************************************)
LEMMA OthersInOrder ==
    ASSUME LocksInOrder, NEW W \in SUBSET Workers,
           \A v \in Workers \ W : tx'[v] = tx[v],
           \A o \in Orders : order[o] \in {"paid", "deleted"} => order'[o] \in {"paid", "deleted"},
           TypeOK,
           \A v \in Workers \ W : tx[v].pc \in {"parent", "mark"} \/ Settled(tx[v])
               => tx[v].order \notin split' \ split,
           \A w \in W : InOrder(tx[w])'
    PROVE  LocksInOrder'
<1> SUFFICES ASSUME NEW v \in Workers PROVE InOrder(tx[v])'
  BY DEF LocksInOrder
<1>1. CASE v \in W
  BY <1>1
<1>2. CASE v \notin W
  <2>1. tx'[v] = tx[v] /\ InOrder(tx[v]) /\ tx[v] \in Tx
    BY <1>2 DEF LocksInOrder, TypeOK
  <2>2. tx[v].want \subseteq Orders
    BY <2>1 DEF Tx
  <2>3. Own(tx[v])' = Own(tx[v]) /\ (Settled(tx[v])' <=> Settled(tx[v]))
    BY <2>1 DEF Own, PaysOrder, Settled
  <2>4. tx[v].pc \in {"parent", "mark"} \/ Settled(tx[v]) => tx[v].order \notin split'
    BY <1>2, <2>1 DEF InOrder
  <2> QED
    BY <2>1, <2>2, <2>3, <2>4 DEF InOrder
<1> QED
  BY <1>1, <1>2

(***************************************************************************)
(* What one step of a transaction does to the transaction itself.          *)
(***************************************************************************)
LEMMA OwnInOrder ==
    ASSUME IInv, LocksInOrder, NEW w \in Workers, Transaction(w)
    PROVE  InOrder(tx[w])'
<1>1. tx[w] \in Tx /\ Secured(tx[w]) /\ InOrder(tx[w]) /\ tx \in [Workers -> Tx]
  BY DEF IInv, TypeOK, LocksProtect, LocksInOrder
<1>2. ASSUME tx' = [tx EXCEPT ![w] = Idle] PROVE InOrder(tx[w])'
  BY <1>1, <1>2 DEF Idle, InOrder, Settled, PaysOrder, Own
<1>3. CASE Share(w) \/ PayUnshared(w) \/ DeleteCommit(w) \/ Rollback(w)
  BY <1>2, <1>3 DEF Share, PayUnshared, DeleteCommit, Rollback, Finish
<1>4. ASSUME NEW o \in Orders, DeleteBegin(w, o) PROVE InOrder(tx[w])'
  <2>1. tx'[w].pc = "cascade" /\ tx'[w].order = o /\ tx'[w].locks = {OrderRow(o), ParentKey(o)}
    BY <1>1, <1>4 DEF DeleteBegin, Tx
  <2> QED
    BY <2>1 DEF InOrder, Settled, PaysOrder, Own
<1>5. ASSUME NEW o \in Orders, NEW u \in Admins \cup Salers, PayBegin(w, u, o)
      PROVE  InOrder(tx[w])'
  <2>1. tx'[w].pc = "split"
    BY <1>1, <1>5 DEF PayBegin, Tx
  <2> QED
    BY <2>1 DEF InOrder, Settled, PaysOrder, Own
<1>6. \A o \in Orders : Unswept(o) => order[o] = "paid"
  BY DEF Unswept, IInv, SplitIffPaid
<1>7. ASSUME NEW u \in Admins, SweepBegin(w, u) PROVE InOrder(tx[w])'
  <2>1. /\ tx'[w].pc = "lock" /\ tx'[w].order = None /\ tx'[w].locks = {} /\ tx'[w].got = {}
        /\ tx'[w].want = {o \in Orders : Unswept(o)} /\ order' = order
    BY <1>1, <1>7 DEF SweepBegin, Tx, Secured, tables
  <2> QED
    BY <1>6, <2>1 DEF InOrder, RowsHeld, Settled, PaysOrder, Own
<1>8. CASE InsertSplit(w)
  <2>1. /\ tx'[w].pc = "parent" /\ tx'[w].order = tx[w].order /\ split' = split
        /\ tx'[w].locks = {SplitRow(tx[w].order)} /\ tx[w].order \notin split
    BY <1>1, <1>8 DEF InsertSplit, Tx, tables
  <2> QED
    BY <2>1 DEF InOrder, Settled, PaysOrder, Own
<1>9. CASE CheckParent(w)
  <2>1. /\ tx'[w].pc = "mark" /\ tx'[w].order = tx[w].order /\ split' = split
        /\ tx'[w].locks = tx[w].locks \cup {ParentKey(tx[w].order)} /\ tx[w].pc = "parent"
    BY <1>1, <1>9 DEF CheckParent, Tx, tables
  <2> QED
    BY <1>1, <2>1 DEF InOrder, Settled, PaysOrder, Own
<1>10. CASE MarkPaid(w)
  <2>1. /\ tx'[w].pc = "auto" /\ tx'[w].order = tx[w].order /\ split' = split
        /\ tx'[w].locks = tx[w].locks \cup {OrderRow(tx[w].order)} /\ tx[w].pc = "mark"
        /\ tx[w].order \in Orders
    BY <1>1, <1>10 DEF MarkPaid, Tx, tables, Secured, Paying
  <2>2. tx[w].order # None /\ Own(tx[w])' = {tx[w].order}
    BY <2>1 DEF Own, PaysOrder
  <2>3. RowsHeld(tx[w])' \subseteq {tx[w].order}
    BY <1>1, <2>1, RowFacts DEF InOrder, RowsHeld
  <2> QED
    BY <1>1, <2>1, <2>2, <2>3 DEF InOrder, Settled
<1>11. CASE AutoSweep(w)
  <2>1. /\ tx'[w].pc = "lock" /\ tx'[w].order = tx[w].order /\ split' = split /\ order' = order
        /\ tx'[w].locks = tx[w].locks /\ tx'[w].got = {} /\ tx[w].pc = "auto"
        /\ tx'[w].want = {o \in Orders : Unswept(o)} \cup {tx[w].order}
        /\ tx[w].got = {} /\ tx[w].order \in Orders
    BY <1>1, <1>11 DEF AutoSweep, Tx, tables, Secured, Paying
  <2>2. Own(tx[w])' = {tx[w].order} /\ Own(tx[w]) = {tx[w].order}
    BY <2>1 DEF Own, PaysOrder
  <2>3. RowsHeld(tx[w])' \subseteq Own(tx[w])
    BY <1>1, <2>1 DEF InOrder, RowsHeld
  <2> QED
    BY <1>1, <1>6, <2>1, <2>2, <2>3 DEF InOrder, Settled
<1>12. CASE LockSplit(w)
  <2>1. PICK o \in First(tx[w].want) :
           tx' = [tx EXCEPT ![w].want = @ \ {o},
                            ![w].got = IF Unswept(o) \/ o \in Own(tx[w])
                                       THEN @ \cup {o} ELSE @,
                            ![w].locks = IF o \in split THEN @ \cup {SplitRow(o)} ELSE @]
    BY <1>12 DEF LockSplit
  <2>2. /\ tx'[w].pc = "lock" /\ tx[w].pc = "lock" /\ tx'[w].order = tx[w].order
        /\ split' = split /\ order' = order /\ tx'[w].want = tx[w].want \ {o}
    BY <1>1, <1>12, <2>1 DEF LockSplit, Tx, tables
  <2>3. /\ tx'[w].got = (IF Unswept(o) \/ o \in Own(tx[w]) THEN tx[w].got \cup {o} ELSE tx[w].got)
        /\ tx'[w].locks = (IF o \in split THEN tx[w].locks \cup {SplitRow(o)} ELSE tx[w].locks)
    BY <1>1, <2>1 DEF Tx
  <2>4. Own(tx[w])' = Own(tx[w]) /\ (Settled(tx[w])' <=> Settled(tx[w]))
    BY <2>2 DEF Own, PaysOrder, Settled
  <2>5. o \in Orders /\ tx[w].want \subseteq Orders /\ \A p \in tx[w].want : o <= p
    BY <1>1 DEF First, Tx
  <2>6. tx'[w].locks \subseteq {SplitRow(p) : p \in Orders}
                             \cup {ParentKey(p) : p \in Own(tx[w])}
                             \cup {OrderRow(p) : p \in Own(tx[w])}
    BY <1>1, <2>2, <2>3, <2>5 DEF InOrder
  <2>7. \A p \in RowsHeld(tx[w])' \ Own(tx[w]), q \in tx'[w].want : p < q
    <3> SUFFICES ASSUME NEW p \in RowsHeld(tx[w])' \ Own(tx[w]), NEW q \in tx'[w].want
                 PROVE  p < q
      OBVIOUS
    <3>1. q \in tx[w].want /\ q # o /\ q \in Nat /\ o \in Nat /\ o <= q
      BY <2>2, <2>5
    <3>2. CASE p \in RowsHeld(tx[w])
      BY <1>1, <2>2, <3>1, <3>2 DEF InOrder
    <3>3. CASE p = o
      BY <3>1, <3>3
    <3> QED
      BY <2>3, <2>5, <3>2, <3>3, RowFacts DEF RowsHeld
  <2> QED
    BY <1>1, <2>2, <2>4, <2>6, <2>7 DEF InOrder
<1> QED
  BY <1>3, <1>4, <1>5, <1>7, <1>8, <1>9, <1>10, <1>11, <1>12 DEF Transaction

(***************************************************************************)
(* Locks stay in order.                                                    *)
(***************************************************************************)
LEMMA OrderNext == IInv /\ LocksInOrder /\ [Next]_vars => LocksInOrder'
<1> SUFFICES ASSUME IInv, LocksInOrder, [Next]_vars PROVE LocksInOrder'
  OBVIOUS
<1>1. order \in [Orders -> OrderStatus] /\ TypeOK /\ tx \in [Workers -> Tx]
  BY DEF IInv, TypeOK
<1>2. ASSUME NEW o \in Orders, Create(o) \/ Cancel(o) PROVE LocksInOrder'
  BY <1>1, <1>2, OthersInOrder, {} \in SUBSET Workers DEF Create, Cancel
<1>3. ASSUME NEW d \in DOMAIN dividends, DropDividend(d) PROVE LocksInOrder'
  BY <1>1, <1>3, OthersInOrder, {} \in SUBSET Workers DEF DropDividend
<1>4. ASSUME NEW w \in Workers, Transaction(w) PROVE LocksInOrder'
  <2>1. InOrder(tx[w])'
    BY <1>4, OwnInOrder
  <2>2. \A v \in Workers \ {w} : tx'[v] = tx[v]
    BY <1>1, <1>4 DEF Transaction, DeleteBegin, PayBegin, SweepBegin, InsertSplit, CheckParent,
       MarkPaid, AutoSweep, LockSplit, Share, PayUnshared, DeleteCommit, Rollback, Finish
  <2>3. \/ order' = order /\ split' = split
        \/ Share(w) \/ PayUnshared(w) \/ DeleteCommit(w)
    BY <1>4 DEF Transaction, DeleteBegin, PayBegin, SweepBegin, InsertSplit, CheckParent,
       MarkPaid, AutoSweep, LockSplit, Rollback, tables
  <2>4. \A o \in Orders : order[o] \in {"paid", "deleted"} => order'[o] \in {"paid", "deleted"}
    BY <1>1, <2>3 DEF Share, PayUnshared, DeleteCommit
  <2>5. /\ split' \subseteq split \cup Own(tx[w])
        /\ split' = split \/ tx[w].pc \in {"lock", "auto", "cascade"}
    BY <2>3 DEF Share, PayUnshared, DeleteCommit
  <2>6. ASSUME NEW v \in Workers \ {w}, tx[v].pc \in {"parent", "mark"} \/ Settled(tx[v])
        PROVE  tx[v].order \notin split' \ split
    <3>1. SplitRow(tx[v].order) \in tx[v].locks
      BY <2>6 DEF IInv, LocksProtect, Secured
    <3>2. tx[w].pc \in {"lock", "auto"} => \A o \in Own(tx[w]) : SplitRow(o) \in tx[w].locks
      BY DEF IInv, LocksProtect, Secured, Own, PaysOrder, Settled
    <3>3. tx[w].pc = "cascade" => Own(tx[w]) = {}
      BY DEF Own, PaysOrder
    <3>4. tx[v].locks \cap tx[w].locks = {}
      BY DEF IInv, LocksProtect
    <3> QED
      BY <2>5, <3>1, <3>2, <3>3, <3>4
  <2> QED
    BY <1>1, <2>1, <2>2, <2>4, <2>6, OthersInOrder, {w} \in SUBSET Workers
<1>5. CASE UNCHANGED vars
  <2>1. UNCHANGED <<order, split, swept, dividends, tx>>
    BY <1>5 DEF vars
  <2> QED
    BY <2>1 DEF LocksInOrder, InOrder, Settled, PaysOrder, Own
<1> QED
  BY <1>2, <1>3, <1>4, <1>5 DEF Next

(***************************************************************************)
(* Every transaction takes its locks in order.                             *)
(***************************************************************************)
THEOREM LocksInOrderAlways == Spec => []LocksInOrder
<1>1. Init => LocksInOrder
  BY DEF Init, Idle, LocksInOrder, InOrder, Settled, PaysOrder, Own
<1> QED
  BY <1>1, OrderNext, Invariance, PTL DEF Spec
-----------------------------------------------------------------------------
(***************************************************************************)
(* A function on a finite set has a greatest value: the sets of elements   *)
(* that are at least as great as a given one have a smallest among them.   *)
(***************************************************************************)
LEMMA GreatestExists ==
    ASSUME NEW S, IsFiniteSet(S), S # {}, NEW f \in [S -> Nat]
    PROVE  \E x \in S : \A y \in S : f[y] <= f[x]
<1> DEFINE Above(x) == {y \in S : f[x] <= f[y]}
           T        == {Above(x) : x \in S}
<1>1. T \subseteq FiniteSubsetsOf(S) /\ T # {}
  <2>1. ASSUME NEW x \in S PROVE Above(x) \in FiniteSubsetsOf(S)
    <3>1. Above(x) \subseteq S
      OBVIOUS
    <3> HIDE DEF Above
    <3>2. IsFiniteSet(Above(x))
      BY <3>1, FS_Subset
    <3> QED
      BY <3>1, <3>2 DEF FiniteSubsetsOf
  <2> HIDE DEF Above
  <2>2. T # {}
    OBVIOUS
  <2> QED
    BY <2>1, <2>2
<1>2. IsWellFoundedOn(StrictSubsetOrdering(S), FiniteSubsetsOf(S))
  BY FS_StrictSubsetOrderingWellFounded
<1> HIDE DEF T
<1>3. \E m \in T : \A n \in T : ~ (<<n, m>> \in StrictSubsetOrdering(S))
  BY <1>1, <1>2, WFMin
<1>4. PICK m \in T : \A n \in T : ~ (<<n, m>> \in StrictSubsetOrdering(S))
  BY <1>3
<1>5. PICK x \in S : m = Above(x)
  BY <1>4 DEF T
<1>6. ASSUME NEW y \in S, ~(f[y] <= f[x]) PROVE FALSE
  <2>1. f[x] \in Nat /\ f[y] \in Nat
    OBVIOUS
  <2>2. Above(y) \subseteq Above(x)
    <3> SUFFICES ASSUME NEW z \in S, f[y] <= f[z] PROVE f[x] <= f[z]
      OBVIOUS
    <3>1. f[z] \in Nat
      OBVIOUS
    <3> QED
      BY <1>6, <2>1, <3>1
  <2>3. x \in Above(x) /\ x \notin Above(y)
    BY <1>6, <2>1
  <2>4. <<Above(y), Above(x)>> \in StrictSubsetOrdering(S)
    BY <2>2, <2>3 DEF StrictSubsetOrdering
  <2>5. Above(y) \in T
    BY DEF T
  <2> QED
    BY <1>4, <1>5, <2>4, <2>5
<1> QED
  BY <1>6

(***************************************************************************)
(* Whom a transaction can wait for, if that one waits as well: for a sweep *)
(* or for a payment that has inserted its split row, and the latter waits  *)
(* for nobody who waits.  A sweep waits for sweeps that are further on.    *)
(***************************************************************************)
LEMMA WaitFacts ==
    ASSUME IInv, LocksInOrder, NEW w \in Workers, NEW v \in Workers, WaitsFor(w, v),
           Needs(v) # {}
    PROVE  /\ tx[w].pc \notin {"parent", "mark"}
           /\ tx[v].pc \in {"parent", "mark", "lock"}
           /\ tx[w].pc = "lock" /\ tx[v].pc = "lock" =>
                 \E o \in First(tx[w].want) : \A p \in First(tx[v].want) : o < p
<1>1. /\ v # w /\ tx[v].locks \cap tx[w].locks = {}
      /\ Secured(tx[v]) /\ Secured(tx[w]) /\ InOrder(tx[v]) /\ InOrder(tx[w])
      /\ tx[v] \in Tx /\ tx[w] \in Tx
  BY DEF WaitsFor, IInv, LocksProtect, LocksInOrder, TypeOK
<1>2. PICK row \in Needs(w) : row \in tx[v].locks
  BY DEF WaitsFor
<1>3. tx[v].pc \in {"parent", "mark", "cascade", "lock"}
  BY <1>1, <1>2 DEF Secured, Needs, Tx, Paying
<1>4. ASSUME NEW o, ParentKey(o) \in tx[v].locks
      PROVE  /\ tx[v].pc # "parent" /\ tx[v].order = o
             /\ tx[v].pc # "cascade" => SplitRow(o) \in tx[v].locks
  <2>1. CASE tx[v].pc = "lock"
    <3>1. o \in Own(tx[v])
      BY <1>1, <1>4, <2>1, RowFacts DEF InOrder
    <3> QED
      BY <1>1, <2>1, <3>1 DEF Own, Secured, Settled
  <2> QED
    BY <1>1, <1>3, <1>4, <2>1, RowFacts DEF InOrder
<1>5. ASSUME NEW o, OrderRow(o) \in tx[v].locks
      PROVE  SplitRow(o) \in tx[v].locks \/ ParentKey(o) \in tx[v].locks
  <2>1. CASE tx[v].pc = "lock"
    <3>1. o \in Own(tx[v])
      BY <1>1, <1>5, <2>1, RowFacts DEF InOrder
    <3> QED
      BY <1>1, <2>1, <3>1 DEF Own, Secured, Settled
  <2> QED
    BY <1>1, <1>3, <1>5, <2>1, RowFacts DEF InOrder
<1>6. tx[w].pc # "mark"
  <2> SUFFICES ASSUME tx[w].pc = "mark" PROVE FALSE
    OBVIOUS
  <2>1. OrderRow(tx[w].order) \in tx[v].locks
    BY <1>2 DEF Needs
  <2>2. {SplitRow(tx[w].order), ParentKey(tx[w].order)} \subseteq tx[w].locks
    BY <1>1 DEF InOrder
  <2> QED
    BY <1>1, <1>5, <2>1, <2>2
<1>7. tx[w].pc # "parent"
  <2> SUFFICES ASSUME tx[w].pc = "parent" PROVE FALSE
    OBVIOUS
  <2>1. ParentKey(tx[w].order) \in tx[v].locks
    BY <1>2 DEF Needs
  <2>2. SplitRow(tx[w].order) \in tx[w].locks /\ tx[w].order \notin split
    BY <1>1 DEF InOrder
  <2>3. tx[v].pc = "cascade" /\ tx[v].order \notin split
    BY <1>1, <1>4, <2>1, <2>2
  <2> QED
    BY <2>3 DEF Needs
<1>8. PICK o : /\ row = SplitRow(o)
               /\ tx[w].pc = "lock" => o \in First(tx[w].want)
  BY <1>2, <1>6, <1>7 DEF Needs
<1>9. tx[v].pc # "cascade"
  BY <1>1, <1>2, <1>8, RowFacts DEF InOrder
<1>10. ASSUME tx[w].pc = "lock", tx[v].pc = "lock", NEW p \in First(tx[v].want)
       PROVE  o < p
  <2>1. o \in tx[w].want /\ o \in RowsHeld(tx[v]) /\ p \in tx[v].want
    BY <1>1, <1>2, <1>8, <1>10 DEF First, RowsHeld, Tx
  <2>2. o \notin Own(tx[w])
    BY <1>1, <1>2, <1>8, <1>10 DEF Own, Secured, Settled
  <2>3. o \notin Own(tx[v])
    BY <1>1, <1>10, <2>1, <2>2 DEF Own, Secured, Settled, InOrder
  <2> QED
    BY <1>1, <1>10, <2>1, <2>3 DEF InOrder
<1> QED
  BY <1>3, <1>6, <1>7, <1>8, <1>9, <1>10

(***************************************************************************)
(* No deadlock.  In a group all of whose members wait for members, those  *)
(* waited for are sweeps, and the one that is furthest on waits for none.  *)
(***************************************************************************)
LEMMA NoCircle == IInv /\ LocksInOrder => NoDeadlock
<1> SUFFICES ASSUME IInv, LocksInOrder, NEW group \in (SUBSET Workers) \ {{}},
                    \A w \in group : \E v \in group : WaitsFor(w, v)
             PROVE  FALSE
  BY DEF NoDeadlock
<1>1. \A w \in group : Needs(w) # {} /\ tx[w] \in Tx
  BY DEF WaitsFor, IInv, TypeOK
<1>2. \A w \in group : tx[w].pc \notin {"parent", "mark"}
  BY <1>1, WaitFacts
<1>3. \A w \in group : \E v \in group : WaitsFor(w, v) /\ tx[v].pc = "lock"
  BY <1>1, <1>2, WaitFacts
<1> DEFINE S       == {w \in group : tx[w].pc = "lock"}
           next(w) == CHOOSE o : o \in First(tx[w].want)
           f       == [w \in S |-> next(w)]
<1>4. \A w \in S : First(tx[w].want) = {next(w)} /\ next(w) \in Nat
  <2> SUFFICES ASSUME NEW w \in S PROVE First(tx[w].want) = {next(w)} /\ next(w) \in Nat
    OBVIOUS
  <2>1. First(tx[w].want) # {} /\ tx[w].want \subseteq Nat
    BY <1>1 DEF Needs, Tx
  <2>2. next(w) \in First(tx[w].want)
    BY <2>1
  <2>3. \A o, p \in First(tx[w].want) : o \in Nat /\ p \in Nat /\ o <= p
    BY <2>1 DEF First
  <2> HIDE DEF next
  <2> QED
    BY <2>2, <2>3
<1>5. S # {} /\ IsFiniteSet(S) /\ f \in [S -> Nat]
  <2>1. S \subseteq Workers
    OBVIOUS
  <2>2. IsFiniteSet(S)
    BY <2>1, FS_Subset
  <2>3. S # {}
    BY <1>3
  <2> HIDE DEF next
  <2>4. f \in [S -> Nat]
    BY <1>4
  <2> QED
    BY <2>2, <2>3, <2>4
<1> HIDE DEF f, S
<1>6. PICK w \in S : \A v \in S : f[v] <= f[w]
  BY <1>5, GreatestExists
<1>7. PICK v \in group : WaitsFor(w, v) /\ tx[v].pc = "lock"
  BY <1>3, <1>6 DEF S
<1>8. v \in S /\ tx[w].pc = "lock" /\ w \in group /\ v \in Workers /\ w \in Workers
  BY <1>6, <1>7 DEF S
<1>9. \E o \in First(tx[w].want) : \A p \in First(tx[v].want) : o < p
  BY <1>1, <1>7, <1>8, WaitFacts
<1>10. f[w] < f[v] /\ f[w] \in Nat /\ f[v] \in Nat
  BY <1>4, <1>8, <1>9 DEF f
<1> QED
  BY <1>6, <1>8, <1>10

(***************************************************************************)
(* Requests never wait for each other in a circle.                         *)
(***************************************************************************)
THEOREM NoDeadlockAlways == Spec => []NoDeadlock
BY NoCircle, Invariance, LocksInOrderAlways, PTL
-----------------------------------------------------------------------------
(***************************************************************************)
(* The amounts of a payment (OrderSplit), for any tables of rates and any  *)
(* subtotals.                                                              *)
(*                                                                         *)
(* Unless they are mixed, the five rates read so far are those of the      *)
(* table that is saved now; once all five are read, those of a table that  *)
(* was saved then.                                                         *)
(***************************************************************************)
RatesOfOneTable ==
    ~mixed =>
        IF fetched < 5 THEN \A i \in 1..fetched : rates[Keys[i]] = setting[Keys[i]]
                       ELSE \E c \in Configs : \A k \in Parts : rates[k] = c[k]

SplitInv == SplitTypeOK /\ rates["pit"] <= 100 /\ RatesOfOneTable /\ SplitWithinOrder

LEMMA KeyFacts ==
    /\ Len(Keys) = 7 /\ Keys[7] = "pit"
    /\ \A i \in 1..7 : Keys[i] \in Names /\ (Keys[i] \in Parts <=> i <= 5)
    /\ \A i, j \in 1..7 : Keys[i] = Keys[j] => i = j
    /\ \A k \in Parts : \E i \in 1..5 : Keys[i] = k
<1>1. Len(Keys) = 7
  BY DEF Keys
<1>2. /\ Keys[1] = "seller" /\ Keys[2] = "affiliate" /\ Keys[3] = "equal" /\ Keys[4] = "pool"
      /\ Keys[5] = "cost" /\ Keys[6] = "min" /\ Keys[7] = "pit"
  BY DEF Keys
<1>3. \A i \in 1..7 : i = 1 \/ i = 2 \/ i = 3 \/ i = 4 \/ i = 5 \/ i = 6 \/ i = 7
  OBVIOUS
<1>4. \A i \in 1..7 : Keys[i] \in Names /\ (Keys[i] \in Parts <=> i <= 5)
  BY <1>2, <1>3 DEF Names, Parts
<1>5. \A i, j \in 1..7 : Keys[i] = Keys[j] => i = j
  BY <1>2, <1>3
<1>6. \A k \in Parts : \E i \in 1..5 : Keys[i] = k
  BY <1>2 DEF Parts
<1> QED
  BY <1>1, <1>2, <1>4, <1>5, <1>6

LEMMA TableFacts ==
    ASSUME NEW c \in Configs \cup {Default}
    PROVE  c \in [Names -> Nat] /\ c["pit"] \in Nat /\ c["pit"] <= 100
<1>1. c \in [Names -> Nat] /\ c["pit"] <= 100
  BY SplitAssumption DEF SplitAssumption
<1>2. "pit" \in Names
  BY DEF Names
<1> QED
  BY <1>1, <1>2

LEMMA ReadRateStep ==
    ASSUME SplitInv, ReadRate
    PROVE  SplitInv'
<1> DEFINE key == Keys[fetched + 1]
<1>1. /\ fetched \in 0..6 /\ fetched' = fetched + 1
      /\ UNCHANGED <<setting, subtotal, hasAffiliate, part, commission>>
      /\ fetched + 1 \in 1..7
  BY KeyFacts DEF ReadRate, SplitInv, SplitTypeOK, sale
<1>2. PICK v \in Nat : /\ rates' = [rates EXCEPT ![key] = v]
                       /\ \E c \in Configs \cup {Default} : v = c[key]
                       /\ \/ v = setting[key] /\ mixed' = mixed
                          \/ mixed' = (mixed \/ key \in Parts)
  <2>1. key \in Names
    BY <1>1, KeyFacts
  <2>2. setting[key] \in Nat /\ Default[key] \in Nat /\ setting \in Configs
    BY <2>1, TableFacts DEF SplitInv, SplitTypeOK
  <2> QED
    BY <1>1, <2>2 DEF ReadRate, Float
<1>3. /\ rates \in [Names -> Nat] /\ rates' \in [Names -> Nat]
      /\ key \in Names /\ mixed \in BOOLEAN /\ mixed' \in BOOLEAN
  BY <1>1, <1>2, KeyFacts DEF SplitInv, SplitTypeOK
<1>4. rates'["pit"] <= 100
  <2>1. CASE key = "pit"
    BY <1>2, <1>3, <2>1, TableFacts
  <2>2. CASE key # "pit"
    BY <1>2, <1>3, <2>2 DEF SplitInv, Names
  <2> QED
    BY <2>1, <2>2
<1>5. RatesOfOneTable'
  <2> SUFFICES ASSUME ~mixed'
               PROVE  IF fetched' < 5
                      THEN \A i \in 1..fetched' : rates'[Keys[i]] = setting'[Keys[i]]
                      ELSE \E c \in Configs : \A k \in Parts : rates'[k] = c[k]
    BY KeyFacts DEF RatesOfOneTable, Keys
  <2>1. ~mixed /\ (key \in Parts => v = setting[key])
    BY <1>2, <1>3
  <2>2. ASSUME fetched < 5
        PROVE  \A i \in 1..fetched' : rates'[Keys[i]] = setting[Keys[i]]
    <3> SUFFICES ASSUME NEW i \in 1..fetched' PROVE rates'[Keys[i]] = setting[Keys[i]]
      OBVIOUS
    <3>1. CASE i = fetched + 1
      <4>1. Keys[i] = key /\ key \in Parts
        BY <1>1, <2>2, <3>1, KeyFacts
      <4> QED
        BY <1>2, <1>3, <2>1, <4>1
    <3>2. CASE i # fetched + 1
      <4>1. i \in 1..fetched /\ i \in 1..7
        BY <1>1, <3>2
      <4>2. Keys[i] # key
        BY <1>1, <3>2, <4>1, KeyFacts
      <4>3. rates[Keys[i]] = setting[Keys[i]] /\ Keys[i] \in Names
        BY <2>1, <2>2, <4>1, KeyFacts DEF SplitInv, RatesOfOneTable
      <4> QED
        BY <1>2, <1>3, <4>2, <4>3
    <3> QED
      BY <3>1, <3>2
  <2>3. CASE fetched' < 5
    BY <1>1, <2>2, <2>3
  <2>4. CASE fetched' = 5
    <3>1. \A i \in 1..5 : rates'[Keys[i]] = setting[Keys[i]]
      BY <1>1, <2>2, <2>4
    <3>2. \A k \in Parts : rates'[k] = setting[k]
      BY <3>1, KeyFacts
    <3> QED
      BY <2>4, <3>2 DEF SplitInv, SplitTypeOK
  <2>5. CASE fetched' > 5
    <3>1. key \notin Parts
      BY <1>1, <2>5, KeyFacts
    <3>2. PICK c \in Configs : \A k \in Parts : rates[k] = c[k]
      BY <1>1, <2>1, <2>5 DEF SplitInv, RatesOfOneTable
    <3>3. \A k \in Parts : rates'[k] = rates[k]
      BY <1>2, <1>3, <3>1 DEF Names
    <3> QED
      BY <1>1, <2>5, <3>2, <3>3
  <2> QED
    BY <1>1, <2>3, <2>4, <2>5
<1>6. SplitTypeOK'
  BY <1>1, <1>3, KeyFacts DEF SplitInv, SplitTypeOK, Done, NoParts, Keys
<1>7. SplitWithinOrder'
  <2>1. mixed => mixed'
    BY <1>2, <1>3
  <2> QED
    BY <1>1, <2>1 DEF SplitInv, SplitWithinOrder, Done, NoParts, PartsSum, NetAndTax
<1> QED
  BY <1>4, <1>5, <1>6, <1>7 DEF SplitInv

LEMMA UpdateStep ==
    ASSUME SplitInv, Update
    PROVE  SplitInv'
<1>1. /\ ~Done /\ setting' \in Configs /\ mixed' = (mixed \/ Reading)
      /\ UNCHANGED <<rates, fetched, subtotal, hasAffiliate, part, commission>>
  BY DEF Update, sale
<1>2. ~Done'
  BY <1>1 DEF Done, NoParts
<1>3. fetched \in 0..7 /\ mixed \in BOOLEAN /\ rates["pit"] <= 100
  BY KeyFacts DEF SplitInv, SplitTypeOK
<1>4. ~mixed' => ~mixed /\ ~Reading
  BY <1>1, Zenon
<1>5. RatesOfOneTable'
  <2>1. CASE ~mixed'
    <3>1. fetched = 0 \/ fetched >= 5
      <4> SUFFICES ASSUME fetched \in 1..4 PROVE Reading
        BY <1>3, <1>4, <2>1
      <4>1. Keys[fetched + 1] \in Parts
        BY KeyFacts
      <4> QED
        BY <4>1, KeyFacts DEF Reading
    <3>2. CASE fetched = 0
      BY <1>1, <3>2 DEF RatesOfOneTable
    <3>3. CASE fetched >= 5
      <4>1. \E c \in Configs : \A k \in Parts : rates[k] = c[k]
        BY <1>3, <1>4, <2>1, <3>3 DEF SplitInv, RatesOfOneTable
      <4>2. fetched' = fetched /\ rates' = rates
        BY <1>1
      <4> QED
        BY <1>3, <3>3, <4>1, <4>2 DEF RatesOfOneTable
    <3> QED
      BY <3>1, <3>2, <3>3
  <2>2. CASE mixed'
    BY <2>2 DEF RatesOfOneTable
  <2> QED
    BY <2>1, <2>2
<1>6. Reading \in BOOLEAN
  BY DEF Reading
<1>7. SplitTypeOK'
  BY <1>1, <1>2, <1>3, <1>6, KeyFacts DEF SplitInv, SplitTypeOK, Keys
<1> QED
  BY <1>1, <1>2, <1>3, <1>5, <1>7 DEF SplitInv, SplitWithinOrder

(***************************************************************************)
(* Rounding to the nearest dong adds half a dong at most, and never makes  *)
(* a tax of 100 % or less exceed its amount.                               *)
(***************************************************************************)
LEMMA RoundFacts ==
    ASSUME NEW x \in Nat, NEW r \in Nat
    PROVE  /\ Round(x, r) \in Nat /\ 200 * Round(x, r) <= 2 * (x * r) + 100
           /\ r <= 100 => Round(x, r) <= x
<1> DEFINE p == x * r
<1>1. p \in Nat
  OBVIOUS
<1>2. 2 * x * r = 2 * p
  OBVIOUS
<1>3. r <= 100 => p <= 100 * x
  <2> SUFFICES ASSUME r <= 100 PROVE p <= 100 * x
    OBVIOUS
  <2>1. PICK d \in Nat : 100 = r + d
    <3>1. 100 - r \in Nat
      OBVIOUS
    <3> QED
      BY <3>1
  <2>2. 100 * x = x * r + x * d /\ x * d \in Nat
    BY <2>1
  <2> QED
    BY <1>1, <2>2
<1> HIDE DEF p
<1>4. Round(x, r) = (2 * p + 100) \div 200
  BY <1>2 DEF Round
<1> QED
  BY <1>1, <1>3, <1>4 DEF p

(***************************************************************************)
(* Five parts rounded on their own exceed the subtotal by two dong at      *)
(* most, when their rates come to 100 % at most.                           *)
(***************************************************************************)
LEMMA FiveParts ==
    ASSUME NEW x \in Nat, NEW a \in Nat, NEW b \in Nat, NEW c \in Nat, NEW d \in Nat, NEW e \in Nat,
           NEW s \in Nat, NEW t \in Nat, NEW u \in Nat, NEW v \in Nat, NEW w \in Nat,
           a + b + c + d + e <= 100,
           200 * s <= 2 * (x * a) + 100, 200 * t <= 2 * (x * b) + 100,
           200 * u <= 2 * (x * c) + 100, 200 * v <= 2 * (x * d) + 100,
           200 * w <= 2 * (x * e) + 100
    PROVE  x - (s + t + u + v + w) >= -2
<1>1. PICK f \in Nat : 100 = a + b + c + d + e + f
  <2>1. 100 - (a + b + c + d + e) \in Nat
    OBVIOUS
  <2> QED
    BY <2>1
<1>2. x * 100 = x * a + x * b + x * c + x * d + x * e + x * f
  BY <1>1
<1>3. /\ x * a \in Nat /\ x * b \in Nat /\ x * c \in Nat /\ x * d \in Nat /\ x * e \in Nat
      /\ x * f \in Nat
  OBVIOUS
<1> QED
  BY <1>2, <1>3

LEMMA PortionFacts ==
    ASSUME SplitInv, NEW k \in Parts
    PROVE  /\ Portion(k) \in Nat /\ rates[k] \in Nat /\ subtotal \in Nat
           /\ 200 * Portion(k) <= 2 * (subtotal * rates[k]) + 100
<1>1. subtotal \in Nat /\ rates[k] \in Nat
  BY SplitAssumption DEF SplitAssumption, SplitInv, SplitTypeOK, Names
<1>2. subtotal * rates[k] \in Nat
  BY <1>1
<1>3. /\ Round(subtotal, rates[k]) \in Nat
      /\ 200 * Round(subtotal, rates[k]) <= 2 * (subtotal * rates[k]) + 100
  BY <1>1, RoundFacts
<1>4. Portion(k) = Round(subtotal, rates[k]) \/ Portion(k) = 0
  BY DEF Portion
<1> QED
  BY <1>1, <1>2, <1>3, <1>4

LEMMA CommissionFacts ==
    ASSUME SplitInv, NEW amount \in Nat
    PROVE  LET c == CreateSalesCommission(amount) IN
           c.tax \in Nat /\ c.net \in Nat /\ c.net + c.tax = amount
<1> DEFINE tax == Round(amount, rates["pit"])
<1>1. rates["pit"] \in Nat /\ rates["pit"] <= 100
  BY DEF SplitInv, SplitTypeOK, Names
<1>2. tax \in Nat /\ tax <= amount
  BY <1>1, RoundFacts
<1> HIDE DEF tax
<1>3. amount - tax \in Nat /\ (amount - tax) + tax = amount
  BY <1>2
<1>4. CreateSalesCommission(amount) = [amount |-> amount, tax |-> tax, net |-> amount - tax]
  BY DEF CreateSalesCommission, tax
<1> QED
  BY <1>2, <1>3, <1>4

LEMMA SplitStep ==
    ASSUME SplitInv, Split
    PROVE  SplitInv'
<1>1. /\ fetched = 7
      /\ part' = [k \in Parts \cup {"operations"} |->
                    IF k = "operations" THEN Operations ELSE Portion(k)]
      /\ commission' = [k \in Earners |-> CreateSalesCommission(Portion(k))]
      /\ UNCHANGED <<setting, rates, fetched, mixed, subtotal, hasAffiliate>>
  BY KeyFacts DEF Split, sale
<1> DEFINE portion == [k \in Parts |-> Portion(k)]
<1>2. portion \in [Parts -> Nat]
  BY PortionFacts
<1>3. /\ \A k \in Parts : part'[k] = portion[k]
      /\ part'["operations"] = subtotal - PartsSum(portion)
  BY <1>1 DEF Operations, Parts
<1>4. \A k \in Parts : /\ rates[k] \in Nat /\ subtotal \in Nat
                       /\ 200 * portion[k] <= 2 * (subtotal * rates[k]) + 100
  BY PortionFacts
<1>5. \A k \in Earners : portion[k] = Portion(k) /\ k \in Parts
  BY DEF Earners, Parts
<1>6. \A k \in {"seller", "affiliate"} : portion[k] = Portion(k)
  BY DEF Parts
<1> HIDE DEF portion
<1>7. PartsSum(portion) \in Nat
  BY <1>2 DEF PartsSum, Parts
<1>8. PartsSum(part') = PartsSum(portion)
  BY <1>3 DEF PartsSum, Parts
<1>9. \A k \in {"seller", "affiliate"} : part'[k] = NetAndTax(k)'
  <2> SUFFICES ASSUME NEW k \in {"seller", "affiliate"} PROVE part'[k] = NetAndTax(k)'
    OBVIOUS
  <2>1. portion[k] \in Nat /\ part'[k] = portion[k] /\ portion[k] = Portion(k)
    BY <1>2, <1>3, <1>6 DEF Parts
  <2>2. CASE k \in Earners
    <3>1. commission'[k] = CreateSalesCommission(Portion(k)) /\ k \in DOMAIN commission'
      BY <1>1, <2>2
    <3> QED
      BY <2>1, <3>1, CommissionFacts DEF NetAndTax
  <2>3. CASE k \notin Earners
    <3>1. k \notin DOMAIN commission'
      BY <1>1, <2>3
    <3>2. Portion(k) = 0
      BY <2>1, <2>3 DEF Earners
    <3> QED
      BY <2>1, <3>1, <3>2 DEF NetAndTax
  <2> QED
    BY <2>2, <2>3
<1>10. RatesAddUp => mixed \/ subtotal - PartsSum(portion) >= -2
  <2> SUFFICES ASSUME RatesAddUp, ~mixed PROVE subtotal - PartsSum(portion) >= -2
    OBVIOUS
  <2>1. PICK c \in Configs : \A k \in Parts : rates[k] = c[k]
    BY <1>1 DEF SplitInv, RatesOfOneTable
  <2>2. PartsSum(rates) <= 100
    <3>1. PartsSum(c) <= 100
      BY DEF RatesAddUp
    <3> QED
      BY <2>1, <3>1 DEF PartsSum, Parts
  <2> DEFINE x == subtotal
             a == rates["seller"]    s == portion["seller"]
             b == rates["affiliate"] t == portion["affiliate"]
             c2 == rates["equal"]    u == portion["equal"]
             d == rates["pool"]      v == portion["pool"]
             e == rates["cost"]      w == portion["cost"]
  <2>3. /\ x \in Nat /\ a \in Nat /\ b \in Nat /\ c2 \in Nat /\ d \in Nat /\ e \in Nat
        /\ s \in Nat /\ t \in Nat /\ u \in Nat /\ v \in Nat /\ w \in Nat
    BY <1>2, <1>4 DEF Parts
  <2>4. /\ 200 * s <= 2 * (x * a) + 100 /\ 200 * t <= 2 * (x * b) + 100
        /\ 200 * u <= 2 * (x * c2) + 100 /\ 200 * v <= 2 * (x * d) + 100
        /\ 200 * w <= 2 * (x * e) + 100
    BY <1>4 DEF Parts
  <2>5. a + b + c2 + d + e <= 100
    BY <2>2 DEF PartsSum
  <2>6. PartsSum(portion) = s + t + u + v + w
    BY DEF PartsSum
  <2> HIDE DEF x, a, b, c2, d, e, s, t, u, v, w
  <2>7. x - (s + t + u + v + w) >= -2
    BY <2>3, <2>4, <2>5, FiveParts
  <2> QED
    BY <2>6, <2>7 DEF x
<1>11. SplitWithinOrder'
  <2>1. subtotal \in Nat
    BY PortionFacts DEF Parts
  <2>2. PartsSum(part') + part'["operations"] = subtotal
    BY <1>3, <1>7, <1>8, <2>1
  <2> QED
    BY <1>1, <1>3, <1>9, <1>10, <2>2 DEF SplitWithinOrder, PartsSum
<1>12. SplitTypeOK'
  <2>1. part'["operations"] \in Int /\ \A k \in Parts : part'[k] \in Nat
    <3>1. subtotal \in Nat
      BY PortionFacts DEF Parts
    <3> QED
      BY <1>2, <1>3, <1>7, <3>1
  <2>2. \A k \in DOMAIN commission' :
          {commission'[k].tax, commission'[k].net} \subseteq Nat
    <3> SUFFICES ASSUME NEW k \in Earners PROVE {commission'[k].tax, commission'[k].net} \subseteq Nat
      BY <1>1
    <3>1. commission'[k] = CreateSalesCommission(portion[k]) /\ portion[k] \in Nat
      BY <1>1, <1>2, <1>5
    <3> QED
      BY <3>1, CommissionFacts
  <2> QED
    BY <1>1, <2>1, <2>2 DEF SplitInv, SplitTypeOK, Keys, Parts
<1>13. RatesOfOneTable'
  BY <1>1 DEF SplitInv, RatesOfOneTable
<1> QED
  BY <1>1, <1>11, <1>12, <1>13 DEF SplitInv

LEMMA SplitNextInv == SplitInv /\ [SplitNext]_splitVars => SplitInv'
<1> SUFFICES ASSUME SplitInv, [SplitNext]_splitVars PROVE SplitInv'
  OBVIOUS
<1>1. CASE UNCHANGED splitVars
  <2>1. /\ UNCHANGED <<setting, rates, fetched, mixed, subtotal, hasAffiliate>>
        /\ UNCHANGED <<part, commission>>
    BY <1>1 DEF splitVars, sale
  <2> QED
    BY <2>1 DEF SplitInv, SplitTypeOK, RatesOfOneTable, SplitWithinOrder, Done, NoParts, PartsSum,
                NetAndTax, Keys
<1> QED
  BY <1>1, UpdateStep, ReadRateStep, SplitStep DEF SplitNext

LEMMA SplitInitInv == SplitInit => SplitInv
<1> SUFFICES ASSUME SplitInit PROVE SplitInv
  OBVIOUS
<1>1. Default \in [Names -> Nat] /\ Default["pit"] <= 100
  BY TableFacts
<1>2. ~Done
  BY DEF SplitInit, Done
<1>3. SplitTypeOK
  <2>1. Len(Keys) = 7
    BY KeyFacts
  <2>2. fetched \in 0..Len(Keys) /\ mixed \in BOOLEAN
    <3>1. fetched = 0 /\ mixed = FALSE
      BY DEF SplitInit
    <3>2. mixed \in BOOLEAN
      BY <3>1, Zenon
    <3> QED
      BY <2>1, <3>1, <3>2
  <2>3. /\ setting \in Configs /\ rates \in [Names -> Nat]
        /\ subtotal \in Subtotals /\ hasAffiliate \in BOOLEAN
    BY <1>1 DEF SplitInit
  <2> QED
    BY <1>2, <2>2, <2>3 DEF SplitTypeOK
<1>4. RatesOfOneTable
  BY DEF SplitInit, RatesOfOneTable
<1> QED
  BY <1>1, <1>2, <1>3, <1>4 DEF SplitInit, SplitInv, SplitWithinOrder

LEMMA SplitAlways == SplitSpec => []SplitInv
BY SplitInitInv, SplitNextInv, PTL DEF SplitSpec

(***************************************************************************)
(* The five parts, the taxes and the net commissions of a payment are      *)
(* natural numbers, whatever tables of rates its reads were mixed from.    *)
(***************************************************************************)
THEOREM SplitTyping == SplitSpec => []SplitTypeOK
<1>1. SplitInv => SplitTypeOK
  BY DEF SplitInv
<1> QED
  BY <1>1, SplitAlways, PTL

(***************************************************************************)
(* splitOrder divides the subtotal to the dong, and leaves operations at   *)
(* most two dong short when the five rates come from one table that was    *)
(* saved and the saved tables add up to 100 % at most, for any subtotal.   *)
(***************************************************************************)
THEOREM SplitAddsUp == SplitSpec => []SplitWithinOrder
<1>1. SplitInv => SplitWithinOrder
  BY DEF SplitInv
<1> QED
  BY <1>1, SplitAlways, PTL
=============================================================================
