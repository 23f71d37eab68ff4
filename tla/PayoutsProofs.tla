--------------------------- MODULE PayoutsProofs ---------------------------
(***************************************************************************)
(* Proofs about Payouts, for any finite sets of dividends, holders and     *)
(* workers and any shareholdings and totals.                               *)
(***************************************************************************)
EXTENDS Payouts, TieredPlan, FiniteSetTheorems, FunctionTheorems, SequenceTheorems, TLAPS

USE PayoutsAssumption DEF PayoutsAssumption

\* A row is locked by one transaction.
Exclusive == \A v, w \in Workers : v # w => tx[v].locks \cap tx[w].locks = {}

\* What is locked to be marked is unpaid until the commit; PayAll misses no unpaid payout,
\* unless it found none at all.
Marks(t) ==
    /\ \A h \in Holders : Row(t.dividend, h) \in t.locks => payout[t.dividend][h] = "unpaid"
    /\ t.all =>
          \/ t.todo = <<>> /\ t.locks = {}
          \/ /\ dividend[t.dividend] # Absent
             /\ \A h \in Holders : payout[t.dividend][h] = "unpaid"
                   => Row(t.dividend, h) \in t.locks \cup ToSet(t.todo)

\* The cascade reaches every payout of its dividend.
Cascades(t) ==
    /\ dividend[t.dividend] # Absent
    /\ \A h \in Holders : payout[t.dividend][h] # "none"
          => Row(t.dividend, h) \in t.locks \cup ToSet(t.todo)

Sound(t) ==
    /\ t.pc = "mark" => Marks(t)
    /\ t.pc = "cascade" => Cascades(t)
    /\ t.pc = "record" => dividend[t.dividend].by \in {"distribute", "deleted"}

Transactions == \A w \in Workers : Sound(tx[w])

\* Unpaid payouts were never settled, and an undeclared dividend has none.
Unsettled ==
    \A d \in Dividends, h \in Holders :
       /\ payout[d][h] = "unpaid" => settled[d][h] = 0
       /\ dividend[d] = Absent => payout[d][h] = "none" /\ settled[d][h] = 0

TablesInv == Unsettled /\ PaidOnce /\ RecordsMatchDistributions /\ DeletedLeaveNoPayout

IInv == RowsOK /\ Exclusive /\ Transactions /\ TablesInv

-----------------------------------------------------------------------------
(***************************************************************************)
(* The elements of a sequence: its first, and those of the rest.           *)
(***************************************************************************)
LEMMA HeadAndTail ==
    ASSUME NEW S, NEW s \in Seq(S), s # <<>>
    PROVE  /\ Head(s) \in S /\ Tail(s) \in Seq(S)
           /\ ToSet(s) = {Head(s)} \cup ToSet(Tail(s))
<1>1. /\ Head(s) = s[1] /\ Head(s) \in S /\ Tail(s) \in Seq(S)
      /\ Len(s) \in Nat \ {0} /\ Len(Tail(s)) = Len(s) - 1
      /\ DOMAIN s = 1..Len(s) /\ DOMAIN Tail(s) = 1..(Len(s) - 1)
  OBVIOUS
<1>2. \A i \in 1..(Len(s) - 1) : Tail(s)[i] = s[i + 1]
  OBVIOUS
<1>3. \A i \in 1..Len(s) : i = 1 \/ (i - 1 \in 1..(Len(s) - 1) /\ Tail(s)[i - 1] = s[i])
  BY <1>1, <1>2
<1>4. ToSet(s) \subseteq {Head(s)} \cup ToSet(Tail(s))
  BY <1>1, <1>3 DEF ToSet
<1>5. {Head(s)} \cup ToSet(Tail(s)) \subseteq ToSet(s)
  BY <1>1, <1>2 DEF ToSet
<1> QED
  BY <1>1, <1>4, <1>5

(***************************************************************************)
(* An enumeration of a finite set without repetitions reaches all of it:   *)
(* the pigeonhole principle.                                               *)
(***************************************************************************)
LEMMA Enumerations ==
    ASSUME NEW S, IsFiniteSet(S), NEW s \in SetToSeqs(S)
    PROVE  s \in Seq(S) /\ ToSet(s) = S
<1> DEFINE n == Cardinality(S)
<1>1. n \in Nat
  BY FS_CardinalityType
<1>2. s \in [1..n -> S] /\ \A i, j \in 1..n : i # j => s[i] # s[j]
  BY DEF SetToSeqs
<1>3. s \in Injection(1..n, S)
  BY <1>2 DEF Injection, IsInjective
<1>4. IsFiniteSet(1..n) /\ Cardinality(1..n) = n
  BY <1>1, FS_Interval
<1>5. s \in Surjection(1..n, S)
  BY <1>3, <1>4, FS_Injection
<1>6. s \in Seq(S)
  BY <1>1, <1>2
<1>7. DOMAIN s = 1..n /\ \A x \in S : \E i \in 1..n : s[i] = x
  BY <1>2, <1>5 DEF Surjection
<1> QED
  BY <1>2, <1>6, <1>7 DEF ToSet

(***************************************************************************)
(* The rows of dividend_payouts, and that there are finitely many.         *)
(***************************************************************************)
LEMMA RowFacts ==
    /\ \A d \in Dividends, h \in Holders :
          Row(d, h) \in Payouts /\ Row(d, h)[2] = d /\ Row(d, h)[3] = h
    /\ \A row \in Payouts : row[2] \in Dividends /\ row[3] \in Holders
                               /\ row = Row(row[2], row[3])
BY DEF Row, Payouts

(***************************************************************************)
(* There are finitely many rows of dividend_payouts.                       *)
(***************************************************************************)
LEMMA PayoutsFinite == IsFiniteSet(Payouts)
<1> DEFINE f == [p \in Dividends \X Holders |-> Row(p[1], p[2])]
<1>1. IsFiniteSet(Dividends \X Holders)
  BY FS_Product
<1>2. f \in Surjection(Dividends \X Holders, Payouts)
  <2>1. f \in [Dividends \X Holders -> Payouts]
    BY DEF Payouts
  <2>2. \A row \in Payouts : \E p \in Dividends \X Holders : f[p] = row
    <3> SUFFICES ASSUME NEW d \in Dividends, NEW h \in Holders
                 PROVE  \E p \in Dividends \X Holders : f[p] = Row(d, h)
      BY DEF Payouts
    <3>1. <<d, h>> \in Dividends \X Holders /\ f[<<d, h>>] = Row(d, h)
      OBVIOUS
    <3> QED
      BY <3>1
  <2> QED
    BY <2>1, <2>2 DEF Surjection
<1> QED
  BY <1>1, <1>2, FS_Surjection

(***************************************************************************)
(* The fields of a transaction, and an idle worker's.                      *)
(***************************************************************************)
LEMMA TransactionFacts ==
    ASSUME NEW t \in Transaction
    PROVE  /\ t.todo \in Seq(Payouts) /\ t.locks \subseteq Rows
           /\ t.seen \in BOOLEAN /\ t.all \in BOOLEAN
BY DEF Transaction

(***************************************************************************)
(* An idle worker locks and wants nothing.                                 *)
(***************************************************************************)
LEMMA IdleFacts ==
    /\ Idle \in Transaction /\ Idle.pc = "idle" /\ Idle.locks = {} /\ Idle.todo = <<>>
    /\ ~Idle.all
<1>1. <<>> \in Seq(Payouts)
  OBVIOUS
<1> QED
  BY <1>1 DEF Idle, Transaction

(***************************************************************************)
(* A transaction that locks its next row.                                  *)
(***************************************************************************)
LEMMA NextRowFacts ==
    ASSUME NEW t \in Transaction, t.todo # <<>>
    PROVE  LET u == [t EXCEPT !.todo = Tail(@), !.locks = @ \cup {Head(t.todo)}] IN
           /\ u \in Transaction /\ u.pc = t.pc /\ u.dividend = t.dividend
           /\ u.holder = t.holder /\ u.all = t.all
           /\ u.todo = Tail(t.todo) /\ u.locks = t.locks \cup {Head(t.todo)}
           /\ t.locks \cup ToSet(t.todo) = u.locks \cup ToSet(u.todo)
<1> DEFINE u == [t EXCEPT !.todo = Tail(@), !.locks = @ \cup {Head(t.todo)}]
<1>1. /\ Head(t.todo) \in Payouts /\ Tail(t.todo) \in Seq(Payouts)
      /\ ToSet(t.todo) = {Head(t.todo)} \cup ToSet(Tail(t.todo))
  BY TransactionFacts, HeadAndTail
<1>2. t.locks \cup {Head(t.todo)} \subseteq Rows
  BY <1>1, TransactionFacts DEF Rows
<1>3. /\ u.pc = t.pc /\ u.dividend = t.dividend /\ u.holder = t.holder /\ u.all = t.all
      /\ u.todo = Tail(t.todo) /\ u.locks = t.locks \cup {Head(t.todo)}
  BY DEF Transaction
<1>4. u \in Transaction
  BY <1>1, <1>2 DEF Transaction
<1>5. t.locks \cup ToSet(t.todo) = u.locks \cup ToSet(u.todo)
  BY <1>1, <1>3
<1> QED
  BY <1>3, <1>4, <1>5

-----------------------------------------------------------------------------
(***************************************************************************)
(* A transaction that writes nothing yet: it may lock rows that nobody     *)
(* else holds, and has to be sound itself.                                 *)
(***************************************************************************)
LEMMA OneTransaction ==
    ASSUME IInv, UNCHANGED tables, NEW w \in Workers, NEW t \in Transaction,
           tx' = [tx EXCEPT ![w] = t],
           t.pc \in {"record", "mark", "parent", "cascade"} => t.dividend \in Dividends,
           t.pc = "erase" => t.holder \in Holders,
           Sound(t),
           \A row \in t.locks : row \in tx[w].locks \/ ~Held(w, row)
    PROVE  IInv'
<1>1. \A v \in Workers : tx'[v] = IF v = w THEN t ELSE tx[v]
  BY DEF IInv, RowsOK
<1>2. RowsOK'
  BY <1>1 DEF IInv, RowsOK, tables
<1>3. Exclusive'
  BY <1>1 DEF IInv, Exclusive, Held
<1>4. ASSUME NEW v \in Workers PROVE Sound(tx[v])'
  BY <1>1 DEF IInv, Transactions, Sound, Marks, Cascades, tables
<1>5. Transactions'
  BY <1>4 DEF Transactions
<1>6. TablesInv'
  BY DEF IInv, TablesInv, Unsettled, PaidOnce, RecordsMatchDistributions,
         DeletedLeaveNoPayout, tables
<1> QED
  BY <1>2, <1>3, <1>5, <1>6 DEF IInv

(***************************************************************************)
(* A transaction that writes and ends: the others have to stay sound.      *)
(***************************************************************************)
LEMMA Committed ==
    ASSUME IInv, NEW w \in Workers, Finish(w),
           RowsOK', TablesInv',
           \A v \in Workers \ {w} : Sound(tx[v])'
    PROVE  IInv'
<1>1. \A v \in Workers : tx'[v] = IF v = w THEN Idle ELSE tx[v]
  BY DEF IInv, RowsOK, Finish
<1>2. Exclusive'
  BY <1>1, IdleFacts DEF IInv, Exclusive
<1>3. Sound(tx[w])'
  BY <1>1, IdleFacts DEF Sound
<1>4. Transactions'
  BY <1>3 DEF Transactions
<1> QED
  BY <1>2, <1>4 DEF IInv

(***************************************************************************)
(* A new dividend: its payouts are unpaid, and none of them goes to a      *)
(* deleted account.                                                        *)
(***************************************************************************)
LEMMA Declarations ==
    ASSUME IInv, NEW d \in Dividends, NEW by \in {"declare", "distribute", "tiered"},
           NEW total \in Totals, NEW shared, NEW among \in SUBSET Holders,
           CreateDividend(d, by, total, shared, among),
           record' = IF by = "tiered" THEN record \cup {d} ELSE record
    PROVE  /\ dividend' \in [Dividends ->
                  [by : {"none", "declare", "distribute", "tiered", "deleted"},
                   total : Totals \cup {0}]]
           /\ payout' \in [Dividends -> [Holders -> {"none", "unpaid", "paid"}]]
           /\ record' \subseteq Dividends /\ gone' = gone /\ settled' = settled
           /\ dividend'[d].by = by
           /\ TablesInv'
           /\ \A e \in Dividends \ {d} : dividend'[e] = dividend[e] /\ payout'[e] = payout[e]
<1>1. /\ dividend[d] = Absent /\ among \cap gone = {}
      /\ dividend' = [dividend EXCEPT ![d] = [by |-> by, total |-> total]]
      /\ payout' = [payout EXCEPT ![d] =
                       [h \in Holders |-> IF h \in among THEN "unpaid" ELSE "none"]]
      /\ gone' = gone /\ settled' = settled
  BY DEF CreateDividend
<1>2. /\ \A e \in Dividends \ {d} : dividend'[e] = dividend[e] /\ payout'[e] = payout[e]
      /\ dividend'[d] = [by |-> by, total |-> total]
      /\ \A h \in Holders : payout'[d][h] = IF h \in among THEN "unpaid" ELSE "none"
  BY <1>1 DEF IInv, RowsOK
<1>3. /\ dividend' \in [Dividends ->
             [by : {"none", "declare", "distribute", "tiered", "deleted"},
              total : Totals \cup {0}]]
      /\ payout' \in [Dividends -> [Holders -> {"none", "unpaid", "paid"}]]
      /\ record' \subseteq Dividends
  BY <1>1 DEF IInv, RowsOK
<1>4. /\ \A h \in Holders : payout[d][h] = "none" /\ settled[d][h] = 0
      /\ dividend[d].by = "none" /\ d \notin record
  BY <1>1 DEF IInv, TablesInv, Unsettled, RecordsMatchDistributions, Absent
<1>5. Unsettled'
  BY <1>1, <1>2, <1>4 DEF IInv, TablesInv, Unsettled, Absent
<1>6. PaidOnce'
  BY <1>1, <1>2, <1>4 DEF IInv, TablesInv, PaidOnce
<1>7. RecordsMatchDistributions'
  BY <1>2, <1>4 DEF IInv, TablesInv, RecordsMatchDistributions
<1>8. DeletedLeaveNoPayout'
  BY <1>1, <1>2 DEF IInv, RowsOK, TablesInv, DeletedLeaveNoPayout
<1>9. dividend'[d].by = by
  BY <1>2
<1> QED
  BY <1>1, <1>2, <1>3, <1>5, <1>6, <1>7, <1>8, <1>9 DEF TablesInv
(***************************************************************************)
(* Its rows concern no transaction that is under way: there were none.     *)
(***************************************************************************)
LEMMA DeclarationsSound ==
    ASSUME IInv, NEW d \in Dividends, NEW by \in {"declare", "distribute", "tiered"},
           NEW total \in Totals, NEW shared, NEW among \in SUBSET Holders,
           CreateDividend(d, by, total, shared, among),
           record' = IF by = "tiered" THEN record \cup {d} ELSE record,
           NEW v \in Workers, NEW t \in Transaction, t = tx[v]
    PROVE  Sound(t)'
<1>1. /\ \A e \in Dividends \ {d} : dividend'[e] = dividend[e] /\ payout'[e] = payout[e]
      /\ dividend[d] = Absent
  BY Declarations DEF CreateDividend
<1>2. Sound(t)
  BY DEF IInv, Transactions
<1>3. t.pc \in {"mark", "cascade", "record"} => t.dividend \in Dividends
  BY DEF IInv, RowsOK
<1>4. CASE t.pc \in {"mark", "cascade", "record"} /\ t.dividend # d
  BY <1>1, <1>2, <1>3, <1>4 DEF Sound, Marks, Cascades
<1>5. CASE t.pc = "mark" /\ t.dividend = d
  <2>1. \A h \in Holders : Row(d, h) \notin t.locks
    BY <1>1, <1>2, <1>5 DEF IInv, TablesInv, Unsettled, Sound, Marks
  <2>2. t.all => t.todo = <<>> /\ t.locks = {}
    BY <1>1, <1>2, <1>5 DEF Sound, Marks
  <2> QED
    BY <1>5, <2>1, <2>2 DEF Sound, Marks
<1>6. ~(t.pc \in {"cascade", "record"} /\ t.dividend = d)
  BY <1>1, <1>2 DEF Sound, Cascades, Absent
<1> QED
  BY <1>3, <1>4, <1>5, <1>6 DEF Sound

(***************************************************************************)
(* The commit of PayAll and MarkPaid: the rows it pays are unpaid, as they *)
(* are locked.                                                             *)
(***************************************************************************)
LEMMA MarksCommitted ==
    ASSUME IInv, NEW w \in Workers, CommitMarks(w)
    PROVE  IInv'
<1>0. PICK d \in Dividends : d = tx[w].dividend
  BY DEF IInv, RowsOK, CommitMarks
<1> DEFINE rows == {h \in Holders : Row(d, h) \in tx[w].locks}
<1>1. /\ payout' = [payout EXCEPT ![d] = [h \in Holders |-> IF h \in rows THEN "paid" ELSE @[h]]]
      /\ settled' = [settled EXCEPT ![d] =
                        [h \in Holders |-> @[h] + (IF h \in rows THEN 1 ELSE 0)]]
      /\ UNCHANGED <<dividend, record, gone>> /\ Finish(w)
  BY <1>0 DEF CommitMarks
<1>2. \A h \in rows : payout[d][h] = "unpaid"
  BY <1>0 DEF CommitMarks, IInv, Transactions, Sound, Marks
<1>3. /\ \A e \in Dividends \ {d} : payout'[e] = payout[e] /\ settled'[e] = settled[e]
      /\ \A h \in Holders : /\ payout'[d][h] = IF h \in rows THEN "paid" ELSE payout[d][h]
                            /\ settled'[d][h] = settled[d][h] + (IF h \in rows THEN 1 ELSE 0)
  BY <1>1 DEF IInv, RowsOK
<1>4. /\ payout' \in [Dividends -> [Holders -> {"none", "unpaid", "paid"}]]
      /\ settled' \in [Dividends -> [Holders -> Nat]]
  <2>1. [h \in Holders |-> IF h \in rows THEN "paid" ELSE payout[d][h]]
           \in [Holders -> {"none", "unpaid", "paid"}]
    BY DEF IInv, RowsOK
  <2>2. [h \in Holders |-> settled[d][h] + (IF h \in rows THEN 1 ELSE 0)] \in [Holders -> Nat]
    BY DEF IInv, RowsOK
  <2> QED
    BY <1>1, <2>1, <2>2 DEF IInv, RowsOK
<1>5. \A v \in Workers : tx'[v] = IF v = w THEN Idle ELSE tx[v]
  BY <1>1 DEF Finish, IInv, RowsOK
<1>6. RowsOK'
  BY <1>1, <1>4, <1>5, IdleFacts DEF IInv, RowsOK, Finish
<1>7. Unsettled'
  BY <1>1, <1>2, <1>3 DEF IInv, TablesInv, Unsettled
<1>8. PaidOnce'
  <2> SUFFICES ASSUME NEW e \in Dividends, NEW h \in Holders
               PROVE  settled'[e][h] <= 1 /\ (payout'[e][h] = "paid" => settled'[e][h] = 1)
    BY DEF PaidOnce
  <2>1. CASE e = d /\ h \in rows
    <3>1. settled[d][h] = 0
      BY <1>2, <2>1 DEF IInv, TablesInv, Unsettled
    <3> QED
      BY <1>3, <2>1, <3>1
  <2>2. CASE e # d \/ h \notin rows
    <3>1. settled'[e][h] = settled[e][h] /\ payout'[e][h] = payout[e][h]
      BY <1>3, <2>2 DEF IInv, RowsOK
    <3> QED
      BY <3>1 DEF IInv, TablesInv, PaidOnce
  <2> QED
    BY <2>1, <2>2
<1>9. RecordsMatchDistributions'
  BY <1>1 DEF IInv, TablesInv, RecordsMatchDistributions
<1>10. DeletedLeaveNoPayout'
  <2>1. \A h \in gone : h \in Holders /\ h \notin rows
    BY <1>2 DEF IInv, RowsOK, TablesInv, DeletedLeaveNoPayout
  <2> QED
    BY <1>1, <1>3, <2>1 DEF IInv, TablesInv, DeletedLeaveNoPayout
<1>11. ASSUME NEW v \in Workers \ {w} PROVE Sound(tx[v])'
  <2>1. PICK t \in Transaction : t = tx[v] /\ tx'[v] = t
    BY <1>5 DEF IInv, RowsOK
  <2>2. Sound(t) /\ (t.pc \in {"mark", "cascade", "record"} => t.dividend \in Dividends)
    BY <2>1 DEF IInv, Transactions, RowsOK
  <2>3. \A h \in rows : Row(d, h) \notin t.locks
    BY <2>1 DEF IInv, Exclusive
  <2>4. \A e \in Dividends, h \in Holders :
           /\ Row(e, h) \in t.locks => payout'[e][h] = payout[e][h]
           /\ payout'[e][h] = "unpaid" => payout[e][h] = "unpaid"
           /\ payout'[e][h] # "none" => payout[e][h] # "none"
    BY <1>2, <1>3, <2>3
  <2>5. dividend' = dividend
    BY <1>1
  <2>6. t.pc = "mark" => Marks(t)'
    BY <2>2, <2>4, <2>5 DEF Sound, Marks
  <2>7. t.pc = "cascade" => Cascades(t)'
    BY <2>2, <2>4, <2>5 DEF Sound, Cascades
  <2>8. Sound(t)'
    BY <2>2, <2>5, <2>6, <2>7 DEF Sound
  <2> QED
    BY <2>1, <2>8 DEF Sound, Marks, Cascades
<1> QED
  BY <1>1, <1>6, <1>7, <1>8, <1>9, <1>10, <1>11, Committed DEF TablesInv
(***************************************************************************)
(* The commit of a deletion: the cascade has locked every payout of the    *)
(* dividend, so none of them is about to be marked by somebody else.       *)
(***************************************************************************)
LEMMA DeleteCommitted ==
    ASSUME IInv, NEW w \in Workers, CommitDelete(w)
    PROVE  IInv'
<1>0. PICK d \in Dividends : d = tx[w].dividend
  BY DEF IInv, RowsOK, CommitDelete
<1>1. /\ dividend' = [dividend EXCEPT ![d] = [by |-> "deleted", total |-> 0]]
      /\ payout' = [payout EXCEPT ![d] = [h \in Holders |-> "none"]]
      /\ record' = record \ {d}
      /\ UNCHANGED <<gone, settled>> /\ Finish(w)
  BY <1>0 DEF CommitDelete
<1>2. \A h \in Holders : payout[d][h] # "none" => Row(d, h) \in tx[w].locks
  BY <1>0 DEF CommitDelete, IInv, Transactions, Sound, Cascades, ToSet
<1>3. /\ \A e \in Dividends \ {d} : payout'[e] = payout[e] /\ dividend'[e] = dividend[e]
      /\ \A h \in Holders : payout'[d][h] = "none"
      /\ dividend'[d].by = "deleted"
  BY <1>1 DEF IInv, RowsOK
<1>4. \A v \in Workers : tx'[v] = IF v = w THEN Idle ELSE tx[v]
  BY <1>1 DEF Finish, IInv, RowsOK
<1>5. RowsOK'
  BY <1>1, <1>4, IdleFacts DEF IInv, RowsOK, Finish
<1>6. dividend'[d] # Absent
  BY <1>3 DEF Absent
<1>7. Unsettled'
  BY <1>1, <1>3, <1>6 DEF IInv, TablesInv, Unsettled
<1>8. PaidOnce'
  BY <1>1, <1>3 DEF IInv, TablesInv, PaidOnce
<1>9. RecordsMatchDistributions'
  BY <1>1, <1>3 DEF IInv, TablesInv, RecordsMatchDistributions
<1>10. DeletedLeaveNoPayout'
  BY <1>1, <1>3 DEF IInv, RowsOK, TablesInv, DeletedLeaveNoPayout
<1>11. ASSUME NEW v \in Workers \ {w} PROVE Sound(tx[v])'
  <2>1. PICK t \in Transaction : t = tx[v] /\ tx'[v] = t
    BY <1>4 DEF IInv, RowsOK
  <2>2. Sound(t) /\ (t.pc \in {"mark", "cascade", "record"} => t.dividend \in Dividends)
    BY <2>1 DEF IInv, Transactions, RowsOK
  <2>3. \A h \in Holders : Row(d, h) \in t.locks => payout[d][h] = "none"
    BY <1>2, <2>1 DEF IInv, Exclusive
  <2>4. \A e \in Dividends, h \in Holders :
           /\ Row(e, h) \in t.locks => payout'[e][h] = payout[e][h]
           /\ payout'[e][h] = "unpaid" => payout[e][h] = "unpaid"
           /\ payout'[e][h] # "none" => payout[e][h] # "none"
    BY <1>3, <2>3
  <2>5. \A e \in Dividends : dividend[e] # Absent => dividend'[e] # Absent
    BY <1>3, <1>6
  <2>6. t.pc = "mark" => Marks(t)'
    BY <2>2, <2>4, <2>5 DEF Sound, Marks
  <2>7. t.pc = "cascade" => Cascades(t)'
    BY <2>2, <2>4, <2>5 DEF Sound, Cascades
  <2>8. t.pc = "record" => dividend'[t.dividend].by \in {"distribute", "deleted"}
    BY <1>3, <2>2 DEF Sound
  <2>9. Sound(t)'
    BY <2>6, <2>7, <2>8 DEF Sound
  <2> QED
    BY <2>1, <2>9 DEF Sound, Marks, Cascades
<1> QED
  BY <1>1, <1>5, <1>7, <1>8, <1>9, <1>10, <1>11, Committed DEF TablesInv

(***************************************************************************)
(* The commit of DeleteUser: the account goes only if every payout to it   *)
(* is locked by this transaction.                                          *)
(***************************************************************************)
LEMMA EraseCommitted ==
    ASSUME IInv, NEW w \in Workers, CommitErase(w)
    PROVE  IInv'
<1>0. PICK k \in Holders : k = tx[w].holder
  BY DEF IInv, RowsOK, CommitErase
<1>1. UNCHANGED <<dividend, record, settled>> /\ Finish(w)
  BY DEF CommitErase
<1>2. \A v \in Workers : tx'[v] = IF v = w THEN Idle ELSE tx[v]
  BY <1>1 DEF Finish, IInv, RowsOK
<1>3. \/ gone' = gone /\ payout' = payout
      \/ /\ PayoutsTo(k) \subseteq tx[w].locks /\ gone' = gone \cup {k}
         /\ payout' = [d \in Dividends |-> [payout[d] EXCEPT ![k] = "none"]]
  BY <1>0 DEF CommitErase
<1>4. /\ payout' \in [Dividends -> [Holders -> {"none", "unpaid", "paid"}]]
      /\ \A d \in Dividends, h \in Holders :
            payout'[d][h] = payout[d][h] \/ (h = k /\ payout'[d][h] = "none")
      /\ gone' \subseteq Holders
  <2>1. \A d \in Dividends : payout[d] \in [Holders -> {"none", "unpaid", "paid"}]
    BY DEF IInv, RowsOK
  <2> QED
    BY <1>3, <2>1 DEF IInv, RowsOK
<1>5. RowsOK'
  BY <1>1, <1>2, <1>4, IdleFacts DEF IInv, RowsOK, Finish
<1>6. Unsettled'
  BY <1>1, <1>4 DEF IInv, TablesInv, Unsettled
<1>7. PaidOnce'
  BY <1>1, <1>4 DEF IInv, TablesInv, PaidOnce
<1>8. RecordsMatchDistributions'
  BY <1>1 DEF IInv, TablesInv, RecordsMatchDistributions
<1>9. DeletedLeaveNoPayout'
  <2>1. \A d \in Dividends, h \in gone : payout'[d][h] = "none"
    BY <1>4 DEF IInv, RowsOK, TablesInv, DeletedLeaveNoPayout
  <2>2. gone' # gone => \A d \in Dividends : payout'[d][k] = "none"
    BY <1>3 DEF IInv, RowsOK
  <2> QED
    BY <1>3, <2>1, <2>2 DEF DeletedLeaveNoPayout
<1>10. ASSUME NEW v \in Workers \ {w} PROVE Sound(tx[v])'
  <2>1. PICK t \in Transaction : t = tx[v] /\ tx'[v] = t
    BY <1>2 DEF IInv, RowsOK
  <2>2. Sound(t) /\ (t.pc \in {"mark", "cascade", "record"} => t.dividend \in Dividends)
    BY <2>1 DEF IInv, Transactions, RowsOK
  <2>3. \A d \in Dividends, h \in Holders :
           Row(d, h) \in t.locks /\ payout[d][h] # "none" => payout'[d][h] = payout[d][h]
    <3> SUFFICES ASSUME NEW d \in Dividends, NEW h \in Holders,
                        Row(d, h) \in t.locks, payout[d][h] # "none",
                        payout'[d][h] # payout[d][h]
                 PROVE  FALSE
      OBVIOUS
    <3>1. h = k /\ PayoutsTo(k) \subseteq tx[w].locks
      BY <1>3, <1>4
    <3>2. Row(d, h) \in PayoutsTo(k)
      BY <3>1, RowFacts DEF PayoutsTo, Status
    <3> QED
      BY <2>1, <3>1, <3>2 DEF IInv, Exclusive
  <2>4. \A d \in Dividends, h \in Holders :
           /\ payout'[d][h] = "unpaid" => payout[d][h] = "unpaid"
           /\ payout'[d][h] # "none" => payout[d][h] # "none"
    BY <1>4
  <2>5. dividend' = dividend
    BY <1>1
  <2>6. t.pc = "mark" => Marks(t)'
    BY <2>2, <2>3, <2>4, <2>5 DEF Sound, Marks
  <2>7. t.pc = "cascade" => Cascades(t)'
    BY <2>2, <2>4, <2>5 DEF Sound, Cascades
  <2>8. Sound(t)'
    BY <2>2, <2>5, <2>6, <2>7 DEF Sound
  <2> QED
    BY <2>1, <2>8 DEF Sound, Marks, Cascades
<1> QED
  BY <1>1, <1>5, <1>6, <1>7, <1>8, <1>9, <1>10, Committed DEF TablesInv

(***************************************************************************)
(* The record of a distribution: its dividend was distributed, or it is    *)
(* gone by now and no record is written.                                   *)
(***************************************************************************)
LEMMA RecordCommitted ==
    ASSUME IInv, NEW w \in Workers, CreateRevenueDistribution(w)
    PROVE  IInv'
<1>0. PICK d \in Dividends : d = tx[w].dividend
  BY DEF IInv, RowsOK, CreateRevenueDistribution
<1>1. /\ record' = IF Live(d) THEN record \cup {d} ELSE record
      /\ UNCHANGED <<dividend, payout, gone, settled>> /\ Finish(w)
  BY <1>0 DEF CreateRevenueDistribution
<1>2. \A v \in Workers : tx'[v] = IF v = w THEN Idle ELSE tx[v]
  BY <1>1 DEF Finish, IInv, RowsOK
<1>3. RowsOK'
  BY <1>1, <1>2, IdleFacts DEF IInv, RowsOK, Finish
<1>4. Live(d) => dividend[d].by = "distribute"
  BY <1>0 DEF CreateRevenueDistribution, IInv, Transactions, Sound, Live
<1>5. RecordsMatchDistributions'
  BY <1>1, <1>4 DEF IInv, TablesInv, RecordsMatchDistributions
<1>6. TablesInv'
  BY <1>1, <1>5 DEF IInv, TablesInv, Unsettled, PaidOnce, DeletedLeaveNoPayout
<1>7. ASSUME NEW v \in Workers \ {w} PROVE Sound(tx[v])'
  BY <1>1, <1>2 DEF IInv, Transactions, Sound, Marks, Cascades
<1> QED
  BY <1>1, <1>3, <1>6, <1>7, Committed
(***************************************************************************)
(* The statements that lock a row on the way to the commit.                *)
(***************************************************************************)
LEMMA RowLocked ==
    ASSUME IInv, UNCHANGED tables, NEW w \in Workers, tx[w].todo # <<>>,
           ~Held(w, Head(tx[w].todo)),
           tx[w].pc \in {"mark", "cascade", "erase"},
           tx[w].pc = "mark" => Status(Head(tx[w].todo)) = "unpaid",
           tx' = [tx EXCEPT ![w].todo = Tail(@), ![w].locks = @ \cup {Head(tx[w].todo)}]
    PROVE  IInv'
<1> DEFINE r == Head(tx[w].todo)
           u == [tx[w] EXCEPT !.todo = Tail(@), !.locks = @ \cup {r}]
<1>1. tx[w] \in Transaction
  BY DEF IInv, RowsOK
<1>2. /\ u \in Transaction /\ u.pc = tx[w].pc /\ u.dividend = tx[w].dividend
      /\ u.holder = tx[w].holder /\ u.all = tx[w].all
      /\ u.todo = Tail(tx[w].todo) /\ u.locks = tx[w].locks \cup {r}
      /\ tx[w].locks \cup ToSet(tx[w].todo) = u.locks \cup ToSet(u.todo)
  BY <1>1, NextRowFacts
<1>3. tx' = [tx EXCEPT ![w] = u]
  BY <1>1 DEF IInv, RowsOK, Transaction
<1>4. r \in Payouts
  BY <1>1, TransactionFacts, HeadAndTail
<1> HIDE DEF u
<1>5. Sound(tx[w])
  BY DEF IInv, Transactions
<1>6. u.pc = "mark" => Marks(u)
  <2> SUFFICES ASSUME u.pc = "mark" PROVE Marks(u)
    OBVIOUS
  <2>1. Marks(tx[w])
    BY <1>2, <1>5 DEF Sound
  <2>2. \A h \in Holders : Row(tx[w].dividend, h) = r => payout[tx[w].dividend][h] = "unpaid"
    <3>1. payout[r[2]][r[3]] = "unpaid"
      BY <1>2 DEF Status
    <3>2. tx[w].dividend \in Dividends
      BY <1>2 DEF IInv, RowsOK
    <3> QED
      BY <3>1, <3>2, RowFacts
  <2>3. tx[w].todo # <<>>
    OBVIOUS
  <2> QED
    BY <1>2, <2>1, <2>2, <2>3 DEF Marks
<1>7. u.pc = "cascade" => Cascades(u)
  BY <1>2, <1>5 DEF Sound, Cascades
<1>8. Sound(u)
  BY <1>2, <1>6, <1>7 DEF Sound
<1>9. /\ u.pc \in {"record", "mark", "parent", "cascade"} => u.dividend \in Dividends
      /\ u.pc = "erase" => u.holder \in Holders
  BY <1>2 DEF IInv, RowsOK
<1> QED
  BY <1>2, <1>3, <1>8, <1>9, OneTransaction

(***************************************************************************)
(* A new dividend without a change of transactions, and with the worker    *)
(* that goes on to its record.                                             *)
(***************************************************************************)
LEMMA Declaring ==
    ASSUME IInv, NEW w \in Workers, NEW d \in Dividends,
           NEW by \in {"declare", "distribute", "tiered"}, NEW total \in Totals,
           NEW shared, NEW among \in SUBSET Holders,
           CreateDividend(d, by, total, shared, among),
           record' = IF by = "tiered" THEN record \cup {d} ELSE record,
           \/ UNCHANGED tx
           \/ /\ by = "distribute"
              /\ tx' = [tx EXCEPT ![w] = [Idle EXCEPT !.pc = "record", !.dividend = d]]
    PROVE  IInv'
<1> DEFINE u == [Idle EXCEPT !.pc = "record", !.dividend = d]
<1>1. u \in Transaction /\ u.pc = "record" /\ u.dividend = d /\ u.locks = {}
  BY IdleFacts DEF Idle, Transaction
<1> HIDE DEF u
<1>2. \A v \in Workers : tx'[v] = tx[v] \/ (v = w /\ tx'[v] = u /\ by = "distribute")
  BY DEF IInv, RowsOK, u
<1>3. tx' \in [Workers -> Transaction]
  BY <1>1 DEF IInv, RowsOK, u
<1>4. RowsOK'
  BY <1>1, <1>2, <1>3, Declarations DEF IInv, RowsOK
<1>5. Exclusive'
  BY <1>1, <1>2 DEF IInv, Exclusive
<1>6. TablesInv'
  BY Declarations
<1>7. ASSUME NEW v \in Workers PROVE Sound(tx[v])'
  <2>1. PICK t \in Transaction : t = tx[v]
    BY DEF IInv, RowsOK
  <2>2. Sound(t)'
    BY <2>1, DeclarationsSound
  <2>3. by = "distribute" => Sound(u)'
    <3>1. dividend'[d].by = by
      BY Declarations
    <3> QED
      BY <1>1, <3>1 DEF Sound, u
  <2>4. CASE tx'[v] = t
    BY <2>2, <2>4 DEF Sound, Marks, Cascades
  <2>5. CASE tx'[v] = u /\ by = "distribute"
    BY <1>1, <2>5, Declarations DEF Sound
  <2> QED
    BY <1>2, <2>1, <2>4, <2>5
<1>8. Transactions'
  BY <1>7 DEF Transactions
<1> QED
  BY <1>4, <1>5, <1>6, <1>8 DEF IInv

(***************************************************************************)
(* Every step keeps the inductive invariant.                               *)
(***************************************************************************)
LEMMA NextInv == IInv /\ [Next]_vars => IInv'
<1> SUFFICES ASSUME IInv, [Next]_vars PROVE IInv'
  OBVIOUS
<1> USE DEF RowsOK
<1>1. ASSUME NEW w \in Workers, Rollback(w) \/ DeadlockVictim(w) PROVE IInv'
  <2>1. UNCHANGED tables /\ tx' = [tx EXCEPT ![w] = Idle]
    BY <1>1 DEF Rollback, DeadlockVictim, Finish
  <2> QED
    BY <2>1, IdleFacts, OneTransaction DEF Sound
<1>2. ASSUME NEW w \in Workers, MarkPayoutPaid(w) PROVE IInv'
  <2>1. CASE Status(Head(tx[w].todo)) = "unpaid"
    BY <1>2, <2>1, RowLocked DEF MarkPayoutPaid
  <2>2. CASE Status(Head(tx[w].todo)) # "unpaid"
    BY <1>2, <2>2, IdleFacts, OneTransaction DEF MarkPayoutPaid, Finish, Sound
  <2> QED
    BY <2>1, <2>2
<1>3. ASSUME NEW w \in Workers, DeletePayout(w) PROVE IInv'
  BY <1>3, RowLocked DEF DeletePayout
<1>4. ASSUME NEW w \in Workers, DeleteParent(w) PROVE IInv'
  <2>1. PICK d \in Dividends : d = tx[w].dividend
    BY <1>4 DEF DeleteParent, IInv
  <2>2. CASE Live(d) /\ (d \in record => tx[w].seen)
    <3>1. PICK todo \in SetToSeqs(PayoutsOf(d)) :
             tx' = [tx EXCEPT ![w].pc = "cascade", ![w].todo = todo, ![w].locks = {Parent(d)}]
      BY <1>4, <2>1, <2>2 DEF DeleteParent
    <3>2. IsFiniteSet(PayoutsOf(d))
      BY PayoutsFinite, FS_Subset DEF PayoutsOf
    <3>3. todo \in Seq(Payouts) /\ ToSet(todo) = PayoutsOf(d)
      <4>1. todo \in Seq(PayoutsOf(d)) /\ ToSet(todo) = PayoutsOf(d)
        BY <3>2, Enumerations
      <4>2. PayoutsOf(d) \subseteq Payouts
        BY DEF PayoutsOf
      <4> QED
        BY <4>1, <4>2
    <3> DEFINE u == [tx[w] EXCEPT !.pc = "cascade", !.todo = todo, !.locks = {Parent(d)}]
    <3>4. /\ u \in Transaction /\ u.pc = "cascade" /\ u.dividend = d
          /\ u.todo = todo /\ u.locks = {Parent(d)}
      <4>1. tx[w] \in Transaction /\ todo \in Seq(Payouts)
        BY <3>3 DEF IInv
      <4>2. /\ u \in Transaction /\ u.pc = "cascade" /\ u.dividend = tx[w].dividend
            /\ u.todo = todo /\ u.locks = {Parent(d)}
        BY <4>1 DEF Transaction, Rows
      <4> QED
        BY <2>1, <4>2
    <3>5. tx' = [tx EXCEPT ![w] = u]
      BY <3>1 DEF IInv, Transaction
    <3> HIDE DEF u
    <3>6. dividend[d] # Absent
      BY <2>2 DEF Live, Absent
    <3>7. \A h \in Holders : payout[d][h] # "none" => Row(d, h) \in PayoutsOf(d)
      BY RowFacts DEF PayoutsOf, Status
    <3>8. Sound(u)
      BY <3>3, <3>4, <3>6, <3>7 DEF Sound, Cascades
    <3>9. UNCHANGED tables /\ ~Held(w, Parent(d))
      BY <1>4, <2>1 DEF DeleteParent
    <3> QED
      BY <3>4, <3>5, <3>8, <3>9, OneTransaction
  <2>3. CASE ~(Live(d) /\ (d \in record => tx[w].seen))
    BY <1>4, <2>1, <2>3, IdleFacts, OneTransaction DEF DeleteParent, Finish, Sound
  <2> QED
    BY <2>2, <2>3
<1>5. ASSUME NEW w \in Workers, NEW h \in Holders, DeleteUser(w, h) PROVE IInv'
  <2>1. PICK todo \in SetToSeqs(PayoutsTo(h)) :
           tx' = [tx EXCEPT ![w] = [Idle EXCEPT !.pc = "erase", !.holder = h, !.todo = todo]]
    BY <1>5 DEF DeleteUser
  <2>2. IsFiniteSet(PayoutsTo(h)) /\ PayoutsTo(h) \subseteq Payouts
    BY PayoutsFinite, FS_Subset DEF PayoutsTo
  <2>3. todo \in Seq(PayoutsTo(h))
    BY <2>2, Enumerations
  <2>4. todo \in Seq(Payouts)
    BY <2>2, <2>3
  <2> DEFINE u == [Idle EXCEPT !.pc = "erase", !.holder = h, !.todo = todo]
  <2>5. u \in Transaction /\ u.pc = "erase" /\ u.holder = h /\ u.locks = {}
    BY <2>4, IdleFacts DEF Idle, Transaction
  <2>6. tx' = [tx EXCEPT ![w] = u] /\ UNCHANGED tables
    BY <1>5, <2>1 DEF DeleteUser
  <2> HIDE DEF u
  <2> QED
    BY <2>5, <2>6, OneTransaction DEF Sound
<1>6. ASSUME NEW w \in Workers, NEW d \in Dividends, NEW todo \in Seq(Payouts),
             NEW all \in BOOLEAN, BeginMarking(w, d, todo, all),
             all => ToSet(todo) = {row \in PayoutsOf(d) : Status(row) = "unpaid"}
      PROVE  IInv'
  <2> DEFINE u == [Idle EXCEPT !.pc = "mark", !.dividend = d, !.todo = todo, !.all = all]
  <2>1. /\ u \in Transaction /\ u.pc = "mark" /\ u.dividend = d /\ u.locks = {}
        /\ u.todo = todo /\ u.all = all
    BY IdleFacts DEF Idle, Transaction
  <2>2. tx' = [tx EXCEPT ![w] = u] /\ UNCHANGED tables
    BY <1>6 DEF BeginMarking
  <2> HIDE DEF u
  <2>3. all => \A h \in Holders : payout[d][h] = "unpaid" => Row(d, h) \in ToSet(todo)
    BY <1>6, RowFacts DEF PayoutsOf, Status
  <2>4. all /\ dividend[d] = Absent => todo = <<>>
    <3> SUFFICES ASSUME all, dividend[d] = Absent, todo # <<>> PROVE FALSE
      OBVIOUS
    <3>1. Head(todo) \in PayoutsOf(d)
      BY <1>6, HeadAndTail
    <3>2. PayoutsOf(d) = {}
      BY RowFacts DEF IInv, TablesInv, Unsettled, PayoutsOf, Status
    <3> QED
      BY <3>1, <3>2
  <2>5. Marks(u)
    BY <2>1, <2>3, <2>4 DEF Marks
  <2>6. Sound(u)
    BY <2>1, <2>5 DEF Sound
  <2> QED
    BY <2>1, <2>2, <2>6, OneTransaction
<1>7. ASSUME NEW w \in Workers, NEW d \in Dividends, PayAll(w, d) PROVE IInv'
  <2> DEFINE S == {row \in PayoutsOf(d) : Status(row) = "unpaid"}
  <2>1. PICK todo \in InOrder(d, S) : BeginMarking(w, d, todo, TRUE)
    BY <1>7 DEF PayAll
  <2>2. IsFiniteSet(S) /\ S \subseteq Payouts
    BY PayoutsFinite, FS_Subset DEF PayoutsOf
  <2>3. todo \in Seq(S) /\ ToSet(todo) = S
    BY <2>2, Enumerations DEF InOrder
  <2>4. todo \in Seq(Payouts)
    BY <2>2, <2>3
  <2> QED
    BY <1>6, <2>1, <2>3, <2>4
<1>8. ASSUME NEW w \in Workers, NEW d \in Dividends, MarkPaid(w, d) PROVE IInv'
  <2>1. PICK row \in PayoutsOf(d) : BeginMarking(w, d, <<row>>, FALSE)
    BY <1>8 DEF MarkPaid
  <2>2. <<row>> \in Seq(Payouts)
    BY DEF PayoutsOf
  <2> QED
    BY <1>6, <2>1, <2>2
<1>9. ASSUME NEW w \in Workers, NEW d \in Dividends,
             DeleteDividend(w, d) \/ DeleteDistribution(w, d)
      PROVE  IInv'
  <2>0. PICK b \in BOOLEAN : b = (d \in record)
    <3>1. CASE d \in record
      <4>1. TRUE = (d \in record)
        BY <3>1
      <4> QED
        BY <4>1
    <3>2. CASE d \notin record
      <4>1. FALSE = (d \in record)
        BY <3>2
      <4> QED
        BY <4>1
    <3> QED
      BY <3>1, <3>2
  <2> DEFINE u == [Idle EXCEPT !.pc = "parent", !.dividend = d, !.seen = b]
  <2>1. u \in Transaction /\ u.pc = "parent" /\ u.dividend = d /\ u.locks = {}
    BY IdleFacts DEF Idle, Transaction
  <2>2. tx' = [tx EXCEPT ![w] = u] /\ UNCHANGED tables
    BY <1>9, <2>0 DEF DeleteDividend, DeleteDistribution, BeginDelete
  <2> HIDE DEF u
  <2> QED
    BY <2>1, <2>2, OneTransaction DEF Sound
<1>10. ASSUME NEW w \in Workers, NEW d \in Dividends, Declare(w, d) PROVE IInv'
  <2>1. PICK total \in Totals, holding \in Holdings : Declared(d, "declare", total, holding)
    BY <1>10 DEF Declare
  <2>2. /\ CreateDividend(d, "declare", total, ProRata(total, holding),
                          {h \in Holders : holding[h] > 0})
        /\ UNCHANGED record
    BY <2>1 DEF Declared
  <2> QED
    BY <1>10, <2>2, Declaring DEF Declare
<1>11. ASSUME NEW w \in Workers, NEW d \in Dividends, Distribute(w, d) PROVE IInv'
  <2>1. PICK total \in Totals, holding \in Holdings : Declared(d, "distribute", total, holding)
    BY <1>11 DEF Distribute
  <2>2. /\ CreateDividend(d, "distribute", total, ProRata(total, holding),
                          {h \in Holders : holding[h] > 0})
        /\ UNCHANGED record
    BY <2>1 DEF Declared
  <2>3. tx' = [tx EXCEPT ![w] = [Idle EXCEPT !.pc = "record", !.dividend = d]]
    BY <1>11 DEF Distribute
  <2>4. {h \in Holders : holding[h] > 0} \in SUBSET Holders
    OBVIOUS
  <2> HIDE <1>11
  <2> QED
    BY <2>2, <2>3, <2>4, Declaring
<1>12. ASSUME NEW w \in Workers, NEW d \in Dividends, DistributeTiered(w, d) PROVE IInv'
  <2>1. PICK total \in Totals : \E plan \in [Holders -> 0..total] :
           CreateDividend(d, "tiered", total, plan, {h \in Holders : plan[h] > 0})
    BY <1>12 DEF DistributeTiered
  <2>2. record' = record \cup {d} /\ UNCHANGED tx
    BY <1>12 DEF DistributeTiered
  <2> QED
    BY <2>1, <2>2, Declaring
<1>13. CASE UNCHANGED vars
  <2>1. UNCHANGED tables /\ UNCHANGED tx
    BY <1>13 DEF vars
  <2> QED
    BY <2>1 DEF IInv, Exclusive, Transactions, Sound, Marks, Cascades, TablesInv, Unsettled,
                PaidOnce, RecordsMatchDistributions, DeletedLeaveNoPayout, tables
<1> QED
  BY <1>1, <1>2, <1>3, <1>4, <1>5, <1>7, <1>8, <1>9, <1>10, <1>11, <1>12, <1>13,
     RecordCommitted, MarksCommitted, DeleteCommitted, EraseCommitted DEF Next, Work

(***************************************************************************)
(* Nothing is declared at first.                                           *)
(***************************************************************************)
LEMMA InitInv == Init => IInv
<1> SUFFICES ASSUME Init PROVE IInv
  OBVIOUS
<1>1. Absent.by = "none" /\ Absent \in [by : {"none"}, total : {0}]
  BY DEF Absent
<1>2. RowsOK
  BY <1>1, IdleFacts DEF Init, RowsOK
<1>3. Exclusive /\ Transactions
  BY IdleFacts DEF Init, Exclusive, Transactions, Sound
<1>4. TablesInv
  BY <1>1 DEF Init, TablesInv, Unsettled, PaidOnce, RecordsMatchDistributions,
              DeletedLeaveNoPayout
<1> QED
  BY <1>2, <1>3, <1>4 DEF IInv

(***************************************************************************)
(* No payout is paid twice, whatever requests for it overlap.              *)
(***************************************************************************)
THEOREM PayoutsPaidOnce == Spec => []PaidOnce
<1>1. IInv => PaidOnce
  BY DEF IInv, TablesInv
<1> QED
  BY <1>1, InitInv, NextInv, PTL DEF Spec

(***************************************************************************)
(* A record of a distribution refers to a dividend that a distribution     *)
(* declared, and a tiered distribution has its record.                     *)
(***************************************************************************)
THEOREM RecordsMatch == Spec => []RecordsMatchDistributions
<1>1. IInv => RecordsMatchDistributions
  BY DEF IInv, TablesInv
<1> QED
  BY <1>1, InitInv, NextInv, PTL DEF Spec

(***************************************************************************)
(* A deleted account leaves no payout behind.                              *)
(***************************************************************************)
THEOREM DeletedHoldersUnpaid == Spec => []DeletedLeaveNoPayout
<1>1. IInv => DeletedLeaveNoPayout
  BY DEF IInv, TablesInv
<1> QED
  BY <1>1, InitInv, NextInv, PTL DEF Spec

(***************************************************************************)
(* PayAll is all or nothing: the step by which it pays anything leaves no  *)
(* payout of the dividend unpaid.                                          *)
(***************************************************************************)
THEOREM PayAllComplete == Spec => PayAllPaysAll
<1> DEFINE A == \A w \in Workers :
                   tx[w].all /\ tx'[w] # tx[w] /\ settled' # settled
                      => \A h \in Holders : payout'[tx[w].dividend][h] # "unpaid"
<1>1. IInv /\ [Next]_vars => [A]_vars
  <2> SUFFICES ASSUME IInv, Next, NEW w \in Workers,
                      tx[w].all, tx'[w] # tx[w], settled' # settled
               PROVE  \A h \in Holders : payout'[tx[w].dividend][h] # "unpaid"
    BY DEF vars, tables
  <2>1. PICK v \in Workers : CommitMarks(v)
    <3>1. ASSUME NEW v \in Workers,
                 \/ CreateRevenueDistribution(v) \/ MarkPayoutPaid(v) \/ DeleteParent(v)
                 \/ DeletePayout(v) \/ CommitDelete(v) \/ CommitErase(v)
                 \/ DeadlockVictim(v) \/ Rollback(v)
          PROVE  FALSE
      BY <3>1 DEF CreateRevenueDistribution, MarkPayoutPaid, DeleteParent, DeletePayout,
                  CommitDelete, CommitErase, DeadlockVictim, Rollback, tables
    <3>2. ASSUME NEW v \in Workers, NEW h \in Holders, DeleteUser(v, h) PROVE FALSE
      BY <3>2 DEF DeleteUser, tables
    <3>3. ASSUME NEW v \in Workers, NEW d \in Dividends,
                 PayAll(v, d) \/ MarkPaid(v, d) \/ DeleteDividend(v, d) \/ DeleteDistribution(v, d)
          PROVE  FALSE
      BY <3>3 DEF PayAll, MarkPaid, BeginMarking, DeleteDividend, DeleteDistribution,
                  BeginDelete, tables
    <3>4. ASSUME NEW v \in Workers, NEW d \in Dividends,
                 Declare(v, d) \/ Distribute(v, d) \/ DistributeTiered(v, d)
          PROVE  FALSE
      BY <3>4 DEF Declare, Distribute, DistributeTiered, Declared, CreateDividend
    <3> QED
      BY <3>1, <3>2, <3>3, <3>4 DEF Next, Work
  <2>2. v = w
    BY <2>1 DEF CommitMarks, Finish, IInv, RowsOK
  <2>3. PICK d \in Dividends : d = tx[w].dividend
    BY <2>1, <2>2 DEF CommitMarks, IInv, RowsOK
  <2> DEFINE rows == {h \in Holders : Row(d, h) \in tx[w].locks}
  <2>4. /\ tx[w].pc = "mark" /\ tx[w].todo = <<>>
        /\ payout' = [payout EXCEPT ![d] =
                         [h \in Holders |-> IF h \in rows THEN "paid" ELSE @[h]]]
        /\ settled' = [settled EXCEPT ![d] =
                          [h \in Holders |-> @[h] + (IF h \in rows THEN 1 ELSE 0)]]
    BY <2>1, <2>2, <2>3 DEF CommitMarks
  <2>5. tx[w].locks # {}
    <3> SUFFICES ASSUME tx[w].locks = {} PROVE settled' = settled
      OBVIOUS
    <3>1. rows = {}
      OBVIOUS
    <3>2. \A h \in Holders : settled[d][h] + (IF h \in rows THEN 1 ELSE 0) = settled[d][h]
      BY <3>1 DEF IInv, RowsOK
    <3>3. settled[d] \in [Holders -> Nat]
      BY DEF IInv, RowsOK
    <3>4. [h \in Holders |-> settled[d][h] + (IF h \in rows THEN 1 ELSE 0)] = settled[d]
      BY <3>2, <3>3
    <3> QED
      BY <2>4, <3>4 DEF IInv, RowsOK
  <2>6. \A h \in Holders : payout[d][h] = "unpaid" => h \in rows
    <3>1. Marks(tx[w])
      BY <2>4 DEF IInv, Transactions, Sound
    <3>2. ToSet(tx[w].todo) = {}
      BY <2>4 DEF ToSet
    <3> QED
      BY <2>3, <2>5, <3>1, <3>2 DEF Marks
  <2>7. \A h \in Holders : payout'[d][h] = IF h \in rows THEN "paid" ELSE payout[d][h]
    BY <2>4 DEF IInv, RowsOK
  <2> QED
    BY <2>3, <2>6, <2>7
<1> QED
  BY <1>1, InitInv, NextInv, PTL DEF Spec, PayAllPaysAll
-----------------------------------------------------------------------------
(***************************************************************************)
(* Amounts.  A factor that both sides have may be cancelled, and a division*)
(* rounds down.                                                            *)
(***************************************************************************)
LEMMA Cancel ==
    ASSUME NEW n \in Nat \ {0}, NEW x \in Nat, NEW y \in Nat
    PROVE  (n * x < n * y => x < y) /\ (n * x <= n * y => x <= y)
OBVIOUS

LEMMA RoundedDown ==
    ASSUME NEW n \in Nat \ {0}, NEW x \in Nat
    PROVE  /\ x \div n \in Nat
           /\ n * (x \div n) <= x /\ x < n * ((x \div n) + 1)
OBVIOUS

(***************************************************************************)
(* Columns of n: the elements of 1..(n * m) are n * (i - 1) + j for a      *)
(* column i and a place j in it, each in one way.                          *)
(***************************************************************************)
LEMMA PlaceInColumns ==
    ASSUME NEW n \in Nat \ {0}, NEW m \in Nat, NEW i \in 1..m, NEW j \in 1..n
    PROVE  n * (i - 1) + j \in 1..(n * m)
<1>1. PICK r \in Nat : m = i + r
  <2>1. m - i \in Nat
    OBVIOUS
  <2> QED
    BY <2>1
<1>2. n * m = n * (i - 1) + n + n * r
  BY <1>1
<1> QED
  BY <1>2

(***************************************************************************)
(* The column and the place are determined.                                *)
(***************************************************************************)
LEMMA ColumnsApart ==
    ASSUME NEW n \in Nat \ {0}, NEW i \in Nat \ {0}, NEW k \in Nat \ {0},
           NEW j \in 1..n, NEW l \in 1..n, n * (i - 1) + j = n * (k - 1) + l
    PROVE  i = k /\ j = l
<1>1. CASE i < k
  <2>1. PICK m \in Nat : k = i + 1 + m
    <3>1. k - i - 1 \in Nat
      BY <1>1
    <3> QED
      BY <3>1
  <2>2. n * (k - 1) = n * (i - 1) + n + n * m
    BY <2>1
  <2> QED
    BY <2>2
<1>2. CASE k < i
  <2>1. PICK m \in Nat : i = k + 1 + m
    <3>1. i - k - 1 \in Nat
      BY <1>2
    <3> QED
      BY <3>1
  <2>2. n * (i - 1) = n * (k - 1) + n + n * m
    BY <2>1
  <2> QED
    BY <2>2
<1> QED
  BY <1>1, <1>2

(***************************************************************************)
(* Every element has a column and a place.                                 *)
(***************************************************************************)
LEMMA ColumnsReach ==
    ASSUME NEW n \in Nat \ {0}, NEW m \in Nat, NEW k \in 1..(n * m)
    PROVE  \E i \in 1..m, j \in 1..n : k = n * (i - 1) + j
<1> DEFINE q == (k - 1) \div n
           j == k - n * q
<1>1. q \in Nat /\ n * q <= k - 1 /\ k - 1 < n * (q + 1)
  <2>1. k - 1 \in Nat
    OBVIOUS
  <2> QED
    BY <2>1, RoundedDown
<1> HIDE DEF q
<1>2. n * q < n * m
  BY <1>1
<1>3. q < m
  BY <1>1, <1>2, Cancel
<1>4. n * (q + 1) = n * q + n /\ n * q \in Nat
  BY <1>1
<1>5. j \in 1..n
  BY <1>1, <1>4
<1>6. q + 1 \in 1..m /\ k = n * ((q + 1) - 1) + j
  BY <1>1, <1>3, <1>4
<1> QED
  BY <1>5, <1>6

(***************************************************************************)
(* The dongs (or shares) that a sum counts.                                *)
(***************************************************************************)
LEMMA DongFacts ==
    ASSUME NEW D, NEW f \in [D -> Nat]
    PROVE  /\ Sum(f) = Cardinality(Dongs(f))
           /\ \A x \in D : \A i \in 1..f[x] : <<x, i>> \in Dongs(f)
           /\ \A p \in Dongs(f) : \E x \in D, i \in Nat : i \in 1..f[x] /\ p = <<x, i>>
<1>1. DOMAIN f = D
  OBVIOUS
<1> QED
  BY <1>1 DEF Sum, Dongs

(***************************************************************************)
(* They are finitely many.                                                 *)
(***************************************************************************)
LEMMA DongsFinite ==
    ASSUME NEW D, IsFiniteSet(D), NEW f \in [D -> Nat]
    PROVE  IsFiniteSet(Dongs(f)) /\ Sum(f) \in Nat
<1> DEFINE column == [x \in D |-> {x} \X (1..f[x])]
           T == {{x} \X (1..f[x]) : x \in D}
<1>1. column \in Surjection(D, T)
  BY Fun_IsSurj
<1>2. IsFiniteSet(T)
  BY <1>1, FS_Surjection
<1>3. ASSUME NEW X \in T PROVE IsFiniteSet(X)
  <2>1. PICK x \in D : X = {x} \X (1..f[x])
    OBVIOUS
  <2>2. 1 \in Int /\ f[x] \in Int
    OBVIOUS
  <2>3. IsFiniteSet({x}) /\ IsFiniteSet(1..f[x])
    BY <2>2, FS_Singleton, FS_Interval
  <2> QED
    BY <2>1, <2>3, FS_Product
<1>4. Dongs(f) = UNION T
  BY DEF Dongs
<1>5. IsFiniteSet(Dongs(f))
  BY <1>2, <1>3, <1>4, FS_UNION
<1> QED
  BY <1>5, FS_CardinalityType, DongFacts

(***************************************************************************)
(* Nothing for anybody is nothing in all.                                  *)
(***************************************************************************)
LEMMA SumOfNothing ==
    ASSUME NEW D, NEW f \in [D -> Nat], \A x \in D : f[x] = 0
    PROVE  Sum(f) = 0
<1>1. Dongs(f) = {}
  <2>1. \A x \in D, i \in Nat : i \notin 1..f[x]
    OBVIOUS
  <2> QED
    BY <2>1, DongFacts
<1> QED
  BY <1>1, DongFacts, FS_EmptySet

(***************************************************************************)
(* Smaller amounts have a smaller sum.                                     *)
(***************************************************************************)
LEMMA SumGrows ==
    ASSUME NEW D, IsFiniteSet(D), NEW f \in [D -> Nat], NEW g \in [D -> Nat],
           \A x \in D : f[x] <= g[x]
    PROVE  /\ Sum(f) <= Sum(g)
           /\ (\E x \in D : f[x] < g[x]) => Sum(f) < Sum(g)
<1>1. /\ IsFiniteSet(Dongs(g)) /\ Sum(f) \in Nat /\ Sum(g) \in Nat
      /\ Sum(f) = Cardinality(Dongs(f)) /\ Sum(g) = Cardinality(Dongs(g))
  BY DongsFinite, DongFacts
<1>2. Dongs(f) \in SUBSET Dongs(g)
  <2> SUFFICES ASSUME NEW p \in Dongs(f) PROVE p \in Dongs(g)
    OBVIOUS
  <2>1. PICK x \in D, i \in Nat : i \in 1..f[x] /\ p = <<x, i>>
    BY DongFacts
  <2>2. i \in 1..g[x]
    BY <2>1
  <2> QED
    BY <2>1, <2>2, DongFacts
<1>3. /\ Cardinality(Dongs(f)) <= Cardinality(Dongs(g))
      /\ Cardinality(Dongs(g)) = Cardinality(Dongs(f)) => Dongs(g) = Dongs(f)
  BY <1>1, <1>2, FS_Subset
<1>4. ASSUME NEW x \in D, f[x] < g[x] PROVE Dongs(g) # Dongs(f)
  <2>1. g[x] \in 1..g[x] /\ g[x] \notin 1..f[x]
    BY <1>4
  <2>2. <<x, g[x]>> \in Dongs(g)
    BY <2>1, DongFacts
  <2>3. <<x, g[x]>> \notin Dongs(f)
    BY <2>1, DongFacts
  <2> QED
    BY <2>2, <2>3
<1> QED
  BY <1>1, <1>3, <1>4

(***************************************************************************)
(* The sum of two amounts each: the dongs of the second follow those of    *)
(* the first in every column.                                              *)
(***************************************************************************)
LEMMA SumAdds ==
    ASSUME NEW D, IsFiniteSet(D), NEW f \in [D -> Nat], NEW g \in [D -> Nat]
    PROVE  Sum([x \in D |-> f[x] + g[x]]) = Sum(f) + Sum(g)
<1> DEFINE both == [x \in D |-> f[x] + g[x]]
           T == {<<p[1], f[p[1]] + p[2]>> : p \in Dongs(g)}
           shift == [p \in Dongs(g) |-> <<p[1], f[p[1]] + p[2]>>]
<1>1. both \in [D -> Nat]
  OBVIOUS
<1>2. \A t \in T : \E x \in D, i \in Nat : i \in 1..g[x] /\ t = <<x, f[x] + i>>
  <2> SUFFICES ASSUME NEW p \in Dongs(g)
               PROVE  \E x \in D, i \in Nat :
                         i \in 1..g[x] /\ <<p[1], f[p[1]] + p[2]>> = <<x, f[x] + i>>
    OBVIOUS
  <2>1. PICK x \in D, i \in Nat : i \in 1..g[x] /\ p = <<x, i>>
    BY DongFacts
  <2> QED
    BY <2>1
<1>3. \A x \in D : \A i \in 1..g[x] : <<x, f[x] + i>> \in T
  <2> SUFFICES ASSUME NEW x \in D, NEW i \in 1..g[x] PROVE <<x, f[x] + i>> \in T
    OBVIOUS
  <2>1. <<x, i>> \in Dongs(g)
    BY DongFacts
  <2>2. <<x, f[x] + i>> = << <<x, i>>[1], f[<<x, i>>[1]] + <<x, i>>[2] >>
    OBVIOUS
  <2> QED
    BY <2>1, <2>2
<1>4. shift \in Surjection(Dongs(g), T)
  BY Fun_IsSurj
<1>5. shift \in Injection(Dongs(g), T)
  <2>1. shift \in [Dongs(g) -> T]
    OBVIOUS
  <2> SUFFICES ASSUME NEW p \in Dongs(g), NEW q \in Dongs(g), shift[p] = shift[q] PROVE p = q
    BY <2>1, Fun_IsInj
  <2>2. PICK x \in D, i \in Nat : i \in 1..g[x] /\ p = <<x, i>>
    BY DongFacts
  <2>3. PICK y \in D, j \in Nat : j \in 1..g[y] /\ q = <<y, j>>
    BY DongFacts
  <2>4. shift[p] = <<x, f[x] + i>> /\ shift[q] = <<y, f[y] + j>>
    BY <2>2, <2>3
  <2>5. x = y /\ f[x] + i = f[x] + j
    BY <2>4
  <2>6. i = j
    BY <2>5
  <2> QED
    BY <2>2, <2>3, <2>5, <2>6
<1> HIDE DEF T, shift
<1>6. Dongs(both) = Dongs(f) \cup T
  <2>1. ASSUME NEW p \in Dongs(both) PROVE p \in Dongs(f) \cup T
    <3>1. PICK x \in D, i \in Nat : i \in 1..both[x] /\ p = <<x, i>>
      BY <1>1, DongFacts
    <3>2. CASE i \in 1..f[x]
      BY <3>1, <3>2, DongFacts
    <3>3. CASE i \notin 1..f[x]
      <4>1. i - f[x] \in 1..g[x] /\ i = f[x] + (i - f[x])
        BY <3>1, <3>3
      <4> QED
        BY <1>3, <3>1, <4>1
    <3> QED
      BY <3>2, <3>3
  <2>2. ASSUME NEW p \in Dongs(f) PROVE p \in Dongs(both)
    <3>1. PICK x \in D, i \in Nat : i \in 1..f[x] /\ p = <<x, i>>
      BY DongFacts
    <3>2. i \in 1..both[x]
      BY <3>1
    <3> QED
      BY <1>1, <3>1, <3>2, DongFacts
  <2>3. ASSUME NEW p \in T PROVE p \in Dongs(both)
    <3>1. PICK x \in D, i \in Nat : i \in 1..g[x] /\ p = <<x, f[x] + i>>
      BY <1>2
    <3>2. f[x] + i \in 1..both[x]
      BY <3>1
    <3> QED
      BY <1>1, <3>1, <3>2, DongFacts
  <2> QED
    BY <2>1, <2>2, <2>3
<1>7. Dongs(f) \cap T = {}
  <2> SUFFICES ASSUME NEW p \in Dongs(f), p \in T PROVE FALSE
    OBVIOUS
  <2>1. PICK x \in D, i \in Nat : i \in 1..f[x] /\ p = <<x, i>>
    BY DongFacts
  <2>2. PICK y \in D, j \in Nat : j \in 1..g[y] /\ p = <<y, f[y] + j>>
    BY <1>2
  <2>3. x = y /\ i = f[x] + j
    BY <2>1, <2>2
  <2> QED
    BY <2>1, <2>2, <2>3
<1>8. /\ IsFiniteSet(Dongs(f)) /\ Sum(f) \in Nat /\ Sum(f) = Cardinality(Dongs(f))
      /\ IsFiniteSet(Dongs(g)) /\ Sum(g) \in Nat /\ Sum(g) = Cardinality(Dongs(g))
  BY DongsFinite, DongFacts
<1>9. IsFiniteSet(T) /\ Cardinality(T) = Sum(g)
  BY <1>4, <1>5, <1>8, FS_Surjection
<1>10. Cardinality(Dongs(f) \cup T)
         = Cardinality(Dongs(f)) + Cardinality(T) - Cardinality(Dongs(f) \cap T)
  BY <1>8, <1>9, FS_Union
<1>11. Cardinality(Dongs(f) \cap T) = 0
  BY <1>7, FS_EmptySet
<1>12. Sum(both) = Cardinality(Dongs(f) \cup T)
  BY <1>1, <1>6, DongFacts
<1> QED
  BY <1>8, <1>9, <1>10, <1>11, <1>12

(***************************************************************************)
(* One dong for each member of a set.                                      *)
(***************************************************************************)
LEMMA SumOfOnes ==
    ASSUME NEW D, IsFiniteSet(D), NEW T \in SUBSET D
    PROVE  /\ Sum([x \in D |-> IF x \in T THEN 1 ELSE 0]) = Cardinality(T)
           /\ Cardinality(T) \in Nat
<1> DEFINE one == [x \in D |-> IF x \in T THEN 1 ELSE 0]
           column == [x \in T |-> <<x, 1>>]
<1>1. one \in [D -> Nat]
  OBVIOUS
<1>2. \A x \in D, i \in Nat : i \in 1..one[x] <=> x \in T /\ i = 1
  OBVIOUS
<1> HIDE DEF one
<1>3. \A p : p \in Dongs(one) <=> \E x \in T : p = <<x, 1>>
  BY <1>1, <1>2, DongFacts
<1>4. column \in Surjection(T, Dongs(one))
  <2>1. column \in [T -> Dongs(one)]
    BY <1>3
  <2> QED
    BY <1>3, <2>1, Fun_IsSurj
<1>5. column \in Injection(T, Dongs(one))
  <2>1. column \in [T -> Dongs(one)]
    BY <1>3
  <2>2. \A x, y \in T : column[x] = column[y] => x = y
    OBVIOUS
  <2> QED
    BY <2>1, <2>2, Fun_IsInj
<1>6. IsFiniteSet(T) /\ Cardinality(T) \in Nat
  BY FS_Subset, FS_CardinalityType
<1>7. Cardinality(Dongs(one)) = Cardinality(T)
  BY <1>4, <1>5, <1>6, FS_Surjection
<1>8. Sum(one) = Cardinality(T)
  BY <1>1, <1>7, DongFacts
<1> QED
  BY <1>6, <1>8 DEF one

(***************************************************************************)
(* One dong more for everybody, and for one of them.                       *)
(***************************************************************************)
LEMMA SumOneMore ==
    ASSUME NEW D, IsFiniteSet(D), NEW f \in [D -> Nat]
    PROVE  /\ Sum([x \in D |-> f[x] + 1]) = Sum(f) + Cardinality(D)
           /\ \A y \in D : Sum([f EXCEPT ![y] = @ + 1]) = Sum(f) + 1
<1>1. ASSUME NEW T \in SUBSET D
      PROVE  Sum([x \in D |-> f[x] + (IF x \in T THEN 1 ELSE 0)]) = Sum(f) + Cardinality(T)
  <2> DEFINE one == [x \in D |-> IF x \in T THEN 1 ELSE 0]
  <2>1. one \in [D -> Nat]
    OBVIOUS
  <2>2. [x \in D |-> f[x] + (IF x \in T THEN 1 ELSE 0)] = [x \in D |-> f[x] + one[x]]
    OBVIOUS
  <2>3. Sum(one) = Cardinality(T)
    BY SumOfOnes
  <2>4. Sum([x \in D |-> f[x] + one[x]]) = Sum(f) + Sum(one)
    BY <2>1, SumAdds
  <2> QED
    BY <2>2, <2>3, <2>4
<1>2. Sum([x \in D |-> f[x] + 1]) = Sum(f) + Cardinality(D)
  <2>1. [x \in D |-> f[x] + 1] = [x \in D |-> f[x] + (IF x \in D THEN 1 ELSE 0)]
    OBVIOUS
  <2> QED
    BY <1>1, <2>1
<1>3. ASSUME NEW y \in D PROVE Sum([f EXCEPT ![y] = @ + 1]) = Sum(f) + 1
  <2>1. [f EXCEPT ![y] = @ + 1] = [x \in D |-> f[x] + (IF x \in {y} THEN 1 ELSE 0)]
    <3>1. \A x \in D : [f EXCEPT ![y] = @ + 1][x] = f[x] + (IF x \in {y} THEN 1 ELSE 0)
      OBVIOUS
    <3> QED
      BY <3>1
  <2>2. Cardinality({y}) = 1
    BY FS_Singleton
  <2> QED
    BY <1>1, <2>1, <2>2
<1> QED
  BY <1>2, <1>3

(***************************************************************************)
(* n times the amounts have n times the sum: a dong of the one, with a     *)
(* place, is a dong of the other.                                          *)
(***************************************************************************)
LEMMA SumTimes ==
    ASSUME NEW D, IsFiniteSet(D), NEW f \in [D -> Nat], NEW n \in Nat \ {0}
    PROVE  Sum([x \in D |-> n * f[x]]) = n * Sum(f)
<1> DEFINE g == [x \in D |-> n * f[x]]
           P == Dongs(f) \X (1..n)
           place == [p \in P |-> <<p[1][1], n * (p[1][2] - 1) + p[2]>>]
<1>1. \A p \in P : \E x \in D : \E i \in 1..f[x], j \in 1..n :
         p = << <<x, i>>, j >> /\ place[p] = <<x, n * (i - 1) + j>>
  <2> SUFFICES ASSUME NEW p \in P
               PROVE  \E x \in D : \E i \in 1..f[x], j \in 1..n :
                         p = << <<x, i>>, j >> /\ place[p] = <<x, n * (i - 1) + j>>
    OBVIOUS
  <2>1. PICK d \in Dongs(f), j \in 1..n : p = <<d, j>>
    OBVIOUS
  <2>2. PICK x \in D, i \in Nat : i \in 1..f[x] /\ d = <<x, i>>
    BY DongFacts
  <2>3. place[p] = <<p[1][1], n * (p[1][2] - 1) + p[2]>>
    OBVIOUS
  <2> QED
    BY <2>1, <2>2, <2>3
<1> HIDE DEF place
<1>2. place \in [P -> Dongs(g)]
  <2>1. ASSUME NEW p \in P PROVE place[p] \in Dongs(g)
    <3>1. PICK x \in D : \E i \in 1..f[x], j \in 1..n :
             p = << <<x, i>>, j >> /\ place[p] = <<x, n * (i - 1) + j>>
      BY <1>1
    <3>2. PICK i \in 1..f[x], j \in 1..n :
             p = << <<x, i>>, j >> /\ place[p] = <<x, n * (i - 1) + j>>
      BY <3>1
    <3>3. n * (i - 1) + j \in 1..(n * f[x])
      BY PlaceInColumns
    <3>4. n * (i - 1) + j \in 1..g[x]
      BY <3>3
    <3> QED
      BY <3>2, <3>4, DongFacts
  <2> QED
    BY <2>1 DEF place
<1>3. place \in Injection(P, Dongs(g))
  <2> SUFFICES ASSUME NEW p \in P, NEW q \in P, place[p] = place[q] PROVE p = q
    BY <1>2, Fun_IsInj
  <2>1. PICK x \in D : \E i \in 1..f[x], j \in 1..n :
           p = << <<x, i>>, j >> /\ place[p] = <<x, n * (i - 1) + j>>
    BY <1>1
  <2>2. PICK i \in 1..f[x], j \in 1..n :
           p = << <<x, i>>, j >> /\ place[p] = <<x, n * (i - 1) + j>>
    BY <2>1
  <2>3. PICK y \in D : \E l \in 1..f[y], m \in 1..n :
           q = << <<y, l>>, m >> /\ place[q] = <<y, n * (l - 1) + m>>
    BY <1>1
  <2>4. PICK l \in 1..f[y], m \in 1..n :
           q = << <<y, l>>, m >> /\ place[q] = <<y, n * (l - 1) + m>>
    BY <2>3
  <2>5. x = y /\ n * (i - 1) + j = n * (l - 1) + m
    BY <2>2, <2>4
  <2>6. i \in Nat \ {0} /\ l \in Nat \ {0}
    OBVIOUS
  <2>7. i = l /\ j = m
    BY <2>5, <2>6, ColumnsApart
  <2> QED
    BY <2>2, <2>4, <2>5, <2>7
<1>4. place \in Surjection(P, Dongs(g))
  <2> SUFFICES ASSUME NEW d \in Dongs(g) PROVE \E p \in P : place[p] = d
    BY <1>2, Fun_IsSurj
  <2>1. PICK x \in D, k \in Nat : k \in 1..g[x] /\ d = <<x, k>>
    BY DongFacts
  <2>2. f[x] \in Nat /\ k \in 1..(n * f[x])
    BY <2>1
  <2>3. PICK i \in 1..f[x], j \in 1..n : k = n * (i - 1) + j
    BY <2>2, ColumnsReach
  <2>4. << <<x, i>>, j >> \in P
    BY DongFacts
  <2>5. place[<< <<x, i>>, j >>] = <<x, n * (i - 1) + j>>
    BY <2>4 DEF place
  <2> QED
    BY <2>1, <2>3, <2>4, <2>5
<1>5. IsFiniteSet(Dongs(f)) /\ Sum(f) \in Nat /\ Sum(f) = Cardinality(Dongs(f))
  BY DongsFinite, DongFacts
<1>6. IsFiniteSet(1..n) /\ Cardinality(1..n) = n
  <2>1. 1 \in Int /\ n \in Int
    OBVIOUS
  <2>2. IsFiniteSet(1..n) /\ Cardinality(1..n) = IF 1 > n THEN 0 ELSE n - 1 + 1
    BY <2>1, FS_Interval
  <2> QED
    BY <2>2
<1>7. IsFiniteSet(P) /\ Cardinality(P) = Sum(f) * n
  <2>1. /\ IsFiniteSet(Dongs(f) \X (1..n))
        /\ Cardinality(Dongs(f) \X (1..n)) = Cardinality(Dongs(f)) * Cardinality(1..n)
    BY <1>5, <1>6, FS_Product
  <2> QED
    BY <1>5, <1>6, <2>1
<1>8. Cardinality(Dongs(g)) = Cardinality(P)
  BY <1>3, <1>4, <1>7, FS_Surjection
<1>9. Sum(g) = Sum(f) * n
  BY <1>7, <1>8, DongFacts
<1>10. Sum(f) * n = n * Sum(f)
  BY <1>5
<1> QED
  BY <1>9, <1>10

(***************************************************************************)
(* Rounding every share down keeps back less than one dong per holder and  *)
(* never gives out more than the total.                                    *)
(***************************************************************************)
LEMMA ProRataShares ==
    ASSUME NEW total \in Nat \ {0}, NEW holding \in [Holders -> Nat], SharesIn(holding) > 0
    PROVE  LET a == ProRata(total, holding) IN
           /\ a \in [Holders -> Nat]
           /\ Sum(a) <= total /\ total - Sum(a) < Cardinality(Holders)
<1> DEFINE s == SharesIn(holding)
           a == ProRata(total, holding)
           due == [h \in Holders |-> total * holding[h]]
           given == [h \in Holders |-> s * a[h]]
           more == [h \in Holders |-> a[h] + 1]
           above == [h \in Holders |-> s * more[h]]
<1>1. s = Sum(holding) /\ s \in Nat \ {0}
  BY DongsFinite DEF SharesIn
<1>2. \A h \in Holders : due[h] \in Nat /\ a[h] = due[h] \div s
  BY DEF ProRata
<1> HIDE DEF s, due
<1>3. \A h \in Holders :
         /\ a[h] \in Nat
         /\ s * a[h] <= due[h] /\ due[h] < s * (a[h] + 1)
  BY <1>1, <1>2, RoundedDown
<1>4. a \in [Holders -> Nat] /\ due \in [Holders -> Nat]
  BY <1>2, <1>3 DEF ProRata, due
<1> HIDE DEF a
<1>5. given \in [Holders -> Nat] /\ more \in [Holders -> Nat] /\ above \in [Holders -> Nat]
  BY <1>1, <1>4
<1>6. Sum(due) = total * s
  BY <1>1, SumTimes DEF due
<1>7. Sum(given) = s * Sum(a)
  BY <1>1, <1>4, SumTimes
<1>8. Sum(more) = Sum(a) + Cardinality(Holders) /\ Sum(above) = s * Sum(more)
  <2>1. Sum(more) = Sum(a) + Cardinality(Holders)
    BY <1>4, SumOneMore
  <2> HIDE DEF more
  <2>2. Sum(above) = s * Sum(more)
    BY <1>1, <1>5, SumTimes
  <2> QED
    BY <2>1, <2>2
<1>9. Sum(given) <= Sum(due)
  BY <1>3, <1>4, <1>5, SumGrows
<1>10. Sum(due) < Sum(above)
  <2>1. PICK h \in Holders : TRUE
    <3> SUFFICES ASSUME Holders = {} PROVE FALSE
      OBVIOUS
    <3>1. Sum(holding) = 0
      BY SumOfNothing
    <3> QED
      BY <1>1, <3>1
  <2>2. \A k \in Holders : due[k] < above[k] /\ due[k] <= above[k]
    BY <1>1, <1>3, <1>4, <1>5
  <2> QED
    BY <1>4, <1>5, <2>1, <2>2, SumGrows
<1>11. Sum(a) \in Nat /\ Cardinality(Holders) \in Nat
  BY <1>4, DongsFinite, FS_CardinalityType
<1> HIDE DEF given, more, above
<1>12. total * s = s * total
  BY <1>1
<1>13. Sum(a) <= total
  BY <1>1, <1>6, <1>7, <1>9, <1>11, <1>12, Cancel
<1>14. total < Sum(a) + Cardinality(Holders)
  BY <1>1, <1>6, <1>8, <1>10, <1>11, <1>12, Cancel
<1> QED
  BY <1>4, <1>11, <1>13, <1>14 DEF a

(***************************************************************************)
(* A declaration whose payouts stay within its total.                      *)
(***************************************************************************)
AmountsInv == amount \in [Dividends -> [Holders -> Nat]] /\ PayoutsWithinTotal

LEMMA DeclaredWithin ==
    ASSUME RowsOK, AmountsInv, NEW d \in Dividends, NEW by, NEW total, NEW among,
           NEW shared \in [Holders -> Nat], CreateDividend(d, by, total, shared, among),
           Sum(shared) <= total, total - Sum(shared) < Cardinality(Holders)
    PROVE  AmountsInv'
<1>1. \A e \in Dividends :
         /\ amount'[e] = IF e = d THEN shared ELSE amount[e]
         /\ dividend'[e] = IF e = d THEN [by |-> by, total |-> total] ELSE dividend[e]
  BY DEF CreateDividend, RowsOK, AmountsInv
<1>2. amount' \in [Dividends -> [Holders -> Nat]]
  BY DEF CreateDividend, AmountsInv
<1>3. ASSUME NEW e \in Dividends, Live(e)'
      PROVE  /\ Sum(amount'[e]) <= dividend'[e].total
             /\ dividend'[e].total - Sum(amount'[e]) < Cardinality(Holders)
  BY <1>1, <1>3 DEF AmountsInv, PayoutsWithinTotal, Live
<1>4. \A e \in Dividends : Sum(amount[e])' = Sum(amount'[e])
  BY DEF Sum
<1> QED
  BY <1>2, <1>3, <1>4 DEF AmountsInv, PayoutsWithinTotal

(***************************************************************************)
(* Every step keeps the amounts within the totals.                         *)
(***************************************************************************)
LEMMA AmountsNext == RowsOK /\ AmountsInv /\ [Next]_vars => AmountsInv'
<1> SUFFICES ASSUME RowsOK, AmountsInv, [Next]_vars PROVE AmountsInv'
  OBVIOUS
<1>1. ASSUME UNCHANGED <<dividend, amount>> PROVE AmountsInv'
  BY <1>1 DEF AmountsInv, PayoutsWithinTotal, Live, Sum
<1>2. ASSUME NEW w \in Workers,
             \/ CreateRevenueDistribution(w) \/ MarkPayoutPaid(w) \/ CommitMarks(w)
             \/ DeleteParent(w) \/ DeletePayout(w) \/ CommitErase(w)
             \/ DeadlockVictim(w) \/ Rollback(w)
      PROVE  AmountsInv'
  BY <1>1, <1>2 DEF CreateRevenueDistribution, MarkPayoutPaid, CommitMarks, DeleteParent,
                    DeletePayout, CommitErase, DeadlockVictim, Rollback, tables
<1>3. ASSUME NEW w \in Workers, NEW h \in Holders, DeleteUser(w, h) PROVE AmountsInv'
  BY <1>1, <1>3 DEF DeleteUser, tables
<1>4. ASSUME NEW w \in Workers, NEW d \in Dividends,
             PayAll(w, d) \/ MarkPaid(w, d) \/ DeleteDividend(w, d) \/ DeleteDistribution(w, d)
      PROVE  AmountsInv'
  BY <1>1, <1>4 DEF PayAll, MarkPaid, BeginMarking, DeleteDividend, DeleteDistribution,
                    BeginDelete, tables
<1>5. ASSUME NEW w \in Workers, CommitDelete(w) PROVE AmountsInv'
  <2>1. PICK d \in Dividends : d = tx[w].dividend
    BY <1>5 DEF CommitDelete, RowsOK
  <2>2. /\ dividend' = [dividend EXCEPT ![d] = [by |-> "deleted", total |-> 0]]
        /\ amount' = [amount EXCEPT ![d] = [h \in Holders |-> 0]]
    BY <1>5, <2>1 DEF CommitDelete
  <2>3. amount' \in [Dividends -> [Holders -> Nat]]
    BY <2>2 DEF AmountsInv
  <2>4. \A e \in Dividends : Live(e)' =>
           Live(e) /\ dividend'[e] = dividend[e] /\ amount'[e] = amount[e]
    BY <2>2 DEF Live, RowsOK, AmountsInv
  <2>5. \A e \in Dividends : Sum(amount[e])' = Sum(amount'[e])
    BY DEF Sum
  <2>6. ASSUME NEW e \in Dividends, Live(e)'
        PROVE  /\ Sum(amount'[e]) <= dividend'[e].total
               /\ dividend'[e].total - Sum(amount'[e]) < Cardinality(Holders)
    BY <2>4, <2>6 DEF AmountsInv, PayoutsWithinTotal
  <2> QED
    BY <2>3, <2>5, <2>6 DEF AmountsInv, PayoutsWithinTotal
<1>6. ASSUME NEW d \in Dividends, NEW by, NEW total \in Totals, NEW holding \in Holdings,
             Declared(d, by, total, holding)
      PROVE  AmountsInv'
  <2>1. total \in Nat \ {0} /\ holding \in [Holders -> Nat] /\ SharesIn(holding) > 0
    BY <1>6 DEF Declared
  <2>2. /\ ProRata(total, holding) \in [Holders -> Nat]
        /\ Sum(ProRata(total, holding)) <= total
        /\ total - Sum(ProRata(total, holding)) < Cardinality(Holders)
    BY <2>1, ProRataShares
  <2> QED
    BY <1>6, <2>2, DeclaredWithin DEF Declared
<1>7. ASSUME NEW w \in Workers, NEW d \in Dividends, Declare(w, d) \/ Distribute(w, d)
      PROVE  AmountsInv'
  BY <1>6, <1>7 DEF Declare, Distribute
<1>8. ASSUME NEW w \in Workers, NEW d \in Dividends, DistributeTiered(w, d) PROVE AmountsInv'
  <2>1. PICK total \in Totals : \E plan \in [Holders -> 0..total] :
           /\ total > 0 /\ Sum(plan) = total
           /\ CreateDividend(d, "tiered", total, plan, {h \in Holders : plan[h] > 0})
    BY <1>8 DEF DistributeTiered
  <2>2. PICK plan \in [Holders -> 0..total] :
           /\ total > 0 /\ Sum(plan) = total
           /\ CreateDividend(d, "tiered", total, plan, {h \in Holders : plan[h] > 0})
    BY <2>1
  <2>3. plan \in [Holders -> Nat] /\ total \in Nat
    BY <2>2
  <2>4. Cardinality(Holders) \in Nat /\ Cardinality(Holders) # 0
    <3>1. Holders = {} => Sum(plan) = 0
      BY <2>3, SumOfNothing
    <3> QED
      BY <2>2, <3>1, FS_CardinalityType, FS_EmptySet
  <2> QED
    BY <2>2, <2>3, <2>4, DeclaredWithin
<1>9. CASE UNCHANGED vars
  BY <1>1, <1>9 DEF vars, tables
<1> QED
  BY <1>2, <1>3, <1>4, <1>5, <1>7, <1>8, <1>9 DEF Next, Work

(***************************************************************************)
(* Nothing is shared out at first.                                         *)
(***************************************************************************)
LEMMA AmountsInit == Init => AmountsInv
BY DEF Init, AmountsInv, PayoutsWithinTotal, Live, Absent

(***************************************************************************)
(* The amounts in every state.                                             *)
(***************************************************************************)
LEMMA Amounts == Spec => [](RowsOK /\ AmountsInv)
<1>1. IInv => RowsOK
  BY DEF IInv
<1> QED
  BY <1>1, InitInv, NextInv, AmountsInit, AmountsNext, PTL DEF Spec

(***************************************************************************)
(* Dividends, payouts, amounts, records, accounts and transactions keep    *)
(* the shape that the model gives them.                                    *)
(***************************************************************************)
THEOREM Typed == Spec => []TypeOK
<1>1. RowsOK /\ AmountsInv => TypeOK
  BY DEF TypeOK, AmountsInv
<1> QED
  BY <1>1, Amounts, PTL

(***************************************************************************)
(* No dividend pays out more than its total, and the rounding of Declare   *)
(* keeps back less than one dong per shareholder, for any holdings.        *)
(***************************************************************************)
THEOREM PayoutsStayWithinTotal == Spec => []PayoutsWithinTotal
<1>1. RowsOK /\ AmountsInv => PayoutsWithinTotal
  BY DEF AmountsInv
<1> QED
  BY <1>1, Amounts, PTL
-----------------------------------------------------------------------------
(***************************************************************************)
(* The tiered plan (TieredPlan), for any number of accounts, any rates and *)
(* any pool.  First what its sums come to: a constant for some, a constant *)
(* for all, and r dong over k accounts, the first ones getting one more.   *)
(***************************************************************************)
LEMMA SumOfSome ==
    ASSUME NEW D, IsFiniteSet(D), NEW T \in SUBSET D, NEW c \in Nat \ {0}
    PROVE  Sum([x \in D |-> IF x \in T THEN c ELSE 0]) = c * Cardinality(T)
<1> DEFINE one == [x \in D |-> IF x \in T THEN 1 ELSE 0]
<1>1. one \in [D -> Nat] /\ Sum(one) = Cardinality(T)
  BY SumOfOnes
<1>2. \A x \in D : c * one[x] = IF x \in T THEN c ELSE 0
  OBVIOUS
<1> HIDE DEF one
<1>3. Sum([x \in D |-> c * one[x]]) = c * Sum(one)
  BY <1>1, SumTimes
<1>4. [x \in D |-> c * one[x]] = [x \in D |-> IF x \in T THEN c ELSE 0]
  BY <1>2
<1> QED
  BY <1>1, <1>3, <1>4

LEMMA SumShifted ==
    ASSUME NEW D, IsFiniteSet(D), NEW f \in [D -> Nat], NEW c \in Nat
    PROVE  Sum([x \in D |-> c + f[x]]) = c * Cardinality(D) + Sum(f)
<1>1. Cardinality(D) \in Nat /\ Sum(f) \in Nat
  BY FS_CardinalityType, DongsFinite
<1>2. CASE c = 0
  <2>1. \A x \in D : c + f[x] = f[x]
    BY <1>2
  <2>2. [x \in D |-> c + f[x]] = f
    BY <2>1
  <2> QED
    BY <1>1, <1>2, <2>2
<1>3. CASE c # 0
  <2> DEFINE same == [x \in D |-> IF x \in D THEN c ELSE 0]
  <2>1. same \in [D -> Nat] /\ \A x \in D : same[x] = c
    OBVIOUS
  <2>2. Sum(same) = c * Cardinality(D)
    BY <1>3, SumOfSome
  <2> HIDE DEF same
  <2>3. Sum([x \in D |-> same[x] + f[x]]) = Sum(same) + Sum(f)
    BY <2>1, SumAdds
  <2>4. [x \in D |-> same[x] + f[x]] = [x \in D |-> c + f[x]]
    BY <2>1
  <2> QED
    BY <2>2, <2>3, <2>4
<1> QED
  BY <1>2, <1>3

LEMMA DivisionFacts ==
    ASSUME NEW k \in Nat \ {0}, NEW r \in Nat
    PROVE  /\ r \div k \in Nat /\ r % k \in 0..(k - 1)
           /\ (r \div k) * k + (r % k) = r
OBVIOUS

LEMMA SumOfRest ==
    ASSUME NEW k \in Nat \ {0}, NEW r \in Nat
    PROVE  LET add == [i \in 1..k |-> r \div k + IF i <= r % k THEN 1 ELSE 0] IN
           add \in [1..k -> Nat] /\ Sum(add) = r
<1> DEFINE q == r \div k
           m == r % k
           one == [i \in 1..k |-> IF i \in 1..m THEN 1 ELSE 0]
<1>1. q \in Nat /\ m \in 0..(k - 1) /\ q * k + m = r
  BY DivisionFacts
<1>2. IsFiniteSet(1..k) /\ Cardinality(1..k) = k /\ Cardinality(1..m) = m
  <2>1. 1 \in Int /\ k \in Int /\ m \in Int
    BY <1>1
  <2>2. IsFiniteSet(1..k) /\ Cardinality(1..k) = IF 1 > k THEN 0 ELSE k - 1 + 1
    BY <2>1, FS_Interval
  <2>3. Cardinality(1..m) = IF 1 > m THEN 0 ELSE m - 1 + 1
    BY <2>1, FS_Interval
  <2> QED
    BY <1>1, <2>2, <2>3
<1> HIDE DEF q, m
<1>3. 1..m \in SUBSET (1..k)
  BY <1>1
<1>4. one \in [1..k -> Nat] /\ Sum(one) = m
  BY <1>2, <1>3, SumOfOnes
<1>5. \A i \in 1..k : one[i] = IF i <= m THEN 1 ELSE 0
  BY <1>1
<1> HIDE DEF one
<1>6. Sum([i \in 1..k |-> q + one[i]]) = q * k + m
  <2>1. Sum([i \in 1..k |-> q + one[i]]) = q * Cardinality(1..k) + Sum(one)
    BY <1>1, <1>2, <1>4, SumShifted
  <2> QED
    BY <1>2, <1>4, <2>1
<1>7. [i \in 1..k |-> q + one[i]] = [i \in 1..k |-> q + IF i <= m THEN 1 ELSE 0]
  BY <1>5
<1>8. [i \in 1..k |-> q + one[i]] \in [1..k -> Nat]
  BY <1>1, <1>4
<1> QED
  BY <1>1, <1>6, <1>7, <1>8 DEF q, m

(***************************************************************************)
(* Largest remainders, for one account of rate a and one of rate b: p is   *)
(* the pool, s the sum of the rates, x and y the bonuses, u and v the      *)
(* remainders, i and j the loose dong they got.                            *)
(***************************************************************************)
LEMMA WithinOneDong ==
    ASSUME NEW s \in Nat \ {0}, NEW q \in Nat, NEW x \in Nat, NEW i \in {0, 1},
           NEW u \in 0..s, (x - i) * s + u = q,
           i = 1 => u > 0, i = 0 => u < s
    PROVE  x * s < q + s /\ q < x * s + s
<1>1. (x - i) * s = x * s - i * s
  OBVIOUS
<1>2. i * s = IF i = 1 THEN s ELSE 0
  OBVIOUS
<1>3. x * s \in Nat
  OBVIOUS
<1> QED
  BY <1>1, <1>2, <1>3

LEMMA BetterRateFirst ==
    ASSUME NEW s \in Nat \ {0}, NEW p \in Nat, NEW a \in Nat, NEW b \in Nat, a > b,
           NEW x \in Nat, NEW y \in Nat, NEW i \in {0, 1}, NEW j \in {0, 1},
           NEW u \in 0..s, NEW v \in 0..s,
           (x - i) * s + u = p * a, i = 1 => u > 0, i = 0 => u < s,
           (y - j) * s + v = p * b, j = 1 => v > 0, j = 0 => v < s,
           i = 0 /\ j = 1 => v >= u
    PROVE  x >= y
<1> SUFFICES ASSUME x < y PROVE FALSE
  OBVIOUS
<1>1. p * a \in Nat /\ p * b \in Nat /\ x * s \in Nat /\ y * s \in Nat
  OBVIOUS
<1>2. p * b <= p * a /\ (p # 0 => p * b < p * a) /\ (p = 0 => p * a = 0)
  <2>1. PICK d \in Nat \ {0} : a = b + d
    <3>1. a - b \in Nat \ {0}
      OBVIOUS
    <3> QED
      BY <3>1
  <2>2. p * a = p * b + p * d
    BY <2>1
  <2>3. p * d \in Nat /\ (p # 0 => p * d > 0)
    BY <2>1
  <2> QED
    BY <1>1, <2>2, <2>3
<1>3. p * a < x * s + s /\ y * s < p * b + s
  BY <1>1, WithinOneDong
<1>4. y = x + 1
  <2>1. PICK d \in Nat : y = x + 1 + d
    <3>1. y - x - 1 \in Nat
      OBVIOUS
    <3> QED
      BY <3>1
  <2>2. y * s = x * s + s + d * s
    BY <2>1
  <2>3. d * s < s
    BY <1>1, <1>2, <1>3, <2>2
  <2>4. d = 0
    <3>1. d # 0 => d * s >= s
      <4> SUFFICES ASSUME d # 0 PROVE d * s >= s
        OBVIOUS
      <4>1. (d - 1) * s >= 0 /\ (d - 1) * s = d * s - s
        OBVIOUS
      <4> QED
        BY <4>1
    <3> QED
      BY <2>3, <3>1
  <2> QED
    BY <2>1, <2>4
<1>5. y * s = x * s + s
  BY <1>4
<1>6. i = 0 /\ u = p * a - x * s
  <2>1. (x - 1) * s = x * s - s
    OBVIOUS
  <2>2. (x - 0) * s = x * s
    OBVIOUS
  <2>3. i = 1 => p * a <= x * s
    BY <1>1, <2>1
  <2> QED
    BY <1>1, <1>2, <1>3, <1>5, <2>2, <2>3
<1>7. j = 1 /\ v = p * b - x * s
  <2>1. (y - 1) * s = x * s
    BY <1>4
  <2>2. (y - 0) * s = x * s + s
    BY <1>5
  <2>3. j = 0 => p * b >= x * s + s
    BY <1>1, <2>2
  <2> QED
    BY <1>1, <1>2, <1>3, <2>1, <2>3
<1>8. p = 0
  BY <1>1, <1>2, <1>6, <1>7
<1> QED
  BY <1>1, <1>2, <1>3, <1>5, <1>8

PlanTyped ==
    /\ pc \in {"pools", "quotas", "loose", "pay", "rest", "done"}
    /\ \E k \in Nat : band \in [1..k -> Bands]
    /\ rate \in [Bands -> Nat] /\ mode \in {"rollover", "retain"}
    /\ equalPool \in Nat /\ bonusPool \in Nat /\ residual \in Nat
    /\ bonus \in [Accounts -> Nat] /\ rem \in [Accounts -> Nat] /\ payable \in [Accounts -> Nat]
    /\ served \in SUBSET Accounts

\* What a step has not computed yet is zero.
Untouched ==
    /\ pc \in {"pools", "quotas"} => served = {} /\ \A i \in Accounts : bonus[i] = 0
    /\ pc \in {"pools", "quotas", "loose", "pay"} => \A i \in Accounts : payable[i] = 0
    /\ pc # "done" => residual = 0
    /\ pc \in {"loose", "pay", "rest"} => Accounts # {}
    /\ pc = "loose" => SumRates > 0

\* While the loose dong are handed out: an account's rounded quota and remainder, ...
Extra(i) == IF i \in served THEN 1 ELSE 0

Rounding(i) ==
    /\ bonus[i] - Extra(i) \in Nat
    /\ (bonus[i] - Extra(i)) * SumRates + rem[i] = Quota(i)
    /\ rem[i] <= SumRates
    /\ i \in served => rem[i] > 0

\* ... and all of them: the remainders are the loose dong and those handed out.
HandingOut ==
    /\ \A i \in Accounts : Rounding(i)
    /\ Sum(rem) + SumRates * Sum(bonus) = SumRates * (bonusPool + Cardinality(served))
    /\ Sum(bonus) <= bonusPool
    /\ \A i \in served, j \in Accounts \ served : rem[i] >= rem[j]

\* The bonuses, once all of them are settled.
Settled ==
    IF SumRates > 0
    THEN /\ Sum(bonus) = bonusPool
         /\ \A i \in Accounts : /\ bonus[i] * SumRates < Quota(i) + SumRates
                                /\ Quota(i) < bonus[i] * SumRates + SumRates
         /\ \A i, j \in Accounts : rate[band[i]] > rate[band[j]] => bonus[i] >= bonus[j]
    ELSE \A i \in Accounts : bonus[i] = 0

PlanSteps ==
    /\ pc = "loose" => HandingOut
    /\ pc \in {"pay", "rest", "done"} /\ Accounts # {} => Settled
    /\ pc = "rest" => \A i \in Accounts : payable[i] = equalPool \div Count + bonus[i]

PlanInv == PlanTyped /\ Untouched /\ PlanSteps /\ PoolSharedOut /\ BetterBandNotLess

(***************************************************************************)
(* The accounts are numbered, and their rates add up.                      *)
(***************************************************************************)
Rates == [i \in Accounts |-> rate[band[i]]]

LEMMA AccountFacts ==
    ASSUME PlanTyped
    PROVE  /\ Count \in Nat /\ Accounts = 1..Count /\ IsFiniteSet(Accounts)
           /\ Accounts # {} => Count > 0
           /\ Rates \in [Accounts -> Nat] /\ SumRates = Sum(Rates) /\ SumRates \in Nat
           /\ \A i \in Accounts : Rates[i] = rate[band[i]] /\ Quota(i) = bonusPool * Rates[i]
           /\ Sum(bonus) \in Nat /\ Sum(rem) \in Nat /\ Sum(payable) \in Nat
           /\ Cardinality(served) \in Nat /\ IsFiniteSet(served)
<1>1. PICK k \in Nat : band \in [1..k -> Bands]
  BY DEF PlanTyped
<1>2. Accounts = 1..k
  BY <1>1 DEF Accounts
<1>3. IsFiniteSet(1..k) /\ Cardinality(1..k) = k
  <2>1. 1 \in Int /\ k \in Int
    OBVIOUS
  <2>2. IsFiniteSet(1..k) /\ Cardinality(1..k) = IF 1 > k THEN 0 ELSE k - 1 + 1
    BY <2>1, FS_Interval
  <2> QED
    BY <2>2
<1>4. Count = k
  BY <1>2, <1>3 DEF Count
<1>5. Rates \in [Accounts -> Nat]
  BY <1>1, <1>2 DEF PlanTyped, Rates
<1>6. SumRates = Sum(Rates) /\ SumRates \in Nat
  BY <1>2, <1>3, <1>5, DongsFinite DEF SumRates, Rates
<1>7. \A i \in Accounts : Rates[i] = rate[band[i]] /\ Quota(i) = bonusPool * Rates[i]
  BY DEF Rates, Quota
<1>8. Sum(bonus) \in Nat /\ Sum(rem) \in Nat /\ Sum(payable) \in Nat
  BY <1>2, <1>3, DongsFinite DEF PlanTyped
<1>9. IsFiniteSet(served) /\ Cardinality(served) \in Nat
  BY <1>2, <1>3, FS_Subset, FS_CardinalityType DEF PlanTyped
<1> QED
  BY <1>2, <1>3, <1>4, <1>5, <1>6, <1>7, <1>8, <1>9

(***************************************************************************)
(* No rate is above their sum.                                             *)
(***************************************************************************)
LEMMA NoRate ==
    ASSUME PlanTyped, SumRates = 0
    PROVE  \A i \in Accounts : rate[band[i]] = 0
<1> DEFINE zero == [i \in Accounts |-> 0]
<1>1. /\ IsFiniteSet(Accounts) /\ Rates \in [Accounts -> Nat] /\ Sum(Rates) = 0
      /\ \A i \in Accounts : Rates[i] = rate[band[i]]
  BY AccountFacts
<1>2. zero \in [Accounts -> Nat] /\ \A i \in Accounts : zero[i] = 0
  OBVIOUS
<1> HIDE DEF zero
<1>3. Sum(zero) \in Nat
  BY <1>1, <1>2, DongsFinite
<1>4. (\E i \in Accounts : zero[i] < Rates[i]) => Sum(zero) < Sum(Rates)
  BY <1>1, <1>2, SumGrows
<1> QED
  BY <1>1, <1>2, <1>3, <1>4

(***************************************************************************)
(* Most steps leave the accounts and their rates alone.                    *)
(***************************************************************************)
LEMMA SameRates ==
    ASSUME UNCHANGED input
    PROVE  Accounts' = Accounts /\ Count' = Count /\ SumRates' = SumRates /\ Rates' = Rates
BY DEF input, Accounts, Count, SumRates, Rates

LEMMA SameQuotas ==
    ASSUME UNCHANGED <<input, pools>>
    PROVE  Accounts' = Accounts /\ \A i \in Accounts : Quota(i)' = Quota(i)
BY DEF input, pools, Accounts, SumRates, Quota

(***************************************************************************)
(* Rounded down, in float64 perhaps to one less.                           *)
(***************************************************************************)
LEMMA FloorFacts ==
    ASSUME NEW a \in Nat, NEW b \in Nat \ {0}, NEW x \in Floor(a, b)
    PROVE  x \in Nat /\ b * x <= a
<1>1. a \div b \in Nat /\ b * (a \div b) <= a
  BY RoundedDown
<1>2. CASE x = a \div b
  BY <1>1, <1>2
<1>3. CASE x = a \div b - 1 /\ a > 0 /\ a % b = 0
  <2>1. (a \div b) * b + (a % b) = a
    BY DivisionFacts
  <2>2. a \div b # 0
    BY <1>3, <2>1
  <2>3. b * (a \div b - 1) = b * (a \div b) - b
    BY <1>1
  <2> QED
    BY <1>1, <1>3, <2>2, <2>3
<1> QED
  BY <1>2, <1>3 DEF Floor

LEMMA PartOfPool ==
    ASSUME NEW e \in Nat, NEW b \in Nat, e + b > 0, NEW p \in Nat, NEW x \in Floor(p * e, e + b)
    PROVE  x \in Nat /\ p - x \in Nat
<1>1. PICK c \in Nat \ {0} : c = e + b
  OBVIOUS
<1>2. p * e \in Nat
  OBVIOUS
<1>3. x \in Nat /\ c * x <= p * e
  BY <1>1, <1>2, FloorFacts
<1>4. c * p = p * e + p * b /\ p * b \in Nat
  BY <1>1
<1>5. c * x \in Nat /\ c * p \in Nat
  BY <1>3
<1>6. x <= p
  <2>1. c * x <= c * p
    BY <1>2, <1>3, <1>4, <1>5
  <2> QED
    BY <1>3, <2>1, Cancel
<1> QED
  BY <1>3, <1>6

(***************************************************************************)
(* Amounts times a number that may be zero.                                *)
(***************************************************************************)
LEMMA SumScaled ==
    ASSUME NEW D, IsFiniteSet(D), NEW f \in [D -> Nat], NEW c \in Nat
    PROVE  Sum([x \in D |-> c * f[x]]) = c * Sum(f)
<1>1. CASE c # 0
  BY <1>1, SumTimes
<1>2. CASE c = 0
  <2>1. \A x \in D : c * f[x] = IF x \in {} THEN 1 ELSE 0
    BY <1>2
  <2>2. [x \in D |-> c * f[x]] = [x \in D |-> IF x \in {} THEN 1 ELSE 0]
    BY <2>1
  <2>3. Sum([x \in D |-> IF x \in {} THEN 1 ELSE 0]) = Cardinality({})
    BY SumOfOnes
  <2>4. Sum(f) \in Nat /\ Cardinality({}) = 0
    BY DongsFinite, FS_EmptySet
  <2> QED
    BY <1>2, <2>2, <2>3, <2>4
<1> QED
  BY <1>1, <1>2

(***************************************************************************)
(* m are the remainders, none above s, T those who got a loose dong.  If   *)
(* they exceed what T can hold, somebody else has a remainder; if they are *)
(* just what T can hold, nobody else has a full one.                       *)
(***************************************************************************)
LEMMA RemaindersFit ==
    ASSUME NEW D, IsFiniteSet(D), NEW s \in Nat \ {0}, NEW m \in [D -> Nat],
           \A x \in D : m[x] <= s, NEW T \in SUBSET D, \A x \in D \ T : m[x] = 0
    PROVE  Sum(m) <= s * Cardinality(T)
<1> DEFINE full == [x \in D |-> IF x \in T THEN s ELSE 0]
<1>1. full \in [D -> Nat] /\ \A x \in D : m[x] <= full[x]
  OBVIOUS
<1>2. Sum(full) = s * Cardinality(T)
  BY SumOfSome
<1> HIDE DEF full
<1> QED
  BY <1>1, <1>2, SumGrows

LEMMA LargestPositive ==
    ASSUME NEW D, IsFiniteSet(D), NEW s \in Nat \ {0}, NEW m \in [D -> Nat],
           \A x \in D : m[x] <= s, NEW T \in SUBSET D, NEW y \in D \ T,
           \A x \in D \ T : m[x] <= m[y],
           Sum(m) > s * Cardinality(T)
    PROVE  m[y] > 0
<1> SUFFICES ASSUME m[y] = 0 PROVE FALSE
  OBVIOUS
<1>1. \A x \in D \ T : m[x] = 0
  OBVIOUS
<1>2. Sum(m) <= s * Cardinality(T)
  BY <1>1, RemaindersFit
<1>3. Sum(m) \in Nat /\ Cardinality(T) \in Nat
  BY DongsFinite, SumOfOnes
<1>4. s * Cardinality(T) \in Nat
  BY <1>3
<1> QED
  BY <1>2, <1>3, <1>4

LEMMA OthersNotFull ==
    ASSUME NEW D, IsFiniteSet(D), NEW s \in Nat \ {0}, NEW m \in [D -> Nat],
           \A x \in D : m[x] <= s, NEW T \in SUBSET D, NEW y \in D \ T,
           \A x \in T : m[x] >= m[y],
           Sum(m) = s * Cardinality(T)
    PROVE  m[y] < s
<1> SUFFICES ASSUME m[y] = s PROVE FALSE
  OBVIOUS
<1> DEFINE full == [x \in D |-> IF x \in T \cup {y} THEN s ELSE 0]
<1>1. full \in [D -> Nat] /\ \A x \in D : full[x] <= m[x]
  OBVIOUS
<1>2. Sum(full) = s * Cardinality(T \cup {y})
  BY SumOfSome
<1> HIDE DEF full
<1>3. Cardinality(T \cup {y}) = Cardinality(T) + 1 /\ Cardinality(T) \in Nat
  <2>1. IsFiniteSet(T)
    BY FS_Subset
  <2> QED
    BY <2>1, FS_AddElement, FS_CardinalityType
<1>4. Sum(full) <= Sum(m)
  BY <1>1, SumGrows
<1>5. s * (Cardinality(T) + 1) = s * Cardinality(T) + s /\ s * Cardinality(T) \in Nat
  BY <1>3
<1> QED
  BY <1>2, <1>3, <1>4, <1>5

(***************************************************************************)
(* Steps of the plan.  The two parts of the pool are not negative.         *)
(***************************************************************************)
LEMMA PoolsStep ==
    ASSUME PlanInv,
           \/ \E revenue \in 1..MaxRevenue : FromRevenue(revenue)
           \/ \E pool \in 1..MaxPool : FromPool(pool)
    PROVE  PlanInv'
<1>1. EqualRate \in Nat /\ BonusRate \in Nat /\ Unit \in Nat \ {0}
  BY TieredAssumption DEF TieredAssumption
<1>2. equalPool' \in Nat /\ bonusPool' \in Nat
  <2>1. ASSUME NEW revenue \in 1..MaxRevenue, FromRevenue(revenue)
        PROVE  equalPool' \in Nat /\ bonusPool' \in Nat
    <3>1. revenue \in Nat
      OBVIOUS
    <3>2. revenue * EqualRate \in Nat /\ revenue * BonusRate \in Nat
      BY <1>1, <3>1
    <3> QED
      BY <1>1, <2>1, <3>2, FloorFacts DEF FromRevenue
  <2>2. ASSUME NEW pool \in 1..MaxPool, FromPool(pool)
        PROVE  equalPool' \in Nat /\ bonusPool' \in Nat
    <3>1. pool \in Nat /\ bonusPool' = pool - equalPool'
      BY <2>2 DEF FromPool
    <3>2. CASE ~(EqualRate + BonusRate > 0)
      BY <2>2, <3>1, <3>2 DEF FromPool
    <3>3. CASE EqualRate + BonusRate > 0
      <4>1. equalPool' \in Floor(pool * EqualRate, EqualRate + BonusRate)
        BY <2>2, <3>3 DEF FromPool
      <4>2. equalPool' \in Nat /\ pool - equalPool' \in Nat
        BY <1>1, <3>1, <3>3, <4>1, PartOfPool
      <4> QED
        BY <3>1, <4>2
    <3> QED
      BY <3>2, <3>3
  <2> QED
    BY <2>1, <2>2
<1>3. /\ pc = "pools" /\ pc' = "quotas"
      /\ UNCHANGED <<input, bonus, rem, served, payable, residual>>
  BY DEF FromRevenue, FromPool
<1>4. Accounts' = Accounts
  BY <1>3 DEF input, Accounts
<1>5. PlanTyped'
  BY <1>2, <1>3, <1>4 DEF PlanInv, PlanTyped, input
<1>6. Untouched'
  BY <1>3, <1>4 DEF PlanInv, Untouched
<1> QED
  BY <1>3, <1>5, <1>6 DEF PlanInv, PlanSteps, PoolSharedOut, BetterBandNotLess

(***************************************************************************)
(* Without accounts all is left over; without rates nobody gets a bonus.   *)
(***************************************************************************)
LEMMA NoAccountsStep ==
    ASSUME PlanInv, NoAccounts
    PROVE  PlanInv'
<1>1. /\ pc = "quotas" /\ pc' = "done" /\ Accounts = {}
      /\ residual' = equalPool + bonusPool
      /\ UNCHANGED <<input, pools, bonus, rem, served, payable>>
  BY DEF NoAccounts
<1>2. Accounts' = Accounts
  BY <1>1, SameRates
<1>3. PlanTyped'
  BY <1>1, <1>2 DEF PlanInv, PlanTyped, input, pools
<1>4. Untouched'
  BY <1>1, <1>2 DEF PlanInv, Untouched
<1>5. Sum(payable)' = 0
  BY <1>1, SumOfNothing DEF PlanInv, PlanTyped
<1>6. PoolSharedOut'
  <2>1. (equalPool + bonusPool)' = equalPool + bonusPool /\ equalPool + bonusPool \in Nat
    BY <1>1 DEF pools, PlanInv, PlanTyped
  <2> QED
    BY <1>1, <1>2, <1>5, <2>1 DEF PoolSharedOut
<1> QED
  BY <1>1, <1>2, <1>3, <1>4, <1>6 DEF PlanInv, PlanSteps, BetterBandNotLess

LEMMA NoRatesStep ==
    ASSUME PlanInv, NoRates
    PROVE  PlanInv'
<1>1. /\ pc = "quotas" /\ pc' = "pay" /\ Accounts # {} /\ SumRates = 0
      /\ UNCHANGED <<input, pools, bonus, rem, served, payable, residual>>
  BY DEF NoRates
<1>2. Accounts' = Accounts /\ SumRates' = SumRates
  BY <1>1, SameRates
<1>3. PlanTyped'
  BY <1>1, <1>2 DEF PlanInv, PlanTyped, input, pools
<1>4. Untouched'
  BY <1>1, <1>2 DEF PlanInv, Untouched
<1>5. Settled'
  BY <1>1, <1>2 DEF Settled, PlanInv, Untouched
<1>6. BetterBandNotLess'
  <2>1. \A i \in Accounts : rate[band[i]] = 0 /\ bonus[i] = 0 /\ payable[i] = 0
    BY <1>1, NoRate DEF PlanInv, Untouched
  <2> QED
    BY <1>1, <1>2, <2>1 DEF BetterBandNotLess, input
<1> QED
  BY <1>1, <1>3, <1>4, <1>5, <1>6 DEF PlanInv, PlanSteps, PoolSharedOut

(***************************************************************************)
(* The quotas add up to the pool: what rounding leaves is in the           *)
(* remainders.                                                             *)
(***************************************************************************)
LEMMA QuotasAddUp ==
    ASSUME PlanTyped, SumRates > 0, NEW b \in [Accounts -> Nat], NEW m \in [Accounts -> Nat],
           \A i \in Accounts : b[i] * SumRates + m[i] = Quota(i)
    PROVE  Sum(m) + SumRates * Sum(b) = SumRates * bonusPool /\ Sum(b) <= bonusPool
<1> DEFINE s == SumRates
           whole == [i \in Accounts |-> s * b[i]]
<1>1. /\ IsFiniteSet(Accounts) /\ s \in Nat \ {0} /\ Rates \in [Accounts -> Nat] /\ Sum(Rates) = s
      /\ \A i \in Accounts : Quota(i) = bonusPool * Rates[i]
  BY AccountFacts
<1>2. bonusPool \in Nat
  BY DEF PlanTyped
<1>3. \A i \in Accounts : b[i] * s + m[i] = bonusPool * Rates[i]
  BY <1>1
<1> HIDE DEF s
<1>4. whole \in [Accounts -> Nat] /\ \A i \in Accounts : whole[i] = b[i] * s
  BY <1>1
<1>5. Sum(whole) = s * Sum(b)
  BY <1>1, SumScaled
<1> HIDE DEF whole
<1>6. Sum([i \in Accounts |-> whole[i] + m[i]]) = Sum(whole) + Sum(m)
  BY <1>1, <1>4, SumAdds
<1>7. [i \in Accounts |-> whole[i] + m[i]] = [i \in Accounts |-> bonusPool * Rates[i]]
  BY <1>3, <1>4
<1>8. Sum([i \in Accounts |-> bonusPool * Rates[i]]) = bonusPool * Sum(Rates)
  BY <1>1, <1>2, SumScaled
<1>9. Sum(b) \in Nat /\ Sum(m) \in Nat
  BY <1>1, DongsFinite
<1>10. s * Sum(b) \in Nat /\ bonusPool * s = s * bonusPool /\ s * bonusPool \in Nat
  BY <1>1, <1>2, <1>9
<1>11. Sum(m) + s * Sum(b) = s * bonusPool
  BY <1>1, <1>5, <1>6, <1>7, <1>8, <1>9, <1>10
<1>12. s * Sum(b) <= s * bonusPool
  BY <1>9, <1>10, <1>11
<1>13. Sum(b) <= bonusPool
  BY <1>1, <1>2, <1>9, <1>12, Cancel
<1> QED
  BY <1>11, <1>13 DEF s

(***************************************************************************)
(* The quotas of all accounts, rounded down.                               *)
(***************************************************************************)
LEMMA QuotasStep ==
    ASSUME PlanInv, Quotas
    PROVE  PlanInv'
<1>1. /\ pc = "quotas" /\ pc' = "loose" /\ Accounts # {} /\ SumRates > 0
      /\ UNCHANGED <<input, pools, served, payable, residual>>
  BY DEF Quotas
<1>2. PICK low \in SUBSET Range(rate) :
         LET at(i)    == Quota(i) \div SumRates
             below(i) == rate[band[i]] \in low /\ Quota(i) > 0 /\ Quota(i) % SumRates = 0
         IN  /\ bonus' = [i \in Accounts |-> IF below(i) THEN at(i) - 1 ELSE at(i)]
             /\ rem' = [i \in Accounts |-> IF below(i) THEN SumRates ELSE Quota(i) % SumRates]
  BY DEF Quotas
<1>3. PlanTyped /\ Untouched
  BY DEF PlanInv
<1>4. /\ Accounts' = Accounts /\ SumRates' = SumRates /\ Rates' = Rates
      /\ \A i \in Accounts : Quota(i)' = Quota(i)
  BY <1>1, SameRates, SameQuotas
<1>5. /\ IsFiniteSet(Accounts) /\ SumRates \in Nat \ {0} /\ bonusPool \in Nat
      /\ Rates \in [Accounts -> Nat] /\ Sum(Rates) = SumRates
      /\ \A i \in Accounts : Rates[i] \in Nat /\ Quota(i) = bonusPool * Rates[i]
  <2>1. /\ IsFiniteSet(Accounts) /\ Rates \in [Accounts -> Nat]
        /\ SumRates = Sum(Rates) /\ SumRates \in Nat
        /\ \A i \in Accounts : Quota(i) = bonusPool * Rates[i]
    BY <1>3, AccountFacts
  <2>2. bonusPool \in Nat
    BY <1>3 DEF PlanTyped
  <2> QED
    BY <1>1, <2>1, <2>2
<1>6. \A i \in Accounts : Quota(i) \in Nat
  BY <1>5
<1>7. ASSUME NEW i \in Accounts
      PROVE  /\ bonus'[i] \in Nat /\ rem'[i] \in Nat /\ rem'[i] <= SumRates
             /\ bonus'[i] * SumRates + rem'[i] = Quota(i)
  <2> DEFINE q == Quota(i)
             s == SumRates
  <2>1. q \in Nat /\ s \in Nat \ {0}
    BY <1>5, <1>6
  <2>2. \/ bonus'[i] = q \div s /\ rem'[i] = q % s
        \/ bonus'[i] = q \div s - 1 /\ rem'[i] = s /\ q > 0 /\ q % s = 0
    BY <1>2
  <2> HIDE DEF q, s
  <2>3. q \div s \in Nat /\ q % s \in 0..(s - 1) /\ (q \div s) * s + (q % s) = q
    BY <2>1, DivisionFacts
  <2>4. CASE bonus'[i] = q \div s /\ rem'[i] = q % s
    <3>1. /\ bonus'[i] \in Nat /\ rem'[i] \in Nat /\ rem'[i] <= s
          /\ bonus'[i] * s + rem'[i] = q
      BY <2>1, <2>3, <2>4
    <3> QED
      BY <3>1 DEF q, s
  <2>5. CASE bonus'[i] = q \div s - 1 /\ rem'[i] = s /\ q > 0 /\ q % s = 0
    <3>1. q \div s # 0
      BY <2>1, <2>3, <2>5
    <3>2. (q \div s - 1) * s = (q \div s) * s - s
      BY <2>1, <2>3
    <3>3. /\ bonus'[i] \in Nat /\ rem'[i] \in Nat /\ rem'[i] <= s
          /\ bonus'[i] * s + rem'[i] = q
      BY <2>1, <2>3, <2>5, <3>1, <3>2
    <3> QED
      BY <3>3 DEF q, s
  <2> QED
    BY <2>2, <2>4, <2>5
<1>8. bonus' \in [Accounts -> Nat] /\ rem' \in [Accounts -> Nat]
  BY <1>2, <1>7
<1>9. PlanTyped'
  BY <1>1, <1>3, <1>4, <1>8 DEF PlanTyped, input, pools
<1>10. Untouched'
  BY <1>1, <1>3, <1>4 DEF Untouched
<1>11. served = {} /\ Cardinality(served) = 0
  BY <1>1, <1>3, FS_EmptySet DEF Untouched
<1>12. HandingOut'
  <2>1. \A i \in Accounts : Rounding(i)'
    <3> SUFFICES ASSUME NEW i \in Accounts PROVE Rounding(i)'
      BY <1>4
    <3>1. Extra(i)' = 0
      BY <1>1, <1>11 DEF Extra
    <3>2. bonus'[i] - 0 = bonus'[i]
      BY <1>7
    <3> QED
      BY <1>1, <1>4, <1>7, <1>11, <3>1, <3>2 DEF Rounding
  <2>2. Sum(rem') + SumRates * Sum(bonus') = SumRates * bonusPool /\ Sum(bonus') <= bonusPool
    <3>1. \A i \in Accounts : bonus'[i] * SumRates + rem'[i] = Quota(i)
      BY <1>7
    <3>2. \A b, m \in [Accounts -> Nat] :
             (\A i \in Accounts : b[i] * SumRates + m[i] = Quota(i))
             => Sum(m) + SumRates * Sum(b) = SumRates * bonusPool /\ Sum(b) <= bonusPool
      BY <1>1, <1>3, QuotasAddUp
    <3> QED
      BY <1>8, <3>1, <3>2
  <2>3. bonusPool' = bonusPool /\ Cardinality(served)' = 0 /\ bonusPool + 0 = bonusPool
    BY <1>1, <1>5, <1>11 DEF pools
  <2>4. served' = {}
    BY <1>1, <1>11
  <2>5. /\ Sum(rem)' + SumRates' * Sum(bonus)' = SumRates' * (bonusPool' + Cardinality(served)')
        /\ Sum(bonus)' <= bonusPool'
    BY <1>4, <2>2, <2>3
  <2> QED
    BY <1>4, <2>1, <2>4, <2>5 DEF HandingOut
<1> QED
  BY <1>1, <1>9, <1>10, <1>12 DEF PlanInv, PlanSteps, PoolSharedOut, BetterBandNotLess

(***************************************************************************)
(* A loose dong goes to one of the largest remainders that are left, and   *)
(* that is not zero.                                                       *)
(***************************************************************************)
LEMMA HandOutStep ==
    ASSUME PlanInv, HandOut
    PROVE  PlanInv'
<1>1. /\ pc = "loose" /\ pc' = "loose" /\ Loose > 0
      /\ UNCHANGED <<input, pools, rem, payable, residual>>
  BY DEF HandOut
<1>2. PICK i \in Largest : /\ bonus' = [bonus EXCEPT ![i] = @ + 1]
                           /\ served' = served \cup {i}
  BY DEF HandOut
<1>3. PlanTyped /\ Untouched /\ HandingOut /\ SumRates > 0
  BY <1>1 DEF PlanInv, PlanSteps, Untouched
<1>4. /\ Accounts' = Accounts /\ SumRates' = SumRates
      /\ \A j \in Accounts : Quota(j)' = Quota(j)
  BY <1>1, SameRates, SameQuotas
<1>5. /\ IsFiniteSet(Accounts) /\ SumRates \in Nat \ {0} /\ bonusPool \in Nat
      /\ bonus \in [Accounts -> Nat] /\ rem \in [Accounts -> Nat] /\ served \in SUBSET Accounts
      /\ Sum(bonus) \in Nat /\ Sum(rem) \in Nat
      /\ IsFiniteSet(served) /\ Cardinality(served) \in Nat
  <2>1. /\ IsFiniteSet(Accounts) /\ SumRates \in Nat
        /\ Sum(bonus) \in Nat /\ Sum(rem) \in Nat
        /\ IsFiniteSet(served) /\ Cardinality(served) \in Nat
    BY <1>3, AccountFacts
  <2>2. /\ bonusPool \in Nat /\ bonus \in [Accounts -> Nat] /\ rem \in [Accounts -> Nat]
        /\ served \in SUBSET Accounts
    BY <1>3 DEF PlanTyped
  <2> QED
    BY <1>3, <2>1, <2>2
<1>6. /\ i \in Accounts \ served
      /\ \A j \in Accounts \ served : rem[j] <= rem[i]
  BY <1>5 DEF Largest
<1>7. rem[i] > 0
  <2>1. \A j \in Accounts : rem[j] <= SumRates
    BY <1>3 DEF HandingOut, Rounding
  <2>2. Sum(bonus) < bonusPool
    BY <1>1, <1>5 DEF Loose
  <2>3. Sum(rem) > SumRates * Cardinality(served)
    <3>1. SumRates * (bonusPool + Cardinality(served))
            = SumRates * bonusPool + SumRates * Cardinality(served)
      BY <1>5
    <3>2. SumRates * Sum(bonus) < SumRates * bonusPool
      BY <1>5, <2>2
    <3>3. /\ SumRates * Sum(bonus) \in Nat /\ SumRates * bonusPool \in Nat
          /\ SumRates * Cardinality(served) \in Nat
      BY <1>5
    <3> QED
      BY <1>3, <1>5, <3>1, <3>2, <3>3 DEF HandingOut
  <2> QED
    BY <1>5, <1>6, <2>1, <2>3, LargestPositive
<1>8. PlanTyped'
  <2>1. bonus' \in [Accounts -> Nat] /\ served' \in SUBSET Accounts
    BY <1>2, <1>5, <1>6
  <2> QED
    BY <1>1, <1>3, <1>4, <2>1 DEF PlanTyped, input, pools
<1>9. Untouched'
  BY <1>1, <1>3, <1>4 DEF Untouched
<1>10. HandingOut'
  <2>1. ASSUME NEW j \in Accounts PROVE Rounding(j)'
    <3>1. bonus'[j] - Extra(j)' = bonus[j] - Extra(j)
      <4>1. CASE j = i
        BY <1>2, <1>5, <1>6, <4>1 DEF Extra
      <4>2. CASE j # i
        BY <1>2, <1>5, <4>2 DEF Extra
      <4> QED
        BY <4>1, <4>2
    <3>2. j \in served' => rem'[j] > 0
      BY <1>1, <1>2, <1>3, <1>7 DEF HandingOut, Rounding
    <3>3. Rounding(j)
      BY <1>3 DEF HandingOut
    <3> QED
      BY <1>1, <1>4, <3>1, <3>2, <3>3 DEF Rounding
  <2>2. Sum(bonus') = Sum(bonus) + 1 /\ Cardinality(served') = Cardinality(served) + 1
    <3>1. Sum([bonus EXCEPT ![i] = @ + 1]) = Sum(bonus) + 1
      BY <1>5, <1>6, SumOneMore
    <3>2. Cardinality(served \cup {i}) = Cardinality(served) + 1
      BY <1>5, <1>6, FS_AddElement
    <3> QED
      BY <1>2, <3>1, <3>2
  <2>3. bonusPool' = bonusPool /\ rem' = rem
    BY <1>1 DEF pools
  <2>4. /\ SumRates * (Sum(bonus) + 1) = SumRates * Sum(bonus) + SumRates
        /\ SumRates * (bonusPool + (Cardinality(served) + 1))
             = SumRates * (bonusPool + Cardinality(served)) + SumRates
        /\ SumRates * Sum(bonus) \in Nat
        /\ SumRates * (bonusPool + Cardinality(served)) \in Nat
    BY <1>5
  <2>5. Sum(rem)' + SumRates' * Sum(bonus)' = SumRates' * (bonusPool' + Cardinality(served)')
    <3>1. Sum(rem) + SumRates * Sum(bonus) = SumRates * (bonusPool + Cardinality(served))
      BY <1>3 DEF HandingOut
    <3>2. Sum(rem) + SumRates * (Sum(bonus) + 1)
            = SumRates * (bonusPool + (Cardinality(served) + 1))
      BY <1>5, <2>4, <3>1
    <3> QED
      BY <1>4, <2>2, <2>3, <3>2
  <2>6. Sum(bonus)' <= bonusPool'
    BY <1>1, <1>5, <2>2, <2>3 DEF Loose
  <2>7. \A j \in served', k \in Accounts \ served' : rem'[j] >= rem'[k]
    BY <1>2, <1>3, <1>5, <1>6, <2>3 DEF HandingOut
  <2> QED
    BY <1>4, <2>1, <2>5, <2>6, <2>7 DEF HandingOut
<1> QED
  BY <1>1, <1>8, <1>9, <1>10 DEF PlanInv, PlanSteps, PoolSharedOut, BetterBandNotLess

(***************************************************************************)
(* Two accounts of one rate are within one dong, and so are their amounts  *)
(* when each gets the same besides, or one dong more.                      *)
(***************************************************************************)
LEMMA OneRateOneDong ==
    ASSUME NEW s \in Nat \ {0}, NEW q \in Nat, NEW x \in Nat, NEW y \in Nat,
           x * s < q + s, q < y * s + s
    PROVE  x <= y + 1
<1> SUFFICES ASSUME x > y + 1 PROVE FALSE
  OBVIOUS
<1>1. PICK d \in Nat : x = y + 2 + d
  <2>1. x - y - 2 \in Nat
    OBVIOUS
  <2> QED
    BY <2>1
<1>2. x * s = y * s + s + s + d * s
  BY <1>1
<1>3. y * s \in Nat /\ d * s \in Nat
  OBVIOUS
<1> QED
  BY <1>2, <1>3

FairlyPaid(pay) ==
    \A i, j \in Accounts :
       /\ rate[band[i]] > rate[band[j]] => bonus[i] >= bonus[j] /\ pay[i] >= pay[j] - 1
       /\ rate[band[i]] = rate[band[j]] => bonus[i] <= bonus[j] + 1 /\ pay[i] <= pay[j] + 2

LEMMA PaidInOrder ==
    ASSUME PlanTyped, Settled, NEW pay \in [Accounts -> Nat],
           NEW share \in [Accounts -> {0, 1}], NEW base \in Nat, NEW part \in {0, 1},
           \A i \in Accounts : pay[i] = part * (base + bonus[i] + share[i])
    PROVE  FairlyPaid(pay)
<1>1. ASSUME NEW i \in Accounts, NEW j \in Accounts
      PROVE  /\ rate[band[i]] > rate[band[j]] => bonus[i] >= bonus[j]
             /\ rate[band[i]] = rate[band[j]] => bonus[i] <= bonus[j] + 1
  <2>1. bonus[i] \in Nat /\ bonus[j] \in Nat /\ bonusPool \in Nat /\ SumRates \in Nat
    BY AccountFacts DEF PlanTyped
  <2>2. CASE SumRates > 0
    <3>1. rate[band[i]] > rate[band[j]] => bonus[i] >= bonus[j]
      BY <2>2 DEF Settled
    <3>2. ASSUME rate[band[i]] = rate[band[j]] PROVE bonus[i] <= bonus[j] + 1
      <4>1. Quota(i) = Quota(j) /\ Quota(i) \in Nat
        <5>1. Rates \in [Accounts -> Nat] /\ Quota(i) = bonusPool * Rates[i]
          BY AccountFacts
        <5> QED
          BY <2>1, <3>2, <5>1 DEF Quota
      <4>2. bonus[i] * SumRates < Quota(i) + SumRates /\ Quota(i) < bonus[j] * SumRates + SumRates
        BY <2>2, <4>1 DEF Settled
      <4> QED
        BY <2>1, <2>2, <4>1, <4>2, OneRateOneDong
    <3> QED
      BY <3>1, <3>2
  <2>3. CASE ~(SumRates > 0)
    <3>1. bonus[i] = 0 /\ bonus[j] = 0
      BY <2>3 DEF Settled
    <3> QED
      BY <3>1
  <2> QED
    BY <2>2, <2>3
<1>2. ASSUME NEW i \in Accounts, NEW j \in Accounts
      PROVE  /\ bonus[i] >= bonus[j] => pay[i] >= pay[j] - 1
             /\ bonus[i] <= bonus[j] + 1 => pay[i] <= pay[j] + 2
  <2>1. bonus[i] \in Nat /\ bonus[j] \in Nat /\ share[i] \in {0, 1} /\ share[j] \in {0, 1}
    BY DEF PlanTyped
  <2>2. CASE part = 0
    <3>1. pay[i] = 0 /\ pay[j] = 0
      BY <2>1, <2>2
    <3> QED
      BY <3>1
  <2>3. CASE part = 1
    <3>1. pay[i] = base + bonus[i] + share[i] /\ pay[j] = base + bonus[j] + share[j]
      BY <2>1, <2>3
    <3> DEFINE a == bonus[i]
               b == bonus[j]
               k == share[i]
               l == share[j]
               x == pay[i]
               y == pay[j]
    <3>2. /\ a \in Nat /\ b \in Nat /\ k \in {0, 1} /\ l \in {0, 1} /\ base \in Nat
          /\ x = base + a + k /\ y = base + b + l
      BY <2>1, <3>1
    <3> HIDE DEF a, b, k, l, x, y
    <3>3. (a >= b => x >= y - 1) /\ (a <= b + 1 => x <= y + 2)
      BY <3>2
    <3> QED
      BY <3>3 DEF a, b, x, y
  <2> QED
    BY <2>2, <2>3
<1> QED
  BY <1>1, <1>2 DEF FairlyPaid

(***************************************************************************)
(* When the loose dong are handed out, the bonus pool is used up.  Nobody  *)
(* who got none still has a full remainder, so that all bonuses are within *)
(* a dong of their quotas; and a better rate that got none had a smaller   *)
(* remainder than those who got one, so that its whole dong are more.      *)
(***************************************************************************)
LEMMA HandedOutStep ==
    ASSUME PlanInv, HandedOut
    PROVE  PlanInv'
<1>1. /\ pc = "loose" /\ pc' = "pay" /\ (Loose <= 0 \/ served = Accounts)
      /\ UNCHANGED <<input, pools, bonus, rem, served, payable, residual>>
  BY DEF HandedOut
<1>2. PlanTyped /\ Untouched /\ HandingOut /\ SumRates > 0 /\ Accounts # {}
  BY <1>1 DEF PlanInv, PlanSteps, Untouched
<1>3. /\ Accounts' = Accounts /\ SumRates' = SumRates
      /\ \A i \in Accounts : Quota(i)' = Quota(i)
  BY <1>1, SameRates, SameQuotas
<1>4. /\ IsFiniteSet(Accounts) /\ SumRates \in Nat \ {0} /\ bonusPool \in Nat
      /\ bonus \in [Accounts -> Nat] /\ rem \in [Accounts -> Nat] /\ served \in SUBSET Accounts
      /\ Sum(bonus) \in Nat /\ Sum(rem) \in Nat /\ Cardinality(served) \in Nat
      /\ Rates \in [Accounts -> Nat]
      /\ \A i \in Accounts : Quota(i) = bonusPool * Rates[i] /\ Rates[i] = rate[band[i]]
  <2>1. /\ IsFiniteSet(Accounts) /\ SumRates \in Nat
        /\ Sum(bonus) \in Nat /\ Sum(rem) \in Nat /\ Cardinality(served) \in Nat
        /\ Rates \in [Accounts -> Nat]
        /\ \A i \in Accounts : Quota(i) = bonusPool * Rates[i] /\ Rates[i] = rate[band[i]]
    BY <1>2, AccountFacts
  <2>2. /\ bonusPool \in Nat /\ bonus \in [Accounts -> Nat] /\ rem \in [Accounts -> Nat]
        /\ served \in SUBSET Accounts
    BY <1>2 DEF PlanTyped
  <2> QED
    BY <1>2, <2>1, <2>2
<1>5. \A i \in Accounts : rem[i] <= SumRates
  BY <1>2 DEF HandingOut, Rounding
<1>6. Sum(rem) + SumRates * Sum(bonus) = SumRates * (bonusPool + Cardinality(served))
  BY <1>2 DEF HandingOut
<1>7. SumRates * (bonusPool + Cardinality(served))
        = SumRates * bonusPool + SumRates * Cardinality(served)
  BY <1>4
<1>8. /\ SumRates * bonusPool \in Nat /\ SumRates * Cardinality(served) \in Nat
      /\ SumRates * Sum(bonus) \in Nat
  BY <1>4
<1>9. Sum(bonus) = bonusPool
  <2>1. Sum(bonus) <= bonusPool
    BY <1>2 DEF HandingOut
  <2>2. CASE served = Accounts
    <3>1. \A i \in Accounts \ served : rem[i] = 0
      BY <2>2
    <3>2. Sum(rem) <= SumRates * Cardinality(served)
      BY <1>4, <1>5, <3>1, RemaindersFit
    <3>3. SumRates * bonusPool <= SumRates * Sum(bonus)
      BY <1>4, <1>6, <1>7, <1>8, <3>2
    <3>4. bonusPool <= Sum(bonus)
      BY <1>4, <3>3, Cancel
    <3> QED
      BY <1>4, <2>1, <3>4
  <2>3. CASE Loose <= 0
    BY <1>4, <2>1, <2>3 DEF Loose
  <2> QED
    BY <1>1, <2>2, <2>3
<1>10. Sum(rem) = SumRates * Cardinality(served)
  BY <1>4, <1>6, <1>7, <1>8, <1>9
<1>11. \A i \in Accounts \ served : rem[i] < SumRates
  <2> SUFFICES ASSUME NEW i \in Accounts \ served PROVE rem[i] < SumRates
    OBVIOUS
  <2>1. \A j \in served : rem[j] >= rem[i]
    BY <1>2 DEF HandingOut
  <2> QED
    BY <1>4, <1>5, <1>10, <2>1, OthersNotFull
<1>12. ASSUME NEW i \in Accounts
       PROVE  /\ bonus[i] \in Nat /\ Extra(i) \in {0, 1} /\ rem[i] \in 0..SumRates
              /\ (bonus[i] - Extra(i)) * SumRates + rem[i] = bonusPool * Rates[i]
              /\ bonusPool * Rates[i] \in Nat
              /\ Extra(i) = 1 => rem[i] > 0
              /\ Extra(i) = 0 => rem[i] < SumRates
  <2>1. Rounding(i)
    BY <1>2 DEF HandingOut
  <2>2. (bonus[i] - Extra(i)) * SumRates + rem[i] = bonusPool * Rates[i]
    BY <1>4, <2>1 DEF Rounding
  <2>3. bonusPool * Rates[i] \in Nat
    BY <1>4
  <2> QED
    BY <1>4, <1>5, <1>11, <2>1, <2>2, <2>3 DEF Rounding, Extra
<1>13. ASSUME NEW i \in Accounts
       PROVE  /\ bonus[i] * SumRates < Quota(i) + SumRates
              /\ Quota(i) < bonus[i] * SumRates + SumRates
  BY <1>4, <1>12, WithinOneDong
<1>14. ASSUME NEW i \in Accounts, NEW j \in Accounts, rate[band[i]] > rate[band[j]]
       PROVE  bonus[i] >= bonus[j]
  <2>1. Extra(i) = 0 /\ Extra(j) = 1 => rem[j] >= rem[i]
    BY <1>2 DEF HandingOut, Extra
  <2>2. Rates[i] \in Nat /\ Rates[j] \in Nat /\ Rates[i] > Rates[j]
    BY <1>4, <1>14
  <2> DEFINE x == bonus[i]
             y == bonus[j]
             u == rem[i]
             v == rem[j]
             a == Rates[i]
             b == Rates[j]
             k == Extra(i)
             l == Extra(j)
             s == SumRates
  <2>3. /\ x \in Nat /\ y \in Nat /\ a \in Nat /\ b \in Nat /\ a > b
        /\ k \in {0, 1} /\ l \in {0, 1} /\ u \in 0..s /\ v \in 0..s /\ s \in Nat \ {0}
    BY <1>4, <1>12, <2>2
  <2>4. /\ (x - k) * s + u = bonusPool * a /\ (k = 1 => u > 0) /\ (k = 0 => u < s)
        /\ (y - l) * s + v = bonusPool * b /\ (l = 1 => v > 0) /\ (l = 0 => v < s)
        /\ (k = 0 /\ l = 1 => v >= u)
    BY <1>12, <2>1
  <2>5. bonusPool \in Nat
    BY <1>4
  <2> HIDE DEF x, y, u, v, a, b, k, l, s
  <2>6. x >= y
    BY <2>3, <2>4, <2>5, BetterRateFirst
  <2> QED
    BY <2>6 DEF x, y
<1>15. Settled
  BY <1>2, <1>9, <1>13, <1>14 DEF Settled
<1>16. Settled'
  <2>1. bonus' = bonus /\ bonusPool' = bonusPool /\ rate' = rate /\ band' = band
    BY <1>1 DEF input, pools
  <2> QED
    BY <1>3, <1>15, <2>1 DEF Settled
<1>17. PlanTyped'
  BY <1>1, <1>2, <1>3 DEF PlanTyped, input, pools
<1>18. Untouched'
  BY <1>1, <1>2, <1>3 DEF Untouched
<1>19. FairlyPaid(payable)
  <2> DEFINE none == [i \in Accounts |-> 0]
  <2>1. none \in [Accounts -> {0, 1}]
    OBVIOUS
  <2>2. payable \in [Accounts -> Nat] /\ \A i \in Accounts : payable[i] = 0
    BY <1>1, <1>2 DEF PlanTyped, Untouched
  <2>3. \A i \in Accounts : payable[i] = 0 * (0 + bonus[i] + none[i])
    BY <1>4, <2>2
  <2> QED
    BY <1>2, <1>15, <2>1, <2>2, <2>3, PaidInOrder
<1>20. BetterBandNotLess'
  BY <1>1, <1>3, <1>19 DEF BetterBandNotLess, FairlyPaid, input
<1> QED
  BY <1>1, <1>16, <1>17, <1>18, <1>20 DEF PlanInv, PlanSteps, PoolSharedOut

(***************************************************************************)
(* Everyone is paid the same base and the bonus, ...                       *)
(***************************************************************************)
LEMMA BaseFacts ==
    ASSUME PlanTyped, Accounts # {}
    PROVE  /\ Count \in Nat \ {0} /\ equalPool \div Count \in Nat
           /\ equalPool % Count \in 0..(Count - 1)
           /\ (equalPool \div Count) * Count + (equalPool % Count) = equalPool
<1>1. Count \in Nat \ {0}
  BY AccountFacts
<1>2. equalPool \in Nat
  BY DEF PlanTyped
<1> QED
  BY <1>1, <1>2, DivisionFacts

LEMMA PayStep ==
    ASSUME PlanInv, Pay
    PROVE  PlanInv'
<1>1. /\ pc = "pay" /\ pc' = "rest"
      /\ payable' = [i \in Accounts |-> equalPool \div Count + bonus[i]]
      /\ UNCHANGED <<input, pools, bonus, rem, served, residual>>
  BY DEF Pay
<1>2. PlanTyped /\ Untouched /\ Settled /\ Accounts # {}
  BY <1>1 DEF PlanInv, PlanSteps, Untouched
<1>3. /\ Accounts' = Accounts /\ SumRates' = SumRates /\ Count' = Count
      /\ \A i \in Accounts : Quota(i)' = Quota(i)
  BY <1>1, SameRates, SameQuotas
<1>4. equalPool \div Count \in Nat /\ bonus \in [Accounts -> Nat]
  BY <1>2, BaseFacts DEF PlanTyped
<1>5. payable' \in [Accounts -> Nat]
  BY <1>1, <1>4
<1>6. PlanTyped'
  BY <1>1, <1>2, <1>3, <1>5 DEF PlanTyped, input, pools
<1>7. Untouched'
  BY <1>1, <1>2, <1>3 DEF Untouched
<1>8. Settled'
  <2>1. bonus' = bonus /\ bonusPool' = bonusPool /\ rate' = rate /\ band' = band
    BY <1>1 DEF input, pools
  <2> QED
    BY <1>2, <1>3, <2>1 DEF Settled
<1>9. FairlyPaid(payable')
  <2> DEFINE none == [i \in Accounts |-> 0]
             base == equalPool \div Count
  <2>1. none \in [Accounts -> {0, 1}] /\ base \in Nat
    BY <1>4
  <2>2. \A i \in Accounts : payable'[i] = 1 * (base + bonus[i] + none[i])
    BY <1>1, <1>4
  <2> HIDE DEF none, base
  <2> QED
    BY <1>2, <1>5, <2>1, <2>2, PaidInOrder
<1>10. BetterBandNotLess'
  BY <1>1, <1>3, <1>9 DEF BetterBandNotLess, FairlyPaid, input
<1>11. \A i \in Accounts' : payable'[i] = equalPool' \div Count' + bonus'[i]
  BY <1>1, <1>3 DEF pools
<1> QED
  BY <1>1, <1>6, <1>7, <1>8, <1>10, <1>11 DEF PlanInv, PlanSteps, PoolSharedOut

(***************************************************************************)
(* ... which leaves a rest, less than one dong per account if there are    *)
(* rates at all ...                                                        *)
(***************************************************************************)
LEMMA RestFacts ==
    ASSUME PlanInv, pc = "rest"
    PROVE  /\ Rest \in Nat /\ Sum(payable) + Rest = equalPool + bonusPool
           /\ SumRates > 0 => Rest < Count
<1>1. PlanTyped /\ Settled /\ Accounts # {}
  BY DEF PlanInv, PlanSteps, Untouched
<1> DEFINE base == equalPool \div Count
           over == equalPool % Count
<1>2. /\ Count \in Nat \ {0} /\ base \in Nat /\ over \in 0..(Count - 1)
      /\ base * Count + over = equalPool
  BY <1>1, BaseFacts
<1>3. /\ IsFiniteSet(Accounts) /\ Sum(bonus) \in Nat /\ Sum(payable) \in Nat /\ SumRates \in Nat
  BY <1>1, AccountFacts
<1>4. /\ bonus \in [Accounts -> Nat] /\ payable \in [Accounts -> Nat]
      /\ equalPool \in Nat /\ bonusPool \in Nat
  BY <1>1 DEF PlanTyped
<1>5. \A i \in Accounts : payable[i] = base + bonus[i]
  BY DEF PlanInv, PlanSteps
<1> HIDE DEF base, over
<1>6. payable = [i \in Accounts |-> base + bonus[i]]
  BY <1>4, <1>5
<1>7. Sum([i \in Accounts |-> base + bonus[i]]) = base * Cardinality(Accounts) + Sum(bonus)
  BY <1>2, <1>3, <1>4, SumShifted
<1>8. Sum(payable) = base * Count + Sum(bonus)
  BY <1>6, <1>7 DEF Count
<1>9. base * Count \in Nat
  BY <1>2
<1>10. Sum(bonus) <= bonusPool /\ (SumRates > 0 => Sum(bonus) = bonusPool)
  <2>1. CASE SumRates > 0
    BY <1>1, <1>3, <1>4, <2>1 DEF Settled
  <2>2. CASE ~(SumRates > 0)
    <3>1. \A i \in Accounts : bonus[i] = 0
      BY <1>1, <2>2 DEF Settled
    <3>2. Sum(bonus) = 0
      BY <1>4, <3>1, SumOfNothing
    <3> QED
      BY <1>4, <2>2, <3>2
  <2> QED
    BY <2>1, <2>2
<1> QED
  BY <1>2, <1>3, <1>4, <1>8, <1>9, <1>10 DEF Rest

(***************************************************************************)
(* ... and which is retained, or rolled over to all: everyone gets the     *)
(* same again, the first few one dong more.                                *)
(***************************************************************************)
LEMMA RetainStep ==
    ASSUME PlanInv, Retain
    PROVE  PlanInv'
<1>1. /\ pc = "rest" /\ pc' = "done" /\ (mode = "retain" \/ Rest <= 0)
      /\ residual' = Rest
      /\ UNCHANGED <<input, pools, bonus, rem, served, payable>>
  BY DEF Retain
<1>2. PlanTyped /\ Untouched /\ Settled /\ BetterBandNotLess /\ Accounts # {}
  BY <1>1 DEF PlanInv, PlanSteps, Untouched
<1>3. /\ Accounts' = Accounts /\ SumRates' = SumRates /\ Count' = Count
      /\ \A i \in Accounts : Quota(i)' = Quota(i)
  BY <1>1, SameRates, SameQuotas
<1>4. /\ Rest \in Nat /\ Sum(payable) + Rest = equalPool + bonusPool
      /\ SumRates > 0 => Rest < Count
  BY <1>1, RestFacts
<1>5. PlanTyped'
  BY <1>1, <1>2, <1>3, <1>4 DEF PlanTyped, input, pools
<1>6. Untouched'
  BY <1>1, <1>2, <1>3 DEF Untouched
<1>7. Settled'
  <2>1. bonus' = bonus /\ bonusPool' = bonusPool /\ rate' = rate /\ band' = band
    BY <1>1 DEF input, pools
  <2> QED
    BY <1>2, <1>3, <2>1 DEF Settled
<1>8. PoolSharedOut'
  <2>1. mode' = mode /\ equalPool' = equalPool /\ bonusPool' = bonusPool /\ payable' = payable
    BY <1>1 DEF input, pools
  <2> QED
    BY <1>1, <1>3, <1>4, <2>1 DEF PoolSharedOut
<1>9. BetterBandNotLess'
  BY <1>1, <1>2, <1>3 DEF BetterBandNotLess, input
<1> QED
  BY <1>1, <1>5, <1>6, <1>7, <1>8, <1>9 DEF PlanInv, PlanSteps

LEMMA RollOverStep ==
    ASSUME PlanInv, RollOver
    PROVE  PlanInv'
<1>1. /\ pc = "rest" /\ pc' = "done" /\ mode # "retain"
      /\ payable' = [i \in Accounts |-> payable[i] + Added(i)]
      /\ UNCHANGED <<input, pools, bonus, rem, served, residual>>
  BY DEF RollOver
<1>2. PlanTyped /\ Untouched /\ Settled /\ Accounts # {} /\ residual = 0
  BY <1>1 DEF PlanInv, PlanSteps, Untouched
<1>3. /\ Accounts' = Accounts /\ SumRates' = SumRates /\ Count' = Count
      /\ \A i \in Accounts : Quota(i)' = Quota(i)
  BY <1>1, SameRates, SameQuotas
<1>4. Rest \in Nat /\ Sum(payable) + Rest = equalPool + bonusPool
  BY <1>1, RestFacts
<1>5. Count \in Nat \ {0} /\ equalPool \div Count \in Nat
  BY <1>2, BaseFacts
<1>6. Accounts = 1..Count /\ IsFiniteSet(Accounts)
  BY <1>2, AccountFacts
<1>7. bonus \in [Accounts -> Nat] /\ payable \in [Accounts -> Nat]
  BY <1>2 DEF PlanTyped
<1> DEFINE add == [i \in Accounts |-> Added(i)]
           q == Rest \div Count
           m == Rest % Count
           first == [i \in Accounts |-> IF i <= m THEN 1 ELSE 0]
<1>8. add \in [Accounts -> Nat] /\ Sum(add) = Rest
  <2>1. add = [i \in 1..Count |-> Rest \div Count + IF i <= Rest % Count THEN 1 ELSE 0]
    BY <1>6 DEF Added
  <2> HIDE DEF add
  <2> QED
    BY <1>4, <1>5, <1>6, <2>1, SumOfRest
<1>9. q \in Nat /\ m \in 0..(Count - 1)
  BY <1>4, <1>5, DivisionFacts
<1>10. first \in [Accounts -> {0, 1}]
  OBVIOUS
<1>11. \A i \in Accounts : add[i] = Added(i) /\ Added(i) = q + first[i]
  BY DEF Added
<1> HIDE DEF add, q, m, first
<1>12. payable' = [i \in Accounts |-> payable[i] + add[i]]
  BY <1>1, <1>11
<1>13. payable' \in [Accounts -> Nat]
  BY <1>7, <1>8, <1>12
<1>14. Sum(payable') = Sum(payable) + Rest
  BY <1>6, <1>7, <1>8, <1>12, SumAdds
<1>15. PlanTyped'
  BY <1>1, <1>2, <1>3, <1>13 DEF PlanTyped, input, pools
<1>16. Untouched'
  BY <1>1, <1>2, <1>3 DEF Untouched
<1>17. Settled'
  <2>1. bonus' = bonus /\ bonusPool' = bonusPool /\ rate' = rate /\ band' = band
    BY <1>1 DEF input, pools
  <2> QED
    BY <1>2, <1>3, <2>1 DEF Settled
<1>18. PoolSharedOut'
  <2>1. residual' = 0 /\ equalPool' = equalPool /\ bonusPool' = bonusPool
    BY <1>1, <1>2 DEF pools
  <2>2. Sum(payable') + 0 = equalPool + bonusPool
    BY <1>2, <1>4, <1>14 DEF PlanTyped
  <2> QED
    BY <1>3, <1>5, <2>1, <2>2 DEF PoolSharedOut
<1>19. FairlyPaid(payable')
  <2> DEFINE base == equalPool \div Count + q
  <2>1. base \in Nat
    BY <1>5, <1>9
  <2>2. \A i \in Accounts : payable'[i] = 1 * (base + bonus[i] + first[i])
    <3> SUFFICES ASSUME NEW i \in Accounts PROVE payable'[i] = 1 * (base + bonus[i] + first[i])
      OBVIOUS
    <3>1. payable[i] = equalPool \div Count + bonus[i] /\ add[i] = q + first[i]
      BY <1>1, <1>11 DEF PlanInv, PlanSteps
    <3>2. payable'[i] = payable[i] + add[i]
      BY <1>12
    <3>3. bonus[i] \in Nat /\ first[i] \in {0, 1}
      BY <1>7, <1>10
    <3> QED
      BY <1>5, <1>9, <3>1, <3>2, <3>3
  <2> HIDE DEF base
  <2> QED
    BY <1>2, <1>10, <1>13, <2>1, <2>2, PaidInOrder
<1>20. BetterBandNotLess'
  BY <1>1, <1>3, <1>19 DEF BetterBandNotLess, FairlyPaid, input
<1> QED
  BY <1>1, <1>15, <1>16, <1>17, <1>18, <1>20 DEF PlanInv, PlanSteps

LEMMA PlanNextInv == PlanInv /\ [PlanNext]_planVars => PlanInv'
<1> SUFFICES ASSUME PlanInv, [PlanNext]_planVars PROVE PlanInv'
  OBVIOUS
<1>1. CASE (\E revenue \in 1..MaxRevenue : FromRevenue(revenue))
           \/ (\E pool \in 1..MaxPool : FromPool(pool))
  BY <1>1, PoolsStep
<1>2. CASE NoAccounts
  BY <1>2, NoAccountsStep
<1>3. CASE Quotas
  BY <1>3, QuotasStep
<1>4. CASE NoRates
  BY <1>4, NoRatesStep
<1>5. CASE HandOut
  BY <1>5, HandOutStep
<1>6. CASE HandedOut
  BY <1>6, HandedOutStep
<1>7. CASE Pay
  BY <1>7, PayStep
<1>8. CASE RollOver
  BY <1>8, RollOverStep
<1>9. CASE Retain
  BY <1>9, RetainStep
<1>10. CASE UNCHANGED planVars
  <2>1. /\ UNCHANGED <<pc, band, rate, mode, equalPool, bonusPool, bonus, rem, served>>
        /\ UNCHANGED <<payable, residual, input, pools>>
    BY <1>10 DEF planVars, input, pools
  <2>2. /\ Accounts' = Accounts /\ SumRates' = SumRates /\ Count' = Count
        /\ \A i \in Accounts : Quota(i)' = Quota(i)
    BY <2>1, SameRates, SameQuotas
  <2>3. PlanTyped' /\ Untouched'
    BY <2>1, <2>2 DEF PlanInv, PlanTyped, Untouched
  <2>4. HandingOut' = HandingOut /\ Settled' = Settled
    <3>1. \A i \in Accounts : Rounding(i)' = Rounding(i)
      BY <2>1, <2>2 DEF Rounding, Extra
    <3> QED
      BY <2>1, <2>2, <3>1 DEF HandingOut, Settled
  <2>5. PlanSteps'
    BY <2>1, <2>2, <2>4 DEF PlanInv, PlanSteps
  <2>6. PoolSharedOut' /\ BetterBandNotLess'
    BY <2>1, <2>2 DEF PlanInv, PoolSharedOut, BetterBandNotLess
  <2> QED
    BY <2>3, <2>5, <2>6 DEF PlanInv
<1> QED
  BY <1>1, <1>2, <1>3, <1>4, <1>5, <1>6, <1>7, <1>8, <1>9, <1>10 DEF PlanNext

LEMMA PlanInitInv == PlanInit => PlanInv
<1> SUFFICES ASSUME PlanInit PROVE PlanInv
  OBVIOUS
<1>1. PICK k \in 0..MaxAccounts : band \in [1..k -> Bands]
  BY DEF PlanInit
<1>2. k \in Nat
  BY <1>1
<1>3. rate \in [Bands -> Nat]
  BY TieredAssumption DEF TieredAssumption, PlanInit
<1>4. PlanTyped
  BY <1>1, <1>2, <1>3 DEF PlanInit, PlanTyped
<1>5. Untouched
  BY DEF PlanInit, Untouched
<1> QED
  BY <1>4, <1>5 DEF PlanInit, PlanInv, PlanSteps, PoolSharedOut, BetterBandNotLess

LEMMA PlanAlways == PlanSpec => []PlanInv
BY PlanInitInv, PlanNextInv, PTL DEF PlanSpec

(***************************************************************************)
(* Every amount of the plan is a natural number at every step, whichever   *)
(* way the pool was split and the quotas were rounded: neither a part of   *)
(* the pool nor a bonus nor what is left over is ever negative.            *)
(***************************************************************************)
THEOREM PlanTyping == PlanSpec => []PlanTypeOK
<1>1. PlanInv => PlanTypeOK
  BY DEF PlanInv, PlanTyped, PlanTypeOK
<1> QED
  BY <1>1, PlanAlways, PTL

(***************************************************************************)
(* The bonuses of planTieredPools add up to bonusPool, for any number of   *)
(* accounts and any rates that are not all zero: there are never more      *)
(* loose dong than accounts to hand them to, and never less than none.     *)
(***************************************************************************)
THEOREM BonusAllShared == PlanSpec => []BonusSharedOut
<1>1. PlanInv => BonusSharedOut
  BY DEF PlanInv, PlanSteps, Settled, BonusSharedOut
<1> QED
  BY <1>1, PlanAlways, PTL

(***************************************************************************)
(* A plan pays out or retains the whole pool; rollover retains nothing,    *)
(* and retain less than one dong per account.                              *)
(***************************************************************************)
THEOREM PoolAllShared == PlanSpec => []PoolSharedOut
<1>1. PlanInv => PoolSharedOut
  BY DEF PlanInv
<1> QED
  BY <1>1, PlanAlways, PTL

(***************************************************************************)
(* Largest remainders keep every bonus within a dong of the exact quota.   *)
(***************************************************************************)
THEOREM QuotasKept == PlanSpec => []QuotaRule
<1>1. PlanInv => QuotaRule
  <2> SUFFICES ASSUME PlanInv, pc \in {"pay", "rest", "done"}, SumRates > 0, NEW i \in Accounts
               PROVE  /\ bonus[i] * SumRates < Quota(i) + SumRates
                      /\ Quota(i) < bonus[i] * SumRates + SumRates
    BY DEF QuotaRule
  <2> QED
    BY DEF PlanInv, PlanSteps, Settled
<1> QED
  BY <1>1, PlanAlways, PTL

(***************************************************************************)
(* No shareholder of a better band gets a smaller bonus than one of a      *)
(* lesser band, or more than a dong less in all, and shareholders of one   *)
(* band differ by a dong at most in the bonus.                             *)
(***************************************************************************)
THEOREM BetterBands == PlanSpec => []BetterBandNotLess
<1>1. PlanInv => BetterBandNotLess
  BY DEF PlanInv
<1> QED
  BY <1>1, PlanAlways, PTL
=============================================================================
