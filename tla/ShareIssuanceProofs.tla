------------------------- MODULE ShareIssuanceProofs -------------------------
(***************************************************************************)
(* Proofs about ShareIssuance, for every finite set of accounts,           *)
(* investments, rounds and workers, every number of shares and every       *)
(* referral relation.                                                      *)
(***************************************************************************)
EXTENDS ShareIssuance, FiniteSetTheorems, FunctionTheorems, TLAPS

(***************************************************************************)
(* Counting shares: what Equity's SharesOf and TotalSold return when an    *)
(* investment is issued, a round sells more, or the counters are rebuilt   *)
(* from the approved investments.  Both count units, one element per       *)
(* share, so each fact is one about cardinalities of finite sets.          *)
(***************************************************************************)

(***************************************************************************)
(* One column of units: x paired with n consecutive numbers.               *)
(***************************************************************************)
LEMMA Column ==
    ASSUME NEW x, NEW a \in Int, NEW b \in Int, a <= b + 1
    PROVE  /\ IsFiniteSet({x} \X (a..b))
           /\ Cardinality({x} \X (a..b)) = b - a + 1
<1>1. IsFiniteSet({x}) /\ Cardinality({x}) = 1
  BY FS_Singleton
<1>2. IsFiniteSet(a..b) /\ Cardinality(a..b) = IF a > b THEN 0 ELSE b - a + 1
  BY FS_Interval
<1>3. Cardinality(a..b) = b - a + 1
  BY <1>2
<1>4. /\ IsFiniteSet({x} \X (a..b))
      /\ Cardinality({x} \X (a..b)) = Cardinality({x}) * Cardinality(a..b)
  BY <1>1, <1>2, FS_Product
<1> QED
  BY <1>1, <1>3, <1>4

(***************************************************************************)
(* The column of shares that starts at 1 has as many units as shares.      *)
(***************************************************************************)
LEMMA ColumnFromOne ==
    ASSUME NEW x, NEW n \in Nat
    PROVE  /\ IsFiniteSet({x} \X (1..n))
           /\ Cardinality({x} \X (1..n)) = n
<1>1. 1 \in Int /\ n \in Int /\ 1 <= n + 1
  OBVIOUS
<1>2. IsFiniteSet({x} \X (1..n)) /\ Cardinality({x} \X (1..n)) = n - 1 + 1
  BY <1>1, Column
<1> QED
  BY <1>2

(***************************************************************************)
(* The shares issued for a set of investments are finitely many, and none  *)
(* for no investment.                                                      *)
(***************************************************************************)
LEMMA IssuedFinite ==
    ASSUME PlacementAssumption, NEW S \in SUBSET Invs
    PROVE  /\ IsFiniteSet(IssuedUnits(S))
           /\ SharesOf(S) \in Nat
           /\ S = {} => SharesOf(S) = 0
<1> DEFINE F == [i \in S |-> {i} \X (1..InvShares[i])]
           T == {{i} \X (1..InvShares[i]) : i \in S}
<1>1. IsFiniteSet(S)
  BY FS_Subset DEF PlacementAssumption
<1>2. F \in Surjection(S, T)
  BY Fun_IsSurj
<1>3. IsFiniteSet(T)
  BY <1>1, <1>2, FS_Surjection
<1>4. ASSUME NEW X \in T PROVE IsFiniteSet(X)
  <2>1. PICK i \in S : X = {i} \X (1..InvShares[i])
    OBVIOUS
  <2>2. InvShares[i] \in Nat
    BY DEF PlacementAssumption
  <2> QED
    BY <2>1, <2>2, ColumnFromOne
<1>5. IsFiniteSet(IssuedUnits(S))
  BY <1>3, <1>4, FS_UNION DEF IssuedUnits
<1>6. S = {} => IssuedUnits(S) = {}
  BY DEF IssuedUnits
<1> QED
  BY <1>5, <1>6, FS_CardinalityType, FS_EmptySet DEF SharesOf

(***************************************************************************)
(* Issuing an investment adds its shares.                                  *)
(***************************************************************************)
LEMMA SharesOfAdd ==
    ASSUME PlacementAssumption, NEW S \in SUBSET Invs, NEW i \in Invs, i \notin S
    PROVE  SharesOf(S \cup {i}) = SharesOf(S) + InvShares[i]
<1> DEFINE N == {i} \X (1..InvShares[i])
<1>1. InvShares[i] \in Nat \ {0}
  BY DEF PlacementAssumption
<1>4. IsFiniteSet(N) /\ Cardinality(N) = InvShares[i]
  BY <1>1, ColumnFromOne
<1>5. IsFiniteSet(IssuedUnits(S)) /\ Cardinality(IssuedUnits(S)) \in Nat
  BY IssuedFinite, FS_CardinalityType
<1>6. IssuedUnits(S \cup {i}) = IssuedUnits(S) \cup N
  BY DEF IssuedUnits
<1>7. IssuedUnits(S) \cap N = {}
  BY DEF IssuedUnits
<1>8. Cardinality(IssuedUnits(S) \cap N) = 0
  BY <1>7, FS_EmptySet
<1>9. Cardinality(IssuedUnits(S) \cup N) = Cardinality(IssuedUnits(S)) + Cardinality(N)
                                             - Cardinality(IssuedUnits(S) \cap N)
  BY <1>4, <1>5, FS_Union
<1>10. Cardinality(IssuedUnits(S \cup {i})) = Cardinality(IssuedUnits(S)) + InvShares[i]
  <2> HIDE DEF N
  <2>1. Cardinality(IssuedUnits(S) \cup N) = Cardinality(IssuedUnits(S)) + InvShares[i]
    BY <1>1, <1>4, <1>5, <1>8, <1>9
  <2> QED
    BY <1>6, <2>1
<1> QED
  BY <1>10 DEF SharesOf

(***************************************************************************)
(* The shares counted as sold are finitely many.                           *)
(***************************************************************************)
LEMMA SoldFinite ==
    ASSUME PlacementAssumption, NEW s \in [Rounds -> Nat]
    PROVE  /\ IsFiniteSet(SoldUnits(s))
           /\ TotalSold(s) \in Nat
<1> DEFINE F == [r \in Rounds |-> {r} \X (1..s[r])]
           T == {{r} \X (1..s[r]) : r \in Rounds}
<1>1. IsFiniteSet(Rounds)
  BY DEF PlacementAssumption
<1>2. F \in Surjection(Rounds, T)
  BY Fun_IsSurj
<1>3. IsFiniteSet(T)
  BY <1>1, <1>2, FS_Surjection
<1>4. ASSUME NEW X \in T PROVE IsFiniteSet(X)
  <2>1. PICK r \in Rounds : X = {r} \X (1..s[r])
    OBVIOUS
  <2>2. s[r] \in Nat
    OBVIOUS
  <2> QED
    BY <2>1, <2>2, ColumnFromOne
<1>5. IsFiniteSet(SoldUnits(s))
  BY <1>3, <1>4, FS_UNION DEF SoldUnits
<1> QED
  BY <1>5, FS_CardinalityType DEF TotalSold

(***************************************************************************)
(* Selling n more shares in round r adds n to the total.                   *)
(***************************************************************************)
LEMMA TotalSoldAdd ==
    ASSUME PlacementAssumption, NEW s \in [Rounds -> Nat], NEW r \in Rounds, NEW n \in Nat
    PROVE  TotalSold([s EXCEPT ![r] = @ + n]) = TotalSold(s) + n
<1> DEFINE N == {r} \X ((s[r] + 1)..(s[r] + n))
           t == [s EXCEPT ![r] = @ + n]
<1>1. s[r] \in Nat
  OBVIOUS
<1>2. PICK lo \in Int, hi \in Int : lo = s[r] + 1 /\ hi = s[r] + n
  BY <1>1
<1>3. IsFiniteSet({r} \X (lo..hi)) /\ Cardinality({r} \X (lo..hi)) = hi - lo + 1
  <2>1. lo <= hi + 1
    BY <1>1, <1>2
  <2> QED
    BY <2>1, Column
<1>4. IsFiniteSet(N) /\ Cardinality(N) = n
  BY <1>1, <1>2, <1>3
<1>5. IsFiniteSet(SoldUnits(s)) /\ Cardinality(SoldUnits(s)) \in Nat
  BY SoldFinite, FS_CardinalityType
<1>6. SoldUnits(t) = SoldUnits(s) \cup N
  <2>1. ASSUME NEW q \in Rounds, q # r
        PROVE  {q} \X (1..t[q]) = {q} \X (1..s[q])
    BY <2>1
  <2>2. {r} \X (1..t[r]) = ({r} \X (1..s[r])) \cup N
    BY <1>1
  <2>3. ASSUME NEW e \in SoldUnits(t) PROVE e \in SoldUnits(s) \cup N
    BY <2>1, <2>2 DEF SoldUnits
  <2>4. ASSUME NEW e \in SoldUnits(s) \cup N PROVE e \in SoldUnits(t)
    BY <2>1, <2>2 DEF SoldUnits
  <2> QED
    BY <2>3, <2>4
<1>7. SoldUnits(s) \cap N = {}
  BY <1>1 DEF SoldUnits
<1>8. Cardinality(SoldUnits(s) \cap N) = 0
  BY <1>7, FS_EmptySet
<1>9. Cardinality(SoldUnits(s) \cup N) = Cardinality(SoldUnits(s)) + Cardinality(N)
                                           - Cardinality(SoldUnits(s) \cap N)
  BY <1>4, <1>5, FS_Union
<1>10. Cardinality(SoldUnits(t)) = Cardinality(SoldUnits(s)) + n
  <2> HIDE DEF N, t
  <2> QED
    BY <1>4, <1>5, <1>6, <1>8, <1>9
<1> QED
  BY <1>10 DEF TotalSold

(***************************************************************************)
(* Rebuilding the counters: when every round's counter is the number of    *)
(* shares of the investments of a set A that belong to it, the counters    *)
(* together count the shares of A.                                         *)
(***************************************************************************)
LEMMA TotalSoldRebuilt ==
    ASSUME PlacementAssumption,
           NEW A \in SUBSET Invs,
           NEW of \in [Invs -> Rounds],
           NEW s \in [Rounds -> Nat],
           \A r \in Rounds : s[r] = SharesOf({i \in A : of[i] = r})
    PROVE  TotalSold(s) = SharesOf(A)
<1> DEFINE P(r) == {i \in A : of[i] = r}
           b == [r \in Rounds |-> CHOOSE f \in Bijection(1..s[r], IssuedUnits(P(r))) : TRUE]
           F == [e \in SoldUnits(s) |-> b[e[1]][e[2]]]
<1>1. ASSUME NEW r \in Rounds
      PROVE  b[r] \in Bijection(1..s[r], IssuedUnits(P(r)))
  <2>1. P(r) \in SUBSET Invs
    OBVIOUS
  <2>2. IsFiniteSet(IssuedUnits(P(r)))
    BY <2>1, IssuedFinite
  <2>3. ExistsBijection(1..s[r], IssuedUnits(P(r)))
    BY <2>2, FS_CardinalityType DEF SharesOf
  <2> QED
    BY <2>3 DEF ExistsBijection
<1>2. ASSUME NEW r \in Rounds
      PROVE  /\ b[r] \in [1..s[r] -> IssuedUnits(P(r))]
             /\ \A j, k \in 1..s[r] : b[r][j] = b[r][k] => j = k
             /\ \A x \in IssuedUnits(P(r)) : \E k \in 1..s[r] : b[r][k] = x
  <2> HIDE DEF b, P
  <2> QED
    BY <1>1 DEF Bijection, Injection, Surjection, IsInjective
<1> HIDE DEF b
<1>3. \A e \in SoldUnits(s) : /\ e[1] \in Rounds
                              /\ e[2] \in 1..s[e[1]]
                              /\ e = <<e[1], e[2]>>
  BY DEF SoldUnits
<1>4. \A r \in Rounds : \A k \in 1..s[r] : <<r, k>> \in SoldUnits(s)
  BY DEF SoldUnits
<1>5. \A r \in Rounds : IssuedUnits(P(r)) \subseteq IssuedUnits(A)
  BY DEF IssuedUnits
<1>6. \A x \in IssuedUnits(A) : \E r \in Rounds : x \in IssuedUnits(P(r))
  BY DEF IssuedUnits
<1>7. \A q, r \in Rounds : q # r => IssuedUnits(P(q)) \cap IssuedUnits(P(r)) = {}
  BY DEF IssuedUnits
<1> HIDE DEF P
<1>8. F \in [SoldUnits(s) -> IssuedUnits(A)]
  BY <1>2, <1>3, <1>5
<1>9. ASSUME NEW d \in SoldUnits(s), NEW e \in SoldUnits(s), F[d] = F[e]
      PROVE  d = e
  <2>1. b[d[1]][d[2]] = b[e[1]][e[2]]
    BY <1>9
  <2>2. b[d[1]][d[2]] \in IssuedUnits(P(d[1])) /\ b[e[1]][e[2]] \in IssuedUnits(P(e[1]))
    BY <1>2, <1>3
  <2>3. d[1] = e[1]
    BY <1>3, <1>7, <2>1, <2>2
  <2>4. d[2] = e[2]
    BY <1>2, <1>3, <2>1, <2>3
  <2> QED
    BY <1>3, <2>3, <2>4
<1>10. ASSUME NEW x \in IssuedUnits(A)
       PROVE  \E e \in SoldUnits(s) : F[e] = x
  <2>1. PICK r \in Rounds : x \in IssuedUnits(P(r))
    BY <1>6
  <2>2. PICK k \in 1..s[r] : b[r][k] = x
    BY <1>2, <2>1
  <2>3. <<r, k>> \in SoldUnits(s) /\ F[<<r, k>>] = x
    BY <1>4, <2>2
  <2> QED
    BY <2>3
<1>11. F \in Bijection(SoldUnits(s), IssuedUnits(A))
  <2> HIDE DEF F
  <2> QED
    BY <1>8, <1>9, <1>10, Fun_IsBij
<1>12. ExistsBijection(SoldUnits(s), IssuedUnits(A))
  BY <1>11 DEF ExistsBijection
<1>13. IsFiniteSet(SoldUnits(s))
  BY SoldFinite
<1> QED
  BY <1>12, <1>13, FS_Bijection DEF TotalSold, SharesOf

-----------------------------------------------------------------------------
USE PlacementAssumption, IssuanceAssumption DEF PlacementAssumption, IssuanceAssumption

(***************************************************************************)
(* Lockable rows are rows.                                                 *)
(***************************************************************************)
LEMMA RowTypes ==
    /\ \A i \in Invs : InvRow(i) \in Row
    /\ \A r \in Rounds : RoundRow(r) \in Row
    /\ \A u \in Users : HoldingRow(u) \in Row /\ ContractRow(u) \in Row
    /\ LedgerInsert \in Row /\ LedgerAlter \in Row
BY DEF InvRow, RoundRow, HoldingRow, ContractRow, LedgerInsert, LedgerAlter, Row

(***************************************************************************)
(* Different kinds of rows, and rows of different keys, are different.     *)
(***************************************************************************)
LEMMA RowsDiffer ==
    /\ \A i, j : InvRow(i) = InvRow(j) => i = j
    /\ \A r, o : RoundRow(r) = RoundRow(o) => r = o
    /\ \A u, v : HoldingRow(u) = HoldingRow(v) => u = v
    /\ \A u, v : ContractRow(u) = ContractRow(v) => u = v
    /\ \A x, y : /\ InvRow(x) # RoundRow(y) /\ InvRow(x) # HoldingRow(y)
                 /\ InvRow(x) # ContractRow(y) /\ RoundRow(x) # HoldingRow(y)
                 /\ RoundRow(x) # ContractRow(y) /\ HoldingRow(x) # ContractRow(y)
    /\ \A x : /\ InvRow(x) \notin {LedgerInsert, LedgerAlter}
              /\ RoundRow(x) \notin {LedgerInsert, LedgerAlter}
              /\ HoldingRow(x) \notin {LedgerInsert, LedgerAlter}
              /\ ContractRow(x) \notin {LedgerInsert, LedgerAlter}
    /\ LedgerInsert # LedgerAlter
BY DEF InvRow, RoundRow, HoldingRow, ContractRow, LedgerInsert, LedgerAlter

(***************************************************************************)
(* Commissions credit accounts.                                            *)
(***************************************************************************)
LEMMA UplineType ==
    ASSUME NEW u \in Users, TypeOK
    PROVE  /\ Upline(u)[1] \in (Users \ {u}) \cup {None}
           /\ Upline(u)[2] \in (Users \ {u}) \cup {None}
           /\ Upline(u)[3] \in (Users \ {u}) \cup {None}
<1> DEFINE f1 == Climb(u, {u})
           f2 == Climb(f1, {u, f1})
           f3 == Climb(f2, {u, f1, f2})
<1>1. \A x, S : Climb(x, S) \in (Users \ S) \cup {None}
  BY DEF Climb, ReferrerOf, TypeOK
<1>2. /\ f1 \in (Users \ {u}) \cup {None}
      /\ f2 \in (Users \ {u}) \cup {None}
      /\ f3 \in (Users \ {u}) \cup {None}
  BY <1>1
<1>3. Upline(u)[1] = f1 /\ Upline(u)[2] = f2 /\ Upline(u)[3] = f3
  BY DEF Upline
<1> QED
  BY <1>2, <1>3

(***************************************************************************)
(* The commissions of an investment are rows of table commissions.         *)
(***************************************************************************)
LEMMA CommissionsType ==
    ASSUME NEW i \in Invs, TypeOK
    PROVE  \A c \in Commissions(i) :
               c \in Commission /\ c.inv = i /\ c.to # InvUser[i]
<1> SUFFICES ASSUME NEW c \in Commissions(i)
             PROVE  c \in Commission /\ c.inv = i /\ c.to # InvUser[i]
  OBVIOUS
<1>1. PICK n \in PaidLevels : /\ Upline(InvUser[i])[n] # None
                              /\ c = [inv |-> i, level |-> n, to |-> Upline(InvUser[i])[n]]
  BY DEF Commissions
<1>2. n = 1 \/ n = 2 \/ n = 3
  <2>1. n \in 1..3
    OBVIOUS
  <2> QED
    BY <2>1
<1>3. InvUser[i] \in Users
  OBVIOUS
<1>4. Upline(InvUser[i])[n] \in (Users \ {InvUser[i]}) \cup {None}
  BY <1>2, <1>3, UplineType
<1> QED
  BY <1>1, <1>2, <1>4 DEF Commission
(***************************************************************************)
(* The abstract specification counts shares with the same operators.       *)
(***************************************************************************)
LEMMA PlacementCardinality == \A S : Placement!Cardinality(S) = Cardinality(S)
BY DEF Placement!Cardinality, Cardinality

(***************************************************************************)
(* ... so its share counts are those of this module.                       *)
(***************************************************************************)
LEMMA PlacementOps ==
    /\ \A S : Placement!SharesOf(S) = SharesOf(S)
    /\ \A s : Placement!TotalSold(s) = TotalSold(s)
    /\ \A u : Placement!InvsOf(u) = InvsOf(u)
<1>1. ASSUME NEW S PROVE Placement!SharesOf(S) = SharesOf(S)
  <2>1. Placement!IssuedUnits(S) = IssuedUnits(S)
    BY DEF Placement!IssuedUnits, IssuedUnits
  <2> QED
    BY <2>1, PlacementCardinality DEF Placement!SharesOf, SharesOf
<1>2. ASSUME NEW s PROVE Placement!TotalSold(s) = TotalSold(s)
  <2>1. Placement!SoldUnits(s) = SoldUnits(s)
    BY DEF Placement!SoldUnits, SoldUnits
  <2> QED
    BY <2>1, PlacementCardinality DEF Placement!TotalSold, TotalSold
<1>3. ASSUME NEW u PROVE Placement!InvsOf(u) = InvsOf(u)
  BY DEF Placement!InvsOf, InvsOf
<1> QED
  BY <1>1, <1>2, <1>3
-----------------------------------------------------------------------------
(***************************************************************************)
(* The inductive invariant.                                                *)
(***************************************************************************)
Books == IssuedIffApproved /\ HoldingsMatchLedger /\ SoldWithinPool /\ SoldMatchesIssued
IInv  == TypeOK /\ LocksProtect /\ Books

(***************************************************************************)
(* What LocksProtect says depends on the tables only through the status,   *)
(* payment, round and counter columns.                                     *)
(***************************************************************************)
LEMMA ProtectedStutter ==
    ASSUME NEW t, UNCHANGED tables, Protected(t)
    PROVE  Protected(t)'
<1>1. status' = status /\ paid' = paid /\ round' = round /\ sold' = sold
  BY DEF tables
<1>2. Recomputed(t.acct)' = Recomputed(t.acct)
  BY <1>1 DEF Recomputed
<1>3. Existing(t.acct)' = Existing(t.acct)
  BY <1>1 DEF Existing
<1>4. IdleInv(t)' /\ ApprovingInv(t)' /\ OpeningInv(t)'
  BY <1>1 DEF Protected, IdleInv, ApprovingInv, OpeningInv
<1>5. DeletingInv(t)'
  BY <1>1, <1>2, <1>3 DEF Protected, DeletingInv
<1> QED
  BY <1>4, <1>5 DEF Protected

(***************************************************************************)
(* A step that leaves every table alone keeps the books.                   *)
(***************************************************************************)
LEMMA BooksStutter ==
    ASSUME UNCHANGED tables, Books
    PROVE  Books'
BY DEF tables, Books, IssuedIffApproved, HoldingsMatchLedger, SoldWithinPool, SoldMatchesIssued,
       Placement!IssuedIffApproved, Placement!HoldingsMatchLedger,
       Placement!SoldWithinPool, Placement!SoldMatchesIssued

(***************************************************************************)
(* A statement that only changes its transaction keeps the invariant when  *)
(* the transaction it leads to is protected and conflicts with no other.   *)
(***************************************************************************)
LEMMA TxStep ==
    ASSUME IInv, UNCHANGED tables,
           NEW w \in Workers, NEW t \in Transaction,
           tx' = [tx EXCEPT ![w] = t],
           Protected(t),
           \A v \in Workers \ {w} : Apart(tx[v], t)
    PROVE  IInv'
<1>1. tx \in [Workers -> Transaction]
  BY DEF IInv, TypeOK
<1>2. tx'[w] = t /\ \A v \in Workers \ {w} : tx'[v] = tx[v]
  BY <1>1
<1>3. TypeOK'
  BY <1>1 DEF IInv, TypeOK, tables
<1>4. ASSUME NEW v \in Workers PROVE Protected(tx[v])'
  <2>1. PICK s : s = tx'[v]
    OBVIOUS
  <2>2. Protected(s)
    BY <1>2, <2>1 DEF IInv, LocksProtect
  <2>3. Protected(s)'
    BY <2>2, ProtectedStutter
  <2> QED
    BY <2>1, <2>3 DEF Protected, IdleInv, ApprovingInv, OpeningInv, DeletingInv
<1>5. ASSUME NEW u \in Workers, NEW v \in Workers, u # v PROVE Apart(tx'[u], tx'[v])
  <2>1. CASE u = w
    BY <1>2, <1>5, <2>1 DEF Apart
  <2>2. CASE v = w
    BY <1>2, <1>5, <2>2
  <2>3. CASE u # w /\ v # w
    BY <1>2, <1>5, <2>3 DEF IInv, LocksProtect
  <2> QED
    BY <2>1, <2>2, <2>3
<1>6. RoundsInv'
  BY DEF IInv, LocksProtect, RoundsInv, tables
<1>7. LocksProtect'
  BY <1>4, <1>5, <1>6 DEF LocksProtect, Apart
<1> QED
  BY <1>3, <1>7, BooksStutter DEF IInv
-----------------------------------------------------------------------------
(***************************************************************************)
(* The statements of ApproveAndIssueShares.                                *)
(***************************************************************************)
LEMMA ApproveBeginStep ==
    ASSUME IInv, NEW w \in Workers, NEW i \in Invs, ApproveBegin(w, i)
    PROVE  IInv'
<1> DEFINE t == [tx[w] EXCEPT !.pc = "active", !.inv = i, !.locks = {InvRow(i)}]
<1>1. tx \in [Workers -> Transaction] /\ tx[w] \in Transaction
  BY DEF IInv, TypeOK
<1>2. tx' = [tx EXCEPT ![w] = t] /\ UNCHANGED tables
  BY DEF ApproveBegin
<1>3. t \in Transaction
  BY <1>1, RowTypes DEF Transaction, Approving
<1>4. t.pc = "active" /\ t.inv = i /\ t.locks = {InvRow(i)} /\ t.want = tx[w].want
  BY <1>1 DEF Transaction
<1>5. tx[w].pc = "idle" /\ IdleInv(tx[w])
  BY DEF IInv, LocksProtect, Protected, ApproveBegin
<1> HIDE DEF t
<1>6. Protected(t)
  BY <1>4, <1>5 DEF ApproveBegin, Protected, IdleInv, ApprovingInv, OpeningInv, DeletingInv,
                    Approving, Deleting
<1>7. ASSUME NEW v \in Workers \ {w} PROVE Apart(tx[v], t)
  BY <1>4, RowsDiffer DEF ApproveBegin, Unlocked, Apart
<1> QED
  BY <1>2, <1>3, <1>6, <1>7, TxStep

(***************************************************************************)
(* GetActiveOffering: the round read exists.                               *)
(***************************************************************************)
LEMMA ReadActiveStep ==
    ASSUME IInv, NEW w \in Workers, ReadActive(w)
    PROVE  IInv'
<1>1. tx \in [Workers -> Transaction] /\ tx[w] \in Transaction
  BY DEF IInv, TypeOK
<1>2. PICK r \in Rounds : /\ round[r] = "open"
                          /\ tx' = [tx EXCEPT ![w].pc = "capacity", ![w].rnd = r]
  BY DEF ReadActive, ActiveRound, OpenRounds
<1> DEFINE t == [tx[w] EXCEPT !.pc = "capacity", !.rnd = r]
<1>3. tx' = [tx EXCEPT ![w] = t] /\ UNCHANGED tables
  BY <1>2 DEF ReadActive
<1>4. t \in Transaction
  BY <1>1 DEF Transaction, Approving
<1>5. /\ t.pc = "capacity" /\ t.inv = tx[w].inv /\ t.locks = tx[w].locks
      /\ t.want = tx[w].want /\ t.rnd = r
  BY <1>1 DEF Transaction
<1>6. tx[w].pc = "active" /\ Protected(tx[w])
  BY DEF IInv, LocksProtect, ReadActive
<1> HIDE DEF t
<1>7. Protected(t)
  BY <1>2, <1>5, <1>6 DEF Protected, IdleInv, ApprovingInv, OpeningInv, DeletingInv,
                          Approving, Deleting
<1>8. ASSUME NEW v \in Workers \ {w} PROVE Apart(tx[v], t)
  BY <1>5 DEF IInv, LocksProtect, Apart
<1> QED
  BY <1>3, <1>4, <1>7, <1>8, TxStep

(***************************************************************************)
(* GetOfferingForUpdate and the capacity check: the row is now locked.     *)
(***************************************************************************)
LEMMA TakeCapacityStep ==
    ASSUME IInv, NEW w \in Workers, TakeCapacity(w)
    PROVE  IInv'
<1> DEFINE t == [tx[w] EXCEPT !.pc = "ledger", !.locks = @ \cup {RoundRow(tx[w].rnd)}]
<1>1. tx \in [Workers -> Transaction] /\ tx[w] \in Transaction
  BY DEF IInv, TypeOK
<1>2. tx' = [tx EXCEPT ![w] = t] /\ UNCHANGED tables
  BY DEF TakeCapacity
<1>3. tx[w].pc = "capacity" /\ Protected(tx[w])
  BY DEF IInv, LocksProtect, TakeCapacity
<1>4. tx[w].rnd \in Rounds
  BY <1>3 DEF Protected, ApprovingInv, Approving
<1>5. t \in Transaction
  BY <1>1, <1>4, RowTypes DEF Transaction, Approving
<1>6. /\ t.pc = "ledger" /\ t.inv = tx[w].inv /\ t.rnd = tx[w].rnd /\ t.want = tx[w].want
      /\ t.locks = tx[w].locks \cup {RoundRow(tx[w].rnd)}
  BY <1>1 DEF Transaction
<1> HIDE DEF t
<1>7. Protected(t)
  BY <1>3, <1>6 DEF TakeCapacity, Shares, Protected, IdleInv, ApprovingInv, OpeningInv,
                    DeletingInv, Approving, Deleting
<1>8. ASSUME NEW v \in Workers \ {w} PROVE Apart(tx[v], t)
  <2>1. RoundRow(tx[w].rnd) \notin tx[v].locks
    BY DEF TakeCapacity, Free
  <2> QED
    BY <1>6, <2>1, RowsDiffer DEF IInv, LocksProtect, Apart
<1> QED
  BY <1>2, <1>5, <1>7, <1>8, TxStep

(***************************************************************************)
(* InsertShareLedger: no deletion has altered the table.                   *)
(***************************************************************************)
LEMMA InsertLedgerStep ==
    ASSUME IInv, NEW w \in Workers, InsertLedger(w)
    PROVE  IInv'
<1> DEFINE t == [tx[w] EXCEPT !.pc = "prior", !.locks = @ \cup {LedgerInsert}]
<1>1. tx \in [Workers -> Transaction] /\ tx[w] \in Transaction
  BY DEF IInv, TypeOK
<1>2. tx' = [tx EXCEPT ![w] = t] /\ UNCHANGED tables
  BY DEF InsertLedger
<1>3. tx[w].pc = "ledger" /\ Protected(tx[w])
  BY DEF IInv, LocksProtect, InsertLedger
<1>4. t \in Transaction
  BY <1>1, RowTypes DEF Transaction, Approving
<1>5. /\ t.pc = "prior" /\ t.inv = tx[w].inv /\ t.rnd = tx[w].rnd /\ t.want = tx[w].want
      /\ t.locks = tx[w].locks \cup {LedgerInsert}
  BY <1>1 DEF Transaction
<1> HIDE DEF t
<1>6. Protected(t)
  BY <1>3, <1>5 DEF Protected, IdleInv, ApprovingInv, OpeningInv, DeletingInv,
                    Approving, Deleting
<1>7. ASSUME NEW v \in Workers \ {w} PROVE Apart(tx[v], t)
  <2>1. LedgerAlter \notin tx[v].locks
    BY DEF InsertLedger, Free
  <2> QED
    BY <1>5, <2>1, RowsDiffer DEF IInv, LocksProtect, Apart
<1> QED
  BY <1>2, <1>4, <1>6, <1>7, TxStep

(***************************************************************************)
(* GetShareholding changes nothing the invariant speaks of.                *)
(***************************************************************************)
LEMMA ReadPriorStep ==
    ASSUME IInv, NEW w \in Workers, ReadPrior(w)
    PROVE  IInv'
<1> DEFINE t == [tx[w] EXCEPT !.pc = "upsert", !.prior = holding[Owner(w)]]
<1>1. tx \in [Workers -> Transaction] /\ tx[w] \in Transaction
  BY DEF IInv, TypeOK
<1>2. tx' = [tx EXCEPT ![w] = t] /\ UNCHANGED tables
  BY DEF ReadPrior
<1>3. tx[w].pc = "prior" /\ Protected(tx[w])
  BY DEF IInv, LocksProtect, ReadPrior
<1>4. Owner(w) \in Users
  BY <1>3 DEF Protected, ApprovingInv, Approving, Owner
<1>5. t \in Transaction
  BY <1>1, <1>4 DEF IInv, TypeOK, Transaction, Approving
<1>6. /\ t.pc = "upsert" /\ t.inv = tx[w].inv /\ t.rnd = tx[w].rnd /\ t.want = tx[w].want
      /\ t.locks = tx[w].locks
  BY <1>1 DEF Transaction
<1> HIDE DEF t
<1>7. Protected(t)
  BY <1>3, <1>6 DEF Protected, IdleInv, ApprovingInv, OpeningInv, DeletingInv,
                    Approving, Deleting
<1>8. ASSUME NEW v \in Workers \ {w} PROVE Apart(tx[v], t)
  BY <1>6 DEF IInv, LocksProtect, Apart
<1> QED
  BY <1>2, <1>5, <1>7, <1>8, TxStep

(***************************************************************************)
(* UpsertShareholding locks the row of the holding.                        *)
(***************************************************************************)
LEMMA UpsertHoldingStep ==
    ASSUME IInv, NEW w \in Workers, UpsertHolding(w)
    PROVE  IInv'
<1> DEFINE t == [tx[w] EXCEPT !.pc = "commit", !.locks = @ \cup {HoldingRow(Owner(w))}]
<1>1. tx \in [Workers -> Transaction] /\ tx[w] \in Transaction
  BY DEF IInv, TypeOK
<1>2. tx' = [tx EXCEPT ![w] = t] /\ UNCHANGED tables
  BY DEF UpsertHolding
<1>3. tx[w].pc = "upsert" /\ Protected(tx[w])
  BY DEF IInv, LocksProtect, UpsertHolding
<1>4. Owner(w) \in Users
  BY <1>3 DEF Protected, ApprovingInv, Approving, Owner
<1>5. t \in Transaction
  BY <1>1, <1>4, RowTypes DEF Transaction, Approving
<1>6. /\ t.pc = "commit" /\ t.inv = tx[w].inv /\ t.rnd = tx[w].rnd /\ t.want = tx[w].want
      /\ t.locks = tx[w].locks \cup {HoldingRow(Owner(w))}
  BY <1>1 DEF Transaction
<1> HIDE DEF t
<1>7. Protected(t)
  BY <1>3, <1>6 DEF Protected, IdleInv, ApprovingInv, OpeningInv, DeletingInv,
                    Approving, Deleting
<1>8. ASSUME NEW v \in Workers \ {w} PROVE Apart(tx[v], t)
  <2>1. HoldingRow(Owner(w)) \notin tx[v].locks
    BY DEF UpsertHolding, Free
  <2> QED
    BY <1>6, <2>1, RowsDiffer DEF IInv, LocksProtect, Apart
<1> QED
  BY <1>2, <1>5, <1>7, <1>8, TxStep
-----------------------------------------------------------------------------
(***************************************************************************)
(* The statements of OpenNewRound, and the row locks of multi-row updates. *)
(***************************************************************************)
LEMMA RoundsNat == Rounds \subseteq Nat
<1>1. Cardinality(Rounds) \in Nat
  BY FS_CardinalityType
<1> QED
  BY <1>1

(***************************************************************************)
(* The new round has a number that no other transaction holds.             *)
(***************************************************************************)
LEMMA OpenBeginStep ==
    ASSUME IInv, NEW w \in Workers, NEW r \in Rounds, OpenBegin(w, r)
    PROVE  IInv'
<1> DEFINE want == {RoundRow(o) : o \in OpenRounds}
           t == [tx[w] EXCEPT !.pc = "close", !.rnd = r, !.want = want]
<1>1. tx \in [Workers -> Transaction] /\ tx[w] \in Transaction
  BY DEF IInv, TypeOK
<1>2. tx' = [tx EXCEPT ![w] = t] /\ UNCHANGED tables
  BY DEF OpenBegin
<1>3. tx[w].pc = "idle" /\ Protected(tx[w])
  BY DEF IInv, LocksProtect, OpenBegin
<1>4. r \notin Numbered
  BY RoundsNat DEF OpenBegin
<1>5. round[r] = "none" /\ \A v \in Workers : tx[v].pc = "close" => tx[v].rnd # r
  BY <1>4 DEF Numbered
<1>6. want \subseteq Row
  BY RowTypes DEF OpenRounds
<1>11. want \subseteq {RoundRow(o) : o \in Rounds}
  BY DEF OpenRounds
<1>12. \A o \in Rounds : RoundRow(o) \in want => round[o] # "none"
  BY RowsDiffer DEF OpenRounds
<1> HIDE DEF want
<1>10. t \in Transaction
  BY <1>1, <1>6 DEF Transaction
<1>7. t.pc = "close" /\ t.rnd = r /\ t.locks = tx[w].locks /\ t.want = want
  BY <1>1 DEF Transaction
<1> HIDE DEF t
<1>8. Protected(t)
  <2>1. t.locks = {}
    BY <1>3, <1>7 DEF Protected, IdleInv
  <2>2. OpeningInv(t)
    BY <1>5, <1>7, <1>11, <1>12, <2>1 DEF OpeningInv
  <2>3. IdleInv(t) /\ ApprovingInv(t) /\ DeletingInv(t)
    BY <1>7 DEF IdleInv, ApprovingInv, DeletingInv, Approving, Deleting
  <2> QED
    BY <2>2, <2>3 DEF Protected
<1>9. ASSUME NEW v \in Workers \ {w} PROVE Apart(tx[v], t)
  BY <1>5, <1>7 DEF IInv, LocksProtect, Apart
<1> QED
  BY <1>2, <1>10, <1>8, <1>9, TxStep

(***************************************************************************)
(* Locking one more row of a multi-row UPDATE of table offering.           *)
(***************************************************************************)
LEMMA LockRoundStep ==
    ASSUME IInv, NEW w \in Workers, LockRound(w)
    PROVE  IInv'
<1> DEFINE Locked(r) == tx[w].locks \cup {RoundRow(r)}
<1>1. tx \in [Workers -> Transaction] /\ tx[w] \in Transaction
  BY DEF IInv, TypeOK
<1>2. PICK r \in Rounds :
          /\ RoundRow(r) \in tx[w].want
          /\ Free(w, RoundRow(r))
          /\ tx' = [tx EXCEPT ![w].want = @ \ {RoundRow(r)}, ![w].locks = Locked(r)]
          /\ UNCHANGED tables
  BY DEF LockRound
<1> DEFINE t == [tx[w] EXCEPT !.want = @ \ {RoundRow(r)}, !.locks = Locked(r)]
<1>3. tx' = [tx EXCEPT ![w] = t]
  BY <1>2
<1>4. Protected(tx[w])
  BY DEF IInv, LocksProtect
<1>5. tx[w].pc \in {"close", "pool"}
  BY <1>2, <1>4, RowsDiffer DEF Protected, IdleInv, DeletingInv
<1>6. t \in Transaction
  BY <1>1, RowTypes DEF Transaction
<1>7. /\ t.pc = tx[w].pc /\ t.rnd = tx[w].rnd /\ t.acct = tx[w].acct
      /\ t.plan = tx[w].plan /\ t.want = tx[w].want \ {RoundRow(r)} /\ t.locks = Locked(r)
  BY <1>1 DEF Transaction
<1>8. t.locks = tx[w].locks \cup {RoundRow(r)}
  BY <1>7
<1> HIDE DEF t, Locked
<1>9. Protected(t)
  <2>1. IdleInv(t) /\ ApprovingInv(t)
    BY <1>5, <1>7 DEF IdleInv, ApprovingInv, Approving
  <2>2. t.want \cup t.locks = tx[w].want \cup tx[w].locks
    BY <1>2, <1>7, <1>8
  <2>3. t.want \subseteq tx[w].want
    BY <1>7
  <2>4. OpeningInv(t)
    BY <1>4, <1>7, <2>2, <2>3 DEF Protected, OpeningInv
  <2>5. DeletingInv(t)
    BY <1>4, <1>5, <1>7, <1>8, RowsDiffer DEF Protected, DeletingInv, Deleting
  <2> QED
    BY <2>1, <2>4, <2>5 DEF Protected
<1>10. ASSUME NEW v \in Workers \ {w} PROVE Apart(tx[v], t)
  <2>1. RoundRow(r) \notin tx[v].locks
    BY <1>2 DEF Free
  <2>2. Apart(tx[v], tx[w])
    BY DEF IInv, LocksProtect
  <2> QED
    BY <1>7, <1>8, <2>1, <2>2, RowsDiffer DEF Apart
<1> QED
  BY <1>2, <1>3, <1>6, <1>9, <1>10, TxStep
-----------------------------------------------------------------------------
(***************************************************************************)
(* The statements of DeleteUser.                                           *)
(***************************************************************************)
LEMMA DeleteBeginStep ==
    ASSUME IInv, NEW w \in Workers, NEW u \in Users, DeleteBegin(w, u)
    PROVE  IInv'
<1> DEFINE cut == {c \in comms : InvUser[c.inv] = u \/ ReferrerOf(InvUser[c.inv]) = u}
           t == [tx[w] EXCEPT !.pc = "alter", !.acct = u, !.cut = cut]
<1>1. tx \in [Workers -> Transaction] /\ tx[w] \in Transaction
  BY DEF IInv, TypeOK
<1>2. tx' = [tx EXCEPT ![w] = t] /\ UNCHANGED tables
  BY DEF DeleteBegin
<1>3. tx[w].pc = "idle" /\ Protected(tx[w])
  BY DEF IInv, LocksProtect, DeleteBegin
<1>4. cut \subseteq Commission
  BY DEF IInv, TypeOK
<1> HIDE DEF cut
<1>5. t \in Transaction
  BY <1>1, <1>4 DEF Transaction, Deleting
<1>6. t.pc = "alter" /\ t.acct = u /\ t.locks = tx[w].locks /\ t.want = tx[w].want
  BY <1>1 DEF Transaction
<1> HIDE DEF t
<1>7. Protected(t)
  BY <1>3, <1>6 DEF Protected, IdleInv, ApprovingInv, OpeningInv, DeletingInv,
                    Approving, Deleting
<1>8. ASSUME NEW v \in Workers \ {w} PROVE Apart(tx[v], t)
  BY <1>6 DEF IInv, LocksProtect, Apart
<1> QED
  BY <1>2, <1>5, <1>7, <1>8, TxStep

(***************************************************************************)
(* ALTER TABLE share_ledger excludes every issuing transaction.            *)
(***************************************************************************)
LEMMA AlterLedgerStep ==
    ASSUME IInv, NEW w \in Workers, AlterLedger(w)
    PROVE  IInv'
<1> DEFINE u == tx[w].acct
           want == {InvRow(i) : i \in Existing(u)}
           t == [tx[w] EXCEPT !.pc = "invs", !.want = want,
                              !.locks = @ \cup {LedgerAlter, HoldingRow(u)}]
<1>1. tx \in [Workers -> Transaction] /\ tx[w] \in Transaction
  BY DEF IInv, TypeOK
<1>2. tx' = [tx EXCEPT ![w] = t] /\ UNCHANGED tables
  BY DEF AlterLedger
<1>3. tx[w].pc = "alter" /\ Protected(tx[w])
  BY DEF IInv, LocksProtect, AlterLedger
<1>4. u \in Users
  BY <1>3 DEF Protected, DeletingInv, Deleting
<1>5. want \subseteq Row /\ want \subseteq {InvRow(i) : i \in Invs}
  BY RowTypes DEF Existing, InvsOf
<1> HIDE DEF want
<1>6. t \in Transaction
  BY <1>1, <1>4, <1>5, RowTypes DEF Transaction, Deleting
<1>7. /\ t.pc = "invs" /\ t.acct = u /\ t.want = want
      /\ t.locks = tx[w].locks \cup {LedgerAlter, HoldingRow(u)}
  BY <1>1 DEF Transaction
<1> HIDE DEF t
<1>8. Protected(t)
  BY <1>4, <1>5, <1>7 DEF Protected, IdleInv, ApprovingInv, OpeningInv, DeletingInv,
                          Approving, Deleting
<1>9. ASSUME NEW v \in Workers \ {w} PROVE Apart(tx[v], t)
  <2>1. {LedgerInsert, LedgerAlter, HoldingRow(u)} \cap tx[v].locks = {}
    BY DEF AlterLedger, Free
  <2>2. Apart(tx[v], tx[w])
    BY DEF IInv, LocksProtect
  <2> QED
    BY <1>7, <2>1, <2>2, RowsDiffer DEF Apart
<1> QED
  BY <1>2, <1>6, <1>8, <1>9, TxStep

(***************************************************************************)
(* Locking one more of the investments to delete.                          *)
(***************************************************************************)
LEMMA LockInvestmentStep ==
    ASSUME IInv, NEW w \in Workers, LockInvestment(w)
    PROVE  IInv'
<1>1. tx \in [Workers -> Transaction] /\ tx[w] \in Transaction
  BY DEF IInv, TypeOK
<1>2. PICK i \in Invs :
          /\ InvRow(i) \in tx[w].want
          /\ Free(w, InvRow(i))
          /\ tx' = [tx EXCEPT ![w].want = @ \ {InvRow(i)}, ![w].locks = @ \cup {InvRow(i)}]
          /\ UNCHANGED tables
  BY DEF LockInvestment
<1> DEFINE t == [tx[w] EXCEPT !.want = @ \ {InvRow(i)}, !.locks = @ \cup {InvRow(i)}]
<1>3. tx' = [tx EXCEPT ![w] = t]
  BY <1>2
<1>4. Protected(tx[w])
  BY DEF IInv, LocksProtect
<1>5. tx[w].pc = "invs"
  BY <1>2, <1>4, RowsDiffer DEF Protected, IdleInv, OpeningInv, DeletingInv
<1>6. t \in Transaction
  BY <1>1, RowTypes DEF Transaction
<1>7. /\ t.pc = tx[w].pc /\ t.acct = tx[w].acct
      /\ t.want = tx[w].want \ {InvRow(i)} /\ t.locks = tx[w].locks \cup {InvRow(i)}
  BY <1>1 DEF Transaction
<1> HIDE DEF t
<1>8. Protected(t)
  BY <1>4, <1>5, <1>7 DEF Protected, IdleInv, ApprovingInv, OpeningInv, DeletingInv,
                          Approving, Deleting
<1>9. ASSUME NEW v \in Workers \ {w} PROVE Apart(tx[v], t)
  <2>1. InvRow(i) \notin tx[v].locks
    BY <1>2 DEF Free
  <2>2. Apart(tx[v], tx[w])
    BY DEF IInv, LocksProtect
  <2>3. InvRow(i) # LedgerInsert /\ InvRow(i) # LedgerAlter
    BY RowsDiffer
  <2> QED
    BY <1>5, <1>7, <2>1, <2>2, <2>3 DEF Apart
<1> QED
  BY <1>2, <1>3, <1>6, <1>8, <1>9, TxStep

(***************************************************************************)
(* The recomputed counters: a round that does not exist yet has sold       *)
(* nothing and no approved investment belongs to it.                       *)
(***************************************************************************)
LEMMA RecomputePoolStep ==
    ASSUME IInv, NEW w \in Workers, RecomputePool(w)
    PROVE  IInv'
<1> DEFINE u == tx[w].acct
           want == {RoundRow(r) : r \in {o \in Rounds : round[o] # "none"}}
           t == [tx[w] EXCEPT !.pc = "pool", !.plan = Recomputed(u), !.want = want,
                              !.locks = @ \cup {ContractRow(u)}]
<1>1. tx \in [Workers -> Transaction] /\ tx[w] \in Transaction
  BY DEF IInv, TypeOK
<1>2. tx' = [tx EXCEPT ![w] = t] /\ UNCHANGED tables
  BY DEF RecomputePool
<1>3. tx[w].pc = "invs" /\ Protected(tx[w])
  BY DEF IInv, LocksProtect, RecomputePool
<1>4. u \in Users
  BY <1>3 DEF Protected, DeletingInv, Deleting
<1>5. Recomputed(u) \in WithinPool
  BY DEF RecomputePool
<1>6. Recomputed(u) \in [Rounds -> Nat]
  BY <1>5 DEF WithinPool
<1>13. want \subseteq Row
  BY RowTypes
<1>14. ContractRow(u) \in Row
  BY <1>4, RowTypes
<1>7. t \in Transaction
  <2> HIDE DEF want, u
  <2> QED
    BY <1>1, <1>6, <1>13, <1>14 DEF Transaction, Deleting
<1>8. /\ t.pc = "pool" /\ t.acct = u /\ t.plan = Recomputed(u) /\ t.want = want
      /\ t.locks = tx[w].locks \cup {ContractRow(u)}
  BY <1>1 DEF Transaction
<1> HIDE DEF t
<1>9. ASSUME NEW r \in Rounds, RoundRow(r) \notin want
      PROVE  sold[r] = 0 /\ Recomputed(u)[r] = 0
  <2>1. round[r] = "none"
    BY <1>9
  <2>2. sold[r] = 0
    BY <2>1 DEF IInv, LocksProtect, RoundsInv
  <2>3. {i \in Invs \ InvsOf(u) : status[i] = "approved" /\ InvRound[i] = r} = {}
    BY <2>1 DEF IInv, LocksProtect, RoundsInv
  <2>4. SharesOf({}) = 0
    BY IssuedFinite
  <2> QED
    BY <2>2, <2>3, <2>4 DEF Recomputed
<1>10. \A i \in Existing(u) : InvRow(i) \in tx[w].locks
  BY DEF RecomputePool
<1> HIDE DEF want
<1>11. Protected(t)
  <2>1. IdleInv(t) /\ ApprovingInv(t) /\ OpeningInv(t)
    BY <1>8 DEF IdleInv, ApprovingInv, OpeningInv, Approving
  <2>2. want \subseteq {RoundRow(r) : r \in Rounds}
    BY DEF want
  <2>3. LedgerAlter \in tx[w].locks
    BY <1>3 DEF Protected, DeletingInv
  <2>4. DeletingInv(t)
    BY <1>4, <1>5, <1>8, <1>9, <1>10, <2>2, <2>3 DEF DeletingInv
  <2> QED
    BY <2>1, <2>4 DEF Protected
<1>12. ASSUME NEW v \in Workers \ {w} PROVE Apart(tx[v], t)
  <2>1. ContractRow(u) \notin tx[v].locks
    BY DEF RecomputePool, Free
  <2>2. Apart(tx[v], tx[w])
    BY DEF IInv, LocksProtect
  <2> QED
    BY <1>8, <2>1, <2>2, RowsDiffer DEF Apart
<1> QED
  BY <1>2, <1>7, <1>11, <1>12, TxStep

(***************************************************************************)
(* A rollback leaves a transaction that holds nothing.                     *)
(***************************************************************************)
LEMMA IdleFacts ==
    /\ Idle \in Transaction
    /\ Protected(Idle)
    /\ \A s : Apart(s, Idle) /\ Apart(Idle, s)
<1>1. Idle \in Transaction
  BY DEF Idle, Transaction
<1>2. Protected(Idle)
  BY DEF Idle, Protected, IdleInv, ApprovingInv, OpeningInv, DeletingInv, Approving, Deleting
<1>3. \A s : Apart(s, Idle) /\ Apart(Idle, s)
  BY DEF Idle, Apart
<1> QED
  BY <1>1, <1>2, <1>3

(***************************************************************************)
(* A rollback keeps the invariant.                                         *)
(***************************************************************************)
LEMMA RollbackStep ==
    ASSUME IInv, NEW w \in Workers, Rollback(w)
    PROVE  IInv'
<1>1. tx' = [tx EXCEPT ![w] = Idle] /\ UNCHANGED tables
  BY DEF Rollback, Finish
<1> QED
  BY <1>1, IdleFacts, TxStep
-----------------------------------------------------------------------------
(***************************************************************************)
(* Signing, transfer declarations, reconciliations and rejections: a row   *)
(* that a transaction has locked does not change under it, and a deleted   *)
(* account gets no new investment.                                         *)
(***************************************************************************)
LEMMA StatusStep ==
    ASSUME IInv, TypeOK', NEW i \in Invs,
           NEW x \in {"pending", "reconciled", "rejected"},
           status' = [status EXCEPT ![i] = x],
           status[i] # "approved",
           status[i] = "none" => /\ Unlocked(ContractRow(InvUser[i]))
                                 /\ round[InvRound[i]] # "none",
           status[i] # "none" => Unlocked(InvRow(i)),
           paid \subseteq paid', paid' \subseteq declared',
           UNCHANGED <<ledger, holding, round, sold, tx>>
    PROVE  IInv'
<1>1. status \in [Invs -> Status] /\ tx' = tx /\ tx \in [Workers -> Transaction]
  BY DEF IInv, TypeOK
<1>2. status'[i] = x /\ \A j \in Invs \ {i} : status'[j] = status[j]
  BY <1>1
<1>3. \A j \in Invs : status'[j] = "approved" <=> status[j] = "approved"
  BY <1>2
<1>4. ASSUME NEW t, t.acct \in Users PROVE Recomputed(t.acct)' = Recomputed(t.acct)
  <2>1. ASSUME NEW r \in Rounds
        PROVE  {j \in Invs \ InvsOf(t.acct) : status'[j] = "approved" /\ InvRound[j] = r}
                 = {j \in Invs \ InvsOf(t.acct) : status[j] = "approved" /\ InvRound[j] = r}
    BY <1>3
  <2> QED
    BY <2>1 DEF Recomputed
<1>5. ASSUME NEW w \in Workers PROVE Protected(tx[w])'
  <2>1. PICK t : t = tx[w]
    OBVIOUS
  <2>2. Protected(t)
    BY <2>1 DEF IInv, LocksProtect
  <2>3. IdleInv(t)' /\ OpeningInv(t)'
    BY <2>2 DEF Protected, IdleInv, OpeningInv
  <2>4. ApprovingInv(t)'
    BY <1>2, <2>1, <2>2 DEF Protected, ApprovingInv, Unlocked
  <2>5. DeletingInv(t)'
    <3>1. t.pc = "pool" => t.acct \in Users
      BY <2>2 DEF Protected, DeletingInv, Deleting
    <3>2. t.pc = "pool" => Recomputed(t.acct)' = Recomputed(t.acct)
      BY <1>4, <3>1
    <3>3. ASSUME t.pc = "pool", NEW j \in Existing(t.acct)' PROVE InvRow(j) \in t.locks
      <4>1. j \in Invs /\ InvUser[j] = t.acct /\ status'[j] # "none"
        BY <3>3 DEF Existing, InvsOf
      <4>2. j # i \/ status[i] # "none"
        BY <2>1, <2>2, <3>3, <4>1 DEF Protected, DeletingInv, Unlocked
      <4>3. j \in Existing(t.acct)
        BY <1>2, <4>1, <4>2 DEF Existing, InvsOf
      <4> QED
        BY <2>2, <3>3, <4>3 DEF Protected, DeletingInv
    <3> QED
      BY <2>2, <3>2, <3>3 DEF Protected, DeletingInv
  <2>6. Protected(t)'
    BY <2>3, <2>4, <2>5 DEF Protected
  <2> QED
    BY <1>1, <2>1, <2>6 DEF Protected, IdleInv, ApprovingInv, OpeningInv, DeletingInv
<1>6. RoundsInv'
  BY <1>2 DEF IInv, LocksProtect, RoundsInv
<1>7. LocksProtect'
  BY <1>1, <1>5, <1>6 DEF IInv, LocksProtect, Apart
<1>8. Books'
  <2>1. IssuedIffApproved'
    BY <1>3 DEF IInv, Books, IssuedIffApproved, Placement!IssuedIffApproved
  <2> QED
    BY <2>1 DEF IInv, Books, HoldingsMatchLedger, SoldWithinPool, SoldMatchesIssued,
                Placement!HoldingsMatchLedger, Placement!SoldWithinPool,
                Placement!SoldMatchesIssued
<1> QED
  BY <1>7, <1>8 DEF IInv

(***************************************************************************)
(* A new investment keeps the invariant.                                   *)
(***************************************************************************)
LEMMA CreateStep ==
    ASSUME IInv, NEW i \in Invs, Create(i)
    PROVE  IInv'
<1>1. TypeOK'
  BY DEF IInv, TypeOK, Create, Status
<1>2. paid' \subseteq declared'
  BY DEF IInv, TypeOK, Books, IssuedIffApproved, Placement!IssuedIffApproved, Create
<1> QED
  BY <1>1, <1>2, StatusStep DEF Create

(***************************************************************************)
(* A reconciliation keeps the invariant: nobody holds the row.             *)
(***************************************************************************)
LEMMA ReconcileStep ==
    ASSUME IInv, NEW i \in Invs, Reconcile(i)
    PROVE  IInv'
<1>1. TypeOK'
  BY DEF IInv, TypeOK, Reconcile, Status
<1>2. paid' \subseteq declared'
  BY DEF IInv, TypeOK, Books, IssuedIffApproved, Placement!IssuedIffApproved, Reconcile
<1> QED
  BY <1>1, <1>2, StatusStep DEF Reconcile

(***************************************************************************)
(* A rejection keeps the invariant: nobody is approving the investment.    *)
(***************************************************************************)
LEMMA RejectStep ==
    ASSUME IInv, NEW i \in Invs, Reject(i)
    PROVE  IInv'
<1>1. TypeOK'
  BY DEF IInv, TypeOK, Reject, Status
<1>2. paid' \subseteq declared'
  BY DEF IInv, TypeOK, Books, IssuedIffApproved, Placement!IssuedIffApproved, Reject
<1> QED
  BY <1>1, <1>2, StatusStep DEF Reject

(***************************************************************************)
(* A declaration keeps the invariant.                                      *)
(***************************************************************************)
LEMMA DeclareTransferStep ==
    ASSUME IInv, NEW i \in Invs, DeclareTransfer(i)
    PROVE  IInv'
<1>1. TypeOK'
  BY DEF IInv, TypeOK, DeclareTransfer
<1>2. /\ status' = status /\ paid' = paid /\ round' = round /\ sold' = sold /\ tx' = tx
      /\ ledger' = ledger /\ holding' = holding
  BY DEF DeclareTransfer
<1>3. ASSUME NEW u PROVE Recomputed(u)' = Recomputed(u) /\ Existing(u)' = Existing(u)
  BY <1>2 DEF Recomputed, Existing
<1>4. ASSUME NEW w \in Workers PROVE Protected(tx[w])'
  BY <1>2, <1>3 DEF IInv, LocksProtect, Protected, IdleInv, ApprovingInv, OpeningInv,
                    DeletingInv
<1>5. LocksProtect'
  BY <1>2, <1>4 DEF IInv, LocksProtect, RoundsInv, Apart
<1>6. Books'
  BY <1>2 DEF DeclareTransfer, IInv, TypeOK, Books, IssuedIffApproved, HoldingsMatchLedger,
              SoldWithinPool, SoldMatchesIssued, Placement!IssuedIffApproved,
              Placement!HoldingsMatchLedger, Placement!SoldWithinPool,
              Placement!SoldMatchesIssued
<1> QED
  BY <1>1, <1>5, <1>6 DEF IInv
-----------------------------------------------------------------------------
(***************************************************************************)
(* What is known when an approval commits.                                 *)
(***************************************************************************)
LEMMA ApproveCommitFacts ==
    ASSUME IInv, NEW w \in Workers, tx[w].pc = "commit"
    PROVE  LET i == tx[w].inv
               r == tx[w].rnd
           IN  /\ i \in Invs /\ r \in Rounds /\ Owner(w) = InvUser[i] /\ Shares(w) = InvShares[i]
               /\ status[i] = "reconciled" /\ i \in paid /\ i \notin ledger
               /\ round[r] # "none"
               /\ sold[r] + InvShares[i] <= ForSale[r]
               /\ InvRow(i) \in tx[w].locks /\ RoundRow(r) \in tx[w].locks
               /\ LedgerInsert \in tx[w].locks
<1>1. Protected(tx[w])
  BY DEF IInv, LocksProtect
<1> QED
  BY <1>1 DEF IInv, Books, IssuedIffApproved, Placement!IssuedIffApproved, Protected,
              ApprovingInv, Approving, Owner, Shares

(***************************************************************************)
(* The commit of an approval keeps the invariant.                          *)
(***************************************************************************)
LEMMA ApproveCommitStep ==
    ASSUME IInv, NEW w \in Workers, ApproveCommit(w)
    PROVE  IInv'
<1> DEFINE i == tx[w].inv
           r == tx[w].rnd
           o == InvUser[i]
           n == InvShares[i]
<1>1. /\ i \in Invs /\ r \in Rounds /\ Owner(w) = o /\ Shares(w) = n
      /\ status[i] = "reconciled" /\ i \in paid /\ i \notin ledger
      /\ round[r] # "none" /\ sold[r] + n <= ForSale[r]
      /\ InvRow(i) \in tx[w].locks /\ RoundRow(r) \in tx[w].locks
      /\ LedgerInsert \in tx[w].locks
  BY ApproveCommitFacts DEF ApproveCommit
<1>2. /\ status' = [status EXCEPT ![i] = "approved"]
      /\ sold' = [sold EXCEPT ![r] = @ + n]
      /\ ledger' = ledger \cup {i}
      /\ holding' = [holding EXCEPT ![o] = @ + n]
      /\ pct' = [pct EXCEPT ![o] = tx[w].prior + n]
      /\ comms' = comms \cup Commissions(i)
      /\ tx' = [tx EXCEPT ![w] = Idle]
      /\ users' = users /\ declared' = declared /\ paid' = paid /\ round' = round
  BY <1>1 DEF ApproveCommit, Finish
<1>3. /\ tx \in [Workers -> Transaction] /\ status \in [Invs -> Status]
      /\ sold \in [Rounds -> Nat] /\ holding \in [Users -> Nat] /\ ledger \subseteq Invs
      /\ tx[w].prior \in Nat /\ o \in Users /\ n \in Nat
  BY <1>1 DEF IInv, TypeOK, Transaction
<1> HIDE DEF i, r, o, n
<1>4. TypeOK'
  <2>1. comms' \subseteq Commission
    BY <1>1, <1>2, CommissionsType DEF IInv, TypeOK
  <2>2. tx' \in [Workers -> Transaction]
    BY <1>2, <1>3, IdleFacts
  <2>3. status' \in [Invs -> Status] /\ ledger' \subseteq Invs
    BY <1>1, <1>2, <1>3 DEF Status
  <2>4. sold' \in [Rounds -> Nat] /\ holding' \in [Users -> Nat]
    BY <1>1, <1>2, <1>3
  <2>5. pct' \in [Users -> Nat]
    BY <1>2, <1>3 DEF IInv, TypeOK
  <2> QED
    BY <1>2, <2>1, <2>2, <2>3, <2>4, <2>5 DEF IInv, TypeOK
<1>5. /\ tx'[w] = Idle /\ \A v \in Workers \ {w} : tx'[v] = tx[v]
      /\ status'[i] = "approved" /\ \A j \in Invs \ {i} : status'[j] = status[j]
      /\ sold'[r] = sold[r] + n /\ \A q \in Rounds \ {r} : sold'[q] = sold[q]
      /\ holding'[o] = holding[o] + n /\ \A u \in Users \ {o} : holding'[u] = holding[u]
  BY <1>1, <1>2, <1>3
<1>6. ASSUME NEW v \in Workers PROVE Protected(tx[v])'
  <2>1. CASE v = w
    BY <1>5, <2>1, IdleFacts DEF Idle, Protected, IdleInv, ApprovingInv, OpeningInv,
                                 DeletingInv, Approving, Deleting
  <2>2. CASE v # w
    <3>1. PICK t : t = tx[v]
      OBVIOUS
    <3>2. Protected(t) /\ Apart(t, tx[w])
      BY <2>2, <3>1 DEF IInv, LocksProtect
    <3>3. IdleInv(t)' /\ OpeningInv(t)'
      BY <1>2, <3>2 DEF Protected, IdleInv, OpeningInv
    <3>4. ApprovingInv(t)'
      <4>1. t.pc \in Approving => t.inv \in Invs /\ InvRow(t.inv) \in t.locks
        BY <3>2 DEF Protected, ApprovingInv
      <4>2. t.pc \in Approving => t.inv # i
        BY <1>1, <3>2, <4>1, RowsDiffer DEF Apart
      <4>3. t.pc \in Approving \ {"active", "capacity"} => t.rnd # r
        BY <1>1, <3>2, RowsDiffer DEF Apart, Protected, ApprovingInv
      <4> QED
        BY <1>2, <1>5, <3>2, <4>1, <4>2, <4>3 DEF Protected, ApprovingInv
    <3>5. DeletingInv(t)'
      <4>1. t.pc \notin {"invs", "pool"}
        BY <1>1, <3>2 DEF Apart, Protected, DeletingInv
      <4> QED
        BY <3>2, <4>1 DEF Protected, DeletingInv
    <3>6. Protected(t)'
      BY <3>3, <3>4, <3>5 DEF Protected
    <3> QED
      BY <1>5, <2>2, <3>1, <3>6 DEF Protected, IdleInv, ApprovingInv, OpeningInv, DeletingInv
  <2> QED
    BY <2>1, <2>2
<1>7. ASSUME NEW u \in Workers, NEW v \in Workers, u # v PROVE Apart(tx'[u], tx'[v])
  <2>1. CASE u = w
    BY <1>5, <1>7, <2>1, IdleFacts
  <2>2. CASE v = w
    BY <1>5, <1>7, <2>2, IdleFacts
  <2>3. CASE u # w /\ v # w
    BY <1>5, <1>7, <2>3 DEF IInv, LocksProtect
  <2> QED
    BY <2>1, <2>2, <2>3
<1>8. RoundsInv'
  BY <1>1, <1>2, <1>5 DEF IInv, LocksProtect, RoundsInv
<1>9. LocksProtect'
  BY <1>6, <1>7, <1>8 DEF LocksProtect, Apart
<1>10. IssuedIffApproved'
  BY <1>1, <1>2, <1>5 DEF IInv, Books, IssuedIffApproved, Placement!IssuedIffApproved
<1>11. HoldingsMatchLedger'
  <2>1. ASSUME NEW u \in Users PROVE holding'[u] = SharesOf(ledger' \cap InvsOf(u))
    <3>1. holding[u] = SharesOf(ledger \cap InvsOf(u))
      BY PlacementOps DEF IInv, Books, HoldingsMatchLedger, Placement!HoldingsMatchLedger
    <3>2. CASE u = o
      <4>1. ledger' \cap InvsOf(u) = (ledger \cap InvsOf(u)) \cup {i}
        BY <1>1, <1>2, <3>2 DEF InvsOf, o
      <4>2. ledger \cap InvsOf(u) \in SUBSET Invs /\ i \notin ledger \cap InvsOf(u)
        BY <1>1, <1>3
      <4>3. SharesOf((ledger \cap InvsOf(u)) \cup {i}) = SharesOf(ledger \cap InvsOf(u)) + n
        BY <1>1, <4>2, SharesOfAdd DEF n
      <4> QED
        BY <1>5, <3>1, <3>2, <4>1, <4>3
    <3>3. CASE u # o
      <4>1. ledger' \cap InvsOf(u) = ledger \cap InvsOf(u)
        BY <1>1, <1>2, <3>3 DEF InvsOf, o
      <4> QED
        BY <1>5, <3>1, <3>3, <4>1
    <3> QED
      BY <3>2, <3>3
  <2> QED
    BY <2>1, PlacementOps DEF HoldingsMatchLedger, Placement!HoldingsMatchLedger
<1>12. SoldWithinPool'
  BY <1>1, <1>3, <1>5 DEF IInv, Books, SoldWithinPool, Placement!SoldWithinPool
<1>13. SoldMatchesIssued'
  <2>1. TotalSold(sold') = TotalSold(sold) + n
    BY <1>1, <1>2, <1>3, TotalSoldAdd
  <2>2. SharesOf(ledger') = SharesOf(ledger) + n
    BY <1>1, <1>2, <1>3, SharesOfAdd DEF n
  <2> QED
    BY <2>1, <2>2, PlacementOps DEF IInv, Books, SoldMatchesIssued, Placement!SoldMatchesIssued
<1> QED
  BY <1>4, <1>9, <1>10, <1>11, <1>12, <1>13 DEF IInv, Books

(***************************************************************************)
(* A new round: the rounds it closes are those it has locked.              *)
(***************************************************************************)
LEMMA OpenCommitStep ==
    ASSUME IInv, NEW w \in Workers, OpenCommit(w)
    PROVE  IInv'
<1> DEFINE n == tx[w].rnd
<1>1. tx \in [Workers -> Transaction] /\ round \in [Rounds -> RoundStatus]
  BY DEF IInv, TypeOK
<1>2. /\ n \in Rounds /\ round[n] = "none" /\ tx[w].pc = "close"
      /\ \A r \in Rounds : RoundRow(r) \in tx[w].locks => round[r] # "none"
  BY DEF IInv, LocksProtect, Protected, OpeningInv, OpenCommit
<1>3. /\ tx' = [tx EXCEPT ![w] = Idle]
      /\ status' = status /\ paid' = paid /\ sold' = sold /\ ledger' = ledger
      /\ holding' = holding /\ declared' = declared /\ users' = users /\ pct' = pct
      /\ comms' = comms
  BY DEF OpenCommit, Finish
<1>4. /\ round' \in [Rounds -> RoundStatus]
      /\ round'[n] = "open"
      /\ \A r \in Rounds \ {n} : RoundRow(r) \in tx[w].locks => round'[r] = "closed"
      /\ \A r \in Rounds \ {n} : RoundRow(r) \notin tx[w].locks => round'[r] = round[r]
  BY <1>1, <1>2 DEF OpenCommit, RoundStatus
<1> HIDE DEF n
<1>5. TypeOK'
  <2>1. tx' \in [Workers -> Transaction]
    BY <1>1, <1>3, IdleFacts
  <2> QED
    BY <1>3, <1>4, <2>1 DEF IInv, TypeOK
<1>6. \A r \in Rounds : round[r] # "none" => round'[r] # "none"
  BY <1>4
<1>7. tx'[w] = Idle /\ \A v \in Workers \ {w} : tx'[v] = tx[v]
  BY <1>1, <1>3
<1>8. ASSUME NEW v \in Workers PROVE Protected(tx[v])'
  <2>1. CASE v = w
    BY <1>7, <2>1, IdleFacts DEF Idle, Protected, IdleInv, ApprovingInv, OpeningInv,
                                 DeletingInv, Approving, Deleting
  <2>2. CASE v # w
    <3>1. PICK t : t = tx[v]
      OBVIOUS
    <3>2. Protected(t) /\ Apart(t, tx[w])
      BY <2>2, <3>1 DEF IInv, LocksProtect
    <3>3. IdleInv(t)' /\ ApprovingInv(t)'
      BY <1>3, <1>6, <3>2 DEF Protected, IdleInv, ApprovingInv
    <3>4. OpeningInv(t)'
      <4>1. SUFFICES ASSUME t.pc = "close" PROVE round'[t.rnd] = "none"
        BY <1>6, <3>2 DEF Protected, OpeningInv
      <4>2. t.rnd # n /\ t.rnd \in Rounds /\ round[t.rnd] = "none"
        BY <1>2, <3>2, <4>1 DEF Apart, Protected, OpeningInv, n
      <4> QED
        BY <1>2, <1>4, <4>2
    <3>5. DeletingInv(t)'
      <4>1. Recomputed(t.acct)' = Recomputed(t.acct) /\ Existing(t.acct)' = Existing(t.acct)
        BY <1>3 DEF Recomputed, Existing
      <4> QED
        BY <1>3, <3>2, <4>1 DEF Protected, DeletingInv
    <3>6. Protected(t)'
      BY <3>3, <3>4, <3>5 DEF Protected
    <3> QED
      BY <1>7, <2>2, <3>1, <3>6 DEF Protected, IdleInv, ApprovingInv, OpeningInv, DeletingInv
  <2> QED
    BY <2>1, <2>2
<1>9. ASSUME NEW u \in Workers, NEW v \in Workers, u # v PROVE Apart(tx'[u], tx'[v])
  <2>1. CASE u = w
    BY <1>7, <1>9, <2>1, IdleFacts
  <2>2. CASE v = w
    BY <1>7, <1>9, <2>2, IdleFacts
  <2>3. CASE u # w /\ v # w
    BY <1>7, <1>9, <2>3 DEF IInv, LocksProtect
  <2> QED
    BY <2>1, <2>2, <2>3
<1>10. RoundsInv'
  BY <1>3, <1>6 DEF IInv, LocksProtect, RoundsInv
<1>11. LocksProtect'
  BY <1>8, <1>9, <1>10 DEF LocksProtect, Apart
<1>12. Books'
  BY <1>3 DEF IInv, Books, IssuedIffApproved, HoldingsMatchLedger, SoldWithinPool,
              SoldMatchesIssued, Placement!IssuedIffApproved, Placement!HoldingsMatchLedger,
              Placement!SoldWithinPool, Placement!SoldMatchesIssued
<1> QED
  BY <1>5, <1>11, <1>12 DEF IInv
-----------------------------------------------------------------------------
(***************************************************************************)
(* What is known when a deletion commits: every row it removes is locked,  *)
(* no approval is between its ledger row and its commit, and the counters  *)
(* it leaves are the sums over the investments that stay.                  *)
(***************************************************************************)
LEMMA DeleteCommitFacts ==
    ASSUME IInv, NEW w \in Workers, DeleteCommit(w)
    PROVE  LET u == tx[w].acct IN
           /\ u \in Users
           /\ LedgerAlter \in tx[w].locks
           /\ \A i \in InvsOf(u) : status[i] # "none" => InvRow(i) \in tx[w].locks
           /\ sold' = Recomputed(u)
           /\ sold' \in WithinPool
           /\ \A r \in Rounds : sold'[r] # sold[r] => RoundRow(r) \in tx[w].locks
<1> DEFINE u == tx[w].acct
<1>1. tx[w].pc = "pool" /\ tx[w].want = {} /\ Protected(tx[w])
  BY DEF DeleteCommit, IInv, LocksProtect
<1>2. /\ u \in Users /\ LedgerAlter \in tx[w].locks
      /\ \A i \in Existing(u) : InvRow(i) \in tx[w].locks
      /\ tx[w].plan = Recomputed(u) /\ tx[w].plan \in WithinPool
  BY <1>1 DEF Protected, DeletingInv, Deleting
<1>3. \A r \in Rounds : RoundRow(r) \in tx[w].locks \/ (sold[r] = 0 /\ tx[w].plan[r] = 0)
  BY <1>1 DEF Protected, DeletingInv
<1>4. sold' = [r \in Rounds |-> IF RoundRow(r) \in tx[w].locks THEN tx[w].plan[r] ELSE sold[r]]
  BY DEF DeleteCommit
<1>5. \A r \in Rounds : sold'[r] = tx[w].plan[r]
  BY <1>3, <1>4
<1>6. tx[w].plan = [r \in Rounds |-> tx[w].plan[r]] /\ sold' = [r \in Rounds |-> sold'[r]]
  BY <1>2, <1>4 DEF WithinPool
<1>7. sold' = tx[w].plan
  BY <1>5, <1>6
<1>8. \A r \in Rounds : sold'[r] # sold[r] => RoundRow(r) \in tx[w].locks
  BY <1>4
<1> QED
  BY <1>2, <1>7, <1>8 DEF Existing

(***************************************************************************)
(* The books balance after the commit of a deletion.                       *)
(***************************************************************************)
LEMMA DeleteCommitBooks ==
    ASSUME IInv, NEW w \in Workers, DeleteCommit(w)
    PROVE  Books'
<1> DEFINE u == tx[w].acct
           A == ledger \ InvsOf(u)
<1>1. /\ u \in Users
      /\ sold' = Recomputed(u)
      /\ sold' \in WithinPool
  BY DeleteCommitFacts
<1>2. /\ status' = [i \in Invs |-> IF i \in InvsOf(u) THEN "none" ELSE status[i]]
      /\ declared' = declared \ InvsOf(u)
      /\ paid' = paid \ InvsOf(u)
      /\ ledger' = A
      /\ holding' = [holding EXCEPT ![u] = 0]
  BY DEF DeleteCommit
<1>3. /\ ledger \subseteq Invs /\ holding \in [Users -> Nat]
      /\ \A i \in Invs : i \in ledger <=> status[i] = "approved"
      /\ \A i \in Invs : (i \in ledger => i \in paid) /\ (i \in paid => i \in declared)
  BY DEF IInv, TypeOK, Books, IssuedIffApproved, Placement!IssuedIffApproved
<1> HIDE DEF u
<1>4. IssuedIffApproved'
  BY <1>2, <1>3 DEF IssuedIffApproved, Placement!IssuedIffApproved
<1>5. HoldingsMatchLedger'
  <2>1. ASSUME NEW v \in Users PROVE holding'[v] = SharesOf(ledger' \cap InvsOf(v))
    <3>1. holding[v] = SharesOf(ledger \cap InvsOf(v))
      BY PlacementOps DEF IInv, Books, HoldingsMatchLedger, Placement!HoldingsMatchLedger
    <3>2. CASE v = u
      <4>1. ledger' \cap InvsOf(v) = {}
        BY <1>2, <3>2
      <4>2. SharesOf({}) = 0
        BY IssuedFinite
      <4> QED
        BY <1>2, <1>3, <3>2, <4>1, <4>2
    <3>3. CASE v # u
      <4>1. ledger' \cap InvsOf(v) = ledger \cap InvsOf(v)
        BY <1>2, <3>3 DEF InvsOf
      <4> QED
        BY <1>2, <1>3, <3>1, <3>3, <4>1
    <3> QED
      BY <3>2, <3>3
  <2> QED
    BY <2>1, PlacementOps DEF HoldingsMatchLedger, Placement!HoldingsMatchLedger
<1>6. SoldWithinPool'
  BY <1>1 DEF WithinPool, SoldWithinPool, Placement!SoldWithinPool
<1>7. SoldMatchesIssued'
  <2>1. ASSUME NEW r \in Rounds
        PROVE  sold'[r] = SharesOf({i \in A : InvRound[i] = r})
    <3>1. {i \in Invs \ InvsOf(u) : status[i] = "approved" /\ InvRound[i] = r}
            = {i \in A : InvRound[i] = r}
      BY <1>3
    <3> QED
      BY <1>1, <3>1 DEF Recomputed
  <2>2. A \in SUBSET Invs /\ InvRound \in [Invs -> Rounds]
    BY <1>3
  <2>3. sold' \in [Rounds -> Nat]
    BY <1>1 DEF WithinPool
  <2>4. TotalSold(sold') = SharesOf(A)
    <3> HIDE DEF A
    <3> QED
      BY <2>1, <2>2, <2>3, TotalSoldRebuilt
  <2> QED
    BY <1>2, <2>4, PlacementOps DEF SoldMatchesIssued, Placement!SoldMatchesIssued
<1> QED
  BY <1>4, <1>5, <1>6, <1>7 DEF Books

(***************************************************************************)
(* The commit of a deletion keeps the invariant.                           *)
(***************************************************************************)
LEMMA DeleteCommitStep ==
    ASSUME IInv, NEW w \in Workers, DeleteCommit(w)
    PROVE  IInv'
<1> DEFINE u == tx[w].acct
<1>1. /\ u \in Users
      /\ LedgerAlter \in tx[w].locks
      /\ \A i \in InvsOf(u) : status[i] # "none" => InvRow(i) \in tx[w].locks
      /\ sold' \in WithinPool
      /\ \A r \in Rounds : sold'[r] # sold[r] => RoundRow(r) \in tx[w].locks
  BY DeleteCommitFacts
<1>2. /\ users' = users \ {u}
      /\ status' = [i \in Invs |-> IF i \in InvsOf(u) THEN "none" ELSE status[i]]
      /\ declared' = declared \ InvsOf(u)
      /\ paid' = paid \ InvsOf(u)
      /\ ledger' = ledger \ InvsOf(u)
      /\ holding' = [holding EXCEPT ![u] = 0]
      /\ pct' = [pct EXCEPT ![u] = 0]
      /\ comms' \subseteq comms
      /\ tx' = [tx EXCEPT ![w] = Idle]
      /\ round' = round
  BY DEF DeleteCommit, Finish, Left
<1>3. tx \in [Workers -> Transaction] /\ status \in [Invs -> Status] /\ sold \in [Rounds -> Nat]
  BY DEF IInv, TypeOK
<1> HIDE DEF u
<1>4. TypeOK'
  <2>1. tx' \in [Workers -> Transaction]
    BY <1>2, <1>3, IdleFacts
  <2>2. status' \in [Invs -> Status]
    BY <1>2, <1>3 DEF Status
  <2>3. sold' \in [Rounds -> Nat]
    BY <1>1 DEF WithinPool
  <2> QED
    BY <1>2, <2>1, <2>2, <2>3 DEF IInv, TypeOK
<1>5. tx'[w] = Idle /\ \A v \in Workers \ {w} : tx'[v] = tx[v]
  BY <1>2, <1>3
<1>6. ASSUME NEW v \in Workers PROVE Protected(tx[v])'
  <2>1. CASE v = w
    BY <1>5, <2>1, IdleFacts DEF Idle, Protected, IdleInv, ApprovingInv, OpeningInv,
                                 DeletingInv, Approving, Deleting
  <2>2. CASE v # w
    <3>1. PICK t : t = tx[v]
      OBVIOUS
    <3>2. Protected(t) /\ Apart(t, tx[w])
      BY <2>2, <3>1 DEF IInv, LocksProtect
    <3>3. IdleInv(t)' /\ OpeningInv(t)'
      BY <1>2, <3>2 DEF Protected, IdleInv, OpeningInv
    <3>4. ApprovingInv(t)'
      <4>1. t.pc \notin {"prior", "upsert", "commit"}
        BY <1>1, <3>2 DEF Apart, Protected, ApprovingInv
      <4>2. t.pc \in Approving => /\ t.inv \in Invs
                                  /\ InvRow(t.inv) \in t.locks
                                  /\ status[t.inv] = "reconciled"
        BY <3>2 DEF Protected, ApprovingInv
      <4>3. t.pc \in Approving => t.inv \notin InvsOf(u)
        BY <1>1, <3>2, <4>2, RowsDiffer DEF Apart
      <4>4. t.pc \in Approving \ {"active", "capacity"} => sold'[t.rnd] = sold[t.rnd]
        BY <1>1, <3>2, RowsDiffer DEF Apart, Protected, ApprovingInv
      <4> QED
        BY <1>2, <3>2, <4>1, <4>2, <4>3, <4>4 DEF Protected, ApprovingInv
    <3>5. DeletingInv(t)'
      <4>1. t.pc \notin {"invs", "pool"}
        BY <1>1, <3>2, RowsDiffer DEF Apart, Protected, DeletingInv
      <4> QED
        BY <3>2, <4>1 DEF Protected, DeletingInv
    <3>6. Protected(t)'
      BY <3>3, <3>4, <3>5 DEF Protected
    <3> QED
      BY <1>5, <2>2, <3>1, <3>6 DEF Protected, IdleInv, ApprovingInv, OpeningInv, DeletingInv
  <2> QED
    BY <2>1, <2>2
<1>7. ASSUME NEW x \in Workers, NEW v \in Workers, x # v PROVE Apart(tx'[x], tx'[v])
  <2>1. CASE x = w
    BY <1>5, <1>7, <2>1, IdleFacts
  <2>2. CASE v = w
    BY <1>5, <1>7, <2>2, IdleFacts
  <2>3. CASE x # w /\ v # w
    BY <1>5, <1>7, <2>3 DEF IInv, LocksProtect
  <2> QED
    BY <2>1, <2>2, <2>3
<1>8. RoundsInv'
  <2>1. ASSUME NEW r \in Rounds, round'[r] = "none" PROVE sold'[r] = 0
    <3>1. \A i \in Invs : status[i] # "none" => InvRound[i] # r
      BY <1>2, <2>1 DEF IInv, LocksProtect, RoundsInv
    <3>2. {i \in Invs \ InvsOf(u) : status[i] = "approved" /\ InvRound[i] = r} = {}
      BY <3>1
    <3>3. sold'[r] = SharesOf({})
      BY <3>2, DeleteCommitFacts DEF Recomputed, u
    <3> QED
      BY <3>3, IssuedFinite
  <2>2. ASSUME NEW i \in Invs, status'[i] # "none" PROVE round'[InvRound[i]] # "none"
    BY <1>2, <2>2 DEF IInv, LocksProtect, RoundsInv
  <2> QED
    BY <2>1, <2>2 DEF RoundsInv
<1>9. LocksProtect'
  BY <1>6, <1>7, <1>8 DEF LocksProtect, Apart
<1> QED
  BY <1>4, <1>9, DeleteCommitBooks DEF IInv
-----------------------------------------------------------------------------
(***************************************************************************)
(* The invariant holds initially and is kept by every step.                *)
(***************************************************************************)
LEMMA InvInit == Init => IInv
<1> SUFFICES ASSUME Init PROVE IInv
  OBVIOUS
<1>1. TypeOK
  BY IdleFacts DEF Init, TypeOK, Status, RoundStatus
<1>2. LocksProtect
  <2>1. \A w \in Workers : tx[w] = Idle
    BY DEF Init
  <2>2. RoundsInv
    BY DEF Init, RoundsInv
  <2> QED
    BY <2>1, <2>2, IdleFacts DEF LocksProtect
<1>3. IssuedIffApproved
  BY DEF Init, IssuedIffApproved, Placement!IssuedIffApproved
<1>4. HoldingsMatchLedger
  <2>1. ASSUME NEW u \in Users PROVE holding[u] = SharesOf(ledger \cap InvsOf(u))
    <3>1. ledger \cap InvsOf(u) = {}
      BY DEF Init
    <3> QED
      BY <3>1, IssuedFinite DEF Init
  <2> QED
    BY <2>1, PlacementOps DEF HoldingsMatchLedger, Placement!HoldingsMatchLedger
<1>5. SoldWithinPool
  BY DEF Init, SoldWithinPool, Placement!SoldWithinPool
<1>6. SoldMatchesIssued
  <2>1. ASSUME NEW r \in Rounds PROVE sold[r] = SharesOf({i \in ledger : InvRound[i] = r})
    <3>1. {i \in ledger : InvRound[i] = r} = {}
      BY DEF Init
    <3> QED
      BY <3>1, IssuedFinite DEF Init
  <2>2. sold \in [Rounds -> Nat] /\ ledger \in SUBSET Invs /\ InvRound \in [Invs -> Rounds]
    BY DEF Init
  <2> QED
    BY <2>1, <2>2, TotalSoldRebuilt, PlacementOps DEF SoldMatchesIssued, Placement!SoldMatchesIssued
<1> QED
  BY <1>1, <1>2, <1>3, <1>4, <1>5, <1>6 DEF IInv, Books

(***************************************************************************)
(* One step, whoever takes it, keeps the invariant.                        *)
(***************************************************************************)
LEMMA InvNext == IInv /\ [Next]_vars => IInv'
<1> SUFFICES ASSUME IInv, [Next]_vars PROVE IInv'
  OBVIOUS
<1>1. ASSUME NEW i \in Invs, Create(i) \/ DeclareTransfer(i) \/ Reconcile(i) \/ Reject(i)
      PROVE  IInv'
  BY <1>1, CreateStep, DeclareTransferStep, ReconcileStep, RejectStep
<1>2. ASSUME NEW w \in Workers, Approve(w) PROVE IInv'
  BY <1>2, ApproveBeginStep, ReadActiveStep, TakeCapacityStep, InsertLedgerStep, ReadPriorStep,
     UpsertHoldingStep, ApproveCommitStep DEF Approve
<1>3. ASSUME NEW w \in Workers, OpenNewRound(w) PROVE IInv'
  BY <1>3, OpenBeginStep, LockRoundStep, OpenCommitStep DEF OpenNewRound
<1>4. ASSUME NEW w \in Workers, DeleteUser(w) PROVE IInv'
  BY <1>4, DeleteBeginStep, AlterLedgerStep, LockInvestmentStep, RecomputePoolStep,
     LockRoundStep, DeleteCommitStep DEF DeleteUser
<1>5. ASSUME NEW w \in Workers, Rollback(w) PROVE IInv'
  BY <1>5, RollbackStep
<1>6. CASE UNCHANGED vars
  <2>1. UNCHANGED tables /\ tx' = tx
    BY <1>6 DEF vars, tables
  <2>2. TypeOK'
    BY <1>6 DEF IInv, TypeOK, vars
  <2>3. ASSUME NEW w \in Workers PROVE Protected(tx[w])'
    <3>1. PICK t : t = tx[w]
      OBVIOUS
    <3>2. Protected(t)'
      BY <2>1, <3>1, ProtectedStutter DEF IInv, LocksProtect
    <3> QED
      BY <2>1, <3>1, <3>2 DEF Protected, IdleInv, ApprovingInv, OpeningInv, DeletingInv
  <2>4. LocksProtect'
    BY <1>6, <2>1, <2>3 DEF vars, IInv, LocksProtect, RoundsInv, Apart
  <2> QED
    BY <2>1, <2>2, <2>4, BooksStutter DEF IInv
<1> QED
  BY <1>1, <1>2, <1>3, <1>4, <1>5, <1>6 DEF Next

(***************************************************************************)
(* Every reachable state satisfies the inductive invariant, so: every      *)
(* variable has its type ...                                               *)
(***************************************************************************)
THEOREM Invariance == Spec => []IInv
<1>1. Init => IInv
  BY InvInit
<1>2. IInv /\ [Next]_vars => IInv'
  BY InvNext
<1> QED
  BY <1>1, <1>2, PTL DEF Spec

(***************************************************************************)
(* Every variable always has its type.                                     *)
(***************************************************************************)
THEOREM TypeCorrect == Spec => []TypeOK
<1>1. IInv => TypeOK
  BY DEF IInv
<1> QED
  BY <1>1, Invariance, PTL

(***************************************************************************)
(* ... the locks protect what the transactions have checked ...            *)
(***************************************************************************)
THEOREM LocksProtectAlways == Spec => []LocksProtect
<1>1. IInv => LocksProtect
  BY DEF IInv
<1> QED
  BY <1>1, Invariance, PTL

(***************************************************************************)
(* ... shares are issued exactly for approved, paid investments ...        *)
(***************************************************************************)
THEOREM IssuedExactlyOnce == Spec => []IssuedIffApproved
<1>1. IInv => IssuedIffApproved
  BY DEF IInv, Books
<1> QED
  BY <1>1, Invariance, PTL

(***************************************************************************)
(* ... holdings equal the ledger ...                                       *)
(***************************************************************************)
THEOREM HoldingsCorrect == Spec => []HoldingsMatchLedger
<1>1. IInv => HoldingsMatchLedger
  BY DEF IInv, Books
<1> QED
  BY <1>1, Invariance, PTL

(***************************************************************************)
(* ... no round is oversold, and the counters add up to the shares issued. *)
(***************************************************************************)
THEOREM NeverOversold == Spec => []SoldWithinPool
<1>1. IInv => SoldWithinPool
  BY DEF IInv, Books
<1> QED
  BY <1>1, Invariance, PTL

(***************************************************************************)
(* The counters of all rounds together equal the shares issued.            *)
(***************************************************************************)
THEOREM CountersCorrect == Spec => []SoldMatchesIssued
<1>1. IInv => SoldMatchesIssued
  BY DEF IInv, Books
<1> QED
  BY <1>1, Invariance, PTL
-----------------------------------------------------------------------------
(***************************************************************************)
(* Commissions exist only for approved investments and never credit the    *)
(* investor, whatever the referral relation (cycles included).             *)
(***************************************************************************)
LEMMA CommissionNext ==
    ASSUME IInv, CommissionOnApproved, [Next]_vars
    PROVE  CommissionOnApproved'
<1>1. /\ comms \subseteq Commission /\ status \in [Invs -> Status]
      /\ \A c \in comms : status[c.inv] = "approved" /\ c.to # InvUser[c.inv] /\ c.inv \in Invs
  BY DEF IInv, TypeOK, Commission, CommissionOnApproved
<1>2. ASSUME comms' \subseteq comms,
             \A i \in Invs : status[i] = "approved" => status'[i] = "approved"
      PROVE  CommissionOnApproved'
  BY <1>1, <1>2 DEF CommissionOnApproved
<1>3. ASSUME UNCHANGED tables PROVE CommissionOnApproved'
  BY <1>2, <1>3 DEF tables
<1>4. ASSUME NEW i \in Invs, Create(i) \/ DeclareTransfer(i) \/ Reconcile(i) \/ Reject(i)
      PROVE  CommissionOnApproved'
  BY <1>1, <1>2, <1>4 DEF Create, DeclareTransfer, Reconcile, Reject
<1>5. ASSUME NEW w \in Workers, ApproveCommit(w) PROVE CommissionOnApproved'
  <2>1. tx[w].inv \in Invs
    BY <1>5, ApproveCommitFacts DEF ApproveCommit
  <2>2. status' = [status EXCEPT ![tx[w].inv] = "approved"]
    BY <1>5 DEF ApproveCommit
  <2>3. \A c \in Commissions(tx[w].inv) : c.inv = tx[w].inv /\ c.to # InvUser[tx[w].inv]
    BY <2>1, CommissionsType DEF IInv
  <2>4. comms' = comms \cup Commissions(tx[w].inv)
    BY <1>5 DEF ApproveCommit
  <2> QED
    BY <1>1, <2>1, <2>2, <2>3, <2>4 DEF CommissionOnApproved
<1>6. ASSUME NEW w \in Workers, DeleteCommit(w) PROVE CommissionOnApproved'
  <2>1. comms' = Left(w)
    BY <1>6 DEF DeleteCommit
  <2>2. comms' \subseteq comms /\ \A c \in comms' : InvUser[c.inv] # tx[w].acct
    BY <2>1 DEF Left
  <2>3. status' = [i \in Invs |-> IF i \in InvsOf(tx[w].acct) THEN "none" ELSE status[i]]
    BY <1>6 DEF DeleteCommit
  <2> QED
    BY <1>1, <2>2, <2>3 DEF CommissionOnApproved, InvsOf
<1>7. ASSUME NEW w \in Workers, Approve(w) PROVE CommissionOnApproved'
  BY <1>3, <1>5, <1>7 DEF Approve, ApproveBegin, ReadActive, TakeCapacity, InsertLedger,
                          ReadPrior, UpsertHolding
<1>8. ASSUME NEW w \in Workers, OpenNewRound(w) PROVE CommissionOnApproved'
  BY <1>2, <1>3, <1>8 DEF OpenNewRound, OpenBegin, LockRound, OpenCommit
<1>9. ASSUME NEW w \in Workers, DeleteUser(w) PROVE CommissionOnApproved'
  BY <1>3, <1>6, <1>9 DEF DeleteUser, DeleteBegin, AlterLedger, LockInvestment, RecomputePool,
                          LockRound
<1>10. ASSUME NEW w \in Workers, Rollback(w) PROVE CommissionOnApproved'
  BY <1>3, <1>10 DEF Rollback
<1>11. CASE UNCHANGED vars
  BY <1>3, <1>11 DEF vars, tables
<1> QED
  BY <1>4, <1>7, <1>8, <1>9, <1>10, <1>11 DEF Next

(***************************************************************************)
(* Commissions only on approved investments, never to the investor.        *)
(***************************************************************************)
THEOREM CommissionCorrect == Spec => []CommissionOnApproved
<1>1. Init => CommissionOnApproved
  BY DEF Init, CommissionOnApproved
<1>2. IInv /\ CommissionOnApproved /\ [Next]_vars => CommissionOnApproved'
  BY CommissionNext
<1> QED
  BY <1>1, <1>2, Invariance, PTL DEF Spec
-----------------------------------------------------------------------------
(***************************************************************************)
(* The transactions implement the atomic steps: every statement but the    *)
(* commits is a stutter of SharePlacement, and every commit is its step.   *)
(***************************************************************************)
LEMMA RefineInit == Init => Placement!Init
<1> SUFFICES ASSUME Init PROVE Placement!Init
  OBVIOUS
<1>1. round \in [Rounds -> {"none", "open"}]
  BY DEF Init
<1> QED
  BY <1>1 DEF Init, Placement!Init

(***************************************************************************)
(* The commit of an approval is the abstract issue of its round.           *)
(***************************************************************************)
LEMMA RefineApprove ==
    ASSUME IInv, NEW w \in Workers, ApproveCommit(w)
    PROVE  Placement!Next
<1> DEFINE i == tx[w].inv
           r == tx[w].rnd
<1>1. /\ i \in Invs /\ r \in Rounds /\ Owner(w) = InvUser[i] /\ Shares(w) = InvShares[i]
      /\ status[i] = "reconciled" /\ i \in paid /\ round[r] # "none"
      /\ sold[r] + InvShares[i] <= ForSale[r]
  BY ApproveCommitFacts DEF ApproveCommit
<1>2. Placement!Issue(i, r)
  BY <1>1 DEF ApproveCommit, Placement!Issue
<1> QED
  BY <1>1, <1>2 DEF Placement!Next

(***************************************************************************)
(* The commit of OpenNewRound is the abstract opening.                     *)
(***************************************************************************)
LEMMA RefineOpen ==
    ASSUME IInv, NEW w \in Workers, OpenCommit(w)
    PROVE  Placement!Next
<1> DEFINE n == tx[w].rnd
           closing == {o \in Rounds : RoundRow(o) \in tx[w].locks /\ round[o] = "open"}
<1>1. /\ n \in Rounds /\ round[n] = "none"
      /\ \A r \in Rounds : RoundRow(r) \in tx[w].locks => round[r] \in {"open", "closed"}
  BY DEF IInv, TypeOK, RoundStatus, LocksProtect, Protected, OpeningInv, OpenCommit
<1>2. closing \in SUBSET {o \in Rounds : round[o] = "open"}
  OBVIOUS
<1>3. round' = [o \in Rounds |-> CASE o = n          -> "open"
                                   [] o \in closing  -> "closed"
                                   [] OTHER          -> round[o]]
  <2>1. ASSUME NEW o \in Rounds
        PROVE  RoundRow(o) \in tx[w].locks <=> o \in closing \/ (RoundRow(o) \in tx[w].locks /\ round[o] = "closed")
    BY <1>1
  <2>2. round' = [o \in Rounds |-> CASE o = n                          -> "open"
                                     [] RoundRow(o) \in tx[w].locks  -> "closed"
                                     [] OTHER                        -> round[o]]
    BY DEF OpenCommit
  <2> HIDE DEF closing, n
  <2> QED
    BY <2>1, <2>2
<1>4. Placement!OpenRound(n, closing)
  <2> HIDE DEF closing
  <2> QED
    BY <1>1, <1>3 DEF OpenCommit, Placement!OpenRound
<1> QED
  BY <1>1, <1>2, <1>4 DEF Placement!Next

(***************************************************************************)
(* The commit of a deletion is the abstract erasure.                       *)
(***************************************************************************)
LEMMA RefineDelete ==
    ASSUME IInv, NEW w \in Workers, DeleteCommit(w)
    PROVE  Placement!Next
<1> DEFINE u == tx[w].acct
<1>1. u \in Users /\ sold' \in WithinPool
  BY DeleteCommitFacts
<1>2. TotalSold(sold') = SharesOf(ledger \ InvsOf(u))
  <2>1. Books'
    BY DeleteCommitBooks
  <2>2. ledger' = ledger \ InvsOf(u)
    BY DEF DeleteCommit
  <2> QED
    BY <2>1, <2>2, PlacementOps DEF Books, SoldMatchesIssued, Placement!SoldMatchesIssued
<1>3. /\ users' = users \ {u}
      /\ status' = [i \in Invs |-> IF i \in InvsOf(u) THEN "none" ELSE status[i]]
      /\ declared' = declared \ InvsOf(u)
      /\ paid' = paid \ InvsOf(u)
      /\ ledger' = ledger \ InvsOf(u)
      /\ holding' = [holding EXCEPT ![u] = 0]
      /\ round' = round
  BY DEF DeleteCommit
<1> HIDE DEF u
<1>4. Placement!InvsOf(u) = InvsOf(u)
  BY PlacementOps
<1>5. Placement!Erase(u, sold')
  BY <1>2, <1>3, <1>4, PlacementOps DEF Placement!Erase
<1>6. sold' \in Placement!WithinPool
  BY <1>1 DEF WithinPool, Placement!WithinPool
<1>7. PICK s : s = sold'
  OBVIOUS
<1>8. s \in Placement!WithinPool /\ Placement!Erase(u, s)
  BY <1>5, <1>6, <1>7 DEF Placement!Erase
<1> QED
  BY <1>1, <1>8 DEF Placement!Next

(***************************************************************************)
(* Every step maps to an abstract step or to a stutter.                    *)
(***************************************************************************)
LEMMA RefineNext == IInv /\ [Next]_vars => [Placement!Next]_(Placement!vars)
<1> SUFFICES ASSUME IInv, [Next]_vars PROVE [Placement!Next]_(Placement!vars)
  OBVIOUS
<1>1. ASSUME UNCHANGED tables PROVE UNCHANGED Placement!vars
  BY <1>1 DEF tables, Placement!vars
<1>2. ASSUME NEW i \in Invs, Create(i) \/ DeclareTransfer(i) \/ Reconcile(i) \/ Reject(i)
      PROVE  Placement!Next
  <2>1. CASE Create(i)
    BY <2>1 DEF Create, Placement!Create, Placement!Next
  <2>2. CASE DeclareTransfer(i)
    BY <2>2 DEF DeclareTransfer, Placement!DeclareTransfer, Placement!Next
  <2>3. CASE Reconcile(i)
    BY <2>3 DEF Reconcile, Placement!Reconcile, Placement!Next
  <2>4. CASE Reject(i)
    BY <2>4 DEF Reject, Placement!Reject, Placement!Next
  <2> QED
    BY <1>2, <2>1, <2>2, <2>3, <2>4
<1>3. ASSUME NEW w \in Workers, Approve(w) PROVE Placement!Next \/ UNCHANGED Placement!vars
  BY <1>1, <1>3, RefineApprove DEF Approve, ApproveBegin, ReadActive, TakeCapacity,
     InsertLedger, ReadPrior, UpsertHolding
<1>4. ASSUME NEW w \in Workers, OpenNewRound(w)
      PROVE  Placement!Next \/ UNCHANGED Placement!vars
  BY <1>1, <1>4, RefineOpen DEF OpenNewRound, OpenBegin, LockRound
<1>5. ASSUME NEW w \in Workers, DeleteUser(w)
      PROVE  Placement!Next \/ UNCHANGED Placement!vars
  BY <1>1, <1>5, RefineDelete DEF DeleteUser, DeleteBegin, AlterLedger, LockInvestment,
     RecomputePool, LockRound
<1>6. ASSUME NEW w \in Workers, Rollback(w) PROVE UNCHANGED Placement!vars
  BY <1>1, <1>6 DEF Rollback
<1>7. CASE UNCHANGED vars
  BY <1>7 DEF vars, Placement!vars
<1> QED
  BY <1>2, <1>3, <1>4, <1>5, <1>6, <1>7 DEF Next

(***************************************************************************)
(* The transactions implement the atomic placement.                        *)
(***************************************************************************)
THEOREM Refinement == Spec => ImplementsPlacement
<1>1. Init => Placement!Init
  BY RefineInit
<1>2. IInv /\ [Next]_vars => [Placement!Next]_(Placement!vars)
  BY RefineNext
<1> QED
  BY <1>1, <1>2, Invariance, PTL DEF Spec, ImplementsPlacement, Placement!Spec

(***************************************************************************)
(* The status of an investment only moves forward: it does in every atomic *)
(* step, and so in every transaction.                                      *)
(***************************************************************************)
THEOREM StatusForward == Spec => StatusMovesForward
<1> DEFINE Forward ==
        \A i \in Invs : status'[i] # status[i] =>
          \/ status[i] = "none" /\ status'[i] = "pending"
          \/ status[i] = "pending" /\ status'[i] \in {"reconciled", "rejected"}
          \/ status[i] = "reconciled" /\ status'[i] \in {"approved", "rejected"}
          \/ status'[i] = "none" /\ InvUser[i] \notin users'
<1>1. IInv /\ [Next]_vars => [Forward]_(Placement!vars)
  <2> SUFFICES ASSUME IInv, [Next]_vars PROVE [Forward]_(Placement!vars)
    OBVIOUS
  <2>1. [Placement!Next]_(Placement!vars)
    BY RefineNext
  <2>2. status \in [Invs -> Status]
    BY DEF IInv, TypeOK
  <2>3. ASSUME NEW i \in Invs, \/ Placement!Create(i) \/ Placement!DeclareTransfer(i)
                               \/ Placement!Reconcile(i) \/ Placement!Reject(i)
        PROVE  Forward
    BY <2>2, <2>3 DEF Placement!Create, Placement!DeclareTransfer, Placement!Reconcile,
                      Placement!Reject
  <2>4. ASSUME NEW i \in Invs, NEW r \in Rounds, Placement!Issue(i, r) PROVE Forward
    BY <2>2, <2>4 DEF Placement!Issue
  <2>5. ASSUME NEW r \in Rounds, NEW c, Placement!OpenRound(r, c) PROVE Forward
    BY <2>5 DEF Placement!OpenRound
  <2>6. ASSUME NEW u \in Users, NEW s, Placement!Erase(u, s) PROVE Forward
    BY <2>6 DEF Placement!Erase, Placement!InvsOf
  <2> QED
    BY <2>1, <2>3, <2>4, <2>5, <2>6 DEF Placement!Next
<1> QED
  BY <1>1, Invariance, PTL DEF Spec, StatusMovesForward, Placement!StatusMovesForward
-----------------------------------------------------------------------------
(***************************************************************************)
(* SharePlacement keeps its own promises: the atomic operations need no    *)
(* locks, only the equations between the tables.                           *)
(***************************************************************************)
PlacementInv == Placement!TypeOK /\ Books

LEMMA PlacedTypes ==
    ASSUME PlacementInv
    PROVE  /\ status \in [Invs -> Status] /\ holding \in [Users -> Nat]
           /\ round \in [Rounds -> RoundStatus] /\ sold \in [Rounds -> Nat]
           /\ users \subseteq Users /\ declared \subseteq Invs /\ paid \subseteq Invs
           /\ ledger \subseteq Invs
           /\ \A i \in Invs : /\ i \in ledger <=> status[i] = "approved"
                              /\ i \in ledger => i \in paid
                              /\ i \in paid => i \in declared
BY DEF PlacementInv, Books, IssuedIffApproved, Placement!IssuedIffApproved, Placement!TypeOK,
       Placement!Status, Placement!RoundStatus, Status, RoundStatus

(***************************************************************************)
(* Most operations touch neither the ledger nor what is counted from it.   *)
(***************************************************************************)
LEMMA PlacedStatus ==
    ASSUME PlacementInv, UNCHANGED <<ledger, holding, sold>>,
           Placement!TypeOK',
           \A i \in Invs : status'[i] = "approved" <=> status[i] = "approved",
           paid \subseteq paid', paid' \subseteq declared'
    PROVE  PlacementInv'
<1>1. IssuedIffApproved'
  BY PlacedTypes DEF IssuedIffApproved, Placement!IssuedIffApproved
<1> QED
  BY <1>1 DEF PlacementInv, Books, HoldingsMatchLedger, Placement!HoldingsMatchLedger,
              SoldWithinPool, Placement!SoldWithinPool, SoldMatchesIssued,
              Placement!SoldMatchesIssued

LEMMA PlacedIssue ==
    ASSUME PlacementInv, NEW i \in Invs, NEW r \in Rounds, Placement!Issue(i, r)
    PROVE  PlacementInv'
<1> DEFINE o == InvUser[i]
           n == InvShares[i]
<1>1. /\ status[i] = "reconciled" /\ i \in paid /\ sold[r] + n <= ForSale[r]
      /\ status' = [status EXCEPT ![i] = "approved"] /\ ledger' = ledger \cup {i}
      /\ holding' = [holding EXCEPT ![o] = @ + n] /\ sold' = [sold EXCEPT ![r] = @ + n]
      /\ UNCHANGED <<users, declared, paid, round>>
  BY DEF Placement!Issue
<1>2. /\ status \in [Invs -> Status] /\ holding \in [Users -> Nat] /\ sold \in [Rounds -> Nat]
      /\ ledger \subseteq Invs /\ i \notin ledger
  BY <1>1, PlacedTypes
<1>3. o \in Users /\ n \in Nat
  OBVIOUS
<1> HIDE DEF o, n
<1>4. Placement!TypeOK'
  BY <1>1, <1>2, <1>3 DEF PlacementInv, Placement!TypeOK, Placement!Status
<1>5. /\ status'[i] = "approved" /\ \A j \in Invs \ {i} : status'[j] = status[j]
      /\ sold'[r] = sold[r] + n /\ \A q \in Rounds \ {r} : sold'[q] = sold[q]
      /\ holding'[o] = holding[o] + n /\ \A u \in Users \ {o} : holding'[u] = holding[u]
  BY <1>1, <1>2, <1>3
<1>6. IssuedIffApproved'
  BY <1>1, <1>5, PlacedTypes DEF IssuedIffApproved, Placement!IssuedIffApproved
<1>7. HoldingsMatchLedger'
  <2>1. ASSUME NEW u \in Users PROVE holding'[u] = SharesOf(ledger' \cap InvsOf(u))
    <3>1. holding[u] = SharesOf(ledger \cap InvsOf(u))
      BY PlacementOps DEF PlacementInv, Books, HoldingsMatchLedger, Placement!HoldingsMatchLedger
    <3>2. CASE u = o
      <4>1. ledger' \cap InvsOf(u) = (ledger \cap InvsOf(u)) \cup {i}
        BY <1>1, <3>2 DEF InvsOf, o
      <4>2. SharesOf((ledger \cap InvsOf(u)) \cup {i}) = SharesOf(ledger \cap InvsOf(u)) + n
        BY <1>2, SharesOfAdd DEF n
      <4> QED
        BY <1>5, <3>1, <3>2, <4>1, <4>2
    <3>3. CASE u # o
      <4>1. ledger' \cap InvsOf(u) = ledger \cap InvsOf(u)
        BY <1>1, <3>3 DEF InvsOf, o
      <4> QED
        BY <1>5, <3>1, <3>3, <4>1
    <3> QED
      BY <3>2, <3>3
  <2> QED
    BY <2>1, PlacementOps DEF HoldingsMatchLedger, Placement!HoldingsMatchLedger
<1>8. SoldWithinPool'
  BY <1>1, <1>5 DEF PlacementInv, Books, SoldWithinPool, Placement!SoldWithinPool
<1>9. SoldMatchesIssued'
  <2>1. TotalSold(sold') = TotalSold(sold) + n
    BY <1>1, <1>2, <1>3, TotalSoldAdd
  <2>2. SharesOf(ledger') = SharesOf(ledger) + n
    BY <1>1, <1>2, SharesOfAdd DEF n
  <2> QED
    BY <2>1, <2>2, PlacementOps
       DEF PlacementInv, Books, SoldMatchesIssued, Placement!SoldMatchesIssued
<1> QED
  BY <1>4, <1>6, <1>7, <1>8, <1>9 DEF PlacementInv, Books

LEMMA PlacedErase ==
    ASSUME PlacementInv, NEW u \in Users, NEW s \in WithinPool, Placement!Erase(u, s)
    PROVE  PlacementInv'
<1>1. /\ users' = users \ {u}
      /\ status' = [i \in Invs |-> IF i \in InvsOf(u) THEN "none" ELSE status[i]]
      /\ declared' = declared \ InvsOf(u) /\ paid' = paid \ InvsOf(u)
      /\ ledger' = ledger \ InvsOf(u) /\ holding' = [holding EXCEPT ![u] = 0]
      /\ TotalSold(s) = SharesOf(ledger \ InvsOf(u)) /\ sold' = s /\ round' = round
  BY PlacementOps DEF Placement!Erase
<1>2. /\ status \in [Invs -> Status] /\ holding \in [Users -> Nat] /\ ledger \subseteq Invs
  BY PlacedTypes
<1>3. sold' \in [Rounds -> Nat]
  BY <1>1 DEF WithinPool
<1>4. Placement!TypeOK'
  BY <1>1, <1>2, <1>3 DEF PlacementInv, Placement!TypeOK, Placement!Status, Status
<1>5. IssuedIffApproved'
  BY <1>1, PlacedTypes DEF IssuedIffApproved, Placement!IssuedIffApproved
<1>6. HoldingsMatchLedger'
  <2>1. ASSUME NEW v \in Users PROVE holding'[v] = SharesOf(ledger' \cap InvsOf(v))
    <3>1. holding[v] = SharesOf(ledger \cap InvsOf(v))
      BY PlacementOps DEF PlacementInv, Books, HoldingsMatchLedger, Placement!HoldingsMatchLedger
    <3>2. CASE v = u
      <4>1. ledger' \cap InvsOf(v) = {}
        BY <1>1, <3>2
      <4>2. SharesOf({}) = 0
        BY IssuedFinite
      <4> QED
        BY <1>1, <1>2, <3>2, <4>1, <4>2
    <3>3. CASE v # u
      <4>1. ledger' \cap InvsOf(v) = ledger \cap InvsOf(v)
        BY <1>1, <3>3 DEF InvsOf
      <4> QED
        BY <1>1, <1>2, <3>1, <3>3, <4>1
    <3> QED
      BY <3>2, <3>3
  <2> QED
    BY <2>1, PlacementOps DEF HoldingsMatchLedger, Placement!HoldingsMatchLedger
<1>7. SoldWithinPool'
  BY <1>1 DEF WithinPool, SoldWithinPool, Placement!SoldWithinPool
<1>8. SoldMatchesIssued'
  BY <1>1, PlacementOps DEF SoldMatchesIssued, Placement!SoldMatchesIssued
<1> QED
  BY <1>4, <1>5, <1>6, <1>7, <1>8 DEF PlacementInv, Books

LEMMA PlacementNext == PlacementInv /\ [Placement!Next]_(Placement!vars) => PlacementInv'
<1> SUFFICES ASSUME PlacementInv, [Placement!Next]_(Placement!vars) PROVE PlacementInv'
  OBVIOUS
<1>1. ASSUME NEW i \in Invs, \/ Placement!Create(i) \/ Placement!DeclareTransfer(i)
                             \/ Placement!Reconcile(i) \/ Placement!Reject(i)
      PROVE  PlacementInv'
  <2>1. /\ UNCHANGED <<users, ledger, holding, round, sold>>
        /\ status' = status \/ \E x \in {"pending", "reconciled", "rejected"} :
              status[i] # "approved" /\ status' = [status EXCEPT ![i] = x]
        /\ paid \subseteq paid' /\ paid' \subseteq paid \cup {i}
        /\ declared \subseteq declared' /\ declared' \subseteq declared \cup {i}
        /\ paid' # paid => i \in declared
    BY <1>1 DEF Placement!Create, Placement!DeclareTransfer, Placement!Reconcile,
                Placement!Reject
  <2>2. status' \in [Invs -> Status]
    BY <2>1, PlacedTypes DEF Status
  <2>3. \A j \in Invs : status'[j] = "approved" <=> status[j] = "approved"
    BY <2>1, PlacedTypes
  <2>4. paid' \subseteq declared' /\ declared' \subseteq Invs /\ paid' \subseteq Invs
    BY <2>1, PlacedTypes
  <2>5. Placement!TypeOK'
    BY <2>1, <2>2, <2>4 DEF PlacementInv, Placement!TypeOK, Placement!Status, Status
  <2> QED
    BY <2>1, <2>3, <2>4, <2>5, PlacedStatus
<1>2. ASSUME NEW r \in Rounds, NEW closing, Placement!OpenRound(r, closing)
      PROVE  PlacementInv'
  <2>1. /\ UNCHANGED <<users, status, declared, paid, ledger, holding, sold>>
        /\ round' \in [Rounds -> RoundStatus]
    <3>1. \A o \in Rounds : round[o] \in RoundStatus
      BY PlacedTypes
    <3> QED
      BY <1>2, <3>1 DEF Placement!OpenRound, RoundStatus
  <2>2. Placement!TypeOK'
    BY <2>1 DEF PlacementInv, Placement!TypeOK, Placement!RoundStatus, RoundStatus
  <2>3. paid' \subseteq declared'
    BY <2>1, PlacedTypes
  <2> QED
    BY <2>1, <2>2, <2>3, PlacedStatus
<1>3. CASE UNCHANGED Placement!vars
  <2>1. UNCHANGED <<users, status, declared, paid, ledger, holding, round, sold>>
    BY <1>3 DEF Placement!vars
  <2>2. Placement!TypeOK' /\ paid' \subseteq declared'
    BY <2>1, PlacedTypes DEF PlacementInv, Placement!TypeOK
  <2> QED
    BY <2>1, <2>2, PlacedStatus
<1>4. ASSUME NEW u \in Users, NEW s \in Placement!WithinPool, Placement!Erase(u, s)
      PROVE  PlacementInv'
  BY <1>4, PlacedErase DEF Placement!WithinPool, WithinPool
<1> QED
  BY <1>1, <1>2, <1>3, <1>4, PlacedIssue DEF Placement!Next

LEMMA NothingSold ==
    ASSUME NEW s \in [Rounds -> Nat], \A r \in Rounds : s[r] = 0
    PROVE  TotalSold(s) = 0
<1>1. SoldUnits(s) = {}
  BY DEF SoldUnits
<1> QED
  BY <1>1, FS_EmptySet DEF TotalSold

LEMMA PlacementInit == Placement!Init => PlacementInv
<1> SUFFICES ASSUME Placement!Init PROVE PlacementInv
  OBVIOUS
<1>1. Placement!TypeOK
  BY DEF Placement!Init, Placement!TypeOK, Placement!Status, Placement!RoundStatus
<1>2. IssuedIffApproved /\ SoldWithinPool
  BY DEF Placement!Init, IssuedIffApproved, Placement!IssuedIffApproved, SoldWithinPool,
         Placement!SoldWithinPool
<1>3. SharesOf({}) = 0
  BY IssuedFinite
<1>4. HoldingsMatchLedger
  <2>1. ASSUME NEW u \in Users PROVE holding[u] = SharesOf(ledger \cap InvsOf(u))
    <3>1. ledger \cap InvsOf(u) = {}
      BY DEF Placement!Init
    <3> QED
      BY <1>3, <3>1 DEF Placement!Init
  <2> QED
    BY <2>1, PlacementOps DEF HoldingsMatchLedger, Placement!HoldingsMatchLedger
<1>5. SoldMatchesIssued
  <2>1. TotalSold(sold) = 0 /\ ledger = {}
    BY NothingSold DEF Placement!Init
  <2> QED
    BY <1>3, <2>1, PlacementOps DEF SoldMatchesIssued, Placement!SoldMatchesIssued
<1> QED
  BY <1>1, <1>2, <1>4, <1>5 DEF PlacementInv, Books

(***************************************************************************)
(* INVARIANTS 1 to 4 and 7 of the README hold of the platform with atomic  *)
(* operations, so that they are worth refining.                            *)
(***************************************************************************)
THEOREM PlacementKeepsPromises == Placement!Spec => []Books
<1>1. PlacementInv => Books
  BY DEF PlacementInv
<1> QED
  BY <1>1, PlacementInit, PlacementNext, PTL DEF Placement!Spec
=============================================================================
