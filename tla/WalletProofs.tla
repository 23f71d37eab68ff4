---------------------------- MODULE WalletProofs ----------------------------
(***************************************************************************)
(* Proofs about Wallet, for any accounts, any finite sets of credits and   *)
(* requests, and any amounts.                                              *)
(***************************************************************************)
EXTENDS Wallet, FiniteSetTheorems, FunctionTheorems, TLAPS

(***************************************************************************)
(* Counting: the dongs of a set of rows.                                   *)
(***************************************************************************)
Dongs(S, amount) == UNION {{x} \X (1..amount[x]) : x \in S}

(***************************************************************************)
(* Finitely many rows have finitely many dongs.                            *)
(***************************************************************************)
LEMMA DongFinite ==
    ASSUME NEW S, IsFiniteSet(S), NEW amount, \A x \in S : amount[x] \in Nat
    PROVE  /\ IsFiniteSet(Dongs(S, amount))
           /\ Dong(S, amount) \in Nat
<1> DEFINE column == [x \in S |-> {x} \X (1..amount[x])]
           T == {{x} \X (1..amount[x]) : x \in S}
<1>1. column \in Surjection(S, T)
  BY Fun_IsSurj
<1>2. IsFiniteSet(T)
  BY <1>1, FS_Surjection
<1>3. ASSUME NEW X \in T PROVE IsFiniteSet(X)
  <2>1. PICK x \in S : X = {x} \X (1..amount[x])
    OBVIOUS
  <2>2. IsFiniteSet({x}) /\ IsFiniteSet(1..amount[x])
    <3>1. 1 \in Int /\ amount[x] \in Int
      OBVIOUS
    <3> QED
      BY <3>1, FS_Singleton, FS_Interval
  <2> QED
    BY <2>1, <2>2, FS_Product
<1>4. IsFiniteSet(Dongs(S, amount))
  BY <1>2, <1>3, FS_UNION DEF Dongs
<1> QED
  BY <1>4, FS_CardinalityType DEF Dong, Dongs

(***************************************************************************)
(* One row has as many dongs as its amount.                                *)
(***************************************************************************)
LEMMA DongOne ==
    ASSUME NEW x, NEW amount, amount[x] \in Nat
    PROVE  Dong({x}, amount) = amount[x]
<1> DEFINE n == amount[x]
<1>1. Dongs({x}, amount) = {x} \X (1..n)
  BY DEF Dongs
<1>2. IsFiniteSet({x}) /\ Cardinality({x}) = 1
  BY FS_Singleton
<1>3. n \in Nat
  OBVIOUS
<1> HIDE DEF n
<1>4. IsFiniteSet(1..n) /\ Cardinality(1..n) = n
  <2>1. 1 \in Int /\ n \in Int
    BY <1>3
  <2>2. IsFiniteSet(1..n) /\ Cardinality(1..n) = IF 1 > n THEN 0 ELSE n - 1 + 1
    BY <2>1, FS_Interval
  <2> QED
    BY <1>3, <2>2
<1>5. Cardinality({x} \X (1..n)) = 1 * n
  BY <1>2, <1>4, FS_Product
<1>6. Dong({x}, amount) = Cardinality(Dongs({x}, amount))
  BY DEF Dong, Dongs
<1>7. 1 * n = n
  BY <1>3
<1>8. Cardinality({x} \X (1..n)) = n
  BY <1>5, <1>7
<1>9. Dong({x}, amount) = n
  BY <1>1, <1>6, <1>8
<1> QED
  BY <1>9 DEF n

(***************************************************************************)
(* The sum depends on the amounts of the rows that are summed only.        *)
(***************************************************************************)
LEMMA DongSame ==
    ASSUME NEW S, NEW a, NEW b, \A x \in S : a[x] = b[x]
    PROVE  Dong(S, a) = Dong(S, b)
<1>1. {{x} \X (1..a[x]) : x \in S} = {{x} \X (1..b[x]) : x \in S}
  OBVIOUS
<1> QED
  BY <1>1 DEF Dong

(***************************************************************************)
(* More rows do not sum to less.                                           *)
(***************************************************************************)
LEMMA DongMore ==
    ASSUME NEW T, IsFiniteSet(T), NEW S \in SUBSET T,
           NEW amount, \A x \in T : amount[x] \in Nat
    PROVE  Dong(S, amount) <= Dong(T, amount)
<1>1. IsFiniteSet(Dongs(T, amount))
  BY DongFinite
<1>2. Dongs(S, amount) \in SUBSET Dongs(T, amount)
  BY DEF Dongs
<1> QED
  BY <1>1, <1>2, FS_Subset DEF Dong, Dongs

(***************************************************************************)
(* The sum of two sets of rows without a common one is the sum of sums.    *)
(***************************************************************************)
LEMMA DongSum ==
    ASSUME NEW S, IsFiniteSet(S), NEW T, IsFiniteSet(T), S \cap T = {},
           NEW amount, \A x \in S \cup T : amount[x] \in Nat
    PROVE  Dong(S \cup T, amount) = Dong(S, amount) + Dong(T, amount)
<1>1. /\ IsFiniteSet(Dongs(S, amount)) /\ IsFiniteSet(Dongs(T, amount))
      /\ Dong(S, amount) \in Nat /\ Dong(T, amount) \in Nat
  BY DongFinite
<1>2. Dongs(S \cup T, amount) = Dongs(S, amount) \cup Dongs(T, amount)
  BY DEF Dongs
<1>3. Dongs(S, amount) \cap Dongs(T, amount) = {}
  BY DEF Dongs
<1>4. Cardinality(Dongs(S, amount) \cap Dongs(T, amount)) = 0
  BY <1>3, FS_EmptySet
<1>5. Cardinality(Dongs(S, amount) \cup Dongs(T, amount))
        = Cardinality(Dongs(S, amount)) + Cardinality(Dongs(T, amount))
          - Cardinality(Dongs(S, amount) \cap Dongs(T, amount))
  BY <1>1, FS_Union
<1>6. /\ Dong(S \cup T, amount) = Cardinality(Dongs(S \cup T, amount))
      /\ Dong(S, amount) = Cardinality(Dongs(S, amount))
      /\ Dong(T, amount) = Cardinality(Dongs(T, amount))
  BY DEF Dong, Dongs
<1>7. Dong(S \cup T, amount) = Cardinality(Dongs(S, amount) \cup Dongs(T, amount))
  BY <1>2, <1>6
<1> QED
  BY <1>1, <1>4, <1>5, <1>6, <1>7

-----------------------------------------------------------------------------
USE WalletAssumption DEF WalletAssumption

(***************************************************************************)
(* The withdrawals of a wallet that were not rejected, and the kinds of    *)
(* credits a wallet collects.                                              *)
(***************************************************************************)
Taken(u, source) == {r \in Requests : /\ withdrawal[r] \notin {"none", "rejected"}
                                      /\ request[r].user = u /\ request[r].source = source}
KindsOf(source)  == IF source = "dividend" THEN {"dividend"} ELSE {"investment", "sales"}

(***************************************************************************)
(* The two requests of one wallet that are under way at the same time have *)
(* disturbed it.                                                           *)
(***************************************************************************)
Exclusive ==
    \A q, r \in Requests :
        /\ q # r /\ Running(q) /\ Running(r)
        /\ request[q].user = request[r].user /\ request[q].source = request[r].source
        => WalletOf(r) \in disturbed

(***************************************************************************)
(* Only a finished request has inserted its row.                           *)
(***************************************************************************)
Inserted == \A r \in Requests : withdrawal[r] # "none" => request[r].pc = "done"

(***************************************************************************)
(* What a request has read is still there, and a request that is about to  *)
(* insert its row is covered, as long as its wallet is not disturbed.      *)
(***************************************************************************)
CoveredAt(r) ==
    LET u == request[r].user
        source == request[r].source
    IN  /\ request[r].pc = "sales" => source = "commission"
        /\ <<u, source>> \notin disturbed =>
              /\ request[r].pc = "sales" => request[r].earned <= SumCommissionEarned(u)
              /\ request[r].pc = "withdrawn" => request[r].earned <= Earned(u, source)
              /\ request[r].pc = "insert" => request[r].amount <= Available(u, source)
Covered == \A r \in Requests : CoveredAt(r)

IInv == TypeOK /\ Exclusive /\ Inserted /\ Covered /\ OverdrawnOnlyIfDisturbed

(***************************************************************************)
(* A call that has begun.                                                  *)
(***************************************************************************)
Started == [pc : {"earned", "sales", "withdrawn", "insert", "done"},
            user : Users, source : Sources, amount : {a \in Amounts : a > 0},
            earned : Nat, admin : BOOLEAN]

(***************************************************************************)
(* The types of what a request carries.                                    *)
(***************************************************************************)
LEMMA CallTyped ==
    ASSUME TypeOK, NEW r \in Requests
    PROVE  /\ request[r].pc \in {"new", "earned", "sales", "withdrawn", "insert", "done"}
           /\ request[r].source \in Sources
           /\ request[r].amount \in Nat
           /\ request[r].earned \in Nat
           /\ request[r].pc # "new" => request[r] \in Started
           /\ request[r].pc = "new" => request[r] = New
<1>1. request[r] \in Call
  BY DEF TypeOK
<1>2. CASE request[r] = New
  BY <1>2 DEF New, Sources
<1>3. CASE request[r] # New
  <2>1. request[r] \in [pc : {"earned", "sales", "withdrawn", "insert", "done"},
                        user : Users, source : Sources, amount : {a \in Amounts : a > 0},
                        earned : Nat, admin : BOOLEAN]
    BY <1>1, <1>3 DEF Call
  <2>2. request[r].amount \in Nat
    <3>1. request[r].amount \in {a \in Amounts : a > 0}
      BY <2>1
    <3>2. request[r].amount \in Amounts /\ request[r].amount > 0
      BY <3>1
    <3>3. request[r].amount \in Int
      BY <3>2
    <3> QED
      BY <3>2, <3>3
  <2>3. /\ request[r].pc \in {"earned", "sales", "withdrawn", "insert", "done"}
        /\ request[r].source \in Sources
        /\ request[r].earned \in Nat
    BY <2>1
  <2>4. request[r] \in Started
    BY <2>1 DEF Started
  <2> QED
    BY <2>2, <2>3, <2>4
<1> QED
  BY <1>2, <1>3

(***************************************************************************)
(* The sums are numbers.                                                   *)
(***************************************************************************)
LEMMA SumsTyped ==
    ASSUME TypeOK, NEW u, NEW source
    PROVE  /\ \A kind : Dong(CreditsOf(u, kind), Net) \in Nat
           /\ SumCommissionEarned(u) \in Nat
           /\ SumSalesCommissionEarned(u) \in Nat
           /\ SumDividendPayouts(u) \in Nat
           /\ IsFiniteSet(Taken(u, source))
           /\ SumWithdrawals(u, source) = Dong(Taken(u, source), Asked)
           /\ SumWithdrawals(u, source) \in Nat
           /\ Earned(u, source) \in Nat
           /\ Available(u, source) \in Int
<1>1. ASSUME NEW kind PROVE Dong(CreditsOf(u, kind), Net) \in Nat
  <2>1. CreditsOf(u, kind) \in SUBSET Credits
    BY DEF CreditsOf, Counted
  <2>2. IsFiniteSet(CreditsOf(u, kind))
    BY <2>1, FS_Subset
  <2>3. \A c \in CreditsOf(u, kind) : Net[c] \in Nat
    BY <2>1
  <2> QED
    BY <2>2, <2>3, DongFinite
<1>2. Taken(u, source) \in SUBSET Requests
  BY DEF Taken
<1>3. IsFiniteSet(Taken(u, source))
  BY <1>2, FS_Subset
<1>4. \A r \in Requests : Asked[r] \in Nat
  BY CallTyped DEF Asked
<1>5. Dong(Taken(u, source), Asked) \in Nat
  BY <1>2, <1>3, <1>4, DongFinite
<1>6. SumWithdrawals(u, source) = Dong(Taken(u, source), Asked)
  BY DEF SumWithdrawals, Taken
<1>7. /\ SumCommissionEarned(u) \in Nat
      /\ SumSalesCommissionEarned(u) \in Nat
      /\ SumDividendPayouts(u) \in Nat
  BY <1>1 DEF SumCommissionEarned, SumSalesCommissionEarned, SumDividendPayouts
<1>8. Earned(u, source) \in Nat
  BY <1>7 DEF Earned
<1> QED
  BY <1>1, <1>3, <1>5, <1>6, <1>7, <1>8 DEF Available

(***************************************************************************)
(* What an account is owed does not shrink while its credits stay.         *)
(***************************************************************************)
LEMMA EarnedGrows ==
    ASSUME TypeOK, TypeOK', NEW u, NEW source,
           \A kind \in KindsOf(source) : CreditsOf(u, kind) \subseteq CreditsOf(u, kind)'
    PROVE  /\ Earned(u, source) <= Earned(u, source)'
           /\ source # "dividend" => SumCommissionEarned(u) <= SumCommissionEarned(u)'
<1>1. ASSUME NEW kind \in KindsOf(source)
      PROVE  Dong(CreditsOf(u, kind), Net) <= Dong(CreditsOf(u, kind)', Net)
  <2>1. CreditsOf(u, kind)' \in SUBSET Credits
    BY DEF CreditsOf, Counted
  <2>2. IsFiniteSet(CreditsOf(u, kind)')
    BY <2>1, FS_Subset
  <2>3. \A c \in CreditsOf(u, kind)' : Net[c] \in Nat
    BY <2>1
  <2>4. CreditsOf(u, kind) \in SUBSET (CreditsOf(u, kind)')
    OBVIOUS
  <2> QED
    BY <2>2, <2>3, <2>4, DongMore
<1>2. \A kind : Dong(CreditsOf(u, kind), Net) \in Nat
  BY SumsTyped
<1>3. \A kind : Dong(CreditsOf(u, kind)', Net) \in Nat
  <2>1. ASSUME NEW kind PROVE Dong(CreditsOf(u, kind)', Net) \in Nat
    <3>1. CreditsOf(u, kind)' \in SUBSET Credits
      BY DEF CreditsOf, Counted
    <3>2. IsFiniteSet(CreditsOf(u, kind)')
      BY <3>1, FS_Subset
    <3>3. \A c \in CreditsOf(u, kind)' : Net[c] \in Nat
      BY <3>1
    <3> QED
      BY <3>2, <3>3, DongFinite
  <2> QED
    BY <2>1
<1>4. CASE source = "dividend"
  <2>1. Dong(CreditsOf(u, "dividend"), Net) <= Dong(CreditsOf(u, "dividend")', Net)
    BY <1>1, <1>4 DEF KindsOf
  <2>2. /\ Earned(u, source) = Dong(CreditsOf(u, "dividend"), Net)
        /\ Earned(u, source)' = Dong(CreditsOf(u, "dividend")', Net)
    BY <1>4 DEF Earned, SumDividendPayouts
  <2> QED
    BY <1>4, <2>1, <2>2
<1>5. CASE source # "dividend"
  <2>1. /\ Dong(CreditsOf(u, "investment"), Net) <= Dong(CreditsOf(u, "investment")', Net)
        /\ Dong(CreditsOf(u, "sales"), Net) <= Dong(CreditsOf(u, "sales")', Net)
    BY <1>1, <1>5 DEF KindsOf
  <2>2. /\ SumCommissionEarned(u) = Dong(CreditsOf(u, "investment"), Net)
        /\ SumSalesCommissionEarned(u) = Dong(CreditsOf(u, "sales"), Net)
        /\ SumCommissionEarned(u)' = Dong(CreditsOf(u, "investment")', Net)
        /\ SumSalesCommissionEarned(u)' = Dong(CreditsOf(u, "sales")', Net)
    BY DEF SumCommissionEarned, SumSalesCommissionEarned
  <2>3. /\ Earned(u, source) = SumCommissionEarned(u) + SumSalesCommissionEarned(u)
        /\ Earned(u, source)' = SumCommissionEarned(u)' + SumSalesCommissionEarned(u)'
    BY <1>5 DEF Earned
  <2> QED
    BY <1>2, <1>3, <2>1, <2>2, <2>3
<1> QED
  BY <1>4, <1>5

(***************************************************************************)
(* What a wallet has given out does not grow while no row is added to it.  *)
(***************************************************************************)
LEMMA WithdrawnShrinks ==
    ASSUME TypeOK, TypeOK', NEW u, NEW source,
           Taken(u, source)' \subseteq Taken(u, source),
           \A r \in Taken(u, source)' : Asked'[r] = Asked[r]
    PROVE  SumWithdrawals(u, source)' <= SumWithdrawals(u, source)
<1>1. Taken(u, source) \in SUBSET Requests
  BY DEF Taken
<1>0. IsFiniteSet(Taken(u, source))
  BY SumsTyped
<1>2. \A r \in Requests : Asked[r] \in Nat
  BY CallTyped DEF Asked
<1>3. Dong(Taken(u, source)', Asked) <= Dong(Taken(u, source), Asked)
  <2>1. Taken(u, source)' \in SUBSET Taken(u, source)
    OBVIOUS
  <2> QED
    BY <1>0, <1>1, <1>2, <2>1, DongMore
<1>4. Dong(Taken(u, source)', Asked') = Dong(Taken(u, source)', Asked)
  BY DongSame
<1>5. SumWithdrawals(u, source) = Dong(Taken(u, source), Asked)
  BY DEF SumWithdrawals, Taken
<1>6. SumWithdrawals(u, source)' = Dong(Taken(u, source)', Asked')
  BY DEF SumWithdrawals, Taken
<1> QED
  BY <1>3, <1>4, <1>5, <1>6
(***************************************************************************)
(* A step is steady for a wallet that has not earned less or given out     *)
(* more after it, unless the wallet is disturbed.                          *)
(***************************************************************************)
SteadyAt(u, source) ==
    <<u, source>> \notin disturbed' =>
        /\ Earned(u, source) <= Earned(u, source)'
        /\ source # "dividend" => SumCommissionEarned(u) <= SumCommissionEarned(u)'
        /\ SumWithdrawals(u, source)' <= SumWithdrawals(u, source)
Steady == \A u : \A source \in Sources : SteadyAt(u, source)

(***************************************************************************)
(* A step that takes no credit from a wallet and adds no withdrawal to it  *)
(* is steady for it.                                                       *)
(***************************************************************************)
LEMMA SteadyStep ==
    ASSUME TypeOK, TypeOK', NEW u, NEW source,
           <<u, source>> \notin disturbed' =>
               /\ \A kind \in KindsOf(source) : CreditsOf(u, kind) \subseteq CreditsOf(u, kind)'
               /\ Taken(u, source)' \subseteq Taken(u, source)
               /\ \A r \in Taken(u, source)' : Asked'[r] = Asked[r]
    PROVE  SteadyAt(u, source)
<1> SUFFICES ASSUME <<u, source>> \notin disturbed'
             PROVE  /\ Earned(u, source) <= Earned(u, source)'
                    /\ source # "dividend" => SumCommissionEarned(u) <= SumCommissionEarned(u)'
                    /\ SumWithdrawals(u, source)' <= SumWithdrawals(u, source)
  BY DEF SteadyAt
<1>1. /\ Earned(u, source) <= Earned(u, source)'
      /\ source # "dividend" => SumCommissionEarned(u) <= SumCommissionEarned(u)'
  BY EarnedGrows
<1>2. SumWithdrawals(u, source)' <= SumWithdrawals(u, source)
  BY WithdrawnShrinks
<1> QED
  BY <1>1, <1>2

(***************************************************************************)
(* The sums are numbers, in each state of a step.                          *)
(***************************************************************************)
Numbers ==
    \A u, source : /\ SumCommissionEarned(u) \in Nat
                   /\ SumSalesCommissionEarned(u) \in Nat
                   /\ SumWithdrawals(u, source) \in Nat
                   /\ Earned(u, source) \in Nat
                   /\ Available(u, source) \in Int

(***************************************************************************)
(* The sums are numbers in every state that is typed.                      *)
(***************************************************************************)
LEMMA SumsAreNumbers == TypeOK => Numbers
BY SumsTyped DEF Numbers

(***************************************************************************)
(* So they are after a step.                                               *)
(***************************************************************************)
LEMMA SumsStayNumbers == TypeOK' => Numbers'
BY SumsAreNumbers, PTL

(***************************************************************************)
(* A steady step does not make an undisturbed wallet poorer.               *)
(***************************************************************************)
LEMMA AvailableGrows ==
    ASSUME TypeOK, TypeOK', NEW u, NEW source, SteadyAt(u, source),
           <<u, source>> \notin disturbed'
    PROVE  Available(u, source) <= Available(u, source)'
<1>1. /\ Earned(u, source) <= Earned(u, source)'
      /\ SumWithdrawals(u, source)' <= SumWithdrawals(u, source)
  BY DEF SteadyAt
<1>2. /\ Earned(u, source) \in Nat /\ SumWithdrawals(u, source) \in Nat
      /\ Earned(u, source)' \in Nat /\ SumWithdrawals(u, source)' \in Nat
  BY SumsAreNumbers, SumsStayNumbers DEF Numbers
<1>3. /\ Available(u, source) = Earned(u, source) - SumWithdrawals(u, source)
      /\ Available(u, source)' = Earned(u, source)' - SumWithdrawals(u, source)'
  BY DEF Available
<1> QED
  BY <1>1, <1>2, <1>3

(***************************************************************************)
(* A steady step keeps what every request it leaves alone relies on.       *)
(***************************************************************************)
LEMMA CoveredKept ==
    ASSUME TypeOK, TypeOK', Covered, disturbed \subseteq disturbed',
           NEW r \in Requests, request'[r] = request[r],
           \A u, source : u = request[r].user /\ source = request[r].source => SteadyAt(u, source)
    PROVE  CoveredAt(r)'
<1>0. PICK u, source : u = request[r].user /\ source = request[r].source
  OBVIOUS
<1>1. CoveredAt(r)
  BY DEF Covered
<1>2. request[r].pc = "sales" => source = "commission"
  BY <1>0, <1>1 DEF CoveredAt
<1>3. ASSUME <<u, source>> \notin disturbed'
      PROVE  /\ request[r].pc = "sales" => request[r].earned <= SumCommissionEarned(u)'
             /\ request[r].pc = "withdrawn" => request[r].earned <= Earned(u, source)'
             /\ request[r].pc = "insert" => request[r].amount <= Available(u, source)'
  <2>1. <<u, source>> \notin disturbed
    BY <1>3
  <2>2. /\ request[r].pc = "sales" => request[r].earned <= SumCommissionEarned(u)
        /\ request[r].pc = "withdrawn" => request[r].earned <= Earned(u, source)
        /\ request[r].pc = "insert" => request[r].amount <= Available(u, source)
    BY <1>0, <1>1, <2>1 DEF CoveredAt
  <2>0. SteadyAt(u, source)
    BY <1>0
  <2>3. /\ Earned(u, source) <= Earned(u, source)'
        /\ source # "dividend" => SumCommissionEarned(u) <= SumCommissionEarned(u)'
    BY <1>3, <2>0 DEF SteadyAt
  <2>4. Available(u, source) <= Available(u, source)'
    BY <1>3, <2>0, AvailableGrows
  <2>5. request[r].earned \in Nat /\ request[r].amount \in Nat
    BY CallTyped
  <2>6. /\ SumCommissionEarned(u) \in Nat /\ SumCommissionEarned(u)' \in Nat
        /\ Earned(u, source) \in Nat /\ Earned(u, source)' \in Nat
        /\ Available(u, source) \in Int /\ Available(u, source)' \in Int
    BY SumsAreNumbers, SumsStayNumbers DEF Numbers
  <2> QED
    BY <1>2, <2>2, <2>3, <2>4, <2>5, <2>6
<1> QED
  BY <1>0, <1>2, <1>3 DEF CoveredAt

(***************************************************************************)
(* A step that is steady for all wallets keeps what every request it       *)
(* leaves alone relies on.                                                 *)
(***************************************************************************)
LEMMA CoveredAllKept ==
    ASSUME TypeOK, TypeOK', Covered, Steady, disturbed \subseteq disturbed',
           NEW r \in Requests, request'[r] = request[r]
    PROVE  CoveredAt(r)'
<1>1. request[r].source \in Sources
  BY CallTyped
<1>2. \A u, source : u = request[r].user /\ source = request[r].source => SteadyAt(u, source)
  BY <1>1 DEF Steady
<1> QED
  BY <1>2, CoveredKept

(***************************************************************************)
(* A steady step overdraws no undisturbed wallet.                          *)
(***************************************************************************)
LEMMA OverdrawnKept ==
    ASSUME TypeOK, TypeOK', OverdrawnOnlyIfDisturbed, Steady, disturbed \subseteq disturbed'
    PROVE  OverdrawnOnlyIfDisturbed'
<1> SUFFICES ASSUME NEW u \in Users, NEW source \in Sources,
                    <<u, source>> \notin disturbed', Available(u, source)' < 0
             PROVE  FALSE
  BY DEF OverdrawnOnlyIfDisturbed
<1>1. ~(Available(u, source) < 0)
  BY DEF OverdrawnOnlyIfDisturbed
<1>2. Available(u, source) <= Available(u, source)'
  BY AvailableGrows DEF Steady
<1>3. Available(u, source) \in Int /\ Available(u, source)' \in Int
  BY SumsAreNumbers, SumsStayNumbers DEF Numbers
<1> QED
  BY <1>1, <1>2, <1>3

(***************************************************************************)
(* Requests stay exclusive while none starts.                              *)
(***************************************************************************)
LEMMA ExclusiveKept ==
    ASSUME Exclusive, disturbed \subseteq disturbed',
           \A r \in Requests : /\ Running(r)' => Running(r)
                               /\ request'[r].user = request[r].user
                               /\ request'[r].source = request[r].source
    PROVE  Exclusive'
BY DEF Exclusive, WalletOf
(***************************************************************************)
(* The initial states satisfy the inductive invariant.                     *)
(***************************************************************************)
LEMMA InitIInv == Init => IInv
<1> SUFFICES ASSUME Init PROVE IInv
  OBVIOUS
<1>1. TypeOK
  BY DEF Init, TypeOK, CreditStatus, WithdrawalStatus, Call
<1>2. \A r \in Requests : request[r].pc = "new" /\ withdrawal[r] = "none"
  BY DEF Init, New
<1>3. Exclusive /\ Inserted /\ Covered
  BY <1>2 DEF Exclusive, Inserted, Covered, CoveredAt, Running
<1>4. ASSUME NEW u \in Users, NEW source \in Sources
      PROVE  ~(Available(u, source) < 0)
  <2>1. Taken(u, source) = {}
    BY <1>2 DEF Taken
  <2>2. SumWithdrawals(u, source) = Dong({}, Asked)
    BY <1>1, <2>1, SumsTyped
  <2>3. UNION {{x} \X (1..Asked[x]) : x \in {}} = {}
    OBVIOUS
  <2>4. SumWithdrawals(u, source) = 0
    BY <2>2, <2>3, FS_EmptySet DEF Dong
  <2>5. Earned(u, source) \in Nat
    BY <1>1, SumsAreNumbers DEF Numbers
  <2>6. Available(u, source) = Earned(u, source) - 0
    BY <2>4 DEF Available
  <2> QED
    BY <2>5, <2>6
<1>5. OverdrawnOnlyIfDisturbed
  BY <1>4 DEF OverdrawnOnlyIfDisturbed
<1> QED
  BY <1>1, <1>3, <1>5 DEF IInv

(***************************************************************************)
(* A cause credits, a credit advances, or a cause is removed with all its  *)
(* credits, which disturbs the wallets that lose one.                      *)
(***************************************************************************)
CreditStep ==
    \/ \E cause \in Causes : Credited(cause) \/ Removed(cause)
    \/ \E c \in Credits : ApproveCommission(c) \/ PayCommission(c) \/ MarkPaid(c)

(***************************************************************************)
(* A step of the credits keeps the types.                                  *)
(***************************************************************************)
LEMMA CreditTyped ==
    ASSUME TypeOK, CreditStep
    PROVE  /\ TypeOK' /\ disturbed \subseteq disturbed'
           /\ UNCHANGED <<withdrawal, request>>
<1>1. ASSUME NEW cause \in Causes, Credited(cause)
      PROVE  /\ TypeOK' /\ disturbed \subseteq disturbed'
             /\ UNCHANGED <<withdrawal, request>>
  BY <1>1 DEF Credited, Of, TypeOK, CreditStatus
<1>2. ASSUME NEW cause \in Causes, Removed(cause)
      PROVE  /\ TypeOK' /\ disturbed \subseteq disturbed'
             /\ UNCHANGED <<withdrawal, request>>
  <2>1. credit' \in [Credits -> CreditStatus]
    BY <1>2 DEF Removed, TypeOK, CreditStatus
  <2>2. \A c \in Of(cause) :
            <<OwnerOf[c], IF KindOf[cause] = "dividend" THEN "dividend" ELSE "commission">>
                \in Users \X Sources
    BY DEF Of, Sources
  <2>3. disturbed' \subseteq Users \X Sources /\ disturbed \subseteq disturbed'
    BY <1>2, <2>2 DEF Removed, TypeOK
  <2> QED
    BY <1>2, <2>1, <2>3 DEF Removed, TypeOK
<1>3. ASSUME NEW c \in Credits, ApproveCommission(c) \/ PayCommission(c) \/ MarkPaid(c)
      PROVE  /\ TypeOK' /\ disturbed \subseteq disturbed'
             /\ UNCHANGED <<withdrawal, request>>
  BY <1>3 DEF ApproveCommission, PayCommission, MarkPaid, Advance, TypeOK, CreditStatus
<1> QED
  BY <1>1, <1>2, <1>3 DEF CreditStep

(***************************************************************************)
(* An undisturbed wallet keeps its credits in a step of the credits.       *)
(***************************************************************************)
LEMMA CreditsKept ==
    ASSUME TypeOK, CreditStep, NEW u, NEW source, <<u, source>> \notin disturbed',
           source \in Sources, NEW kind \in KindsOf(source)
    PROVE  CreditsOf(u, kind) \subseteq CreditsOf(u, kind)'
<1> SUFFICES ASSUME NEW c \in Credits, credit[c] \in {"pending", "approved", "paid"},
                    OwnerOf[c] = u, KindOf[CauseOf[c]] = kind
             PROVE  credit'[c] \in {"pending", "approved", "paid"}
  BY DEF CreditsOf, Counted
<1>1. ASSUME NEW cause \in Causes, Credited(cause)
      PROVE  credit'[c] \in {"pending", "approved", "paid"}
  BY <1>1 DEF Credited, Of
<1>2. ASSUME NEW cause \in Causes, Removed(cause)
      PROVE  credit'[c] \in {"pending", "approved", "paid"}
  <2>1. CASE c \in Of(cause)
    <3>1. KindOf[cause] = kind
      BY <2>1 DEF Of
    <3>2. source = IF KindOf[cause] = "dividend" THEN "dividend" ELSE "commission"
      BY <3>1 DEF KindsOf, Sources
    <3>3. <<u, source>> \in disturbed'
      BY <1>2, <2>1, <3>2 DEF Removed
    <3> QED
      BY <3>3
  <2>2. CASE c \notin Of(cause)
    BY <1>2, <2>2 DEF Removed
  <2> QED
    BY <2>1, <2>2
<1>3. ASSUME NEW d \in Credits, ApproveCommission(d) \/ PayCommission(d) \/ MarkPaid(d)
      PROVE  credit'[c] \in {"pending", "approved", "paid"}
  BY <1>3 DEF ApproveCommission, PayCommission, MarkPaid, Advance, TypeOK
<1> QED
  BY <1>1, <1>2, <1>3 DEF CreditStep
(***************************************************************************)
(* A step of the credits keeps the inductive invariant.                    *)
(***************************************************************************)
LEMMA CreditKeeps ==
    ASSUME IInv, CreditStep
    PROVE  IInv'
<1>1. TypeOK' /\ disturbed \subseteq disturbed' /\ UNCHANGED <<withdrawal, request>>
  BY CreditTyped DEF IInv
<1>2. \A u, source : Taken(u, source)' = Taken(u, source)
  BY <1>1 DEF Taken
<1>3. Asked' = Asked
  BY <1>1 DEF Asked
<1>4. \A u : \A source \in Sources : <<u, source>> \notin disturbed' =>
          \A kind \in KindsOf(source) : CreditsOf(u, kind) \subseteq CreditsOf(u, kind)'
  BY CreditsKept DEF IInv
<1>5. Steady
  BY <1>1, <1>2, <1>3, <1>4, SteadyStep DEF IInv, Steady
<1>6. Covered'
  BY <1>1, <1>5, CoveredAllKept DEF IInv, Covered
<1>7. OverdrawnOnlyIfDisturbed'
  BY <1>1, <1>5, OverdrawnKept DEF IInv
<1>8. Exclusive' /\ Inserted'
  BY <1>1 DEF IInv, Exclusive, Inserted, Running, WalletOf
<1> QED
  BY <1>1, <1>6, <1>7, <1>8 DEF IInv

(***************************************************************************)
(* A step that leaves the credits alone and adds no row to the withdrawals *)
(* is steady.                                                              *)
(***************************************************************************)
LEMMA RequestSteady ==
    ASSUME IInv, TypeOK', credit' = credit,
           \A r \in Requests : withdrawal'[r] \notin {"none", "rejected"} =>
               /\ \/ withdrawal[r] \notin {"none", "rejected"}
                  \/ <<request[r].user, request[r].source>> \in disturbed'
               /\ request'[r].user = request[r].user
               /\ request'[r].source = request[r].source
               /\ request'[r].amount = request[r].amount
    PROVE  Steady
<1>1. \A u, kind : CreditsOf(u, kind)' = CreditsOf(u, kind)
  BY DEF CreditsOf, Counted
<1>2. ASSUME NEW u, NEW source, <<u, source>> \notin disturbed'
      PROVE  /\ Taken(u, source)' \subseteq Taken(u, source)
             /\ \A r \in Taken(u, source)' : Asked'[r] = Asked[r]
  BY <1>2 DEF Taken, Asked
<1> QED
  BY <1>1, <1>2, SteadyStep DEF IInv, Steady

(***************************************************************************)
(* Each read and each failure moves one request and changes nothing else.  *)
(***************************************************************************)
Read(r, pc, earned) ==
    /\ request[r].pc \in {"earned", "sales", "withdrawn", "insert"}
    /\ request' = [request EXCEPT ![r].pc = pc, ![r].earned = earned]
    /\ UNCHANGED <<credit, withdrawal, openToday, disturbed>>

(***************************************************************************)
(* What a read changes.                                                    *)
(***************************************************************************)
LEMMA ReadTyped ==
    ASSUME TypeOK, NEW r \in Requests,
           NEW pc \in {"sales", "withdrawn", "insert", "done"}, NEW earned \in Nat,
           Read(r, pc, earned)
    PROVE  /\ TypeOK'
           /\ request'[r].pc = pc /\ request'[r].earned = earned
           /\ request'[r].user = request[r].user
           /\ request'[r].source = request[r].source
           /\ request'[r].amount = request[r].amount
           /\ \A q \in Requests \ {r} : request'[q] = request[q]
<1>1. request[r] \in Started
  BY CallTyped DEF Read
<1>2. /\ request' = [request EXCEPT ![r] = [@ EXCEPT !.pc = pc, !.earned = earned]]
      /\ request \in [Requests -> Call]
  BY DEF Read, TypeOK
<1>3. request'[r] = [request[r] EXCEPT !.pc = pc, !.earned = earned]
  BY <1>2
<1>4. /\ request'[r] \in Started
      /\ request'[r].pc = pc /\ request'[r].earned = earned
      /\ request'[r].user = request[r].user
      /\ request'[r].source = request[r].source
      /\ request'[r].amount = request[r].amount
  BY <1>1, <1>3 DEF Started
<1>5. request' \in [Requests -> Call]
  BY <1>2, <1>4 DEF Call, Started
<1> QED
  BY <1>2, <1>4, <1>5 DEF Read, TypeOK

(***************************************************************************)
(* A read that finds what it remembers keeps the inductive invariant.      *)
(***************************************************************************)
LEMMA ReadKeeps ==
    ASSUME IInv, NEW r \in Requests,
           NEW pc \in {"sales", "withdrawn", "insert", "done"}, NEW earned \in Nat,
           Read(r, pc, earned),
           pc = "sales" => request[r].source = "commission",
           <<request[r].user, request[r].source>> \notin disturbed =>
              /\ pc = "sales" => earned <= SumCommissionEarned(request[r].user)
              /\ pc = "withdrawn" => earned <= Earned(request[r].user, request[r].source)
              /\ pc = "insert" =>
                    request[r].amount <= Available(request[r].user, request[r].source)
    PROVE  IInv'
<1>1. /\ TypeOK'
      /\ request'[r].pc = pc /\ request'[r].earned = earned
      /\ request'[r].user = request[r].user
      /\ request'[r].source = request[r].source
      /\ request'[r].amount = request[r].amount
      /\ \A q \in Requests \ {r} : request'[q] = request[q]
  BY ReadTyped DEF IInv
<1>2. UNCHANGED <<credit, withdrawal, openToday, disturbed>>
  BY DEF Read
<1>3. \A q \in Requests : /\ request'[q].user = request[q].user
                          /\ request'[q].source = request[q].source
                          /\ request'[q].amount = request[q].amount
  BY <1>1
<1>4. Steady
  BY <1>1, <1>2, <1>3, RequestSteady DEF IInv
<1>5. OverdrawnOnlyIfDisturbed'
  BY <1>1, <1>2, <1>4, OverdrawnKept DEF IInv
<1>6. \A q \in Requests : Running(q)' => Running(q)
  BY <1>1 DEF Running, Read
<1>7. Exclusive'
  BY <1>2, <1>3, <1>6, ExclusiveKept DEF IInv
<1>8. Inserted'
  BY <1>1, <1>2 DEF IInv, Inserted, Read
<1>9. CoveredAt(r)'
  <2>1. PICK u, source : u = request[r].user /\ source = request[r].source
    OBVIOUS
  <2>2. \A kind : CreditsOf(u, kind)' = CreditsOf(u, kind)
    BY <1>2 DEF CreditsOf, Counted
  <2>3. /\ SumCommissionEarned(u)' = SumCommissionEarned(u)
        /\ Earned(u, source)' = Earned(u, source)
    BY <2>2 DEF SumCommissionEarned, SumSalesCommissionEarned, SumDividendPayouts, Earned
  <2>4. Asked' = Asked /\ Taken(u, source)' = Taken(u, source)
    BY <1>2, <1>3 DEF Asked, Taken
  <2>5. SumWithdrawals(u, source)' = SumWithdrawals(u, source)
    BY <2>4 DEF SumWithdrawals, Taken
  <2>6. Available(u, source)' = Available(u, source)
    BY <2>3, <2>5 DEF Available
  <2>7. /\ pc = "sales" => source = "commission"
        /\ <<u, source>> \notin disturbed' =>
              /\ pc = "sales" => earned <= SumCommissionEarned(u)'
              /\ pc = "withdrawn" => earned <= Earned(u, source)'
              /\ pc = "insert" => request[r].amount <= Available(u, source)'
    BY <1>2, <2>1, <2>3, <2>6
  <2>8. /\ request'[r].user = u /\ request'[r].source = source
        /\ request'[r].pc = pc /\ request'[r].earned = earned
        /\ request'[r].amount = request[r].amount
    BY <1>1, <2>1
  <2> QED
    BY <2>7, <2>8 DEF CoveredAt
<1>10. Covered'
  <2>1. \A q \in Requests \ {r} : CoveredAt(q)'
    BY <1>1, <1>2, <1>4, CoveredAllKept DEF IInv
  <2> QED
    BY <1>9, <2>1 DEF Covered
<1> QED
  BY <1>1, <1>5, <1>7, <1>8, <1>10 DEF IInv
(***************************************************************************)
(* Moving on without reading a sum is a read that remembers the old one.   *)
(***************************************************************************)
LEMMA GotoIsRead ==
    ASSUME TypeOK, NEW r \in Requests, Running(r),
           NEW pc \in {"sales", "withdrawn", "insert", "done"},
           Goto(r, pc), UNCHANGED <<credit, withdrawal, openToday, disturbed>>
    PROVE  Read(r, pc, request[r].earned)
<1>1. request[r] \in Started
  BY CallTyped DEF Running
<1>2. /\ request' = [request EXCEPT ![r] = [@ EXCEPT !.pc = pc]]
      /\ request \in [Requests -> Call]
  BY DEF Goto, TypeOK
<1>3. [request[r] EXCEPT !.pc = pc]
        = [request[r] EXCEPT !.pc = pc, !.earned = request[r].earned]
  BY <1>1 DEF Started
<1>4. request' = [request EXCEPT ![r].pc = pc, ![r].earned = request[r].earned]
  BY <1>2, <1>3
<1> QED
  BY <1>4 DEF Read, Running

(***************************************************************************)
(* The steps of a request between its start and its row keep the inductive *)
(* invariant: each sum it reads is one the wallet has at that moment, and  *)
(* what it read before is still there if the wallet is undisturbed.        *)
(***************************************************************************)
LEMMA ReadsKeep ==
    ASSUME IInv, NEW r \in Requests,
           ReadEarned(r) \/ ReadSalesEarned(r) \/ ReadWithdrawn(r) \/ Fail(r)
    PROVE  IInv'
<1>1. PICK u, source : u = request[r].user /\ source = request[r].source
  OBVIOUS
<1>2. /\ SumDividendPayouts(u) \in Nat
      /\ SumCommissionEarned(u) \in Nat /\ SumSalesCommissionEarned(u) \in Nat
      /\ Earned(u, source) \in Nat /\ SumWithdrawals(u, source) \in Nat
  BY SumsTyped DEF IInv
<1>3. request[r].source \in Sources /\ request[r].earned \in Nat /\ request[r].amount \in Nat
  BY CallTyped DEF IInv
<1>4. CoveredAt(r)
  BY DEF IInv, Covered
<1>5. CASE ReadEarned(r)
  <2>1. CASE source = "dividend"
    <3>1. PICK earned \in Nat : earned = SumDividendPayouts(u)
      BY <1>2
    <3>2. Read(r, "withdrawn", earned)
      BY <1>1, <1>5, <2>1, <3>1 DEF ReadEarned, Read
    <3>3. earned <= Earned(u, source)
      BY <1>2, <2>1, <3>1 DEF Earned
    <3> QED
      BY <1>1, <3>2, <3>3, ReadKeeps
  <2>2. CASE source # "dividend"
    <3>1. PICK earned \in Nat : earned = SumCommissionEarned(u)
      BY <1>2
    <3>2. Read(r, "sales", earned)
      BY <1>1, <1>5, <2>2, <3>1 DEF ReadEarned, Read
    <3>3. earned <= SumCommissionEarned(u)
      BY <1>2, <3>1
    <3>4. source = "commission"
      BY <1>1, <1>3, <2>2 DEF Sources
    <3> QED
      BY <1>1, <3>2, <3>3, <3>4, ReadKeeps
  <2> QED
    BY <2>1, <2>2
<1>6. CASE ReadSalesEarned(r)
  <2>1. PICK earned : earned = request[r].earned + SumSalesCommissionEarned(u)
    OBVIOUS
  <2>2. Read(r, "withdrawn", earned) /\ earned \in Nat
    BY <1>1, <1>2, <1>3, <1>6, <2>1 DEF ReadSalesEarned, Read
  <2>3. request[r].pc = "sales"
    BY <1>6 DEF ReadSalesEarned
  <2>4. source = "commission"
    BY <1>1, <1>4, <2>3 DEF CoveredAt
  <2>5. Earned(u, source) = SumCommissionEarned(u) + SumSalesCommissionEarned(u)
    BY <2>4 DEF Earned
  <2>6. <<u, source>> \notin disturbed => request[r].earned <= SumCommissionEarned(u)
    BY <1>1, <1>4, <2>3 DEF CoveredAt
  <2>7. <<u, source>> \notin disturbed => earned <= Earned(u, source)
    BY <1>2, <1>3, <2>1, <2>5, <2>6
  <2> QED
    BY <1>1, <2>2, <2>7, ReadKeeps
<1>7. CASE ReadWithdrawn(r)
  <2>1. request[r].pc = "withdrawn" /\ UNCHANGED <<credit, withdrawal, openToday, disturbed>>
    BY <1>7 DEF ReadWithdrawn
  <2>2. CASE request[r].amount > request[r].earned - SumWithdrawals(u, source)
    <3>1. Goto(r, "done")
      BY <1>1, <1>7, <2>2 DEF ReadWithdrawn, WalletOf
    <3>2. Read(r, "done", request[r].earned)
      BY <2>1, <3>1, GotoIsRead DEF IInv, Running
    <3> QED
      BY <1>3, <3>2, ReadKeeps
  <2>3. CASE ~(request[r].amount > request[r].earned - SumWithdrawals(u, source))
    <3>1. Goto(r, "insert")
      BY <1>1, <1>7, <2>3 DEF ReadWithdrawn, WalletOf
    <3>2. Read(r, "insert", request[r].earned)
      BY <2>1, <3>1, GotoIsRead DEF IInv, Running
    <3>3. <<u, source>> \notin disturbed => request[r].earned <= Earned(u, source)
      BY <1>1, <1>4, <2>1 DEF CoveredAt
    <3>4. Available(u, source) = Earned(u, source) - SumWithdrawals(u, source)
      BY DEF Available
    <3>5. <<u, source>> \notin disturbed => request[r].amount <= Available(u, source)
      BY <1>2, <1>3, <2>3, <3>3, <3>4
    <3> QED
      BY <1>1, <1>3, <3>2, <3>5, ReadKeeps
  <2> QED
    BY <2>2, <2>3
<1>8. CASE Fail(r)
  <2>1. Read(r, "done", request[r].earned)
    BY <1>8, GotoIsRead DEF Fail, IInv
  <2> QED
    BY <1>3, <2>1, ReadKeeps
<1> QED
  BY <1>5, <1>6, <1>7, <1>8

(***************************************************************************)
(* A request starts: if another of the same wallet is under way, the       *)
(* wallet is disturbed from now on.                                        *)
(***************************************************************************)
LEMMA StartKeeps ==
    ASSUME IInv, NEW r \in Requests, NEW u \in Users, NEW source \in Sources,
           NEW amount \in Amounts, NEW admin \in BOOLEAN,
           Start(r, u, source, amount, admin)
    PROVE  IInv'
<1> DEFINE call == [pc |-> "earned", user |-> u, source |-> source, amount |-> amount,
                    earned |-> 0, admin |-> admin]
<1>1. /\ request' = [request EXCEPT ![r] = call]
      /\ request[r].pc = "new" /\ amount > 0
      /\ UNCHANGED <<credit, withdrawal, openToday>>
      /\ disturbed \subseteq disturbed' /\ disturbed' \subseteq disturbed \cup {<<u, source>>}
      /\ (\E q \in Requests : Running(q) /\ WalletOf(q) = <<u, source>>)
            => <<u, source>> \in disturbed'
  <2>1. request' = [request EXCEPT ![r] = call]
    BY DEF Start
  <2>2. CASE \E q \in Requests : Running(q) /\ WalletOf(q) = <<u, source>>
    BY <2>1, <2>2 DEF Start
  <2>3. CASE ~\E q \in Requests : Running(q) /\ WalletOf(q) = <<u, source>>
    BY <2>1, <2>3 DEF Start
  <2> QED
    BY <2>2, <2>3
<1>2. call \in Call
  BY <1>1 DEF Call
<1>3. TypeOK'
  BY <1>1, <1>2 DEF IInv, TypeOK
<1>4. /\ request'[r] = call /\ withdrawal[r] = "none" /\ withdrawal'[r] = "none"
      /\ \A q \in Requests \ {r} : request'[q] = request[q] /\ withdrawal'[q] = withdrawal[q]
  BY <1>1 DEF IInv, TypeOK, Inserted
<1> HIDE DEF call
<1>5. Steady
  BY <1>1, <1>3, <1>4, RequestSteady DEF IInv
<1>6. OverdrawnOnlyIfDisturbed'
  BY <1>1, <1>3, <1>5, OverdrawnKept DEF IInv
<1>7. Inserted'
  BY <1>4 DEF IInv, Inserted
<1>8. Covered'
  <2>1. \A q \in Requests \ {r} : CoveredAt(q)'
    BY <1>1, <1>3, <1>4, <1>5, CoveredAllKept DEF IInv
  <2>2. CoveredAt(r)'
    BY <1>4 DEF CoveredAt, call
  <2> QED
    BY <2>1, <2>2 DEF Covered
<1>9. Exclusive'
  <2> SUFFICES ASSUME NEW p \in Requests, NEW q \in Requests, p # q,
                      Running(p)', Running(q)',
                      request'[p].user = request'[q].user,
                      request'[p].source = request'[q].source
               PROVE  <<request'[q].user, request'[q].source>> \in disturbed'
    BY DEF Exclusive, WalletOf
  <2>1. request'[r].user = u /\ request'[r].source = source
    BY <1>4 DEF call
  <2>2. CASE p # r /\ q # r
    BY <1>1, <1>4, <2>2 DEF IInv, Exclusive, Running, WalletOf
  <2>3. ASSUME NEW o \in Requests \ {r}, Running(o)',
               request'[o].user = u, request'[o].source = source
        PROVE  <<u, source>> \in disturbed'
    <3>1. Running(o) /\ WalletOf(o) = <<u, source>>
      BY <1>4, <2>3 DEF Running, WalletOf
    <3> QED
      BY <1>1, <3>1
  <2>4. CASE p = r
    BY <2>1, <2>3, <2>4
  <2>5. CASE q = r
    BY <2>1, <2>3, <2>5
  <2> QED
    BY <2>2, <2>4, <2>5
<1> QED
  BY <1>3, <1>6, <1>7, <1>8, <1>9 DEF IInv
(***************************************************************************)
(* Adding a row to the withdrawals of a wallet takes its amount from it,   *)
(* and nothing from the other wallets.                                     *)
(***************************************************************************)
LEMMA RowTaken ==
    ASSUME IInv, NEW r \in Requests, CreateWithdrawal(r), TypeOK'
    PROVE  \A u, source :
              /\ Earned(u, source)' = Earned(u, source)
              /\ SumCommissionEarned(u)' = SumCommissionEarned(u)
              /\ u = request[r].user /\ source = request[r].source =>
                    Available(u, source)' = Available(u, source) - request[r].amount
              /\ ~(u = request[r].user /\ source = request[r].source) =>
                    SumWithdrawals(u, source)' = SumWithdrawals(u, source)
<1>1. /\ withdrawal[r] = "none" /\ withdrawal'[r] = "pending"
      /\ \A q \in Requests \ {r} : withdrawal'[q] = withdrawal[q]
      /\ \A q \in Requests : /\ request'[q].user = request[q].user
                             /\ request'[q].source = request[q].source
                             /\ request'[q].amount = request[q].amount
      /\ credit' = credit
  BY DEF CreateWithdrawal, Goto, IInv, TypeOK, Inserted
<1>2. Asked' = Asked
  BY <1>1 DEF Asked
<1>3. request[r].amount \in Nat /\ Asked[r] = request[r].amount
  BY CallTyped DEF IInv, Asked
<1>4. ASSUME NEW u, NEW source
      PROVE  /\ Earned(u, source)' = Earned(u, source)
             /\ SumCommissionEarned(u)' = SumCommissionEarned(u)
  <2>1. \A kind : CreditsOf(u, kind)' = CreditsOf(u, kind)
    BY <1>1 DEF CreditsOf, Counted
  <2> QED
    BY <2>1 DEF SumCommissionEarned, SumSalesCommissionEarned, SumDividendPayouts, Earned
<1>5. ASSUME NEW u, NEW source, ~(u = request[r].user /\ source = request[r].source)
      PROVE  SumWithdrawals(u, source)' = SumWithdrawals(u, source)
  <2>1. Taken(u, source)' = Taken(u, source)
    BY <1>1, <1>5 DEF Taken
  <2> QED
    BY <1>2, <2>1 DEF SumWithdrawals, Taken
<1>6. ASSUME NEW u, NEW source, u = request[r].user, source = request[r].source
      PROVE  Available(u, source)' = Available(u, source) - request[r].amount
  <2>1. Taken(u, source)' = Taken(u, source) \cup {r}
    BY <1>1, <1>6 DEF Taken
  <2>2. Taken(u, source) \cap {r} = {} /\ Taken(u, source) \subseteq Requests
    BY <1>1 DEF Taken
  <2>3. IsFiniteSet(Taken(u, source)) /\ IsFiniteSet({r})
    BY SumsTyped, FS_Singleton DEF IInv
  <2>4. \A q \in Taken(u, source) \cup {r} : Asked[q] \in Nat
    BY <2>2, CallTyped DEF IInv, Asked
  <2>5. Dong(Taken(u, source) \cup {r}, Asked)
          = Dong(Taken(u, source), Asked) + Dong({r}, Asked)
    BY <2>2, <2>3, <2>4, DongSum
  <2>6. Dong({r}, Asked) = request[r].amount
    BY <1>3, DongOne
  <2>7. SumWithdrawals(u, source) = Dong(Taken(u, source), Asked)
    BY DEF SumWithdrawals, Taken
  <2>8. SumWithdrawals(u, source)' = Dong(Taken(u, source) \cup {r}, Asked)
    <3>1. SumWithdrawals(u, source)' = Dong(Taken(u, source)', Asked')
      BY DEF SumWithdrawals, Taken
    <3> QED
      BY <1>2, <2>1, <3>1
  <2>9. SumWithdrawals(u, source)' = SumWithdrawals(u, source) + request[r].amount
    BY <2>5, <2>6, <2>7, <2>8
  <2>10. SumWithdrawals(u, source) \in Nat /\ Earned(u, source) \in Nat
    BY SumsTyped DEF IInv
  <2>11. /\ Available(u, source) = Earned(u, source) - SumWithdrawals(u, source)
         /\ Available(u, source)' = Earned(u, source)' - SumWithdrawals(u, source)'
    BY DEF Available
  <2> QED
    BY <1>3, <1>4, <2>9, <2>10, <2>11
<1> QED
  BY <1>4, <1>5, <1>6

(***************************************************************************)
(* A request inserts its row: its wallet covers it unless it is disturbed, *)
(* and nobody else relies on that wallet, because a second request of the  *)
(* same wallet would have disturbed it.                                    *)
(***************************************************************************)
LEMMA CreateKeeps ==
    ASSUME IInv, NEW r \in Requests, CreateWithdrawal(r)
    PROVE  IInv'
<1>1. /\ request[r].pc = "insert" /\ request[r] \in Started
      /\ request' = [request EXCEPT ![r] = [@ EXCEPT !.pc = "done"]]
      /\ withdrawal' = [withdrawal EXCEPT ![r] = "pending"]
      /\ UNCHANGED <<credit, openToday, disturbed>>
  BY CallTyped DEF CreateWithdrawal, Goto, IInv
<1>2. /\ request \in [Requests -> Call]
      /\ request'[r] = [request[r] EXCEPT !.pc = "done"]
      /\ \A q \in Requests \ {r} : request'[q] = request[q]
  BY <1>1 DEF IInv, TypeOK
<1>3. request'[r] \in Started /\ request'[r].pc = "done"
  BY <1>1, <1>2 DEF Started
<1>4. request' \in [Requests -> Call]
  BY <1>1, <1>2, <1>3 DEF Call, Started
<1>5. TypeOK'
  BY <1>1, <1>4 DEF IInv, TypeOK, WithdrawalStatus
<1>6. /\ request'[r].user = request[r].user /\ request'[r].source = request[r].source
      /\ request[r].source \in Sources /\ request[r].amount \in Nat
  BY <1>1, <1>2, CallTyped DEF IInv, Started
<1>7. \A u, source :
          /\ Earned(u, source)' = Earned(u, source)
          /\ SumCommissionEarned(u)' = SumCommissionEarned(u)
          /\ u = request[r].user /\ source = request[r].source =>
                Available(u, source)' = Available(u, source) - request[r].amount
          /\ ~(u = request[r].user /\ source = request[r].source) =>
                SumWithdrawals(u, source)' = SumWithdrawals(u, source)
  BY <1>5, RowTaken
<1>8. ASSUME NEW u, NEW source, ~(u = request[r].user /\ source = request[r].source)
      PROVE  SteadyAt(u, source)
  <2>1. /\ Earned(u, source) \in Nat /\ SumCommissionEarned(u) \in Nat
        /\ SumWithdrawals(u, source) \in Nat
    BY SumsAreNumbers DEF Numbers, IInv
  <2> QED
    BY <1>7, <1>8, <2>1 DEF SteadyAt
<1>9. Exclusive'
  <2>1. \A q \in Requests : /\ Running(q)' => Running(q)
                            /\ request'[q].user = request[q].user
                            /\ request'[q].source = request[q].source
    BY <1>1, <1>2, <1>3, <1>6 DEF Running
  <2> QED
    BY <1>1, <2>1, ExclusiveKept DEF IInv
<1>10. Inserted'
  BY <1>1, <1>2, <1>3 DEF IInv, TypeOK, Inserted
<1>11. OverdrawnOnlyIfDisturbed'
  <2> SUFFICES ASSUME NEW u \in Users, NEW source \in Sources, <<u, source>> \notin disturbed
               PROVE  ~(Available(u, source)' < 0)
    BY <1>1 DEF OverdrawnOnlyIfDisturbed
  <2>1. ~(Available(u, source) < 0) /\ Available(u, source) \in Int
    BY SumsAreNumbers DEF IInv, OverdrawnOnlyIfDisturbed, Numbers
  <2>2. CASE u = request[r].user /\ source = request[r].source
    <3>1. request[r].amount <= Available(u, source)
      BY <1>1, <2>2 DEF IInv, Covered, CoveredAt
    <3>2. Available(u, source)' = Available(u, source) - request[r].amount
      BY <1>7, <2>2
    <3> QED
      BY <1>6, <2>1, <3>1, <3>2
  <2>3. CASE ~(u = request[r].user /\ source = request[r].source)
    <3>1. SteadyAt(u, source)
      BY <1>8, <2>3
    <3>2. Available(u, source) <= Available(u, source)'
      BY <1>1, <1>5, <3>1, AvailableGrows DEF IInv
    <3>3. Available(u, source)' \in Int
      BY <1>5, SumsStayNumbers DEF Numbers
    <3> QED
      BY <2>1, <3>2, <3>3
  <2> QED
    BY <2>2, <2>3
<1>12. Covered'
  <2>1. CoveredAt(r)'
    BY <1>3 DEF CoveredAt
  <2>2. ASSUME NEW q \in Requests \ {r} PROVE CoveredAt(q)'
    <3>1. CASE request[q].user = request[r].user /\ request[q].source = request[r].source
      <4>1. CASE Running(q)
        <5>1. <<request[q].user, request[q].source>> \in disturbed'
          BY <1>1, <3>1, <4>1 DEF IInv, Exclusive, Running, WalletOf
        <5>2. CoveredAt(q)
          BY DEF IInv, Covered
        <5> QED
          BY <1>2, <5>1, <5>2 DEF CoveredAt
      <4>2. CASE ~Running(q)
        BY <1>2, <4>2 DEF CoveredAt, Running
      <4> QED
        BY <4>1, <4>2
    <3>2. CASE ~(request[q].user = request[r].user /\ request[q].source = request[r].source)
      <4>1. \A u, source : u = request[q].user /\ source = request[q].source
                              => SteadyAt(u, source)
        BY <1>8, <3>2
      <4> QED
        BY <1>1, <1>2, <1>5, <4>1, CoveredKept DEF IInv
    <3> QED
      BY <3>1, <3>2
  <2> QED
    BY <2>1, <2>2 DEF Covered
<1> QED
  BY <1>5, <1>9, <1>10, <1>11, <1>12 DEF IInv
(***************************************************************************)
(* An administrator sets the status of a withdrawal: the wallet gets the   *)
(* money of a rejected one back, and is disturbed if a rejection is taken  *)
(* back.                                                                   *)
(***************************************************************************)
LEMMA ProcessKeeps ==
    ASSUME IInv, NEW r \in Requests, NEW status, Process(r, status)
    PROVE  IInv'
<1>1. /\ withdrawal[r] # "none" /\ status \in {"approved", "paid", "rejected"}
      /\ withdrawal' = [withdrawal EXCEPT ![r] = status]
      /\ UNCHANGED <<credit, request, openToday>>
      /\ disturbed \subseteq disturbed'
      /\ disturbed' \subseteq disturbed \cup {<<request[r].user, request[r].source>>}
      /\ withdrawal[r] = "rejected" /\ status # "rejected"
            => <<request[r].user, request[r].source>> \in disturbed'
  BY DEF Process, WalletOf
<1>2. request[r].pc = "done" /\ request[r] \in Started
  BY <1>1, CallTyped DEF IInv, Inserted
<1>3. request[r].user \in Users /\ request[r].source \in Sources
  BY <1>2 DEF Started
<1>4. TypeOK'
  BY <1>1, <1>3 DEF IInv, TypeOK, WithdrawalStatus
<1>5. \A q \in Requests : withdrawal'[q] \notin {"none", "rejected"} =>
          \/ withdrawal[q] \notin {"none", "rejected"}
          \/ <<request[q].user, request[q].source>> \in disturbed'
  BY <1>1 DEF IInv, TypeOK
<1>6. Steady
  BY <1>1, <1>4, <1>5, RequestSteady
<1>7. OverdrawnOnlyIfDisturbed'
  BY <1>1, <1>4, <1>6, OverdrawnKept DEF IInv
<1>8. Covered'
  BY <1>1, <1>4, <1>6, CoveredAllKept DEF IInv, Covered
<1>9. Inserted'
  BY <1>1, <1>2 DEF IInv, TypeOK, Inserted
<1>10. Exclusive'
  BY <1>1, ExclusiveKept DEF IInv, Running
<1> QED
  BY <1>4, <1>7, <1>8, <1>9, <1>10 DEF IInv

(***************************************************************************)
(* The invariant does not depend on the day.                               *)
(***************************************************************************)
LEMMA DayKeeps ==
    ASSUME IInv, openToday' \in BOOLEAN,
           UNCHANGED <<credit, withdrawal, request, disturbed>>
    PROVE  IInv'
<1>1. TypeOK'
  BY DEF IInv, TypeOK
<1>2. Steady
  BY <1>1, RequestSteady
<1>3. OverdrawnOnlyIfDisturbed'
  BY <1>1, <1>2, OverdrawnKept DEF IInv
<1>4. Covered'
  BY <1>1, <1>2, CoveredAllKept DEF IInv, Covered
<1>5. Inserted'
  BY DEF IInv, Inserted
<1>6. Exclusive'
  BY ExclusiveKept DEF IInv, Running
<1> QED
  BY <1>1, <1>3, <1>4, <1>5, <1>6 DEF IInv

(***************************************************************************)
(* Every step keeps the inductive invariant.                               *)
(***************************************************************************)
LEMMA NextIInv == IInv /\ [Next]_vars => IInv'
<1> SUFFICES ASSUME IInv, [Next]_vars PROVE IInv'
  OBVIOUS
<1>1. CASE CreditStep
  BY <1>1, CreditKeeps
<1>2. ASSUME NEW r \in Requests, NEW u \in Users, NEW amount \in Amounts,
             \/ RequestWithdrawal(r, u, amount)
             \/ RequestDividendWithdrawal(r, u, amount)
             \/ AdminRequestWithdrawal(r, u, amount)
      PROVE  IInv'
  <2>1. \E source \in Sources, admin \in BOOLEAN : Start(r, u, source, amount, admin)
    BY <1>2 DEF RequestWithdrawal, RequestDividendWithdrawal, AdminRequestWithdrawal, Sources
  <2> QED
    BY <2>1, StartKeeps
<1>3. ASSUME NEW r \in Requests,
             ReadEarned(r) \/ ReadSalesEarned(r) \/ ReadWithdrawn(r) \/ Fail(r)
      PROVE  IInv'
  BY <1>3, ReadsKeep
<1>4. ASSUME NEW r \in Requests, CreateWithdrawal(r)
      PROVE  IInv'
  BY <1>4, CreateKeeps
<1>5. ASSUME NEW r \in Requests, NEW status \in WithdrawalStatus, Process(r, status)
      PROVE  IInv'
  BY <1>5, ProcessKeeps
<1>6. CASE Midnight
  BY <1>6, DayKeeps DEF Midnight, IInv, TypeOK
<1>7. CASE UNCHANGED vars
  BY <1>7, DayKeeps DEF vars, IInv, TypeOK
<1> QED
  BY <1>1, <1>2, <1>3, <1>4, <1>5, <1>6, <1>7 DEF Next, CreditStep

(***************************************************************************)
(* The inductive invariant holds in every reachable state.                 *)
(***************************************************************************)
THEOREM Invariance == Spec => []IInv
BY InitIInv, NextIInv, PTL DEF Spec

(***************************************************************************)
(* Every variable has its type.                                            *)
(***************************************************************************)
THEOREM Typed == Spec => []TypeOK
<1>1. IInv => TypeOK
  BY DEF IInv
<1> QED
  BY <1>1, Invariance, PTL

(***************************************************************************)
(* A wallet is overdrawn only if two of its requests overlapped, a credit  *)
(* was removed, or a rejection was taken back: nothing else that happens   *)
(* between the reads of a request and its row can overdraw it.             *)
(***************************************************************************)
THEOREM UndisturbedNeverOverdrawn == Spec => []OverdrawnOnlyIfDisturbed
<1>1. IInv => OverdrawnOnlyIfDisturbed
  BY DEF IInv
<1> QED
  BY <1>1, Invariance, PTL

(***************************************************************************)
(* The joined query of the administrator's list computes the balances that *)
(* the separate queries of the account's page compute.                     *)
(***************************************************************************)
LEMMA ListIsBalance == TypeOK => ListMatchesBalance
<1> SUFFICES ASSUME TypeOK, NEW u \in Listed
             PROVE  /\ ListWalletBalances[u].earned - ListWalletBalances[u].withdrawn
                          = Available(u, "commission")
                    /\ ListWalletBalances[u].pending
                          = Pending(u, "investment") + Pending(u, "sales")
  BY DEF ListMatchesBalance
<1> DEFINE mine == {c \in Counted : OwnerOf[c] = u /\ KindOf[CauseOf[c]] # "dividend"}
           took == {r \in Requests : /\ request[r].user = u /\ request[r].source = "commission"
                                     /\ withdrawal[r] \in {"pending", "approved", "paid"}}
           open == {c \in mine : credit[c] = "pending"}
           openOf(kind) == {c \in CreditsOf(u, kind) : credit[c] = "pending"}
<1>1. /\ ListWalletBalances[u].earned = Dong(mine, Net)
      /\ ListWalletBalances[u].withdrawn = Dong(took, Asked)
      /\ ListWalletBalances[u].pending = Dong(open, Net)
  BY DEF ListWalletBalances
<1>2. took = Taken(u, "commission")
  BY DEF Taken, TypeOK, WithdrawalStatus
<1>3. Dong(took, Asked) = SumWithdrawals(u, "commission")
  BY <1>2, SumsTyped
<1>4. \A c \in Credits : /\ Net[c] \in Nat
                         /\ KindOf[CauseOf[c]] \in {"sales", "investment", "dividend"}
  OBVIOUS
<1>5. \A S \in SUBSET Credits : IsFiniteSet(S)
  BY FS_Subset
<1>6. Dong(mine, Net) = SumCommissionEarned(u) + SumSalesCommissionEarned(u)
  <2>1. /\ mine = CreditsOf(u, "investment") \cup CreditsOf(u, "sales")
        /\ CreditsOf(u, "investment") \cap CreditsOf(u, "sales") = {}
        /\ CreditsOf(u, "investment") \in SUBSET Credits
        /\ CreditsOf(u, "sales") \in SUBSET Credits
    BY <1>4 DEF CreditsOf, Counted
  <2>2. \A c \in CreditsOf(u, "investment") \cup CreditsOf(u, "sales") : Net[c] \in Nat
    BY <1>4, <2>1
  <2>3. IsFiniteSet(CreditsOf(u, "investment")) /\ IsFiniteSet(CreditsOf(u, "sales"))
    BY <1>5, <2>1
  <2>4. Dong(CreditsOf(u, "investment") \cup CreditsOf(u, "sales"), Net)
          = Dong(CreditsOf(u, "investment"), Net) + Dong(CreditsOf(u, "sales"), Net)
    BY <2>1, <2>2, <2>3, DongSum
  <2> QED
    BY <2>1, <2>4 DEF SumCommissionEarned, SumSalesCommissionEarned
<1>7. Dong(open, Net) = Pending(u, "investment") + Pending(u, "sales")
  <2>1. /\ open = openOf("investment") \cup openOf("sales")
        /\ openOf("investment") \cap openOf("sales") = {}
        /\ openOf("investment") \in SUBSET Credits
        /\ openOf("sales") \in SUBSET Credits
    BY <1>4 DEF CreditsOf, Counted
  <2>2. \A c \in openOf("investment") \cup openOf("sales") : Net[c] \in Nat
    BY <1>4, <2>1
  <2>3. IsFiniteSet(openOf("investment")) /\ IsFiniteSet(openOf("sales"))
    BY <1>5, <2>1
  <2>4. Dong(openOf("investment") \cup openOf("sales"), Net)
          = Dong(openOf("investment"), Net) + Dong(openOf("sales"), Net)
    BY <2>1, <2>2, <2>3, DongSum
  <2>5. /\ Pending(u, "investment") = Dong(openOf("investment"), Net)
        /\ Pending(u, "sales") = Dong(openOf("sales"), Net)
    BY DEF Pending
  <2> QED
    BY <2>1, <2>4, <2>5
<1>8. "commission" # "dividend"
  OBVIOUS
<1>9. Earned(u, "commission") = SumCommissionEarned(u) + SumSalesCommissionEarned(u)
  BY <1>8 DEF Earned
<1>10. Available(u, "commission") = Earned(u, "commission") - SumWithdrawals(u, "commission")
  BY DEF Available
<1> HIDE DEF mine, took, open
<1>11. ListWalletBalances[u].earned - ListWalletBalances[u].withdrawn
         = Available(u, "commission")
  BY <1>1, <1>3, <1>6, <1>9, <1>10
<1>12. ListWalletBalances[u].pending = Pending(u, "investment") + Pending(u, "sales")
  BY <1>1, <1>7
<1> QED
  BY <1>11, <1>12

(***************************************************************************)
(* The administrator's list agrees with the balances in every state.       *)
(***************************************************************************)
THEOREM ListShowsBalances == Spec => []ListMatchesBalance
BY ListIsBalance, Typed, PTL
(***************************************************************************)
(* A balance stays if the wallet's credits and withdrawals do.             *)
(***************************************************************************)
LEMMA BalanceStays ==
    ASSUME NEW u, NEW source,
           \A kind \in KindsOf(source) : CreditsOf(u, kind)' = CreditsOf(u, kind),
           Taken(u, source)' = Taken(u, source),
           \A r \in Taken(u, source) : Asked'[r] = Asked[r]
    PROVE  Available(u, source)' = Available(u, source)
<1>1. Dong(Taken(u, source), Asked') = Dong(Taken(u, source), Asked)
  BY DongSame
<1>2. SumWithdrawals(u, source) = Dong(Taken(u, source), Asked)
  BY DEF SumWithdrawals, Taken
<1>3. SumWithdrawals(u, source)' = Dong(Taken(u, source)', Asked')
  BY DEF SumWithdrawals, Taken
<1>4. SumWithdrawals(u, source)' = SumWithdrawals(u, source)
  BY <1>1, <1>2, <1>3
<1>5. Earned(u, source)' = Earned(u, source)
  BY DEF Earned, SumCommissionEarned, SumSalesCommissionEarned, SumDividendPayouts, KindsOf
<1> QED
  BY <1>4, <1>5 DEF Available

(***************************************************************************)
(* A step of the credits of one kind leaves the other wallet's alone.      *)
(***************************************************************************)
LEMMA CreditSeparate ==
    ASSUME TypeOK, CreditStep, NEW u
    PROVE  \E source \in Sources : Available(u, source)' = Available(u, source)
<1>1. UNCHANGED <<withdrawal, request>>
  BY CreditTyped
<1>2. Asked' = Asked /\ \A source : Taken(u, source)' = Taken(u, source)
  BY <1>1 DEF Asked, Taken
<1>3. ASSUME NEW cause \in Causes, Credited(cause) \/ Removed(cause)
      PROVE  \E source \in Sources : Available(u, source)' = Available(u, source)
  <2>1. PICK source \in Sources : KindOf[cause] \notin KindsOf(source)
    <3>1. CASE KindOf[cause] = "dividend"
      <4>1. KindOf[cause] \notin KindsOf("commission") /\ "commission" \in Sources
        BY <3>1 DEF KindsOf, Sources
      <4> QED
        BY <4>1
    <3>2. CASE KindOf[cause] # "dividend"
      <4>1. KindOf[cause] \notin KindsOf("dividend") /\ "dividend" \in Sources
        BY <3>2 DEF KindsOf, Sources
      <4> QED
        BY <4>1
    <3> QED
      BY <3>1, <3>2
  <2>2. ASSUME NEW kind \in KindsOf(source), NEW c \in Credits, KindOf[CauseOf[c]] = kind
        PROVE  credit'[c] = credit[c]
    <3>1. c \notin Of(cause)
      BY <2>1, <2>2 DEF Of
    <3> QED
      BY <1>3, <3>1 DEF Credited, Removed
  <2>3. \A kind \in KindsOf(source) : CreditsOf(u, kind)' = CreditsOf(u, kind)
    BY <2>2 DEF CreditsOf, Counted
  <2>4. Available(u, source)' = Available(u, source)
    BY <1>2, <2>3, BalanceStays
  <2> QED
    BY <2>4
<1>4. ASSUME NEW c \in Credits, ApproveCommission(c) \/ PayCommission(c) \/ MarkPaid(c)
      PROVE  \E source \in Sources : Available(u, source)' = Available(u, source)
  <2>1. \A d \in Credits : \/ credit'[d] = credit[d]
                           \/ /\ credit[d] \in {"pending", "approved"}
                              /\ credit'[d] \in {"approved", "paid"}
    BY <1>4 DEF ApproveCommission, PayCommission, MarkPaid, Advance, TypeOK
  <2>2. \A kind : CreditsOf(u, kind)' = CreditsOf(u, kind)
    BY <2>1 DEF CreditsOf, Counted
  <2>3. "dividend" \in Sources /\ Available(u, "dividend")' = Available(u, "dividend")
    BY <1>2, <2>2, BalanceStays DEF Sources
  <2> QED
    BY <2>3
<1> QED
  BY <1>3, <1>4 DEF CreditStep

(***************************************************************************)
(* A step of one request changes the balance of its own wallet at most.    *)
(***************************************************************************)
LEMMA RequestSeparate ==
    ASSUME TypeOK, NEW u, credit' = credit, NEW r \in Requests,
           \A q \in Requests \ {r} : request'[q] = request[q] /\ withdrawal'[q] = withdrawal[q],
           \/ withdrawal[r] = "none" /\ withdrawal'[r] = "none"
           \/ /\ request'[r].user = request[r].user
              /\ request'[r].source = request[r].source
    PROVE  \E source \in Sources : Available(u, source)' = Available(u, source)
<1>1. \A kind : CreditsOf(u, kind)' = CreditsOf(u, kind)
  BY DEF CreditsOf, Counted
<1>2. PICK source \in Sources : ~(request[r].source = source)
  BY CallTyped DEF Sources
<1>3. Taken(u, source)' = Taken(u, source) /\ r \notin Taken(u, source)
  BY <1>2 DEF Taken
<1>4. \A q \in Taken(u, source) : Asked'[q] = Asked[q]
  BY <1>3 DEF Taken, Asked
<1>5. Available(u, source)' = Available(u, source)
  BY <1>1, <1>3, <1>4, BalanceStays
<1> QED
  BY <1>5

(***************************************************************************)
(* No step changes both balances of an account.                            *)
(***************************************************************************)
LEMMA StepSeparate ==
    ASSUME IInv, [Next]_vars, NEW u \in Users
    PROVE  \/ Available(u, "commission")' = Available(u, "commission")
           \/ Available(u, "dividend")' = Available(u, "dividend")
<1> SUFFICES \E source \in Sources : Available(u, source)' = Available(u, source)
  BY DEF Sources
<1>1. CASE CreditStep
  BY <1>1, CreditSeparate DEF IInv
<1>2. ASSUME NEW r \in Requests, NEW v \in Users, NEW amount \in Amounts,
             \/ RequestWithdrawal(r, v, amount)
             \/ RequestDividendWithdrawal(r, v, amount)
             \/ AdminRequestWithdrawal(r, v, amount)
      PROVE  \E source \in Sources : Available(u, source)' = Available(u, source)
  <2>1. /\ credit' = credit /\ withdrawal' = withdrawal /\ request[r].pc = "new"
        /\ \A q \in Requests \ {r} : request'[q] = request[q]
    BY <1>2 DEF RequestWithdrawal, RequestDividendWithdrawal, AdminRequestWithdrawal, Start,
                IInv, TypeOK
  <2>2. withdrawal[r] = "none"
    BY <2>1 DEF IInv, Inserted
  <2> QED
    BY <2>1, <2>2, RequestSeparate DEF IInv
<1>3. ASSUME NEW r \in Requests,
             ReadEarned(r) \/ ReadSalesEarned(r) \/ ReadWithdrawn(r) \/ Fail(r)
      PROVE  \E source \in Sources : Available(u, source)' = Available(u, source)
  <2>1. /\ credit' = credit /\ withdrawal' = withdrawal
        /\ request[r].pc # "done"
        /\ \A q \in Requests \ {r} : request'[q] = request[q]
    BY <1>3 DEF ReadEarned, ReadSalesEarned, ReadWithdrawn, Fail, Goto, Running, IInv, TypeOK
  <2>2. withdrawal[r] = "none"
    BY <2>1 DEF IInv, Inserted
  <2> QED
    BY <2>1, <2>2, RequestSeparate DEF IInv
<1>4. ASSUME NEW r \in Requests, CreateWithdrawal(r)
      PROVE  \E source \in Sources : Available(u, source)' = Available(u, source)
  <2>1. /\ credit' = credit
        /\ \A q \in Requests \ {r} : request'[q] = request[q] /\ withdrawal'[q] = withdrawal[q]
        /\ request'[r].user = request[r].user
        /\ request'[r].source = request[r].source
    BY <1>4 DEF CreateWithdrawal, Goto, IInv, TypeOK
  <2> QED
    BY <2>1, RequestSeparate DEF IInv
<1>5. ASSUME NEW r \in Requests, NEW status \in WithdrawalStatus, Process(r, status)
      PROVE  \E source \in Sources : Available(u, source)' = Available(u, source)
  <2>1. /\ credit' = credit /\ request' = request
        /\ \A q \in Requests \ {r} : withdrawal'[q] = withdrawal[q]
    BY <1>5 DEF Process, IInv, TypeOK
  <2> QED
    BY <2>1, RequestSeparate DEF IInv
<1>6. CASE Midnight \/ UNCHANGED vars
  <2>1. UNCHANGED <<credit, request, withdrawal>>
    BY <1>6 DEF Midnight, vars
  <2>2. /\ \A kind : CreditsOf(u, kind)' = CreditsOf(u, kind)
        /\ Taken(u, "dividend")' = Taken(u, "dividend") /\ Asked' = Asked
    BY <2>1 DEF CreditsOf, Counted, Taken, Asked
  <2>3. "dividend" \in Sources /\ Available(u, "dividend")' = Available(u, "dividend")
    BY <2>2, BalanceStays DEF Sources
  <2> QED
    BY <2>3
<1> QED
  BY <1>1, <1>2, <1>3, <1>4, <1>5, <1>6 DEF Next, CreditStep

(***************************************************************************)
(* The commission wallet and the dividend wallet of an account share the   *)
(* table of withdrawals, but no step changes both balances.                *)
(***************************************************************************)
THEOREM WalletsStaySeparate == Spec => WalletsSeparate
<1>1. IInv /\ [Next]_vars =>
        [\A u \in Users : \/ Available(u, "commission")' = Available(u, "commission")
                          \/ Available(u, "dividend")' = Available(u, "dividend")]_vars
  BY StepSeparate
<1> QED
  BY <1>1, Invariance, PTL DEF Spec, WalletsSeparate
=============================================================================
