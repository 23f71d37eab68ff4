----------------------------- MODULE ShopProofs -----------------------------
(***************************************************************************)
(* Proofs about Shop, for any affiliates, telephone numbers, products,     *)
(* slugs, orders and workers.                                              *)
(***************************************************************************)
EXTENDS Shop, TLAPS

USE ShopAssumption DEF ShopAssumption

\* What an edit without a slug is about to write is what the administrator gave.
EditsKeep ==
    \A w \in Workers : At(w, "edit") /\ ~req[w].late /\ Listed(req[w].product) =>
        req[w].slug = asked[req[w].product] \/ req[w].product \in reverted

\* What a checkout that is not late has seen: no lock yet, or the affiliate of the lock;
\* an affiliate without a lock has been deleted since.
Checkouts ==
    \A w \in Workers :
       /\ At(w, "lock") /\ ~req[w].late => lock[req[w].phone] = NoOne
       /\ At(w, "order") /\ ~req[w].late =>
             \/ req[w].affiliate = Credit(lock[req[w].phone])
             \/ req[w].affiliate \in Affiliates /\ role[req[w].affiliate] = "none"

\* Online orders keep the house account, and those that found a lock its lock.
HouseSells ==
    \A o \in Placed : order[o].online =>
        /\ order[o].seller = House
        /\ order[o].locked /\ ~order[o].late => lock[order[o].phone] # NoOne

SlugInv  == SlugKept /\ EditsKeep
TouchInv == FirstTouchKept /\ Checkouts /\ HouseSells

OrderRecord ==
    [phone : Phones, seller : Accounts, affiliate : Accounts \cup {NoOne},
     product : Products, online : BOOLEAN, locked : BOOLEAN, late : BOOLEAN]

-----------------------------------------------------------------------------
(***************************************************************************)
(* The shapes of the requests, and of an idle worker's.                    *)
(***************************************************************************)
LEMMA RequestFacts ==
    ASSUME NEW r \in Request
    PROVE  /\ r.pc \in {"house", "look", "lock", "order"} => r.phone \in Phones
           /\ r.pc = "lock" => r.affiliate \in Affiliates /\ r.late \in BOOLEAN
           /\ r.pc = "order" => r.affiliate \in Affiliates \cup {NoOne} /\ r.late \in BOOLEAN
           /\ r.pc = "edit" => r.product \in Products /\ r.slug \in Slugs /\ r.late \in BOOLEAN
<1>1. r.pc \in {"house", "look"} => r \in [pc : {"house", "look"}, phone : Phones]
  BY DEF Request, Idle
<1>2. r.pc = "lock" =>
         r \in [pc : {"lock"}, phone : Phones, affiliate : Affiliates, late : BOOLEAN]
  BY DEF Request, Idle
<1>3. r.pc = "order" =>
         r \in [pc : {"order"}, phone : Phones, affiliate : Affiliates \cup {NoOne},
                late : BOOLEAN]
  BY DEF Request, Idle
<1>4. r.pc = "edit" =>
         r \in [pc : {"edit"}, product : Products, slug : Slugs, late : BOOLEAN]
  BY DEF Request, Idle
<1> QED
  BY <1>1, <1>2, <1>3, <1>4

(***************************************************************************)
(* An idle worker has no request.                                          *)
(***************************************************************************)
LEMMA IdleFacts == Idle \in Request /\ Idle.pc = "idle"
BY DEF Request, Idle

(***************************************************************************)
(* A checkout goes on from the house account to the lock.                  *)
(***************************************************************************)
LEMMA HouseMoves ==
    ASSUME NEW r \in Request, r.pc = "house"
    PROVE  [r EXCEPT !.pc = "look"] \in Request /\ [r EXCEPT !.pc = "look"].pc = "look"
<1>1. r \in [pc : {"house", "look"}, phone : Phones]
  BY DEF Request, Idle
<1> QED
  BY <1>1 DEF Request

(***************************************************************************)
(* A checkout goes on from the lock to the order with what it knows.       *)
(***************************************************************************)
LEMMA LockMoves ==
    ASSUME NEW r \in Request, r.pc = "lock"
    PROVE  /\ [r EXCEPT !.pc = "order"] \in Request
           /\ [r EXCEPT !.pc = "order"].pc = "order"
           /\ [r EXCEPT !.pc = "order"].phone = r.phone
           /\ [r EXCEPT !.pc = "order"].affiliate = r.affiliate
           /\ [r EXCEPT !.pc = "order"].late = r.late
<1>1. r \in [pc : {"lock"}, phone : Phones, affiliate : Affiliates, late : BOOLEAN]
  BY DEF Request, Idle
<1> QED
  BY <1>1 DEF Request

(***************************************************************************)
(* A request that is overtaken stays where it is.                          *)
(***************************************************************************)
LEMMA LateMoves ==
    ASSUME NEW r \in Request, r.pc \in {"lock", "order", "edit"}
    PROVE  /\ [r EXCEPT !.late = TRUE] \in Request
           /\ [r EXCEPT !.late = TRUE].pc = r.pc
           /\ [r EXCEPT !.late = TRUE].late = TRUE
<1>1. CASE r.pc = "lock"
  <2>1. r \in [pc : {"lock"}, phone : Phones, affiliate : Affiliates, late : BOOLEAN]
    BY <1>1 DEF Request, Idle
  <2> QED
    BY <2>1 DEF Request
<1>2. CASE r.pc = "order"
  <2>1. r \in [pc : {"order"}, phone : Phones, affiliate : Affiliates \cup {NoOne},
               late : BOOLEAN]
    BY <1>2 DEF Request, Idle
  <2> QED
    BY <2>1 DEF Request
<1>3. CASE r.pc = "edit"
  <2>1. r \in [pc : {"edit"}, product : Products, slug : Slugs, late : BOOLEAN]
    BY <1>3 DEF Request, Idle
  <2> QED
    BY <2>1 DEF Request
<1> QED
  BY <1>1, <1>2, <1>3

(***************************************************************************)
(* Locking a number locks a free number, and no other.                     *)
(***************************************************************************)
LEMMA LockFacts ==
    ASSUME TypeOK, NEW p \in Phones, NEW a \in Accounts, SetReferralLockIfAbsent(p, a)
    PROVE  /\ lock' \in [Phones -> Accounts \cup {NoOne}]
           /\ \A q \in Phones : lock[q] # NoOne \/ q # p => lock'[q] = lock[q]
           /\ lock[p] = NoOne => lock'[p] = IF role[a] # "none" THEN a ELSE NoOne
BY DEF TypeOK, SetReferralLockIfAbsent

(***************************************************************************)
(* The checkouts that are overtaken: those of p, when its lock is written. *)
(***************************************************************************)
LEMMA OvertakenFacts ==
    ASSUME TypeOK, NEW p \in Phones
    PROVE  /\ Overtaken(p) \in [Workers -> Request]
           /\ \A v \in Workers :
                 \/ Overtaken(p)[v] = req[v]
                       /\ (lock' = lock \/ req[v].pc \notin {"lock", "order"} \/ req[v].phone # p)
                 \/ /\ Overtaken(p)[v].pc = req[v].pc /\ req[v].pc \in {"lock", "order"}
                    /\ Overtaken(p)[v].late = TRUE
<1>1. \A v \in Workers :
         /\ Overtaken(p)[v] \in Request
         /\ \/ Overtaken(p)[v] = req[v]
                  /\ (lock' = lock \/ req[v].pc \notin {"lock", "order"} \/ req[v].phone # p)
            \/ /\ Overtaken(p)[v].pc = req[v].pc /\ req[v].pc \in {"lock", "order"}
               /\ Overtaken(p)[v].late = TRUE
  BY LateMoves DEF Overtaken, TypeOK
<1> QED
  BY <1>1 DEF Overtaken

(***************************************************************************)
(* An order that is created, and what it has been checked against.         *)
(***************************************************************************)
LEMMA OrderFacts ==
    ASSUME TypeOK, NEW p \in Phones, NEW u \in Accounts, NEW a \in Accounts \cup {NoOne},
           NEW online \in BOOLEAN, NEW late \in BOOLEAN,
           CreateSalesOrder(p, u, a, online, late)
    PROVE  /\ a # u /\ (a # NoOne => role[a] # "none")
           /\ order' \in [Orders -> {NoOrder} \cup OrderRecord]
           /\ \E n \in Orders :
                 /\ \A o \in Orders \ {n} : order'[o] = order[o]
                 /\ order'[n] \in OrderRecord
                 /\ order'[n].phone = p /\ order'[n].seller = u /\ order'[n].affiliate = a
                 /\ order'[n].online = online /\ order'[n].late = late
                 /\ order'[n].locked = (lock[p] # NoOne)
<1>1. PICK n \in Orders, g \in Products :
         order' = [order EXCEPT ![n] =
                      [phone |-> p, seller |-> u, affiliate |-> a, product |-> g,
                       online |-> online, locked |-> lock[p] # NoOne, late |-> late]]
  BY DEF CreateSalesOrder
<1>2. [phone |-> p, seller |-> u, affiliate |-> a, product |-> g,
       online |-> online, locked |-> lock[p] # NoOne, late |-> late] \in OrderRecord
  BY DEF OrderRecord
<1> QED
  BY <1>1, <1>2 DEF TypeOK, OrderRecord, CreateSalesOrder

(***************************************************************************)
(* A row that is not empty is a whole order.                               *)
(***************************************************************************)
LEMMA PlacedFacts ==
    ASSUME TypeOK, NEW o \in Placed
    PROVE  o \in Orders /\ order[o] \in OrderRecord
BY DEF TypeOK, Placed, OrderRecord

-----------------------------------------------------------------------------
(***************************************************************************)
(* Type correctness.                                                       *)
(***************************************************************************)
LEMMA InitTyped == Init => TypeOK
BY IdleFacts DEF Init, TypeOK, Placed, Accounts

(***************************************************************************)
(* Every step keeps the types.                                             *)
(***************************************************************************)
LEMMA NextTyped == TypeOK /\ [Next]_vars => TypeOK'
<1> SUFFICES ASSUME TypeOK, [Next]_vars PROVE TypeOK'
  OBVIOUS
<1>0. \A w \in Workers : req[w] \in Request
  BY DEF TypeOK
<1>1. ASSUME UNCHANGED <<tables, past>>, req' \in [Workers -> Request] PROVE TypeOK'
  BY <1>1 DEF TypeOK, tables, past, Placed
<1>2. ASSUME UNCHANGED <<role, lock, slug, past>>, req' \in [Workers -> Request],
             NEW p \in Phones, NEW u \in Accounts, NEW a \in Accounts \cup {NoOne},
             NEW online \in BOOLEAN, NEW late \in BOOLEAN,
             CreateSalesOrder(p, u, a, online, late)
      PROVE  TypeOK'
  <2>1. PICK n \in Orders :
           /\ \A o \in Orders \ {n} : order'[o] = order[o]
           /\ order'[n].seller = u /\ order'[n].affiliate = a
    BY <1>2, OrderFacts
  <2>2. order' \in [Orders -> {NoOrder} \cup OrderRecord] /\ a # u
    BY <1>2, OrderFacts
  <2>3. \A o \in Placed' : order'[o].affiliate # order'[o].seller
    BY <2>1, <2>2 DEF TypeOK, Placed
  <2> QED
    BY <1>2, <2>2, <2>3 DEF TypeOK, past, OrderRecord
<1>3. ASSUME NEW w \in Workers, NEW p \in Phones, EnsureHouseSeller(w, p) PROVE TypeOK'
  <2>1. [pc |-> "house", phone |-> p] \in Request /\ [pc |-> "look", phone |-> p] \in Request
    BY DEF Request
  <2>2. req' \in [Workers -> Request]
    BY <1>3, <2>1 DEF EnsureHouseSeller, TypeOK
  <2> QED
    BY <1>1, <1>3, <2>2 DEF EnsureHouseSeller
<1>4. ASSUME NEW w \in Workers, CreateHouse(w) PROVE TypeOK'
  <2>1. req' \in [Workers -> Request]
    BY <1>0, <1>4, HouseMoves, IdleFacts DEF CreateHouse, At, Finish, TypeOK
  <2>2. role' \in [Accounts -> {"none", "saler", "other"}]
    BY <1>4 DEF CreateHouse, TypeOK
  <2> QED
    BY <1>4, <2>1, <2>2 DEF CreateHouse, TypeOK, past, Placed
<1>5. ASSUME NEW w \in Workers, GetReferralLock(w) PROVE TypeOK'
  <2>1. req[w].phone \in Phones /\ lock[req[w].phone] \in Accounts \cup {NoOne}
    BY <1>0, <1>5, RequestFacts DEF GetReferralLock, At, TypeOK
  <2>2. \A a \in Affiliates \cup {NoOne}, b \in BOOLEAN :
           [pc |-> "order", phone |-> req[w].phone, affiliate |-> a, late |-> b] \in Request
    BY <2>1 DEF Request
  <2>3. \A a \in Affiliates, b \in BOOLEAN :
           [pc |-> "lock", phone |-> req[w].phone, affiliate |-> a, late |-> b] \in Request
    BY <2>1 DEF Request
  <2>4. lock[req[w].phone] # NoOne => Credit(lock[req[w].phone]) \in Affiliates \cup {NoOne}
    BY <2>1 DEF Credit, Accounts
  <2>5. \E r \in Request : req' = [req EXCEPT ![w] = r]
    BY <1>5, <2>2, <2>3, <2>4 DEF GetReferralLock, GoOn
  <2>6. req' \in [Workers -> Request]
    BY <2>5 DEF TypeOK
  <2> QED
    BY <1>1, <1>5, <2>6 DEF GetReferralLock
<1>6. ASSUME NEW w \in Workers, LockPhone(w) PROVE TypeOK'
  <2>1. PICK p \in Phones, a \in Affiliates :
           req[w].phone = p /\ req[w].affiliate = a /\ a \in Accounts
    BY <1>0, <1>6, RequestFacts DEF LockPhone, At, Accounts
  <2>2. CASE /\ SetReferralLockIfAbsent(p, a)
             /\ req' = [Overtaken(p) EXCEPT ![w] = [req[w] EXCEPT !.pc = "order"]]
    <3>1. lock' \in [Phones -> Accounts \cup {NoOne}]
      BY <2>1, <2>2, LockFacts
    <3>2. req' \in [Workers -> Request]
      BY <1>0, <1>6, <2>2, OvertakenFacts, LockMoves DEF LockPhone, At
    <3> QED
      BY <1>6, <3>1, <3>2 DEF LockPhone, TypeOK, past, Placed
  <2>3. CASE UNCHANGED lock /\ GoOn(w, "order", a, TRUE)
    <3>1. [pc |-> "order", phone |-> p, affiliate |-> a, late |-> TRUE] \in Request
      BY DEF Request
    <3>2. req' \in [Workers -> Request]
      BY <2>1, <2>3, <3>1 DEF GoOn, TypeOK
    <3> QED
      BY <1>1, <1>6, <2>3, <3>2 DEF LockPhone, tables
  <2> QED
    BY <1>6, <2>1, <2>2, <2>3 DEF LockPhone
<1>7. ASSUME NEW p \in Phones, RegisterCustomer(p) PROVE TypeOK'
  <2>1. lock' \in [Phones -> Accounts \cup {NoOne}]
    BY <1>7, LockFacts DEF RegisterCustomer
  <2>2. req' \in [Workers -> Request]
    BY <1>7, OvertakenFacts DEF RegisterCustomer
  <2> QED
    BY <1>7, <2>1, <2>2 DEF RegisterCustomer, TypeOK, past, Placed
<1>8. ASSUME NEW w \in Workers, PlaceOrder(w) PROVE TypeOK'
  <2>1. /\ req[w].phone \in Phones /\ req[w].affiliate \in Accounts \cup {NoOne}
        /\ req[w].late \in BOOLEAN /\ House \in Accounts
    BY <1>0, <1>8, RequestFacts DEF PlaceOrder, At, Accounts
  <2>2. req' \in [Workers -> Request]
    BY <1>8, IdleFacts DEF PlaceOrder, Finish, TypeOK
  <2> QED
    BY <1>2, <1>8, <2>1, <2>2 DEF PlaceOrder
<1>9. ASSUME NEW p \in Phones, CreateOrder(p) PROVE TypeOK'
  BY <1>2, <1>9 DEF CreateOrder, TypeOK
<1>10. ASSUME NEW o \in Orders, DeleteOrder(o) PROVE TypeOK'
  BY <1>10 DEF DeleteOrder, TypeOK, past, Placed
<1>11. ASSUME NEW u \in Accounts, AdminSetRole(u) PROVE TypeOK'
  BY <1>11 DEF AdminSetRole, TypeOK, past, Placed
<1>12. ASSUME NEW u \in Accounts, DeleteUser(u) PROVE TypeOK'
  BY <1>12 DEF DeleteUser, TypeOK, past, Placed
<1>13. ASSUME NEW w \in Workers, NEW g \in Products, EditProduct(w, g) PROVE TypeOK'
  <2>1. req' \in [Workers -> Request]
    BY <1>13 DEF EditProduct, TypeOK, Request
  <2> QED
    BY <1>1, <1>13, <2>1 DEF EditProduct
<1>14. ASSUME NEW w \in Workers, UpdateProduct(w) PROVE TypeOK'
  <2>1. req[w].product \in Products /\ req[w].slug \in Slugs
    BY <1>0, <1>14, RequestFacts DEF UpdateProduct, At
  <2> QED
    BY <1>14, <2>1, IdleFacts DEF UpdateProduct, Finish, TypeOK, Placed
<1>15. ASSUME NEW g \in Products, CreateProduct(g) PROVE TypeOK'
  BY <1>15 DEF CreateProduct, TypeOK, Placed
<1>16. ASSUME NEW g \in Products, RenameProduct(g) PROVE TypeOK'
  <2>1. req' \in [Workers -> Request]
    BY <1>0, <1>16, LateMoves DEF RenameProduct, At
  <2> QED
    BY <1>16, <2>1 DEF RenameProduct, TypeOK, Placed
<1>17. ASSUME NEW g \in Products, DeleteProduct(g) PROVE TypeOK'
  BY <1>17 DEF DeleteProduct, TypeOK, Placed
<1>18. ASSUME NEW w \in Workers, Abort(w) PROVE TypeOK'
  <2>1. req' \in [Workers -> Request]
    BY <1>18, IdleFacts DEF Abort, Finish, TypeOK
  <2> QED
    BY <1>1, <1>18, <2>1 DEF Abort
<1>19. CASE UNCHANGED vars
  BY <1>1, <1>19 DEF vars, TypeOK
<1> QED
  BY <1>3, <1>4, <1>5, <1>6, <1>7, <1>8, <1>9, <1>10, <1>11, <1>12, <1>13, <1>14, <1>15,
     <1>16, <1>17, <1>18, <1>19 DEF Next

(***************************************************************************)
(* Accounts, locks, orders, products and requests keep the shape that the  *)
(* model gives them, and no order credits its own seller.                  *)
(***************************************************************************)
THEOREM Typed == Spec => []TypeOK
<1> QED
  BY InitTyped, NextTyped, PTL DEF Spec

-----------------------------------------------------------------------------
(***************************************************************************)
(* Steps that neither touch the catalogue nor leave an edit behind that    *)
(* was not there keep the invariant of the slugs.                          *)
(***************************************************************************)
LEMMA OtherSteps ==
    ASSUME SlugInv, UNCHANGED <<slug, past>>,
           \A v \in Workers : req'[v].pc = "edit" => req'[v] = req[v]
    PROVE  SlugInv'
BY DEF SlugInv, SlugKept, EditsKeep, past, Listed, At

(***************************************************************************)
(* Every step keeps the invariant of the slugs.                            *)
(***************************************************************************)
LEMMA SlugStep == TypeOK /\ SlugInv /\ [Next]_vars => SlugInv'
<1> SUFFICES ASSUME TypeOK, SlugInv, [Next]_vars PROVE SlugInv'
  OBVIOUS
<1>0. \A w \in Workers : req[w] \in Request
  BY DEF TypeOK
<1>1. ASSUME UNCHANGED <<slug, past>>, NEW w \in Workers, NEW r \in Request,
             req' = [req EXCEPT ![w] = r], r.pc # "edit"
      PROVE  SlugInv'
  BY <1>1, OtherSteps DEF TypeOK
<1>2. ASSUME NEW w \in Workers, NEW p \in Phones, EnsureHouseSeller(w, p) PROVE SlugInv'
  BY <1>2, OtherSteps DEF EnsureHouseSeller, tables, TypeOK
<1>3. ASSUME NEW w \in Workers, CreateHouse(w) PROVE SlugInv'
  <2>1. req[w].pc = "house"
    BY <1>3 DEF CreateHouse, At
  <2>2. \A v \in Workers : req'[v].pc = "edit" => req'[v] = req[v]
    BY <1>0, <1>3, <2>1, HouseMoves, IdleFacts DEF CreateHouse, Finish, TypeOK
  <2> QED
    BY <1>3, <2>2, OtherSteps DEF CreateHouse
<1>4. ASSUME NEW w \in Workers, GetReferralLock(w) PROVE SlugInv'
  BY <1>4, OtherSteps DEF GetReferralLock, GoOn, tables, TypeOK
<1>5. ASSUME NEW w \in Workers, LockPhone(w) PROVE SlugInv'
  <2>1. req[w].pc = "lock" /\ req[w].phone \in Phones
    BY <1>0, <1>5, RequestFacts DEF LockPhone, At
  <2>2. CASE req' = [Overtaken(req[w].phone) EXCEPT ![w] = [req[w] EXCEPT !.pc = "order"]]
    <3>1. \A v \in Workers : Overtaken(req[w].phone)[v].pc = "edit"
                                => Overtaken(req[w].phone)[v] = req[v]
      BY <2>1, OvertakenFacts
    <3>2. Overtaken(req[w].phone) \in [Workers -> Request]
      BY <2>1, OvertakenFacts
    <3>3. \A v \in Workers : req'[v].pc = "edit" => req'[v] = req[v]
      BY <1>0, <2>1, <2>2, <3>1, <3>2, LockMoves
    <3> QED
      BY <1>5, <3>3, OtherSteps DEF LockPhone
  <2>3. CASE GoOn(w, "order", req[w].affiliate, TRUE)
    BY <1>5, <2>3, OtherSteps DEF LockPhone, GoOn, TypeOK
  <2> QED
    BY <1>5, <2>2, <2>3 DEF LockPhone
<1>6. ASSUME NEW p \in Phones, RegisterCustomer(p) PROVE SlugInv'
  <2>1. \A v \in Workers : req'[v].pc = "edit" => req'[v] = req[v]
    BY <1>6, OvertakenFacts DEF RegisterCustomer
  <2> QED
    BY <1>6, <2>1, OtherSteps DEF RegisterCustomer
<1>7. ASSUME NEW w \in Workers, PlaceOrder(w) \/ Abort(w) PROVE SlugInv'
  <2>1. UNCHANGED <<slug, past>> /\ req' = [req EXCEPT ![w] = Idle]
    BY <1>7 DEF PlaceOrder, Abort, Finish, tables
  <2> QED
    BY <1>1, <2>1, IdleFacts
<1>8. ASSUME UNCHANGED <<slug, past, req>> PROVE SlugInv'
  BY <1>8, OtherSteps
<1>9. ASSUME NEW p \in Phones, CreateOrder(p) PROVE SlugInv'
  BY <1>8, <1>9 DEF CreateOrder
<1>10. ASSUME NEW o \in Orders, DeleteOrder(o) PROVE SlugInv'
  BY <1>8, <1>10 DEF DeleteOrder
<1>11. ASSUME NEW u \in Accounts, AdminSetRole(u) \/ DeleteUser(u) PROVE SlugInv'
  BY <1>8, <1>11 DEF AdminSetRole, DeleteUser
<1>12. ASSUME NEW w \in Workers, NEW g \in Products, EditProduct(w, g) PROVE SlugInv'
  <2>1. PICK s \in Slugs, failed \in BOOLEAN :
           /\ failed \/ s = slug[g]
           /\ req' = [req EXCEPT ![w] = [pc |-> "edit", product |-> g, slug |-> s,
                                         late |-> failed]]
    BY <1>12 DEF EditProduct
  <2>2. UNCHANGED <<slug, past>>
    BY <1>12 DEF EditProduct, tables
  <2>3. \A v \in Workers : \/ v # w /\ req'[v] = req[v]
                           \/ /\ v = w /\ req'[v].product = g /\ req'[v].slug = s
                              /\ req'[v].late = failed
    BY <2>1 DEF TypeOK
  <2> QED
    BY <2>1, <2>2, <2>3 DEF SlugInv, SlugKept, EditsKeep, past, Listed, At
<1>13. ASSUME NEW w \in Workers, UpdateProduct(w) PROVE SlugInv'
  <2>1. PICK g \in Products, s \in Slugs, b \in BOOLEAN :
           g = req[w].product /\ s = req[w].slug /\ b = req[w].late
    BY <1>0, <1>13, RequestFacts DEF UpdateProduct, At
  <2>2. \A v \in Workers : req'[v] = req[v] \/ req'[v].pc = "idle"
    BY <1>13, IdleFacts DEF UpdateProduct, Finish, TypeOK
  <2>3. \A h \in Products \ {g} : slug'[h] = slug[h]
    BY <1>13, <2>1 DEF UpdateProduct, TypeOK
  <2>4. asked' = asked /\ reverted \subseteq reverted'
    BY <1>13, <2>1 DEF UpdateProduct
  <2>5. \/ slug'[g] = slug[g]
        \/ slug'[g] = s /\ Listed(g) /\ (b => g \in reverted')
    BY <1>13, <2>1 DEF UpdateProduct, TypeOK
  <2>6. Listed(g) /\ ~b => s = asked[g] \/ g \in reverted
    BY <1>13, <2>1 DEF SlugInv, EditsKeep, UpdateProduct, At
  <2>7. SlugKept'
    BY <2>1, <2>3, <2>4, <2>5, <2>6 DEF SlugInv, SlugKept
  <2>8. \A h \in Products : Listed(h)' => Listed(h)
    BY <2>3, <2>5 DEF Listed
  <2>9. ASSUME NEW v \in Workers, req'[v].pc = "edit", ~req'[v].late,
               slug'[req'[v].product] # NoSlug
        PROVE  req'[v].slug = asked'[req'[v].product] \/ req'[v].product \in reverted'
    <3>1. req'[v] = req[v] /\ req[v].product \in Products
      BY <1>0, <2>2, <2>9, RequestFacts
    <3>2. Listed(req[v].product)
      BY <2>8, <2>9, <3>1 DEF Listed
    <3> QED
      BY <2>4, <2>9, <3>1, <3>2 DEF SlugInv, EditsKeep, At
  <2>10. EditsKeep'
    BY <2>9 DEF EditsKeep, At, Listed
  <2> QED
    BY <2>7, <2>10 DEF SlugInv
<1>14. ASSUME NEW g \in Products, CreateProduct(g) PROVE SlugInv'
  <2>1. PICK s \in Slugs : /\ slug' = [slug EXCEPT ![g] = s]
                           /\ asked' = [asked EXCEPT ![g] = s]
                           /\ UNCHANGED <<reverted, req>>
    BY <1>14 DEF CreateProduct
  <2>2. \A w \in Workers : req[w].pc = "edit" => req[w].product \in Products \ {g}
    BY <1>0, <1>14, RequestFacts DEF CreateProduct, At
  <2> QED
    BY <2>1, <2>2 DEF SlugInv, SlugKept, EditsKeep, Listed, At, TypeOK
<1>15. ASSUME NEW g \in Products, RenameProduct(g) PROVE SlugInv'
  <2>1. PICK s \in Slugs : /\ slug' = [slug EXCEPT ![g] = s]
                           /\ asked' = [asked EXCEPT ![g] = s]
    BY <1>15 DEF RenameProduct
  <2>2. reverted' = reverted \ {g}
    BY <1>15 DEF RenameProduct
  <2>3. ASSUME NEW v \in Workers, req'[v].pc = "edit", ~req'[v].late
        PROVE  req'[v] = req[v] /\ req[v].product \in Products \ {g}
    BY <1>0, <1>15, <2>3, LateMoves, RequestFacts DEF RenameProduct, At
  <2>4. SlugKept'
    BY <2>1, <2>2 DEF SlugInv, SlugKept, TypeOK
  <2>5. \A h \in Products \ {g} : slug'[h] = slug[h] /\ asked'[h] = asked[h]
    BY <2>1 DEF TypeOK
  <2>6. EditsKeep'
    BY <2>2, <2>3, <2>5 DEF SlugInv, EditsKeep, Listed, At
  <2> QED
    BY <2>4, <2>6 DEF SlugInv
<1>16. ASSUME NEW g \in Products, DeleteProduct(g) PROVE SlugInv'
  <2>1. /\ slug' = [slug EXCEPT ![g] = NoSlug] /\ asked' = [asked EXCEPT ![g] = NoSlug]
        /\ reverted' = reverted \ {g} /\ req' = req
    BY <1>16 DEF DeleteProduct
  <2>2. \A w \in Workers : req[w].pc = "edit" => req[w].product \in Products
    BY <1>0, RequestFacts
  <2> QED
    BY <2>1, <2>2 DEF SlugInv, SlugKept, EditsKeep, Listed, At, TypeOK
<1>17. CASE UNCHANGED vars
  BY <1>8, <1>17 DEF vars, tables
<1> QED
  BY <1>2, <1>3, <1>4, <1>5, <1>6, <1>7, <1>9, <1>10, <1>11, <1>12, <1>13, <1>14, <1>15,
     <1>16, <1>17 DEF Next

(***************************************************************************)
(* A product keeps the slug an administrator gave it, unless an edit wrote *)
(* one that it had read too early or could not read.                       *)
(***************************************************************************)
THEOREM SlugsKept == Spec => []SlugKept
<1>1. Init => SlugInv
  BY DEF Init, SlugInv, SlugKept, EditsKeep, At, Idle
<1>2. SlugInv => SlugKept
  BY DEF SlugInv
<1> QED
  BY <1>1, <1>2, SlugStep, Typed, PTL DEF Spec
-----------------------------------------------------------------------------
(***************************************************************************)
(* The locks and the roles stay, and every checkout that is not late was   *)
(* one before.                                                             *)
(***************************************************************************)
LEMMA OtherCheckouts ==
    ASSUME Checkouts, UNCHANGED <<role, lock>>,
           \A v \in Workers : req'[v].pc \in {"lock", "order"} => req'[v] = req[v] \/ req'[v].late
    PROVE  Checkouts'
BY DEF Checkouts, At, Credit

(***************************************************************************)
(* The locks stay, and so do the orders, or they disappear.                *)
(***************************************************************************)
LEMMA OtherOrders ==
    ASSUME FirstTouchKept, HouseSells, UNCHANGED lock,
           \A o \in Placed' : o \in Placed /\ order'[o] = order[o]
    PROVE  FirstTouchKept' /\ HouseSells'
BY DEF FirstTouchKept, HouseSells, Credit

(***************************************************************************)
(* A lock that is written changes nothing for the orders: those that had   *)
(* found one keep it, the others credit nobody.                            *)
(***************************************************************************)
LEMMA LockedOrders ==
    ASSUME TypeOK, FirstTouchKept, HouseSells, UNCHANGED order,
           NEW p \in Phones, NEW a \in Accounts, SetReferralLockIfAbsent(p, a)
    PROVE  FirstTouchKept' /\ HouseSells'
<1>1. Placed' = Placed /\ \A o \in Placed : order[o] \in OrderRecord
  BY PlacedFacts DEF Placed
<1>2. \A o \in Placed : lock[order[o].phone] # NoOne
         => lock'[order[o].phone] = lock[order[o].phone]
  BY <1>1, LockFacts DEF OrderRecord
<1>3. \A o \in Placed : order[o].online /\ order[o].locked /\ ~order[o].late
         => lock'[order[o].phone] = lock[order[o].phone]
  BY <1>2 DEF HouseSells
<1> QED
  BY <1>1, <1>3 DEF FirstTouchKept, HouseSells, Credit

(***************************************************************************)
(* A lock that is written makes the checkouts that it overtakes late.      *)
(***************************************************************************)
LEMMA LockedCheckouts ==
    ASSUME TypeOK, Checkouts, UNCHANGED role,
           NEW p \in Phones, NEW a \in Accounts, SetReferralLockIfAbsent(p, a),
           NEW v \in Workers, NEW r, r = Overtaken(p)[v]
    PROVE  /\ r.pc = "lock" /\ ~r.late => lock'[r.phone] = NoOne
           /\ r.pc = "order" /\ ~r.late =>
                 \/ r.affiliate = Credit(lock'[r.phone])
                 \/ r.affiliate \in Affiliates /\ role'[r.affiliate] = "none"
<1> SUFFICES ASSUME r.pc \in {"lock", "order"}, ~r.late
             PROVE  /\ r.pc = "lock" => lock'[r.phone] = NoOne
                    /\ r.pc = "order" =>
                          \/ r.affiliate = Credit(lock'[r.phone])
                          \/ r.affiliate \in Affiliates /\ role'[r.affiliate] = "none"
  OBVIOUS
<1>0. \/ r = req[v] /\ (lock' = lock \/ r.pc \notin {"lock", "order"} \/ r.phone # p)
      \/ r.late = TRUE
  BY OvertakenFacts
<1>1. r = req[v] /\ (lock' = lock \/ r.phone # p)
  BY <1>0
<1>2. r.phone \in Phones
  BY <1>1, RequestFacts DEF TypeOK
<1>3. lock'[r.phone] = lock[r.phone]
  BY <1>1, <1>2, LockFacts
<1> QED
  BY <1>1, <1>3 DEF Checkouts, At

(***************************************************************************)
(* An order that is created by someone but the shop, or by the shop as the *)
(* checkout knows it.                                                      *)
(***************************************************************************)
LEMMA CreatedOrders ==
    ASSUME TypeOK, FirstTouchKept, HouseSells, UNCHANGED lock,
           NEW p \in Phones, NEW u \in Accounts, NEW a \in Accounts \cup {NoOne},
           NEW online \in BOOLEAN, NEW late \in BOOLEAN,
           CreateSalesOrder(p, u, a, online, late),
           online => /\ u = House
                     /\ late \/ (a = Credit(lock[p])) \/ (a \in Affiliates /\ role[a] = "none")
    PROVE  FirstTouchKept' /\ HouseSells'
<1>1. PICK n \in Orders :
         /\ \A o \in Orders \ {n} : order'[o] = order[o]
         /\ order'[n].phone = p /\ order'[n].seller = u /\ order'[n].affiliate = a
         /\ order'[n].online = online /\ order'[n].late = late
         /\ order'[n].locked = (lock[p] # NoOne)
  BY OrderFacts
<1>2. online /\ ~late => a = Credit(lock[p])
  BY DEF CreateSalesOrder
<1>3. Credit(NoOne) = NoOne
  BY DEF Credit
<1>4. order'[n].online /\ ~order'[n].late
         => order'[n].affiliate = IF order'[n].locked THEN Credit(lock[order'[n].phone]) ELSE NoOne
  BY <1>1, <1>2, <1>3
<1>5. \A o \in Placed' : o # n => o \in Placed /\ order'[o] = order[o]
  BY <1>1 DEF Placed
<1>6. FirstTouchKept'
  BY <1>4, <1>5 DEF FirstTouchKept, Credit
<1>7. HouseSells'
  BY <1>1, <1>5 DEF HouseSells
<1> QED
  BY <1>6, <1>7

(***************************************************************************)
(* The account that is deleted takes its locks with it.  No order refers   *)
(* to it, hence no online order of the affiliate's numbers, nor any online *)
(* order at all if it is the house account.                                *)
(***************************************************************************)
LEMMA DeletedUsers ==
    ASSUME TypeOK, TouchInv, NEW u \in Accounts, DeleteUser(u)
    PROVE  TouchInv'
<1>1. /\ \A p \in Phones : lock'[p] = IF lock[p] = u THEN NoOne ELSE lock[p]
      /\ \A x \in Accounts : role'[x] = IF x = u THEN "none" ELSE role[x]
      /\ order' = order /\ req' = req /\ Placed' = Placed
      /\ \A o \in Placed : order[o].seller # u /\ order[o].affiliate # u
  BY DEF DeleteUser, TypeOK, Placed
<1>2. \A o \in Placed : order[o].phone \in Phones
  BY PlacedFacts DEF OrderRecord
<1>3. ASSUME NEW o \in Placed, order[o].online, ~order[o].late, order[o].locked
      PROVE  lock'[order[o].phone] = lock[order[o].phone]
  <2>1. order[o].seller = House /\ order[o].affiliate = Credit(lock[order[o].phone])
    BY <1>3 DEF TouchInv, HouseSells, FirstTouchKept
  <2>2. lock[order[o].phone] # u
    BY <1>1, <2>1 DEF Credit
  <2> QED
    BY <1>1, <1>2, <2>2
<1>4. FirstTouchKept' /\ HouseSells'
  BY <1>1, <1>3 DEF TouchInv, FirstTouchKept, HouseSells, Credit
<1>5. ASSUME NEW w \in Workers, req[w].pc = "lock", ~req[w].late
      PROVE  lock'[req[w].phone] = NoOne
  <2>1. req[w].phone \in Phones /\ lock[req[w].phone] = NoOne
    BY <1>5, RequestFacts DEF TypeOK, TouchInv, Checkouts, At
  <2> QED
    BY <1>1, <2>1
<1>6. ASSUME NEW w \in Workers, req[w].pc = "order", ~req[w].late
      PROVE  \/ req[w].affiliate = Credit(lock'[req[w].phone])
             \/ req[w].affiliate \in Affiliates /\ role'[req[w].affiliate] = "none"
  <2>1. PICK p \in Phones, a \in Affiliates \cup {NoOne} :
           p = req[w].phone /\ a = req[w].affiliate
    BY <1>6, RequestFacts DEF TypeOK
  <2>2. a = Credit(lock[p]) \/ (a \in Affiliates /\ role[a] = "none")
    BY <1>6, <2>1 DEF TouchInv, Checkouts, At
  <2>3. a \in Affiliates => a \in Accounts
    BY DEF Accounts
  <2>4. CASE a \in Affiliates /\ role[a] = "none"
    BY <1>1, <2>1, <2>3, <2>4
  <2>5. CASE a = Credit(lock[p]) /\ lock[p] # u
    BY <1>1, <2>1, <2>5
  <2>6. CASE a = Credit(lock[p]) /\ lock[p] = u
    <3>1. lock'[p] = NoOne /\ Credit(lock'[p]) = NoOne
      BY <1>1, <2>6 DEF Credit
    <3>2. CASE u = House
      BY <2>1, <2>6, <3>1, <3>2 DEF Credit
    <3>3. CASE u # House
      <4>1. a = u /\ u \in Affiliates
        BY <2>6, <3>3 DEF Credit, Accounts
      <4> QED
        BY <1>1, <2>1, <4>1
    <3> QED
      BY <3>2, <3>3
  <2> QED
    BY <2>2, <2>4, <2>5, <2>6
<1>7. Checkouts'
  BY <1>1, <1>5, <1>6 DEF Checkouts, At
<1> QED
  BY <1>4, <1>7 DEF TouchInv
(***************************************************************************)
(* Every step keeps the first touch.                                       *)
(***************************************************************************)
LEMMA TouchStep == TypeOK /\ TouchInv /\ [Next]_vars => TouchInv'
<1> SUFFICES ASSUME TypeOK, TouchInv, [Next]_vars PROVE TouchInv'
  OBVIOUS
<1>0. \A w \in Workers : req[w] \in Request
  BY DEF TypeOK
<1>1. ASSUME UNCHANGED <<role, lock, order>>,
             \A v \in Workers : req'[v].pc \in {"lock", "order"}
                                   => req'[v] = req[v] \/ req'[v].late
      PROVE  TouchInv'
  BY <1>1, OtherCheckouts, OtherOrders DEF TouchInv, Placed
<1>2. ASSUME UNCHANGED <<role, lock, order>>, NEW w \in Workers, NEW r \in Request,
             req' = [req EXCEPT ![w] = r], r.pc \in {"lock", "order"} => r.late
      PROVE  TouchInv'
  <2>1. \A v \in Workers : req'[v] = IF v = w THEN r ELSE req[v]
    BY <1>2 DEF TypeOK
  <2> QED
    BY <1>1, <1>2, <2>1
<1>3. ASSUME NEW w \in Workers, NEW p \in Phones, EnsureHouseSeller(w, p) PROVE TouchInv'
  <2>1. [pc |-> "house", phone |-> p] \in Request /\ [pc |-> "look", phone |-> p] \in Request
    BY DEF Request
  <2> QED
    BY <1>2, <1>3, <2>1 DEF EnsureHouseSeller, tables
<1>4. ASSUME NEW w \in Workers, CreateHouse(w) PROVE TouchInv'
  <2>1. \A a \in Affiliates : role'[a] = role[a]
    BY <1>4 DEF CreateHouse, TypeOK, Accounts
  <2>2. \A v \in Workers : req'[v].pc \in {"lock", "order"} => req'[v] = req[v]
    BY <1>0, <1>4, HouseMoves, IdleFacts DEF CreateHouse, At, Finish, TypeOK
  <2>3. UNCHANGED <<lock, order>>
    BY <1>4 DEF CreateHouse
  <2>4. Checkouts'
    BY <2>1, <2>2, <2>3 DEF TouchInv, Checkouts, At, Credit
  <2> QED
    BY <2>3, <2>4, OtherOrders DEF TouchInv, Placed
<1>5. ASSUME NEW w \in Workers, GetReferralLock(w) PROVE TouchInv'
  <2>1. PICK p \in Phones : req[w].phone = p
    BY <1>0, <1>5, RequestFacts DEF GetReferralLock, At
  <2>2. PICK pc \in {"lock", "order"}, a \in Affiliates \cup {NoOne}, late \in BOOLEAN :
           /\ \A v \in Workers : req'[v] =
                 IF v = w THEN [pc |-> pc, phone |-> p, affiliate |-> a, late |-> late] ELSE req[v]
           /\ pc = "lock" => lock[p] = NoOne
           /\ pc = "order" => late \/ a = Credit(lock[p])
    <3>1. CASE lock[p] # NoOne /\ GoOn(w, "order", Credit(lock[p]), FALSE)
      <4>1. Credit(lock[p]) \in Affiliates \cup {NoOne}
        BY <3>1 DEF TypeOK, Accounts, Credit
      <4> QED
        BY <2>1, <3>1, <4>1 DEF GoOn, TypeOK
    <3>2. CASE lock[p] = NoOne /\ GoOn(w, "order", NoOne, FALSE)
      BY <2>1, <3>2 DEF GoOn, TypeOK, Credit
    <3>3. ASSUME NEW a \in Affiliates, lock[p] = NoOne, GoOn(w, "lock", a, FALSE)
          PROVE  \A v \in Workers : req'[v] =
                 IF v = w THEN [pc |-> "lock", phone |-> p, affiliate |-> a, late |-> FALSE]
                          ELSE req[v]
      BY <2>1, <3>3 DEF GoOn, TypeOK
    <3>4. CASE GoOn(w, "order", NoOne, TRUE)
      BY <2>1, <3>4 DEF GoOn, TypeOK
    <3> QED
      BY <1>5, <2>1, <3>1, <3>2, <3>3, <3>4 DEF GetReferralLock
  <2>3. UNCHANGED <<role, lock, order>>
    BY <1>5 DEF GetReferralLock, tables
  <2>4. Checkouts'
    BY <2>2, <2>3 DEF TouchInv, Checkouts, At, Credit
  <2> QED
    BY <2>3, <2>4, OtherOrders DEF TouchInv, Placed
<1>6. ASSUME NEW w \in Workers, LockPhone(w) PROVE TouchInv'
  <2>1. PICK p \in Phones, a \in Affiliates :
           req[w].phone = p /\ req[w].affiliate = a /\ a \in Accounts /\ req[w].pc = "lock"
    BY <1>0, <1>6, RequestFacts DEF LockPhone, At, Accounts
  <2>2. UNCHANGED <<role, order>>
    BY <1>6 DEF LockPhone
  <2>3. CASE /\ SetReferralLockIfAbsent(p, a)
             /\ req' = [Overtaken(p) EXCEPT ![w] = [req[w] EXCEPT !.pc = "order"]]
    <3>1. \A v \in Workers : req'[v] = IF v = w THEN [req[w] EXCEPT !.pc = "order"]
                                                ELSE Overtaken(p)[v]
      BY <2>3, OvertakenFacts
    <3>2. /\ req'[w].pc = "order" /\ req'[w].phone = p /\ req'[w].affiliate = a
          /\ req'[w].late = req[w].late
      BY <1>0, <2>1, <3>1, LockMoves
    <3>3. ~req[w].late => lock'[p] = (IF role[a] # "none" THEN a ELSE NoOne)
      BY <2>1, <2>3, LockFacts DEF TouchInv, Checkouts, At
    <3>4. ASSUME NEW v \in Workers
          PROVE  /\ req'[v].pc = "lock" /\ ~req'[v].late => lock'[req'[v].phone] = NoOne
                 /\ req'[v].pc = "order" /\ ~req'[v].late =>
                       \/ req'[v].affiliate = Credit(lock'[req'[v].phone])
                       \/ req'[v].affiliate \in Affiliates /\ role'[req'[v].affiliate] = "none"
      <4>1. CASE v = w
        BY <2>1, <2>2, <3>2, <3>3, <4>1 DEF Credit
      <4>2. CASE v # w
        BY <2>1, <2>2, <2>3, <3>1, <4>2, LockedCheckouts DEF TouchInv
      <4> QED
        BY <4>1, <4>2
    <3>5. Checkouts'
      BY <3>4 DEF Checkouts, At
    <3> QED
      BY <2>1, <2>2, <2>3, <3>5, LockedOrders DEF TouchInv
  <2>4. CASE UNCHANGED lock /\ GoOn(w, "order", a, TRUE)
    <3>1. [pc |-> "order", phone |-> p, affiliate |-> a, late |-> TRUE] \in Request
      BY DEF Request
    <3> QED
      BY <1>2, <2>1, <2>2, <2>4, <3>1 DEF GoOn
  <2> QED
    BY <1>6, <2>1, <2>3, <2>4 DEF LockPhone
<1>7. ASSUME NEW p \in Phones, RegisterCustomer(p) PROVE TouchInv'
  <2>1. PICK a \in Accounts : SetReferralLockIfAbsent(p, a)
    BY <1>7 DEF RegisterCustomer
  <2>2. UNCHANGED <<role, order>> /\ req' = Overtaken(p)
    BY <1>7 DEF RegisterCustomer
  <2>3. ASSUME NEW v \in Workers
        PROVE  /\ req'[v].pc = "lock" /\ ~req'[v].late => lock'[req'[v].phone] = NoOne
               /\ req'[v].pc = "order" /\ ~req'[v].late =>
                     \/ req'[v].affiliate = Credit(lock'[req'[v].phone])
                     \/ req'[v].affiliate \in Affiliates /\ role'[req'[v].affiliate] = "none"
    BY <2>1, <2>2, LockedCheckouts DEF TouchInv
  <2>4. Checkouts'
    BY <2>3 DEF Checkouts, At
  <2> QED
    BY <2>1, <2>2, <2>4, LockedOrders DEF TouchInv
<1>8. ASSUME NEW w \in Workers, PlaceOrder(w) PROVE TouchInv'
  <2>1. PICK p \in Phones, a \in Affiliates \cup {NoOne}, late \in BOOLEAN :
           req[w].phone = p /\ req[w].affiliate = a /\ req[w].late = late
    BY <1>0, <1>8, RequestFacts DEF PlaceOrder, At
  <2>2. CreateSalesOrder(p, House, a, TRUE, late)
    BY <1>8, <2>1 DEF PlaceOrder
  <2>3. late \/ (a = Credit(lock[p])) \/ (a \in Affiliates /\ role[a] = "none")
    BY <1>8, <2>1 DEF PlaceOrder, TouchInv, Checkouts, At
  <2>4. UNCHANGED <<role, lock>> /\ req' = [req EXCEPT ![w] = Idle]
    BY <1>8 DEF PlaceOrder, Finish
  <2>5. House \in Accounts /\ a \in Accounts \cup {NoOne}
    BY DEF Accounts
  <2>6. FirstTouchKept' /\ HouseSells'
    BY <2>2, <2>3, <2>4, <2>5, CreatedOrders DEF TouchInv
  <2>7. Checkouts'
    BY <2>4, IdleFacts, OtherCheckouts DEF TouchInv, TypeOK
  <2> QED
    BY <2>6, <2>7 DEF TouchInv
<1>9. ASSUME NEW p \in Phones, CreateOrder(p) PROVE TouchInv'
  <2>1. PICK u \in Accounts, a \in Accounts \cup {NoOne} : CreateSalesOrder(p, u, a, FALSE, FALSE)
    BY <1>9 DEF CreateOrder
  <2>2. UNCHANGED <<role, lock, req>>
    BY <1>9 DEF CreateOrder
  <2> QED
    BY <2>1, <2>2, CreatedOrders, OtherCheckouts DEF TouchInv
<1>10. ASSUME NEW o \in Orders, DeleteOrder(o) PROVE TouchInv'
  <2>1. UNCHANGED <<role, lock, req>>
    BY <1>10 DEF DeleteOrder
  <2>2. \A n \in Placed' : n \in Placed /\ order'[n] = order[n]
    BY <1>10 DEF DeleteOrder, Placed, TypeOK
  <2> QED
    BY <2>1, <2>2, OtherOrders, OtherCheckouts DEF TouchInv
<1>11. ASSUME NEW u \in Accounts, AdminSetRole(u) PROVE TouchInv'
  <2>1. UNCHANGED <<lock, order, req>>
    BY <1>11 DEF AdminSetRole
  <2>2. \A a \in Affiliates : role[a] = "none" => role'[a] = "none"
    BY <1>11 DEF AdminSetRole, TypeOK
  <2>3. Checkouts'
    BY <2>1, <2>2 DEF TouchInv, Checkouts, At, Credit
  <2> QED
    BY <2>1, <2>3, OtherOrders DEF TouchInv, Placed
<1>12. ASSUME NEW w \in Workers, NEW g \in Products, EditProduct(w, g) PROVE TouchInv'
  <2>1. \A s \in Slugs, b \in BOOLEAN :
           [pc |-> "edit", product |-> g, slug |-> s, late |-> b] \in Request
    BY DEF Request
  <2> QED
    BY <1>2, <1>12, <2>1 DEF EditProduct, tables
<1>13. ASSUME NEW w \in Workers, UpdateProduct(w) \/ Abort(w) PROVE TouchInv'
  <2>1. UNCHANGED <<role, lock, order>> /\ req' = [req EXCEPT ![w] = Idle]
    BY <1>13 DEF UpdateProduct, Abort, Finish, tables
  <2> QED
    BY <1>2, <2>1, IdleFacts
<1>14. ASSUME NEW g \in Products, RenameProduct(g) PROVE TouchInv'
  <2>1. \A v \in Workers : req'[v].pc \in {"lock", "order"} => req'[v] = req[v]
    BY <1>0, <1>14, LateMoves DEF RenameProduct, At
  <2> QED
    BY <1>1, <1>14, <2>1 DEF RenameProduct
<1>15. ASSUME NEW g \in Products, CreateProduct(g) \/ DeleteProduct(g) PROVE TouchInv'
  BY <1>1, <1>15 DEF CreateProduct, DeleteProduct
<1>16. CASE UNCHANGED vars
  BY <1>1, <1>16 DEF vars, tables
<1> QED
  BY <1>3, <1>4, <1>5, <1>6, <1>7, <1>8, <1>9, <1>10, <1>11, <1>12, <1>13, <1>14, <1>15,
     <1>16, DeletedUsers DEF Next

(***************************************************************************)
(* First touch: an online order credits the affiliate its number is locked *)
(* to, unless its checkout was overtaken or a query of it failed.          *)
(***************************************************************************)
THEOREM FirstTouchesKept == Spec => []FirstTouchKept
<1>1. Init => TouchInv
  BY DEF Init, TouchInv, FirstTouchKept, Checkouts, HouseSells, Placed, At, Idle
<1>2. TouchInv => FirstTouchKept
  BY DEF TouchInv
<1> QED
  BY <1>1, <1>2, TouchStep, Typed, PTL DEF Spec
=============================================================================
