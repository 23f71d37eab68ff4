-------------------------------- MODULE Shop --------------------------------
(***************************************************************************)
(* The web shop: the checkout without a login in service/checkout.go, the  *)
(* orders that salers and administrators enter (sales_orders.go), and the  *)
(* catalogue (sales.go).  A customer belongs to the affiliate of the first *)
(* link followed: table customer_referral_locks, by telephone number.  A   *)
(* worker is one HTTP request; each step is one statement, or one          *)
(* transaction that depends on nothing read before it.  What becomes of an *)
(* order is in OrderDividends.                                             *)
(***************************************************************************)
EXTENDS Naturals, FiniteSets

CONSTANTS Affiliates,
          House,        \* the account online@duoclieuhk.vn
          Phones, Products, Slugs, Orders, Workers,
          NoOne, NoSlug

ASSUME ShopAssumption ==
    /\ House \notin Affiliates /\ NoOne \notin Affiliates \cup {House}
    /\ NoSlug \notin Slugs

VARIABLES role,     \* users.role: "none" without a row, "other" for any role but saler
          lock,     \* customer_referral_locks.referrer_id
          order,    \* sales_orders; history: locked, late (see CreateSalesOrder)
          slug,     \* products.slug; NoSlug without a row
          asked,    \* history: the slug an administrator gave last
          reverted, \* history: products whose slug an overtaken or failed read has written
          req       \* what each worker is doing

tables == <<role, lock, order, slug>>
past   == <<asked, reverted>>
vars   == <<tables, past, req>>

Accounts == Affiliates \cup {House}
Idle     == [pc |-> "idle"]
NoOrder  == [phone |-> NoOne]

At(w, pc) == req[w].pc = pc
Finish(w) == req' = [req EXCEPT ![w] = Idle]
Placed    == {o \in Orders : order[o] # NoOrder}
Listed(g) == slug[g] # NoSlug
Taken(s, g) == \E h \in Products \ {g} : slug[h] = s

Request ==
    {Idle} \cup [pc : {"house", "look"}, phone : Phones]
           \cup [pc : {"lock"}, phone : Phones, affiliate : Affiliates, late : BOOLEAN]
           \cup [pc : {"order"}, phone : Phones, affiliate : Affiliates \cup {NoOne},
                 late : BOOLEAN]
           \cup [pc : {"edit"}, product : Products, slug : Slugs, late : BOOLEAN]

TypeOK ==
    /\ role \in [Accounts -> {"none", "saler", "other"}]
    /\ lock \in [Phones -> Accounts \cup {NoOne}]
    /\ order \in [Orders -> {NoOrder} \cup
                    [phone : Phones, seller : Accounts, affiliate : Accounts \cup {NoOne},
                     product : Products, online : BOOLEAN, locked : BOOLEAN, late : BOOLEAN]]
    /\ \A o \in Placed : order[o].affiliate # order[o].seller
    /\ slug \in [Products -> Slugs \cup {NoSlug}] /\ asked \in [Products -> Slugs \cup {NoSlug}]
    /\ reverted \subseteq Products
    /\ req \in [Workers -> Request]

Init ==
    /\ role = [u \in Accounts |-> IF u = House THEN "none" ELSE "saler"]
    /\ lock = [p \in Phones |-> NoOne]
    /\ order = [o \in Orders |-> NoOrder]
    /\ slug = [g \in Products |-> NoSlug] /\ asked = slug /\ reverted = {}
    /\ req = [w \in Workers |-> Idle]

-----------------------------------------------------------------------------
(***************************************************************************)
(* ensureHouseSeller: the account that sells online, by its setting or its *)
(* address, whatever role it has by now; it is created when it is missing, *)
(* which its address allows once.                                          *)
(***************************************************************************)
EnsureHouseSeller(w, p) ==
    /\ At(w, "idle")
    /\ req' = [req EXCEPT ![w] = [pc |-> IF role[House] = "none" THEN "house" ELSE "look",
                                  phone |-> p]]
    /\ UNCHANGED <<tables, past>>

CreateHouse(w) ==
    /\ At(w, "house")
    /\ IF role[House] = "none"
       THEN /\ role' = [role EXCEPT ![House] = "saler"]
            /\ req' = [req EXCEPT ![w].pc = "look"]
       ELSE Finish(w) /\ UNCHANGED role
    /\ UNCHANGED <<lock, order, slug, past>>

-----------------------------------------------------------------------------
(***************************************************************************)
(* The affiliate of a checkout: the one the number is locked to; without a *)
(* lock, the saler whose code the customer brings.  An error of the query  *)
(* is taken for no affiliate.                                              *)
(***************************************************************************)
Credit(a) == IF a = House THEN NoOne ELSE a

GoOn(w, pc, a, late) ==
    req' = [req EXCEPT ![w] = [pc |-> pc, phone |-> req[w].phone, affiliate |-> a, late |-> late]]

GetReferralLock(w) ==
    LET p == req[w].phone IN
    /\ At(w, "look")
    /\ \/ lock[p] # NoOne /\ GoOn(w, "order", Credit(lock[p]), FALSE)
       \/ lock[p] = NoOne /\ GoOn(w, "order", NoOne, FALSE)
       \/ \E a \in Affiliates :
             lock[p] = NoOne /\ role[a] = "saler" /\ GoOn(w, "lock", a, FALSE)
       \/ GoOn(w, "order", NoOne, TRUE)
    /\ UNCHANGED <<tables, past>>

\* mutant: ON CONFLICT DO UPDATE
SetReferralLock(p, a) == lock' = IF role[a] = "none" THEN lock ELSE [lock EXCEPT ![p] = a]

SetReferralLockIfAbsent(p, a) ==
    lock' = IF lock[p] = NoOne /\ role[a] # "none" THEN [lock EXCEPT ![p] = a] ELSE lock

\* The checkouts of p that have looked for a lock before it was written are late.
Overtaken(p) ==
    [v \in Workers |-> IF lock' # lock /\ req[v].pc \in {"lock", "order"} /\ req[v].phone = p
                       THEN [req[v] EXCEPT !.late = TRUE] ELSE req[v]]

LockPhone(w) ==
    LET p == req[w].phone IN
    /\ At(w, "lock")
    /\ \/ /\ SetReferralLockIfAbsent(p, req[w].affiliate)
          /\ req' = [Overtaken(p) EXCEPT ![w] = [req[w] EXCEPT !.pc = "order"]]
       \/ UNCHANGED lock /\ GoOn(w, "order", req[w].affiliate, TRUE)  \* its error is ignored
    /\ UNCHANGED <<role, order, slug, past>>

\* A customer who registers with a code locks the number as well.
RegisterCustomer(p) ==
    /\ \E a \in Accounts : role[a] = "saler" /\ SetReferralLockIfAbsent(p, a)
    /\ req' = Overtaken(p)
    /\ UNCHANGED <<role, order, slug, past>>

-----------------------------------------------------------------------------
(***************************************************************************)
(* CreateOrder: the seller has to be a saler; affiliate and product have   *)
(* to exist (foreign keys), or nothing is inserted.  The order notes       *)
(* whether its number was locked by then, and whether its checkout was     *)
(* late.                                                                   *)
(***************************************************************************)
CreateSalesOrder(p, seller, a, online, late) ==
    /\ role[seller] = "saler"
    /\ a # seller /\ (a # NoOne => role[a] # "none")
    /\ \E o \in Orders \ Placed, g \in Products :
          /\ Listed(g)
          /\ order' = [order EXCEPT ![o] =
                [phone |-> p, seller |-> seller, affiliate |-> a, product |-> g,
                 online |-> online, locked |-> lock[p] # NoOne, late |-> late]]

PlaceOrder(w) ==
    /\ At(w, "order")
    /\ CreateSalesOrder(req[w].phone, House, req[w].affiliate, TRUE, req[w].late)
    /\ Finish(w)
    /\ UNCHANGED <<role, lock, slug, past>>

\* Salers sell under their own name, administrators choose the seller.
CreateOrder(p) ==
    /\ \E u \in Accounts, a \in Accounts \cup {NoOne} : CreateSalesOrder(p, u, a, FALSE, FALSE)
    /\ UNCHANGED <<role, lock, slug, past, req>>

DeleteOrder(o) ==
    /\ order' = [order EXCEPT ![o] = NoOrder]
    /\ UNCHANGED <<role, lock, slug, past, req>>

AdminSetRole(u) ==
    /\ role[u] # "none"
    /\ \E r \in {"saler", "other"} : role' = [role EXCEPT ![u] = r]
    /\ UNCHANGED <<lock, order, slug, past, req>>

\* An account with orders stays; the others take their locks with them.
DeleteUser(u) ==
    /\ \A o \in Placed : u \notin {order[o].seller, order[o].affiliate}
    /\ role' = [role EXCEPT ![u] = "none"]
    /\ lock' = [p \in Phones |-> IF lock[p] = u THEN NoOne ELSE lock[p]]
    /\ UNCHANGED <<order, slug, past, req>>

-----------------------------------------------------------------------------
(***************************************************************************)
(* The catalogue.  A slug is unique; without one in the form, a new        *)
(* product's is made from its name.                                        *)
(***************************************************************************)
CreateProduct(g) ==
    /\ ~Listed(g) /\ \A w \in Workers : ~(At(w, "edit") /\ req[w].product = g)  \* a new id
    /\ \E s \in Slugs : /\ ~Taken(s, g)
                        /\ slug' = [slug EXCEPT ![g] = s]
                        /\ asked' = [asked EXCEPT ![g] = s]
    /\ UNCHANGED <<role, lock, order, reverted, req>>

\* mutant: an empty slug in the form is made anew from the name
EditRenamed(w, g) ==
    /\ At(w, "idle") /\ Listed(g)
    /\ \E s \in Slugs :
          req' = [req EXCEPT ![w] = [pc |-> "edit", product |-> g, slug |-> s, late |-> FALSE]]
    /\ UNCHANGED <<tables, past>>

(***************************************************************************)
(* UpdateProduct with an empty slug reads the present one first, outside   *)
(* the transaction; when that fails, it makes one from the name.           *)
(***************************************************************************)
EditProduct(w, g) ==
    /\ At(w, "idle") /\ Listed(g)
    /\ \E s \in Slugs, failed \in BOOLEAN :
          /\ failed \/ s = slug[g]
          /\ req' = [req EXCEPT ![w] = [pc |-> "edit", product |-> g, slug |-> s, late |-> failed]]
    /\ UNCHANGED <<tables, past>>

UpdateProduct(w) ==
    LET g == req[w].product IN
    /\ At(w, "edit")
    /\ IF Listed(g) /\ ~Taken(req[w].slug, g)
       THEN /\ slug' = [slug EXCEPT ![g] = req[w].slug]
            /\ reverted' = IF req[w].late THEN reverted \cup {g} ELSE reverted
       ELSE UNCHANGED <<slug, reverted>>
    /\ Finish(w)
    /\ UNCHANGED <<role, lock, order, asked>>

\* UpdateProduct with a slug: the reads of others are stale from now on.
RenameProduct(g) ==
    /\ Listed(g)
    /\ \E s \in Slugs : /\ ~Taken(s, g)
                        /\ slug' = [slug EXCEPT ![g] = s]
                        /\ asked' = [asked EXCEPT ![g] = s]
    /\ reverted' = reverted \ {g}
    /\ req' = [w \in Workers |-> IF At(w, "edit") /\ req[w].product = g
                                 THEN [req[w] EXCEPT !.late = TRUE] ELSE req[w]]
    /\ UNCHANGED <<role, lock, order>>

DeleteProduct(g) ==
    /\ \A o \in Placed : order[o].product # g
    /\ slug' = [slug EXCEPT ![g] = NoSlug] /\ asked' = [asked EXCEPT ![g] = NoSlug]
    /\ reverted' = reverted \ {g}
    /\ UNCHANGED <<role, lock, order, req>>

\* A crash, a lost connection or an error; also an order that is refused.
Abort(w) == ~At(w, "idle") /\ Finish(w) /\ UNCHANGED <<tables, past>>

Next ==
    \/ \E w \in Workers :
          \/ CreateHouse(w) \/ GetReferralLock(w) \/ LockPhone(w) \/ PlaceOrder(w)
          \/ UpdateProduct(w) \/ Abort(w)
          \/ \E p \in Phones : EnsureHouseSeller(w, p)
          \/ \E g \in Products : EditProduct(w, g)
    \/ \E p \in Phones : RegisterCustomer(p) \/ CreateOrder(p)
    \/ \E o \in Orders : DeleteOrder(o)
    \/ \E u \in Accounts : AdminSetRole(u) \/ DeleteUser(u)
    \/ \E g \in Products : CreateProduct(g) \/ RenameProduct(g) \/ DeleteProduct(g)

Spec == Init /\ [][Next]_vars

-----------------------------------------------------------------------------
(***************************************************************************)
(* First touch: an online order credits the affiliate its number is locked *)
(* to, and nobody when the number is free, unless its checkout had looked  *)
(* for the lock before somebody else wrote it, or one of its two queries   *)
(* failed.  Neither registrations nor deletions of accounts disturb that.  *)
(***************************************************************************)
FirstTouchKept ==
    \A o \in Placed :
        order[o].online /\ ~order[o].late
            => order[o].affiliate = IF order[o].locked THEN Credit(lock[order[o].phone]) ELSE NoOne

(***************************************************************************)
(* A product keeps the slug an administrator gave it, however it is edited *)
(* otherwise ("Giu slug cu khi admin khong nhap slug moi", so that indexed *)
(* addresses keep working), unless a new slug came between the read and    *)
(* the write of such an edit, or its read failed.                          *)
(***************************************************************************)
SlugKept == \A g \in Products : slug[g] = asked[g] \/ g \in reverted

-----------------------------------------------------------------------------
(***************************************************************************)
(* What the comments say and the code does not keep: TLC finds a           *)
(* counterexample when one of these is named in the configuration.         *)
(***************************************************************************)
(***************************************************************************)
(* "tu nay moi don cua SDT nay ve dung affiliate nay": every order of a    *)
(* number that is locked credits the affiliate of the lock.                *)
(***************************************************************************)
EveryOrderFirstTouch ==
    \A o \in Placed : order[o].locked => order[o].affiliate = Credit(lock[order[o].phone])

(***************************************************************************)
(* "khong vo URL SEO da index": a slug changes only when one is given.     *)
(***************************************************************************)
IndexedSlugs == slug = asked
=============================================================================
