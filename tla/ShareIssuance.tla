---------------------------- MODULE ShareIssuance ----------------------------
(***************************************************************************)
(* The SQL transactions behind investments, approvals, funding rounds and  *)
(* account deletion, statement by statement, as PostgreSQL runs them at    *)
(* READ COMMITTED (Store.ExecTx opens transactions with the default        *)
(* isolation level):                                                       *)
(*                                                                         *)
(*   - a statement reads the committed rows of the moment it starts;       *)
(*   - a row written, or read FOR UPDATE, stays locked until the end of    *)
(*     the transaction, and a writer of that row waits;                    *)
(*   - what a transaction writes is seen by others when it commits, so its *)
(*     writes are applied by its commit step, while every lock is taken by *)
(*     the statement that takes it;                                        *)
(*   - any error, the 30 s request timeout, the choice as a deadlock       *)
(*     victim or a crash rolls the whole transaction back.                 *)
(*                                                                         *)
(* A worker is one HTTP request being served.  A transaction whose only    *)
(* lock is taken by its first statement (Reconcile, Reject), or that is a  *)
(* single statement (DeclareTransfer), is one step.                        *)
(***************************************************************************)
EXTENDS Equity

CONSTANTS Workers,
          None,
          InvRound,     \* the round that the tier of an investment belongs to
          TotalShares,  \* offering.total_shares
          Referrer,     \* referrals: the direct referrer of an account, or None
          PaidLevels    \* the commission levels whose rate is not zero

ASSUME IssuanceAssumption ==
    /\ IsFiniteSet(Workers)
    /\ None \notin Users \cup Invs
    /\ Rounds = 1..Cardinality(Rounds) /\ Rounds # {}
    /\ InvRound \in [Invs -> Rounds]
    /\ TotalShares \in [Rounds -> Nat]
    /\ \A r \in Rounds : ForSale[r] <= TotalShares[r]
    /\ Referrer \in [Users -> Users \cup {None}]
    /\ \A u \in Users : Referrer[u] # u
    /\ PaidLevels \subseteq 1..3

VARIABLES users, status, declared, paid, ledger, holding, round, sold,
          pct,    \* the number of shares shareholdings.ownership_pct stands for
          comms,  \* rows of table commissions
          tx      \* the transaction each worker is running

tables == <<users, status, declared, paid, ledger, holding, round, sold, pct, comms>>
vars   == <<users, status, declared, paid, ledger, holding, round, sold, pct, comms, tx>>

Commission == [inv : Invs, level : 1..3, to : Users]

(***************************************************************************)
(* What can be locked.  The row <<"contracts", u>> stands for all contracts*)
(* of account u.  Inserting a ledger row takes ROW EXCLUSIVE on the table, *)
(* ALTER TABLE ... DISABLE TRIGGER takes SHARE ROW EXCLUSIVE: inserters do *)
(* not exclude each other, an alterer excludes everyone.                   *)
(***************************************************************************)
InvRow(i)      == <<"investments", i>>
RoundRow(r)    == <<"offering", r>>
HoldingRow(u)  == <<"shareholdings", u>>
ContractRow(u) == <<"contracts", u>>
LedgerInsert   == <<"share_ledger", "insert">>
LedgerAlter    == <<"share_ledger", "alter">>

Row == ({"investments"} \X Invs) \cup ({"offering"} \X Rounds)
         \cup ({"shareholdings", "contracts"} \X Users)
         \cup {LedgerInsert, LedgerAlter}

Idle == [pc |-> "idle", inv |-> None, acct |-> None, rnd |-> 0, prior |-> 0,
         locks |-> {}, want |-> {}, plan |-> [r \in Rounds |-> 0], cut |-> {}]

Approving == {"active", "capacity", "ledger", "prior", "upsert", "commit"}
Deleting  == {"alter", "invs", "pool"}

Free(w, row)   == \A v \in Workers \ {w} : row \notin tx[v].locks
Unlocked(row)  == \A v \in Workers : row \notin tx[v].locks
Finish(w)      == tx' = [tx EXCEPT ![w] = Idle]
Owner(w)       == InvUser[tx[w].inv]
Shares(w)      == InvShares[tx[w].inv]

(***************************************************************************)
(* GetActiveOffering: the oldest open round (rounds are numbered by their  *)
(* created_at).                                                            *)
(***************************************************************************)
OpenRounds     == {r \in Rounds : round[r] = "open"}
ActiveRound(r) == r \in OpenRounds /\ \A o \in OpenRounds : r <= o

Existing(u)    == {i \in InvsOf(u) : status[i] # "none"}

(***************************************************************************)
(* The referral row of an account is gone once it or its referrer is.      *)
(***************************************************************************)
ReferrerOf(u)  == IF u \in users /\ Referrer[u] \in users THEN Referrer[u] ELSE None

(***************************************************************************)
(* generateCommission climbs at most three referrals; it stops at the end  *)
(* of the chain and at anyone already met.                                 *)
(***************************************************************************)
ClimbBlindly(u, met) == ReferrerOf(u)     \* mutant: no cycle guard

Climb(u, met) == IF ReferrerOf(u) \in met THEN None ELSE ReferrerOf(u)

Upline(u) ==
    LET f1 == Climb(u, {u})
        f2 == Climb(f1, {u, f1})
        f3 == Climb(f2, {u, f1, f2})
    IN  <<f1, f2, f3>>

CommissionsToAnyone(i) ==                 \* mutant: the end of the chain is paid
    {[inv |-> i, level |-> n, to |-> Upline(InvUser[i])[n]] : n \in PaidLevels}

Commissions(i) ==
    LET up == Upline(InvUser[i]) IN
    {[inv |-> i, level |-> n, to |-> up[n]] : n \in {k \in PaidLevels : up[k] # None}}
-----------------------------------------------------------------------------
Init ==
    /\ users = Users
    /\ status = [i \in Invs |-> "none"]
    /\ declared = {} /\ paid = {} /\ ledger = {}
    /\ holding = [u \in Users |-> 0]
    /\ pct = [u \in Users |-> 0]
    /\ round = [r \in Rounds |-> IF r = 1 THEN "open" ELSE "none"]
    /\ sold = [r \in Rounds |-> 0]
    /\ comms = {}
    /\ tx = [w \in Workers |-> Idle]

(***************************************************************************)
(* SignAndCreateInvestment's transaction, at its commit: it holds the      *)
(* contract's row.  A contract can be signed although its tier belongs to  *)
(* a round that is closed by now.                                          *)
(***************************************************************************)
Create(i) ==
    /\ status[i] = "none"
    /\ InvUser[i] \in users
    /\ round[InvRound[i]] # "none"
    /\ Unlocked(ContractRow(InvUser[i]))
    /\ status' = [status EXCEPT ![i] = "pending"]
    /\ UNCHANGED <<users, declared, paid, ledger, holding, round, sold, pct, comms, tx>>

(***************************************************************************)
(* DeclareTransfer does not look at the status.                            *)
(***************************************************************************)
DeclareTransfer(i) ==
    /\ status[i] # "none"
    /\ i \notin declared
    /\ declared' = declared \cup {i}
    /\ UNCHANGED <<users, status, paid, ledger, holding, round, sold, pct, comms, tx>>

ReconcileAgain(i) ==                      \* mutant: no test of the status
    /\ Unlocked(InvRow(i))
    /\ i \in declared
    /\ i \notin paid
    /\ status' = [status EXCEPT ![i] = "reconciled"]
    /\ paid' = paid \cup {i}
    /\ UNCHANGED <<users, declared, ledger, holding, round, sold, pct, comms, tx>>

Reconcile(i) ==
    /\ Unlocked(InvRow(i))
    /\ status[i] = "pending"
    /\ i \in declared
    /\ i \notin paid
    /\ status' = [status EXCEPT ![i] = "reconciled"]
    /\ paid' = paid \cup {i}
    /\ UNCHANGED <<users, declared, ledger, holding, round, sold, pct, comms, tx>>

RejectAny(i) ==                           \* mutant: no test of the status
    /\ Unlocked(InvRow(i))
    /\ status[i] # "none"
    /\ status' = [status EXCEPT ![i] = "rejected"]
    /\ UNCHANGED <<users, declared, paid, ledger, holding, round, sold, pct, comms, tx>>

Reject(i) ==
    /\ Unlocked(InvRow(i))
    /\ status[i] \in {"pending", "reconciled"}
    /\ status' = [status EXCEPT ![i] = "rejected"]
    /\ UNCHANGED <<users, declared, paid, ledger, holding, round, sold, pct, comms, tx>>
-----------------------------------------------------------------------------
(***************************************************************************)
(* ApproveAndIssueShares.  GetInvestmentForUpdate and the checks on the    *)
(* status and the payment.                                                 *)
(***************************************************************************)
ApproveBegin(w, i) ==
    /\ tx[w].pc = "idle"
    /\ Unlocked(InvRow(i))
    /\ status[i] = "reconciled"
    /\ i \in paid
    /\ tx' = [tx EXCEPT ![w].pc = "active", ![w].inv = i, ![w].locks = {InvRow(i)}]
    /\ UNCHANGED tables

(***************************************************************************)
(* GetActiveOffering reads without a lock.                                 *)
(***************************************************************************)
ReadActive(w) ==
    /\ tx[w].pc = "active"
    /\ \E r \in Rounds : /\ ActiveRound(r)
                         /\ tx' = [tx EXCEPT ![w].pc = "capacity", ![w].rnd = r]
    /\ UNCHANGED tables

(***************************************************************************)
(* GetOfferingForUpdate, the capacity check, MarkInvestmentApproved and    *)
(* AddSharesSold, on rows this transaction has locked.                     *)
(***************************************************************************)
TakeCapacityUnlocked(w) ==                \* mutant: the offering is not locked
    /\ tx[w].pc = "capacity"
    /\ sold[tx[w].rnd] + Shares(w) <= ForSale[tx[w].rnd]
    /\ tx' = [tx EXCEPT ![w].pc = "ledger"]
    /\ UNCHANGED tables

TakeCapacity(w) ==
    LET r == tx[w].rnd IN
    /\ tx[w].pc = "capacity"
    /\ Free(w, RoundRow(r))
    /\ sold[r] + Shares(w) <= ForSale[r]
    /\ tx' = [tx EXCEPT ![w].pc = "ledger", ![w].locks = @ \cup {RoundRow(r)}]
    /\ UNCHANGED tables

(***************************************************************************)
(* InsertShareLedger: waits for a transaction that altered the table, and  *)
(* fails on uq_ledger_issue_per_investment.                                *)
(***************************************************************************)
InsertLedger(w) ==
    /\ tx[w].pc = "ledger"
    /\ Free(w, LedgerAlter)
    /\ tx[w].inv \notin ledger
    /\ tx' = [tx EXCEPT ![w].pc = "prior", ![w].locks = @ \cup {LedgerInsert}]
    /\ UNCHANGED tables

(***************************************************************************)
(* GetShareholding reads the committed holding without a lock ...          *)
(***************************************************************************)
ReadPrior(w) ==
    /\ tx[w].pc = "prior"
    /\ tx' = [tx EXCEPT ![w].pc = "upsert", ![w].prior = holding[Owner(w)]]
    /\ UNCHANGED tables

(***************************************************************************)
(* ... and UpsertShareholding writes the percentage computed from it, which*)
(* the CHECK holding_pct_range bounds by 100.                              *)
(***************************************************************************)
UpsertHolding(w) ==
    /\ tx[w].pc = "upsert"
    /\ Free(w, HoldingRow(Owner(w)))
    /\ tx[w].prior + Shares(w) <= TotalShares[tx[w].rnd]
    /\ tx' = [tx EXCEPT ![w].pc = "commit", ![w].locks = @ \cup {HoldingRow(Owner(w))}]
    /\ UNCHANGED tables

(***************************************************************************)
(* generateCommission and the commit: the writes of all statements above.  *)
(***************************************************************************)
ApproveCommitStale(w) ==                  \* mutant: shares = prior + new shares
    LET i == tx[w].inv IN
    /\ tx[w].pc = "commit"
    /\ status' = [status EXCEPT ![i] = "approved"]
    /\ sold' = [sold EXCEPT ![tx[w].rnd] = @ + Shares(w)]
    /\ ledger' = ledger \cup {i}
    /\ holding' = [holding EXCEPT ![Owner(w)] = tx[w].prior + Shares(w)]
    /\ pct' = [pct EXCEPT ![Owner(w)] = tx[w].prior + Shares(w)]
    /\ comms' = comms \cup Commissions(i)
    /\ Finish(w)
    /\ UNCHANGED <<users, declared, paid, round>>

ApproveCommit(w) ==
    LET i == tx[w].inv IN
    /\ tx[w].pc = "commit"
    /\ status' = [status EXCEPT ![i] = "approved"]
    /\ sold' = [sold EXCEPT ![tx[w].rnd] = @ + Shares(w)]
    /\ ledger' = ledger \cup {i}
    /\ holding' = [holding EXCEPT ![Owner(w)] = @ + Shares(w)]
    /\ pct' = [pct EXCEPT ![Owner(w)] = tx[w].prior + Shares(w)]
    /\ comms' = comms \cup Commissions(i)
    /\ Finish(w)
    /\ UNCHANGED <<users, declared, paid, round>>
-----------------------------------------------------------------------------
(***************************************************************************)
(* OpenNewRound.  created_at is the start of the transaction, so the new   *)
(* round takes its number here.  CloseOpenOfferings finds the open rounds  *)
(* of this moment and then locks them one by one.                          *)
(***************************************************************************)
Numbered ==
    {o \in Rounds : round[o] # "none" \/ \E v \in Workers : tx[v].pc = "close" /\ tx[v].rnd = o}

OpenBegin(w, r) ==
    /\ tx[w].pc = "idle"
    /\ r - 1 \in Numbered
    /\ \A o \in Numbered : o < r
    /\ tx' = [tx EXCEPT ![w].pc = "close", ![w].rnd = r,
                        ![w].want = {RoundRow(o) : o \in OpenRounds}]
    /\ UNCHANGED tables

(***************************************************************************)
(* An UPDATE of several rounds waits for each, in no order the code asks   *)
(* for.  A round that is no longer open when CloseOpenOfferings gets to it *)
(* is passed over - closed it is already - but locked as well.             *)
(***************************************************************************)
LockRound(w) ==
    \E r \in Rounds :
        /\ RoundRow(r) \in tx[w].want
        /\ Free(w, RoundRow(r))
        /\ tx' = [tx EXCEPT ![w].want = @ \ {RoundRow(r)}, ![w].locks = @ \cup {RoundRow(r)}]
        /\ UNCHANGED tables

OpenCommit(w) ==
    /\ tx[w].pc = "close"
    /\ tx[w].want = {}
    /\ round' = [o \in Rounds |-> CASE o = tx[w].rnd                -> "open"
                                    [] RoundRow(o) \in tx[w].locks  -> "closed"
                                    [] OTHER                        -> round[o]]
    /\ Finish(w)
    /\ UNCHANGED <<users, status, declared, paid, ledger, holding, sold, pct, comms>>
-----------------------------------------------------------------------------
(***************************************************************************)
(* DeleteUser, with its checks before the transaction.  It first deletes   *)
(* the commissions on the account's own investments, then those whose      *)
(* origin the account referred directly.                                   *)
(***************************************************************************)
DeleteBegin(w, u) ==
    /\ tx[w].pc = "idle"
    /\ u \in users
    /\ tx' = [tx EXCEPT ![w].pc = "alter", ![w].acct = u,
                        ![w].cut = {c \in comms : \/ InvUser[c.inv] = u
                                                  \/ ReferrerOf(InvUser[c.inv]) = u}]
    /\ UNCHANGED tables

(***************************************************************************)
(* DisableShareLedgerImmutability takes the table lock; under it the ledger*)
(* rows and the holding are deleted, and DeleteInvestmentsByUser finds the *)
(* rows it will lock one by one.                                           *)
(***************************************************************************)
AlterLedgerUnlocked(w) ==                 \* mutant: triggers off without ALTER TABLE
    LET u == tx[w].acct IN
    /\ tx[w].pc = "alter"
    /\ Free(w, HoldingRow(u))
    /\ tx' = [tx EXCEPT ![w].pc = "invs",
                        ![w].want = {InvRow(i) : i \in Existing(u)},
                        ![w].locks = @ \cup {HoldingRow(u)}]
    /\ UNCHANGED tables

AlterLedger(w) ==
    LET u == tx[w].acct IN
    /\ tx[w].pc = "alter"
    /\ Free(w, LedgerInsert) /\ Free(w, LedgerAlter)
    /\ Free(w, HoldingRow(u))
    /\ tx' = [tx EXCEPT ![w].pc = "invs",
                        ![w].want = {InvRow(i) : i \in Existing(u)},
                        ![w].locks = @ \cup {LedgerAlter, HoldingRow(u)}]
    /\ UNCHANGED tables

LockInvestment(w) ==
    \E i \in Invs :
        /\ InvRow(i) \in tx[w].want
        /\ Free(w, InvRow(i))
        /\ tx' = [tx EXCEPT ![w].want = @ \ {InvRow(i)}, ![w].locks = @ \cup {InvRow(i)}]
        /\ UNCHANGED tables

(***************************************************************************)
(* DeleteOutgoingReferrals, DeleteContractsByUser (refused by the foreign  *)
(* key of an investment created meanwhile; a commission added meanwhile to *)
(* one of the account's investments refused the deletion of that row) and  *)
(* RecomputeSharesSold: the sums are those of this moment, counted by the  *)
(* round of the investment's tier; the CHECK refuses a sum over the pool.  *)
(***************************************************************************)
RecomputedEarly(u) ==                     \* mutant: recomputed before the deletion
    [r \in Rounds |-> SharesOf({i \in Invs : status[i] = "approved" /\ InvRound[i] = r})]

Recomputed(u) ==
    [r \in Rounds |-> SharesOf({i \in Invs \ InvsOf(u) :
                                    status[i] = "approved" /\ InvRound[i] = r})]

RecomputePool(w) ==
    LET u == tx[w].acct IN
    /\ tx[w].pc = "invs"
    /\ tx[w].want = {}
    /\ \A i \in Existing(u) : InvRow(i) \in tx[w].locks
    /\ \A c \in comms \ tx[w].cut : InvUser[c.inv] # u
    /\ Recomputed(u) \in WithinPool
    /\ Free(w, ContractRow(u))
    /\ tx' = [tx EXCEPT ![w].pc = "pool",
                        ![w].plan = Recomputed(u),
                        ![w].want = {RoundRow(r) : r \in {o \in Rounds : round[o] # "none"}},
                        ![w].locks = @ \cup {ContractRow(u)}]
    /\ UNCHANGED tables

(***************************************************************************)
(* The commissions left when the last statement, DELETE FROM users, runs:  *)
(* deleting the referral rows to and from the account cascaded to the      *)
(* commissions that name them as their origin.                             *)
(***************************************************************************)
Left(w) ==
    LET u == tx[w].acct IN
    {c \in comms \ tx[w].cut : InvUser[c.inv] # u /\ ReferrerOf(InvUser[c.inv]) # u}

DeleteCommit(w) ==
    LET u == tx[w].acct IN
    /\ tx[w].pc = "pool"
    /\ tx[w].want = {}
    /\ \A c \in Left(w) : c.to # u
    /\ users' = users \ {u}
    /\ status' = [i \in Invs |-> IF i \in InvsOf(u) THEN "none" ELSE status[i]]
    /\ declared' = declared \ InvsOf(u)
    /\ paid' = paid \ InvsOf(u)
    /\ ledger' = ledger \ InvsOf(u)
    /\ holding' = [holding EXCEPT ![u] = 0]
    /\ pct' = [pct EXCEPT ![u] = 0]
    /\ sold' = [r \in Rounds |-> IF RoundRow(r) \in tx[w].locks THEN tx[w].plan[r] ELSE sold[r]]
    /\ comms' = Left(w)
    /\ Finish(w)
    /\ UNCHANGED round
-----------------------------------------------------------------------------
Rollback(w) ==
    /\ tx[w].pc # "idle"
    /\ Finish(w)
    /\ UNCHANGED tables

Approve(w) ==
    \/ \E i \in Invs : ApproveBegin(w, i)
    \/ ReadActive(w) \/ TakeCapacity(w) \/ InsertLedger(w)
    \/ ReadPrior(w) \/ UpsertHolding(w) \/ ApproveCommit(w)

OpenNewRound(w) ==
    \/ \E r \in Rounds : OpenBegin(w, r)
    \/ LockRound(w) \/ OpenCommit(w)

DeleteUser(w) ==
    \/ \E u \in Users : DeleteBegin(w, u)
    \/ AlterLedger(w) \/ LockInvestment(w) \/ RecomputePool(w)
    \/ LockRound(w) \/ DeleteCommit(w)

Next ==
    \/ \E i \in Invs : Create(i) \/ DeclareTransfer(i) \/ Reconcile(i) \/ Reject(i)
    \/ \E w \in Workers :
           Approve(w) \/ OpenNewRound(w) \/ DeleteUser(w) \/ Rollback(w)

Spec == Init /\ [][Next]_vars
-----------------------------------------------------------------------------
Placement == INSTANCE SharePlacement

(***************************************************************************)
(* The record of a transaction.                                            *)
(***************************************************************************)
Transaction ==
    [pc : {"idle", "close"} \cup Approving \cup Deleting,
     inv : Invs \cup {None}, acct : Users \cup {None}, rnd : Rounds \cup {0},
     prior : Nat, locks : SUBSET Row, want : SUBSET Row,
     plan : [Rounds -> Nat], cut : SUBSET Commission]

(***************************************************************************)
(* Every variable has its type.                                            *)
(***************************************************************************)
TypeOK ==
    /\ users \subseteq Users
    /\ status \in [Invs -> Status]
    /\ declared \subseteq Invs
    /\ paid \subseteq Invs
    /\ ledger \subseteq Invs
    /\ holding \in [Users -> Nat]
    /\ pct \in [Users -> Nat]
    /\ round \in [Rounds -> RoundStatus]
    /\ sold \in [Rounds -> Nat]
    /\ comms \subseteq Commission
    /\ tx \in [Workers -> Transaction]

(***************************************************************************)
(* Shares are issued exactly for the approved investments, on a declared   *)
(* and reconciled payment, whatever the interleaving of approvals,         *)
(* rejections and deletions (INVARIANTS 2, 3 and 7).                       *)
(***************************************************************************)
IssuedIffApproved == Placement!IssuedIffApproved

(***************************************************************************)
(* The holdings read model equals the ledger (INVARIANT 4).                *)
(***************************************************************************)
HoldingsMatchLedger == Placement!HoldingsMatchLedger

(***************************************************************************)
(* No round sells more than its pool, although the active round is read    *)
(* before it is locked (INVARIANT 1, CHECK offering_sold_within_pool).     *)
(***************************************************************************)
SoldWithinPool == Placement!SoldWithinPool

(***************************************************************************)
(* The shares_sold counters together equal the shares issued.  DeleteUser  *)
(* rebuilds the counters from a snapshot of table investments while        *)
(* approvals run: an approval that committed after the snapshot would be   *)
(* lost, were it not that the table lock of ALTER TABLE keeps approvals    *)
(* from inserting their ledger row.                                        *)
(***************************************************************************)
SoldMatchesIssued == Placement!SoldMatchesIssued

(***************************************************************************)
(* Commissions exist only for approved investments (INVARIANT 5) and never *)
(* credit the investor.                                                    *)
(***************************************************************************)
CommissionOnApproved ==
    \A c \in comms : status[c.inv] = "approved" /\ c.to # InvUser[c.inv]

(***************************************************************************)
(* What each transaction relies on between its statements, and the reason  *)
(* the properties above hold: the facts a statement has checked stay true  *)
(* until the commit because of the locks the transaction holds.            *)
(***************************************************************************)
IdleInv(t) ==
    /\ t.pc = "idle" => t.locks = {}
    /\ t.pc \notin {"close", "invs", "pool"} => t.want = {}

ApprovingInv(t) ==
    /\ t.pc \in Approving =>
          /\ t.inv \in Invs
          /\ InvRow(t.inv) \in t.locks
          /\ status[t.inv] = "reconciled"
          /\ t.inv \in paid
    /\ t.pc \in Approving \ {"active"} =>
          /\ t.rnd \in Rounds
          /\ round[t.rnd] # "none"
    /\ t.pc \in Approving \ {"active", "capacity"} =>
          /\ RoundRow(t.rnd) \in t.locks
          /\ sold[t.rnd] + InvShares[t.inv] <= ForSale[t.rnd]
    /\ t.pc \in {"prior", "upsert", "commit"} => LedgerInsert \in t.locks

OpeningInv(t) ==
    t.pc = "close" =>
        /\ t.rnd \in Rounds
        /\ round[t.rnd] = "none"
        /\ t.want \subseteq {RoundRow(r) : r \in Rounds}
        /\ \A r \in Rounds : RoundRow(r) \in t.want \cup t.locks => round[r] # "none"

DeletingInv(t) ==
    /\ t.pc \in Deleting => t.acct \in Users
    /\ t.pc \in {"invs", "pool"} => LedgerAlter \in t.locks
    /\ t.pc = "invs" => t.want \subseteq {InvRow(i) : i \in Invs}
    /\ t.pc = "pool" =>
          /\ ContractRow(t.acct) \in t.locks
          /\ \A i \in Existing(t.acct) : InvRow(i) \in t.locks
          /\ t.plan = Recomputed(t.acct)
          /\ t.plan \in WithinPool
          /\ t.want \subseteq {RoundRow(r) : r \in Rounds}
          /\ \A r \in Rounds : \/ RoundRow(r) \in t.want \cup t.locks
                               \/ sold[r] = 0 /\ t.plan[r] = 0

Protected(t) == IdleInv(t) /\ ApprovingInv(t) /\ OpeningInv(t) /\ DeletingInv(t)

Apart(s, t) ==
    /\ s.locks \cap t.locks \subseteq {LedgerInsert}
    /\ LedgerAlter \in s.locks => LedgerInsert \notin t.locks
    /\ LedgerAlter \in t.locks => LedgerInsert \notin s.locks
    /\ s.pc = "close" /\ t.pc = "close" => s.rnd # t.rnd

RoundsInv ==
    /\ \A r \in Rounds : round[r] = "none" => sold[r] = 0
    /\ \A i \in Invs : status[i] # "none" => round[InvRound[i]] # "none"

(***************************************************************************)
(* Every transaction is protected, and no two hold conflicting locks: an   *)
(* approval's status and capacity, and a deletion's rebuilt counters, are  *)
(* still right when it commits.                                            *)
(***************************************************************************)
LocksProtect ==
    /\ \A w \in Workers : Protected(tx[w])
    /\ \A v, w \in Workers : v # w => Apart(tx[v], tx[w])
    /\ RoundsInv

(***************************************************************************)
(* An investment's status moves forward only, although approvals and       *)
(* rejections of the same investment race (INVARIANT 2).                   *)
(***************************************************************************)
StatusMovesForward == Placement!StatusMovesForward

(***************************************************************************)
(* The transactions implement the atomic steps: no reader ever sees part   *)
(* of an approval, a new round or a deletion.                              *)
(***************************************************************************)
ImplementsPlacement == Placement!Spec
-----------------------------------------------------------------------------
(***************************************************************************)
(* What the comments and documents say and the code does not keep: TLC     *)
(* finds a counterexample when one of these is named in the configuration. *)
(***************************************************************************)
(***************************************************************************)
(* OpenNewRound closes every open round "so that only one round is active" *)
(* (service/earlybird.go).  Two requests can each miss the other's round.  *)
(***************************************************************************)
OneActiveRound == Cardinality(OpenRounds) <= 1

(***************************************************************************)
(* "Keeps the read model in lock-step with the ledger inside the issuing   *)
(* tx" (db/queries/shares.sql): the stored percentage is that of the       *)
(* shares held.                                                            *)
(***************************************************************************)
PercentageMatchesHolding == \A u \in Users : pct[u] = holding[u]

(***************************************************************************)
(* README INVARIANT 1: the shares held never exceed the offering's         *)
(* shares_for_sale.                                                        *)
(***************************************************************************)
HeldWithinActivePool ==
    \A r \in Rounds : ActiveRound(r) => SharesOf(ledger) <= ForSale[r]

(***************************************************************************)
(* README INVARIANT 5: an investment pays a commission at one level only,  *)
(* to the direct referrer.                                                 *)
(***************************************************************************)
OneLevelCommission == \A c \in comms : c.level = 1

(***************************************************************************)
(* DeleteUser: "the freed shares are returned to the pool": deleting an    *)
(* account never makes a round count more shares as sold.                  *)
(***************************************************************************)
DeletionReturnsShares ==
    [][users' # users => \A r \in Rounds : sold'[r] <= sold[r]]_vars

(***************************************************************************)
(* DeleteUser: it removes every commission the account earned, and only    *)
(* administrators and the caller are refused: a deletion that reached its  *)
(* last statement is not refused by a commission.                          *)
(***************************************************************************)
EarnedCommissionsRemoved ==
    \A w \in Workers : tx[w].pc = "pool" => \A c \in Left(w) : c.to # tx[w].acct
=============================================================================
