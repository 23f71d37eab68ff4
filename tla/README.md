# Verification of the HKGroup investment platform

TLA+ specifications of the backend in `src/backend` (Go, PostgreSQL, Redis):
equity placement, contract signing, referral commissions, wallets, accounts and
credentials, the web shop, sales orders and dividends. The modules are checked
with TLC on small instances; the `*Proofs` modules hold theorems that TLAPS
checks for every value of the constants.

## 1. The system

One Go process (`backend/cmd/api`) serves HTTP; every request runs in its own
goroutine, calls one service method, and all shared state is in PostgreSQL, in
Redis (one-time codes) and in the upload directory. A service method either runs
single statements on the connection pool or wraps several in `Store.ExecTx`, a
transaction at the default isolation level, READ COMMITTED. There is no cache
and no lock in the process (the rate limiter apart). So the concurrency that
matters is that of SQL statements, Redis commands and file operations of
different requests. A request is cut off after 30 s (`server/server.go:95`).

| component | state | operations | hard behaviour | correct when | module |
|---|---|---|---|---|---|
| share issuance (`service/investment.go`) | investments, payments, share_ledger, shareholdings, offering.shares_sold | DeclareTransfer, Reconcile, ApproveAndIssueShares, Reject | approvals race for the pool and for one investment; the active round and the old holding are read before any lock | shares issued once, for approved investments only, within the pool; the read model equals the ledger | `ShareIssuance` |
| contract signing (`investment.go`, `platform/otp`) | contracts, investment_tiers, codes in Redis | StartContract, SignAndCreateInvestment, UpdateTier, DeleteTier | the code is read and deleted in two commands; key, code and draft are checked before the transaction; retries overlap | one investment per signed contract, at most one per key | `ContractSigning` |
| funding rounds (`service/earlybird.go`) | offering | OpenNewRound | two rounds opened at once; a round closed under an approval | one active round; counters match the issued shares | `ShareIssuance` |
| account deletion (`service/identity.go`) | all tables of the account, its files | DeleteUser | rebuilds the counters from a snapshot while approvals run; disables the ledger's triggers; files are listed before and removed after the transaction | the books balance afterwards; what it promises to remove is removed | `ShareIssuance`, `Accounts`, `Wallet` |
| accounts (`identity.go`, `affiliate.go`, `upload.go`) | users, kyc_records, affiliate_requests, uploads, files | Register, CreateAccount, SubmitKYC, reviews, affiliate requests, uploads | an image is a file and a row; a role is read before a request is written | approval goes with the role; no row without a file | `Accounts` |
| credentials (`identity.go`, `password_reset.go`, `jwt.go`) | password, locked_users, reset tokens, JWTs in clients' hands | Login, Refresh, ChangePassword, Forgot, Reset, AdminSetNewPassword | tokens are stored nowhere; links are checked outside the transaction that marks them | a stale role dies with its tokens; one use per link, one link per account | `Credentials` |
| referral commissions (`service/referral.go`) | referrals, commissions | generateCommission, ApproveCommission, PayCommission | referral cycles | only on approved investments, never to the investor, once per level | `ShareIssuance`, `Wallet` |
| wallets (`service/wallet.go`) | withdrawals | RequestWithdrawal, RequestDividendWithdrawal, AdminRequestWithdrawal, Process | the balance is summed query by query and checked before, not with, the insert; the status can be set to anything at any time | nobody withdraws more than was earned | `Wallet` |
| shop (`checkout.go`, `sales.go`) | customer_referral_locks, products, sales_orders | Checkout, CreateOrder, product edits | the first-touch lock is looked up, set and used in three statements; the slug is read before the edit | an order credits the affiliate of the lock; a slug changes only when given | `Shop` |
| sales orders (`service/sales_orders.go`) | sales_orders, sales_distributions, sales_commissions | PayOrder, CancelOrder, DeleteOrder | payment races with cancellation and a second payment; the automatic dividend in the same transaction; rates are read one query at a time | an order is split once, to the last dong | `OrderDividends`, `OrderSplit` |
| dividends (`distribution.go`, `dividend.go`) | dividends, dividend_payouts, revenue_distributions | Declare, Distribute, DistributeTiered, SweepDividend, MarkPaid, PayAll, deletions | sweeps race; payouts are marked one by one; cascades lock in another order | an order's pool is paid out once and completely; every request ends | `OrderDividends`, `TieredPlan`, `Payouts` |
| settings (`service/settings.go`) | site_settings | Update, Float | read key by key, errors give defaults | a payment uses one table of rates | `OrderSplit` |
| dashboard, audit, policies, categories, e-mail, frontend, deployment, sqlc output | - | - | - | - | section 7 |

PROJECT.json lists every component with its sources and status, and the
hazards at their lines.

The parts meet in the database. An approval (`ShareIssuance`) creates the
commissions that `Wallet` credits; a deletion of an account takes them away
again; a checkout (`Shop`) creates the order that `OrderDividends` pays, with the
amounts of `OrderSplit`, and whose pool it sweeps, by the rule of `TieredPlan`,
into a dividend, whose payouts `Payouts` marks and `Wallet` credits. Each module
takes what the others do to its state as actions of its own that may happen
whenever the other module allows them (a tier is edited, a credit is removed, a
role changes).

## 2. Modules

| module | models |
|---|---|
| `Equity` | vocabulary: investments, rounds, one set element per issued share (so that sums are cardinalities and can be proved about) |
| `SharePlacement` | abstract specification: what the README's invariants promise, one atomic action per operation |
| `ShareIssuance`, `MCShareIssuance` | the transactions, one action per locking statement; implements `SharePlacement` |
| `ShareIssuanceProofs` | lemmas on share counts; inductive invariant, safety, refinement; the promises of `SharePlacement` |
| `Signing` | abstract specification: a contract is signed once, by its owner, with one investment |
| `ContractSigning`, `MCContractSigning` | from a tier to an investment, one action per statement or Redis command; implements `Signing` |
| `ContractSigningProofs` | inductive invariant, safety, refinement; the promises of `Signing` |
| `Accounts`, `MCAccounts`, `AccountsProofs` | accounts, affiliates, eKYC, images |
| `Credentials`, `MCCredentials`, `CredentialsProofs` | tokens, passwords, reset links |
| `Wallet`, `MCWallet`, `WalletProofs` | both wallets and their withdrawals |
| `Shop`, `MCShop`, `ShopProofs` | checkout, first-touch lock, catalogue |
| `ProfitSharing` | abstract specification of the sales side: orders, what is due to the shareholders, the dividends |
| `OrderDividends`, `MCOrderDividends` | the transactions behind it, one action per locking statement; implements `ProfitSharing` |
| `OrderDividendsProofs` | inductive invariant, safety, refinement, absence of deadlock; the promise of `ProfitSharing`; the amounts of `OrderSplit` |
| `OrderSplit`, `MCOrderSplit` | the rates and the six parts of a payment |
| `TieredPlan`, `MCTieredPlan` | how a pool is divided among the shareholders: `planTieredPools`, step by step |
| `Sums` | sums of amounts, as the number of their dongs |
| `Payouts`, `MCPayouts` | declared dividends and the payment of their payouts, with liveness |
| `PayoutsProofs` | lemmas on sums; inductive invariants, safety, action property of `Payouts`; safety of `TieredPlan` |

The theorems about `OrderSplit` and `TieredPlan` stand beside those of the
transactions that use their amounts; the definitions that the pairs would share
by name have a prefix (`SplitSpec`, `PlanSpec`, ...), so that one module can
extend both.

### ShareIssuance

Tables are variables: `status` (investments), `declared`/`paid` (payments),
`ledger` (share_ledger), `holding` and `pct` (shareholdings), `round` and `sold`
(offering), `comms` (commissions), `users`. A *worker* is a request; `tx[w]`
holds its program counter, the rows it has locked (`locks`), the rows an UPDATE
or DELETE still has to lock one by one (`want`) and what it has read (`rnd`,
`prior`, `plan`, `cut`). The rules of READ COMMITTED are in the module's header:
statements read committed rows, writes become visible at commit, a writer of a
locked row waits. `Rollback` is enabled in every step of every transaction: it
stands for errors, the request timeout, a crash and being chosen as the victim
of a deadlock.

| code | actions |
|---|---|
| `SignAndCreateInvestment`, `DeclareTransfer`, `Reconcile`, `Reject` | one action each (only the first statement locks) |
| `ApproveAndIssueShares` | `ApproveBegin`, `ReadActive`, `TakeCapacity`, `InsertLedger`, `ReadPrior`, `UpsertHolding`, `ApproveCommit` |
| `OpenNewRound` | `OpenBegin`, `LockRound`, `OpenCommit` |
| `DeleteUser` | `DeleteBegin`, `AlterLedger`, `LockInvestment`, `RecomputePool`, `LockRound`, `DeleteCommit` |

Facts of PostgreSQL the module relies on: inserting a ledger row takes ROW
EXCLUSIVE on the table and `ALTER TABLE ... DISABLE TRIGGER` takes SHARE ROW
EXCLUSIVE, which conflict; `UPDATE ... WHERE status = 'open'` re-evaluates its
condition on a row it had to wait for, and a row that fails it is left as it is
but stays locked until the transaction ends; deleting a parent row checks foreign
keys against committed children.

The percentage `ownership_pct` is represented by the number of shares it stands
for (`pct`), which is what its only property compares. Money amounts do not
appear: they take part in no decision here.

### ContractSigning

`tier`, `contract` and `investments` are the tables, `code` the contracts whose
one-time code is in Redis. A signature is the steps `Signing` takes: look up the
key, read and compare the code, delete it (which may fail), then the
transaction: `SignContract` (the UPDATE that only a draft passes), the insert
with the unique key, the commit. `shown` and `uses` are history: the terms a
tier had when the contract was started, and how often a code was accepted.

The abstract `Signing` has no codes, requests or locks: a contract is drafted,
its tier's terms are quoted, and it is signed on quoted terms, atomically. A
contract maps to its status, owner and tier; the terms quoted for it are those
that the transactions under way have read (`Quoted`), because the code reads the
tier in one statement and writes the investment in a later one; a signature is the
commit; whatever ends a request only withdraws quotes.

### Accounts, Credentials

`Accounts` keeps the rows and the files of an account apart: `upload` are rows,
`disk` are files, and every step between them may be the last one
(`Abort`). `lost` is history: files that a crash, a failed removal or an upload
during a deletion has left behind. `decided` tells who gave an account its role.

`Credentials` keeps the tokens clients hold, with the role they carry and
`fresh`: no change of role since that role was read. `shared` and `raced` are
history: links two resets had accepted before either committed, accounts for
which two links were issued at the same time. Properties are stated relative to
them: they show that only an overlap does harm, and which.

### Wallet

A balance is stored nowhere. `request[r]` is a request with the sums it has read
so far (`earned`, then the sales part, then what was withdrawn) and then the
insert, while credits come, are approved, paid and removed by their own
actions. `ListMatchesBalance` compares with the administrator's list, whose SQL
computes the balances again in another form. `disturbed` is history: wallets with
overlapping requests, a removed credit or a rejection taken back.

### Shop

`lock` is the first-touch lock by telephone number. A checkout reads it, sets it
if absent, and inserts its order, in three statements; the house account of the
online shop is created on demand. A product edit reads the present slug first if
none is given. `late` and `reverted` are history: orders whose lock another
checkout took between two statements (or whose query failed), and products whose
slug such an edit has overwritten.

### OrderDividends

Orders are numbered by the `created_at` of their split row, the order in which
a sweep reads them. `order` is `sales_orders.status`, `split` the rows of
`sales_distributions`, `swept` their flag. `dividends` keeps every dividend ever
committed, with the orders it gathered, who declared it and whether it still
exists. `tx[w]` is the running transaction: its order, the rows the query of a
sweep still has to lock (`want`), those it has gathered (`got`), and its locks.

| code | actions |
|---|---|
| `CreateOrder` and the checkout, `CancelOrder`, `DeleteDividend` | one action each |
| `PayOrder` | `PayBegin`, `InsertSplit`, `CheckParent` (the foreign key), `MarkPaid`, then `PayUnshared`, or `AutoSweep`, `LockSplit`, `Share` |
| `SweepDividend` | `SweepBegin`, `LockSplit`, `Share` |
| `DeleteOrder` | `DeleteBegin`, `DeleteCommit` (after the cascade's wait) |

Facts of PostgreSQL the module relies on: `FOR UPDATE` locks rows in the order
of `ORDER BY` and, after a wait, tests the WHERE clause on the current version
of the row, which stays locked until the transaction ends even if it fails the
test (unless it was deleted); an insert waits for an uncommitted row with the same primary key
and fails if that commits; a foreign key takes FOR KEY SHARE on the parent,
which conflicts with its deletion and not with an update of its status; a
statement sees the rows its own transaction has written.

Left out: the amounts (a sweep whose pool is zero or who finds no shareholder
is the failing or unshared outcome), the commission and item rows, whose only
effect on the interleavings is the key of the order they refer to.

### OrderSplit, TieredPlan

Two computations, step by step. `OrderSplit` (`SplitSpec`) reads seven settings
with a query each (`ReadRate`, `fetched` counts them) while an administrator may
save another table and a query may fail (then the default is used), and then
splits the subtotal: `Portion` is the rounded part, `part` the row of
`sales_distributions`, `commission` the rows of seller and affiliate; `mixed` is history: the rates
used are not one table's. Rates are per cent; the code multiplies in float64,
and for the amounts and rates of the run the products were compared with
float64 arithmetic and agree.

In `TieredPlan` (`PlanSpec`) the inputs are chosen in `Init` (accounts by band, rates, mode)
and by `FromRevenue` or `FromPool`. Rates are integers over a common unit; what
float64 can change is kept: a quotient that is a whole number may be rounded
down to one less with a fraction just under one (`0.09 * 95 / 0.15` is), the same
way for all accounts of one rate, and equal fractions of different rates may
sort either way. The loose dong are handed out one by one (`HandOut`, `served`),
`payable` is the amount of each account. Labels, shares and the per-band breakdown for the chart are
left out.

### Payouts

`Declare` commits a dividend and its payouts at once; `Distribute` records it in
a second transaction, `DistributeTiered` in the same. `PayAll` lists the unpaid
payouts and then marks them one by one (`MarkPayoutPaid`, a row lock each,
`CommitMarks`), in the order of their amounts; a deletion locks the dividend and
then, in the cascade, its payouts in any order. `DeleteUser` is what the deletion
of an account does here: it locks the payouts its statement sees and is refused
in the end (`CommitErase`, the foreign key) if another one appeared.
`DeadlockVictim` is PostgreSQL's detection: one of the transactions that wait in a
circle is ended.

## 3. Runs

| run | shows |
|---|---|
| `share_issuance` | two concurrent requests over three investments of two investors who referred each other, two rounds of 2 and 3 shares: issued exactly for the approved, holdings = ledger, no round oversold, counters = issued shares, commissions only where due, `LocksProtect`, refinement of `SharePlacement` |
| `deletion_returns_shares` | violated: a deletion can raise a round's `shares_sold` |
| `earned_commissions_removed` | violated: level-2 commissions block the deletion of their earner (three accounts in a chain) |
| `contract_signing` | two requests start and sign two contracts on a tier that is edited (two sets of terms) and deleted, with and without a key: signed exactly if invested, keys unique, no contract on a missing tier, refinement of `Signing` |
| `accounts` | two requests over two accounts: an approved affiliate sells unless an administrator said otherwise, every image row has its file, a file without a row was left by a failure or an overlap |
| `credentials` | two requests over one account, two passwords, two links: a token that is fresh carries the account's role, a link works twice and two links live only after an overlap |
| `wallet` | two requests of 2 dong against credits of 1 and 2 dong: a wallet is overdrawn only if disturbed; both formulas of a balance agree |
| `shop` | two requests, two affiliates, one number: an online order credits the affiliate of the lock unless it was late; a product keeps its slug unless an edit was overtaken |
| `order_split` | three tables of rates, 33 subtotals: the parts sum to the subtotal and operations lose two dong at most, unless tables were mixed |
| `order_dividends` | three concurrent requests over two orders: an order's pool is in one dividend at most, swept exactly if shared, split exactly if paid, no deadlock, refinement of `ProfitSharing` |
| `tiered_plan` | every pool up to 52 dong, every revenue up to 70, up to four accounts in any bands, three rate tables, both residual modes: nothing lost or invented, the quota rule, better bands do not get less |
| `payouts` | three requests on one dividend of two shareholders, one of them deletable: no payout paid twice, payouts within the total, records match the distributions, a deleted account leaves no payout, PayAll all or nothing, every request ends |

Bounds. Two workers are enough for every pairwise race, and the proofs cover
any number. Where a third request matters there are three: a payment, a sweep and
a deletion overlap (`order_dividends`), a deadlock of two while a third holds
what they wait for (`payouts`). In `share_issuance` the pools are chosen so that
the investments do not all fit: the last share of a round is contended; the tier
of `i2` belongs to round 2 although it may be approved under round 1 and
conversely, the case in which the counters by tier and by charge differ. Two
orders let a sweep hold one row while it waits for another; three orders with
two requests were explored as well (958,336 states). In `wallet` a single
credit seldom covers a request and two cover one, so that two requests compete.
The history counters stop at two (`uses`), which is enough to tell once from
more than once. The subtotals of `order_split` surround the halves of the rates
and the least amount of the equal share. The rates of four accounts in
`tiered_plan` sum to 20 units at most and the bonus part of a pool of 52 dong is
20 or more, so every pattern of remainders of up to four accounts occurs, ties
included. All models are finite without a state constraint. Symmetry is used
where no action or property names a value (`accounts`,
`contract_signing`, `credentials`, `shop`) and only safety is checked; the
refinement of `Signing` names no value either.

Every module also has a type invariant, and some have further properties that no
run lists because a run names only what is hard to get right (`WalletsSeparate`,
`InvestedByOwner`, `StatusMovesForward`, `SharedWerePaid`, `LocksInOrder`,
`OrderMovesForward`): TLC confirms each of them on the same instances, and all
six are theorems, as are the type invariants of the modules with proofs.

Deadlock is not checked where the system may come to rest: all accounts, orders
and dividends can be deleted, links, keys and requests are finitely many, and
the computations of a plan or a split end. `NoDeadlock` and `EveryRequestEnds`
state what matters instead. `shop` is checked for deadlock.

Fairness. Only `Payouts` assumes any, and only for what a request has begun:
nobody has to begin one, and a crash may end it. A started request is executed to
its end by its goroutine; a lock that is taken and released again and again is
granted to its waiters since PostgreSQL queues them, hence strong fairness of a
request's work; a deadlock is detected by a timer, hence weak fairness of its
victim's rollback. Without the victim, `EveryRequestEnds` fails: PayAll and a
deletion's cascade lock the payouts of a dividend in different orders.

## 4. What the code says and does not keep

Comments and documents of the repository that TLC refutes on these models. Two
have a run of their own (above); for each of the others, name the definition in
the module's `.cfg` and TLC prints the counterexample.

| definition (module) | statement | what happens |
|---|---|---|
| `HeldWithinActivePool` (`ShareIssuance`) | README, invariant 1 | a new round starts at `shares_sold = 0`: the shares held exceed the active round's pool |
| `OneLevelCommission` (`ShareIssuance`) | "Hoa hồng chỉ sinh trên `investments.status='approved'`, chỉ 1 tầng" (README, invariant 5; `docs/ADR-0001-equity-model.md:46`) | the direct referrer's own referrer is paid as well, see below |
| `OneActiveRound` (`ShareIssuance`, four rounds) | "Vòng đang mở sẽ tự đóng để chỉ còn 1 vòng active" (`earlybird.go:56`) | two `OpenNewRound` each miss the other's uncommitted round |
| `PercentageMatchesHolding` (`ShareIssuance`) | "Keeps the read model in lock-step with the ledger inside the issuing tx" (`db/queries/shares.sql:7`) | the percentage is computed from a read without a lock |
| `DeletionReturnsShares` | "The freed shares are returned to the pool" (`identity.go:393`) | the recomputation goes by the tier's round, the approval charged the active one |
| `EarnedCommissionsRemoved` | removes "every commission linked to the account" (`identity.go:391`) | commissions of levels 2 and 3 remain and block the deletion |
| `SingleUse` (`ContractSigning`) | "consumes it (single use)" (`otp.go:40`) | read and deletion are two commands, the error of the second is ignored |
| `RepeatReturnsOriginal` (`ContractSigning`) | "a repeated submit with the same key returns the original investment" (`investment.go:121`) | a repeat that overlaps the first finds neither row nor code |
| `TermsAsChosen` (`ContractSigning`) | "Fixed investment tiers" (`db/migrations/00003_offering.sql:24`) | the tier is read again at the signature |
| `ReplacesVerified` (`Credentials`) | "re-verifying the current one" (`identity.go:201`) | the password is replaced in another statement than it is verified in |
| `SingleUseLink` (`Credentials`) | "dùng 1 lần", used once (`password_reset.go:28`) | the link is checked outside the transaction that marks it |
| `AdminsKept` (`Accounts`) | "Only admin accounts and self-deletion are refused" (`identity.go:395`) | the role is read before the transaction |
| `ImagesDeleted` (`Accounts`) | "removes an account and ALL data tied to it [...] uploaded images" (`identity.go:389`) | a failed removal or a late upload leaves the file |
| `EnoughBalance` (`Wallet`) | "creates a pending withdrawal if the wallet has enough available balance" (`wallet.go:151`) | the balance is summed before and outside the insert |
| `OnlyPaidPayoutsWithdrawn` (`Wallet`) | `PayAll` pays and "cộng vào ví cổ tức của từng cổ đông" (`dividend.go:85`) | the balance counts unpaid payouts |
| `EveryOrderFirstTouch` (`Shop`) | "từ nay mọi đơn của SĐT này về đúng affiliate này" (`checkout.go:118`) | the loser of two first checkouts keeps its own affiliate |
| `IndexedSlugs` (`Shop`) | "không vỡ URL SEO đã index" (`sales.go:256`) | an overtaken or failed read writes an old or a new slug |
| `OperationsNotNegative` (`OrderSplit`) | operations "hấp thụ phần còn lại" (`sales_orders.go:169`) | rounding takes up to two dong, mixed tables more |
| `DividendsByAdmin` (`OrderDividends`) | "dividends exist ONLY because an admin created this row" (`db/queries/dividend.sql`) | a seller's payment sweeps automatically |
| `DistributionsRecorded` (`Payouts`) | "all atomic. Mirrors Distribute()'s compliance posture" (`distribution.go:398`) | `Distribute` records in a second transaction |
| `PaidSkipped` (`Payouts`) | "đã trả rồi → bỏ qua (idempotent)" (`dividend.go:95`) | a payout paid after the list was read makes all of PayAll fail |

On the referral levels the repository contradicts itself. Its README (lines 51-52,
70) and the ADR (lines 31, 46, 64) promise one level; migration
`00018_multilevel_commission.sql` pays "up to 3 commission rows", the comment of
`generateCommission` (`referral.go:85-88`) repeats it and
`TestInvariant5_MultiLevelCommission` (`invariant_test.go:217`) expects it. The
later of the two is what the code does and what the model follows: `Upline`
climbs three levels, and `PaidLevels`, the levels whose rate is not zero, is any
set of them. With `PaidLevels = {1}` the model is the one-level rule.
`CommissionOnApproved` is about the part both agree on.

## 5. Proofs

`ShareIssuanceProofs` proves, for any finite sets of accounts, investments,
rounds and workers, the safety properties and the refinement. The invariants are
not inductive alone: between the capacity check and the commit, `SoldWithinPool`
depends on the row of the round being locked and on nobody else writing it;
`SoldMatchesIssued` depends on the plan of a deletion staying current. The
inductive invariant is

    IInv == TypeOK /\ Books /\ LocksProtect

where `Books` are the equations between tables and `LocksProtect` says, for every
transaction and program point, what it may rely on (`ApprovingInv`,
`OpeningInv`, `DeletingInv`), that two transactions hold no conflicting lock
(`Apart`) and what closed or missing rounds imply (`RoundsInv`). It is checked by
TLC as an invariant and proved with one lemma per action. The refinement maps each
commit to the abstract action and every other step to a stutter; the interesting
case is the deletion, where the rebuilt counters must sum to the ledger.

Sums are cardinalities of sets of units (`SharesOf`, `TotalSold`), so the lemmas
at the head of the module rest on the library's theorems on finite sets and need no
induction over data. Assumptions: `PlacementAssumption` and `IssuanceAssumption`
(finite sets, positive numbers of shares, rounds numbered from 1, nobody is
their own referrer: `CHECK referral_no_self`).

`OrderDividendsProofs` does the same for the sales side, with

    IInv == /\ TypeOK /\ LocksProtect
            /\ SharedOnce /\ SweptIffShared /\ SplitIffPaid /\ SharedWerePaid

Here the properties support each other: an order is not shared twice because a
gathered row is unswept (`LocksProtect`) and unswept rows are in no dividend
(`SweptIffShared`); a payment's order is in no dividend because it is pending
(`SharedWerePaid`). `LocksInOrder` is inductive relative to `IInv`, and from the
two follows `NoDeadlock` (the order is one of all the rows a sweep holds,
`RowsHeld`, also those it locked only to find them swept): whoever is waited for by somebody, and waits itself, is
a sweep, and a sweep only waits for a sweep whose next row is further on, so in a
finite group the sweep that is furthest on (`GreatestExists`, from the
well-foundedness of the strict subsets of a finite set) waits for nobody.
`Settled` payments are the exception to the order - they hold the row of their
own order out of turn - and harmless because no other query can see that row.
Assumptions: `OrdersAssumption` (orders are numbers, finitely many requests).
That two split rows have different `created_at` is part of the numbering; with
equal timestamps the order of locking, and so `NoDeadlock`, is not guaranteed.

The module also proves the amounts of `OrderSplit`, for any subtotals and tables:

    SplitInv == SplitTypeOK /\ rates["pit"] <= 100 /\ RatesOfOneTable /\ SplitWithinOrder

`RatesOfOneTable` is what the history variable stands for: unless tables were
mixed, the rates read so far are those of the table saved now, and once all five
are read those of one table. Then, if every saved table adds up to 100 % at most
(`RatesAddUp`, a condition of the property: the code does not check it), five products
rounded by at most half a dong each exceed the subtotal by less than three
(`RoundFacts`, `FiveParts`). That the six parts are the subtotal, and that net and tax
are the parts, is proved for any tables. The theorem is about exact products of
per cents; that float64 gives the same was compared for the values of the run only.
Assumption: `SplitAssumption` (rates are natural numbers; the tax rate is the default
of 10 %, because `pit_rate` is not among the keys that `Update` saves,
`settings.go:25`).

`ContractSigningProofs`:

    IInv == TypeOK /\ RequestsInv /\ RowsInv /\ InvestedByOwner /\ TierOfContractExists

`RowsInv` says what the tables promise (one investment per contract and key,
signed contracts have one), and would not survive a commit alone. `RequestsInv`
carries what each request has established (`Ready`: past `SignContract` its
contract is a draft of its user, past `CreateInvestment` no row has its key) and
why another commit cannot undo it (`Clash`: no two requests are past
`SignContract` with one contract - the row lock - or past `CreateInvestment` with
one key - the unique index). That the terms of an investment exist needs the
foreign key (`TierOfContractExists`). `Verify` contributes nothing: the invariant
does not mention the codes, and one that is accepted twice does no harm. With
`IInv` the commit is an abstract signature, so `Refinement` holds. Assumption:
`SigningAssumption` (no key and no terms are told apart from keys and terms).

The abstract specifications keep their own promises, so that implementing them
says something: `PlacementKeepsPromises` (the equations of `Books`, of atomic
operations without locks), `SigningKeepsPromises` (`Promises`: one investment per
signed contract, of its owner, one per key, no contract whose tier is gone) and
`SharingKeepsPromise` (`SharedOnce`: what is due is in no batch). These proofs speak
of the abstract actions alone. `PromisesCarryOver` is the promise of `Signing` for the
statements of the code, by `Refinement` only.

`CredentialsProofs` has two invariants. Tokens: `FreshTokensCurrent` with
`FreshLogins`, the same for a login that has read the role and not yet issued its
tokens. Links: `LinkUsedOnce` with `UsedLinks` (a link that has set a password is
invalid, and whoever accepted it earlier shares it), and `OneLiveLink` with
`LinkIssue` (unless two were issued at once, either one link is live or one
request is about to insert one). Assumption: finitely many links, so that one
can be counted.

`AccountsProofs`: `AskedInv` for the roles (only an existing account has
asked to become an affiliate) and `FilesInv` for the images: rows have files
(`RowsOnDisk`), a request knows the files it works on (`Holds`), and a file being
saved is no other request's (`Shared`). Assumption: `NoOne` is no account.

`ShopProofs`: `TouchInv` adds to `FirstTouchKept` what a checkout between two
statements has seen of the lock (`Checkouts`) and that placed orders keep house
and lock (`HouseSells`); `SlugInv` adds what an edit is about to write
(`EditsKeep`). Assumption: `ShopAssumption` (the house account, no account and no
slug are none of the others).

`PayoutsProofs`:

    IInv == RowsOK /\ Exclusive /\ Transactions /\ TablesInv

A payout is not paid twice because what a transaction has locked to mark is
still unpaid at its commit (`Marks`), which is so because a row has one lock
(`Exclusive`). `Marks` also says that PayAll's list and locks together miss no
unpaid payout, so that it pays all or none; `Cascades` says it of a deletion, so
that a dividend leaves no payout and a record no missing dividend. `PayAllPaysAll` is
an action property and follows from the same invariant.

The amounts are a second invariant, `AmountsInv` (typed amounts and
`PayoutsWithinTotal`), proved under the first. A sum is the number of dongs in the
union of the holders' columns (`Sum`), so nothing needs induction over the
holders: n times the amounts have n times the sum, by a bijection of columns
(`SumTimes`), and a bigger amount has the bigger column (`SumGrows`). So the
rounded shares, multiplied back by the sum of the holdings, stay within total times
that sum, and one dong more per holder exceeds it (`ProRataShares`): the payouts
keep within the total and leave less than one dong per holder. The code computes the
share in float64; the model's exact floor is the same as long as total times
holding is below 2^53, and the theorem is about the exact floor. Assumption:
`PayoutsAssumption` (finite sets, holdings are natural numbers, totals integers).

The same module proves `TieredPlan`, for any number of accounts, bands and rates:

    PlanInv == PlanTyped /\ Untouched /\ PlanSteps /\ PoolSharedOut /\ BetterBandNotLess

`PlanSteps` holds the argument for largest remainders (`HandingOut`). Every bonus
is the quota rounded down, plus one for a served account; so all remainders, and
`SumRates` for every dong given, add up to `SumRates` times the pool and the
dong handed out. Remainders are at most `SumRates`, also when a quotient was
rounded one too low, so there are never more loose dong than accounts: the loop ends
with nothing loose (`BonusSharedOut`). `QuotaRule` needs the order as well: the
account that gets a dong must have had a positive remainder (`LargestPositive`: if
the largest were 0, nothing would be loose), and in the end nobody without one may
have a whole `SumRates` of remainder (`OthersNotFull`: all served ones would have as
much, and something would still be loose). That a better band does
not get less follows from quota and remainder (`BetterRateFirst`,
`OneRateOneDong`), and the rollover adds amounts that differ by one dong at most,
in query order, which sum to the rest (`SumOfRest`). Assumption:
`TieredAssumption` (rates are natural numbers over a positive unit). Nothing is
assumed of how float64 rounds beyond what the module's `Floor` and `Quotas` allow.

`WalletProofs`:

    IInv == TypeOK /\ Exclusive /\ Inserted /\ Covered /\ OverdrawnOnlyIfDisturbed

`Covered` is the argument: in a wallet that is not disturbed, the sums a request
has read so far are still there and a request that passed the check asks for no
more than is available now. Every step is shown `Steady` for the wallets it leaves
undisturbed - nothing earned is lost, nothing more is withdrawn - and two
requests of one wallet have disturbed it (`Exclusive`). Sums are cardinalities of
sets of dongs (`Dong`), so that `DongSum`, `DongMore` and `DongOne` follow from the
library's theorems on finite sets. The same lemmas give `ListMatchesBalance`.
Assumption: `WalletAssumption` (finitely many credits and requests, a credit is a
positive number of dongs, requested amounts are integers - the code refuses those
that are not positive).

Only model-checked: `EveryRequestEnds`, which is liveness under fairness and out of
the prover's reach, and the two runs that expect a violation. Every invariant and
every other temporal property of a passing run is a theorem.

## 6. Plan

Done: all models and runs of the table above; every safety invariant, action
property and refinement that a run checks is proved, and the three abstract
specifications keep their promises. What could come next:

1. Two `OpenNewRound` requests at once (`earlybird.go:71`): the counterexample to
   `OneActiveRound` is known; a weaker statement, such as at most one active round
   for each request that overlaps, would need a history variable as in `Wallet`.
2. The arithmetic of `OrderSplit` and `Payouts` in float64, to replace the exact
   products beyond the amounts compared.

## 7. Not modelled

- The connection pool (`sales_orders.go:227`, `referral.go:41`: settings are read
  through the pool inside a transaction that already holds a connection). With
  every connection held by such a request all of them wait until the 30 s timeout
  ends one; the models have that end as `Rollback` or `Abort`, not its cause.
- Dashboard, audit log, lists and exports: reads, and one row appended inside each
  transaction.
- Policies, categories and the creation and active flag of a tier: edits of single
  rows on which no other operation depends.
- Frontend, nginx, deployment, generated query code (its SQL is modelled where
  used), the wording of contracts and mails, the delivery of mail, encryption of
  documents, image types, the encoding of tokens, the rate limiter, HTTP routing.
- The effect of removing a dividend whose orders stay marked as swept
  (`dividend.go:129`): the action is in `OrderDividends`, and `SharedOnce` counts
  removed dividends, but nothing in the repository says what should become of the
  orders.
