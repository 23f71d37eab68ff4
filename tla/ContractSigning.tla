-------------------------- MODULE ContractSigning --------------------------
(***************************************************************************)
(* From a tier to an investment: StartContract and SignAndCreateInvestment *)
(* of service/investment.go, the signing codes of platform/otp (Redis),    *)
(* and the administrator's UpdateTier and DeleteTier of                    *)
(* service/earlybird.go.  A worker is one HTTP request; each step is one   *)
(* statement or one Redis command, a transaction's writes appear at its    *)
(* commit, and its row locks are those of the steps it has passed.         *)
(***************************************************************************)
EXTENDS Naturals, Sequences, FiniteSets

CONSTANTS Users, Contracts, Tiers, Workers,
          Keys,      \* values of the Idempotency-Key header
          NoKey,     \* a request without the header: stored as NULL
          Terms,     \* amount and shares of a tier
          NoTerms

ASSUME SigningAssumption ==
    /\ NoKey \notin Keys
    /\ NoTerms \notin Terms

VARIABLES tier,         \* investment_tiers: the terms, or NoTerms once deleted
          contract,     \* contracts: status, user_id, tier_id; history: the tier's terms then
          code,         \* contracts whose signing code is in Redis
          investments,  \* rows of investments, in the order of their commits
          uses,         \* history: has Verify accepted a code: never, once (1), again (2)
          req           \* what each worker is doing

tables == <<tier, contract, code, investments, uses>>
vars   == <<tables, req>>

Status == {"none", "draft", "signed"}
Idle   == [pc |-> "idle"]
Answers == {"original", "created", "otp_invalid", "forbidden", "invalid_state", "conflict"}
Submits == {"get", "del", "tx", "sign", "insert", "commit", "answered"}
Request == {Idle} \cup [pc : {"create"}, user : Users, tier : Tiers, shown : Terms]
                  \cup [pc : {"issue"}, contract : Contracts]
                  \cup [pc : {"delete"}, tier : Tiers]
                  \cup [pc : Submits, user : Users, contract : Contracts,
                        key : Keys \cup {NoKey}, terms : Terms \cup {NoTerms}, answer : Answers]

InvestedIn(c)  == {i \in DOMAIN investments : investments[i].contract = c}
WithKey(k)     == {i \in DOMAIN investments : k # NoKey /\ investments[i].key = k}
At(w, pc)      == req[w].pc = pc
Finish(w)      == req' = [req EXCEPT ![w] = Idle]
Step(w, pc)    == req' = [req EXCEPT ![w].pc = pc]
Answer(w, a)   == req' = [req EXCEPT ![w].pc = "answered", ![w].answer = a]

TypeOK ==
    /\ tier \in [Tiers -> Terms \cup {NoTerms}]
    /\ contract \in [Contracts -> [status : Status, user : Users, tier : Tiers,
                               shown : Terms \cup {NoTerms}]]
    /\ code \subseteq Contracts
    /\ investments \in Seq([contract : Contracts, user : Users, key : Keys \cup {NoKey},
                            terms : Terms])
    /\ uses \in [Contracts -> 0..2]
    /\ req \in [Workers -> Request]

Init ==
    /\ tier \in [Tiers -> Terms]
    /\ \E u \in Users, t \in Tiers : contract = [c \in Contracts |->
           [status |-> "none", user |-> u, tier |-> t, shown |-> NoTerms]]
    /\ code = {} /\ investments = <<>>
    /\ uses = [c \in Contracts |-> 0]
    /\ req = [w \in Workers |-> Idle]

-----------------------------------------------------------------------------
(***************************************************************************)
(* StartContract: the tier is read (and refused when the active round is   *)
(* sold out), the draft is inserted, then the code is put into Redis.      *)
(***************************************************************************)
StartContract(w, u, t) ==
    /\ At(w, "idle")
    /\ tier[t] # NoTerms
    /\ req' = [req EXCEPT ![w] = [pc |-> "create", user |-> u, tier |-> t, shown |-> tier[t]]]
    /\ UNCHANGED tables

CreateContract(w) ==
    /\ At(w, "create")
    /\ \/ /\ tier[req[w].tier] # NoTerms
          /\ \E c \in Contracts :
                /\ contract[c].status = "none"
                /\ contract' = [contract EXCEPT ![c] =
                       [status |-> "draft", user |-> req[w].user, tier |-> req[w].tier,
                        shown |-> req[w].shown]]
                /\ req' = [req EXCEPT ![w] = [pc |-> "issue", contract |-> c]]
       \/ /\ tier[req[w].tier] = NoTerms
          /\ Finish(w)
          /\ UNCHANGED contract
    /\ UNCHANGED <<tier, code, investments, uses>>

IssueCode(w) ==
    /\ At(w, "issue")
    /\ code' = code \cup {req[w].contract}
    /\ Finish(w)
    /\ UNCHANGED <<tier, contract, investments, uses>>

ExpireCode ==
    /\ \E c \in code : code' = code \ {c}
    /\ UNCHANGED <<tier, contract, investments, uses, req>>

-----------------------------------------------------------------------------
(***************************************************************************)
(* A client signs: a known key gives the original answer at once.          *)
(***************************************************************************)
Submit(w, u, c, k) ==
    /\ At(w, "idle")
    /\ contract[c].status # "none"
    /\ req' = [req EXCEPT ![w] =
           [pc |-> IF WithKey(k) # {} THEN "answered" ELSE "get",
            user |-> u, contract |-> c, key |-> k, terms |-> NoTerms, answer |-> "original"]]
    /\ UNCHANGED tables

(***************************************************************************)
(* Verify: the code is read and compared, then deleted; an error of the    *)
(* deletion is ignored.  (A request with a wrong code changes nothing and  *)
(* is left out.)                                                           *)
(***************************************************************************)
GetCode(w) ==
    /\ At(w, "get")
    /\ IF req[w].contract \in code THEN Step(w, "del") ELSE Answer(w, "otp_invalid")
    /\ UNCHANGED tables

DelCode(w) ==
    LET c == req[w].contract IN
    /\ At(w, "del")
    /\ code' \in {code, code \ {c}}
    /\ uses' = [uses EXCEPT ![c] = IF @ = 0 THEN 1 ELSE 2]
    /\ Step(w, "tx")
    /\ UNCHANGED <<tier, contract, investments>>

(***************************************************************************)
(* The transaction: the owner is checked and the tier read, the draft is   *)
(* signed (its row stays locked), the investment and its payment are       *)
(* inserted (the key waits for an uncommitted row with the same key), and  *)
(* everything is committed.                                                *)
(***************************************************************************)
\* mutant: nobody asks whose contract it is
ReadAnyContract(w) ==
    /\ At(w, "tx")
    /\ req' = [req EXCEPT ![w].pc = "sign", ![w].terms = tier[contract[req[w].contract].tier]]
    /\ UNCHANGED tables

ReadContract(w) ==
    LET c == req[w].contract IN
    /\ At(w, "tx")
    /\ IF contract[c].user = req[w].user
       THEN req' = [req EXCEPT ![w].pc = "sign", ![w].terms = tier[contract[c].tier]]
       ELSE Answer(w, "forbidden")
    /\ UNCHANGED tables

ContractLocked(w) == \E v \in Workers \ {w} :
    req[v].pc \in {"insert", "commit"} /\ req[v].contract = req[w].contract
KeyLocked(w)      == \E v \in Workers \ {w} :
    At(v, "commit") /\ req[w].key # NoKey /\ req[v].key = req[w].key

\* mutant: the update forgets "AND status = 'draft'"
SignAnyContract(w) ==
    /\ At(w, "sign")
    /\ ~ContractLocked(w)
    /\ Step(w, "insert")
    /\ UNCHANGED tables

SignContract(w) ==
    /\ At(w, "sign")
    /\ ~ContractLocked(w)
    /\ IF contract[req[w].contract].status = "draft"
       THEN Step(w, "insert") ELSE Answer(w, "invalid_state")
    /\ UNCHANGED tables

\* mutant: the key is only looked up at the beginning
InsertUnchecked(w) ==
    /\ At(w, "insert")
    /\ Step(w, "commit")
    /\ UNCHANGED tables

CreateInvestment(w) ==
    /\ At(w, "insert")
    /\ ~KeyLocked(w)
    /\ IF WithKey(req[w].key) = {} THEN Step(w, "commit") ELSE Answer(w, "conflict")
    /\ UNCHANGED tables

CommitInvestment(w) ==
    LET r == req[w] IN
    /\ At(w, "commit")
    /\ contract' = [contract EXCEPT ![r.contract].status = "signed"]
    /\ investments' = Append(investments,
           [contract |-> r.contract, user |-> r.user, key |-> r.key, terms |-> r.terms])
    /\ Answer(w, "created")
    /\ UNCHANGED <<tier, code, uses>>

Answered(w) == At(w, "answered") /\ Finish(w) /\ UNCHANGED tables

(***************************************************************************)
(* A crash, a lost connection or an error: the transaction is rolled back, *)
(* a consumed code stays consumed.                                         *)
(***************************************************************************)
Abort(w) ==
    /\ req[w].pc \notin {"idle", "answered"}
    /\ Finish(w)
    /\ UNCHANGED tables

-----------------------------------------------------------------------------
(***************************************************************************)
(* The administrator edits tiers.  DeleteTier checks that nothing uses the *)
(* tier, then deletes it; the foreign key of contracts checks again.       *)
(***************************************************************************)
UpdateTier(t) ==
    /\ tier[t] # NoTerms
    /\ \E new \in Terms : tier' = [tier EXCEPT ![t] = new]
    /\ UNCHANGED <<contract, code, investments, uses, req>>

TierInUse(t) == \E c \in Contracts : contract[c].status # "none" /\ contract[c].tier = t

CheckTier(w, t) ==
    /\ At(w, "idle")
    /\ tier[t] # NoTerms
    /\ ~TierInUse(t)
    /\ req' = [req EXCEPT ![w] = [pc |-> "delete", tier |-> t]]
    /\ UNCHANGED tables

\* mutant: the foreign key does not protect the contracts
DeleteCheckedTier(w) ==
    /\ At(w, "delete")
    /\ tier' = [tier EXCEPT ![req[w].tier] = NoTerms]
    /\ Finish(w)
    /\ UNCHANGED <<contract, code, investments, uses>>

DeleteTier(w) ==
    /\ At(w, "delete")
    /\ tier' = IF TierInUse(req[w].tier) THEN tier ELSE [tier EXCEPT ![req[w].tier] = NoTerms]
    /\ Finish(w)
    /\ UNCHANGED <<contract, code, investments, uses>>

Signing(w) ==
    \/ GetCode(w) \/ DelCode(w)
    \/ ReadContract(w) \/ SignContract(w) \/ CreateInvestment(w) \/ CommitInvestment(w)

Next ==
    \/ \E w \in Workers :
          \/ Signing(w) \/ Answered(w) \/ Abort(w)
          \/ CreateContract(w) \/ IssueCode(w) \/ DeleteTier(w)
          \/ \E t \in Tiers : CheckTier(w, t) \/ \E u \in Users : StartContract(w, u, t)
          \/ \E u \in Users, c \in Contracts, k \in Keys \cup {NoKey} : Submit(w, u, c, k)
    \/ ExpireCode
    \/ \E t \in Tiers : UpdateTier(t)

Spec == Init /\ [][Next]_vars

-----------------------------------------------------------------------------
(***************************************************************************)
(* The statements of a submit implement one signature, which happens at    *)
(* the commit: the contract it reads is then still a draft of the same     *)
(* owner, its key is still free, and the terms it writes are those it read *)
(* from the tier of a contract that existed.                               *)
(***************************************************************************)
Papers == [c \in Contracts |->
    [status |-> contract[c].status, user |-> contract[c].user, tier |-> contract[c].tier]]
Quoting(w, c) == req[w].pc \in {"sign", "insert", "commit"} /\ req[w].contract = c
Quoted == [c \in Contracts |-> {req[w].terms : w \in {v \in Workers : Quoting(v, c)}}]

Abstract == INSTANCE Signing WITH contract <- Papers, quoted <- Quoted

ImplementsSigning == Abstract!Spec

(***************************************************************************)
(* A contract is signed exactly if it has an investment, and then it has   *)
(* one: although two requests may pass Verify with the same code, at most  *)
(* one of them gets past SignContract.                                     *)
(***************************************************************************)
SignedIffInvested ==
    \A c \in Contracts :
        Cardinality(InvestedIn(c)) = IF contract[c].status = "signed" THEN 1 ELSE 0

(***************************************************************************)
(* Two submits with the same key never make two investments, for the same  *)
(* contract or for two, however they overlap.                              *)
(***************************************************************************)
KeysUnique == \A k \in Keys : Cardinality(WithKey(k)) <= 1

(***************************************************************************)
(* Every investment belongs to the owner of its contract.                  *)
(***************************************************************************)
InvestedByOwner ==
    \A i \in DOMAIN investments : investments[i].user = contract[investments[i].contract].user

(***************************************************************************)
(* The tier of every contract exists and gives terms: DeleteTier races     *)
(* with StartContract, and only the foreign key decides.                   *)
(***************************************************************************)
TierOfContractExists ==
    \A c \in Contracts : contract[c].status # "none" => tier[contract[c].tier] # NoTerms

-----------------------------------------------------------------------------
(***************************************************************************)
(* What the comments and documents say and the code does not keep: TLC     *)
(* finds a counterexample when one of these is named in the configuration. *)
(***************************************************************************)
(***************************************************************************)
(* "Fixed investment tiers": what an investor signs is what the tier gave  *)
(* when the contract was started.                                          *)
(***************************************************************************)
TermsAsChosen ==
    \A i \in DOMAIN investments : investments[i].terms = contract[investments[i].contract].shown

(***************************************************************************)
(* "Verify checks the code for a challenge and consumes it (single use)".  *)
(***************************************************************************)
SingleUse == \A c \in Contracts : uses[c] <= 1

(***************************************************************************)
(* "a repeated submit with the same key returns the original investment":  *)
(* a repeated submit is not answered with an error.                        *)
(***************************************************************************)
RepeatReturnsOriginal ==
    \A w \in Workers :
        /\ At(w, "answered")
        /\ \E i \in WithKey(req[w].key) : /\ investments[i].contract = req[w].contract
                                         /\ investments[i].user = req[w].user
        => req[w].answer \in {"original", "created"}
=============================================================================
