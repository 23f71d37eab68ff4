----------------------- MODULE ContractSigningProofs -----------------------
(***************************************************************************)
(* Proofs about ContractSigning, for any accounts, contracts, tiers, keys, *)
(* terms and numbers of concurrent requests.                               *)
(***************************************************************************)
EXTENDS ContractSigning, FiniteSetTheorems, TLAPS

USE SigningAssumption DEF SigningAssumption

\* What a request has established for the statements it has still to execute.
Ready(r) ==
    /\ r.pc \in {"get", "del", "tx", "sign", "insert", "commit"} =>
          contract[r.contract].status # "none"
    /\ r.pc \in {"sign", "insert", "commit"} =>
          contract[r.contract].user = r.user /\ r.terms \in Terms
    /\ r.pc \in {"insert", "commit"} => contract[r.contract].status = "draft"
    /\ r.pc = "commit" => WithKey(r.key) = {}

\* The row lock of the contract and the unique index keep two requests apart.
Clash(r, s) ==
    \/ /\ r.pc \in {"insert", "commit"} /\ s.pc \in {"insert", "commit"}
       /\ r.contract = s.contract
    \/ r.pc = "commit" /\ s.pc = "commit" /\ r.key # NoKey /\ r.key = s.key

RequestsInv ==
    /\ \A w \in Workers : Ready(req[w])
    /\ \A v, w \in Workers : v # w => ~Clash(req[v], req[w])

\* No two investments of one contract or with one key; signed contracts have one.
RowsInv ==
    /\ \A i, j \in DOMAIN investments : investments[i].contract = investments[j].contract => i = j
    /\ \A i, j \in DOMAIN investments :
          investments[i].key # NoKey /\ investments[i].key = investments[j].key => i = j
    /\ \A c \in Contracts : contract[c].status = "signed" <=> InvestedIn(c) # {}

IInv == TypeOK /\ RequestsInv /\ RowsInv /\ InvestedByOwner /\ TierOfContractExists

ContractRow == [status : Status, user : Users, tier : Tiers, shown : Terms \cup {NoTerms}]
Investment  == [contract : Contracts, user : Users, key : Keys \cup {NoKey}, terms : Terms]
Submitted   == [pc : Submits, user : Users, contract : Contracts, key : Keys \cup {NoKey},
                terms : Terms \cup {NoTerms}, answer : Answers]

-----------------------------------------------------------------------------
(***************************************************************************)
(* The shapes of the requests.                                             *)
(***************************************************************************)
LEMMA RequestFacts ==
    ASSUME NEW r \in Request
    PROVE  /\ r.pc = "create" => r.user \in Users /\ r.tier \in Tiers /\ r.shown \in Terms
           /\ r.pc = "issue" => r.contract \in Contracts
           /\ r.pc = "delete" => r.tier \in Tiers
           /\ r.pc \in Submits => r \in Submitted
<1>1. r.pc = "create" => r \in [pc : {"create"}, user : Users, tier : Tiers, shown : Terms]
  BY DEF Request, Idle, Submits
<1>2. r.pc = "issue" => r \in [pc : {"issue"}, contract : Contracts]
  BY DEF Request, Idle, Submits
<1>3. r.pc = "delete" => r \in [pc : {"delete"}, tier : Tiers]
  BY DEF Request, Idle, Submits
<1>4. r.pc \in Submits => r \in Submitted
  BY DEF Request, Idle, Submits, Submitted
<1> QED
  BY <1>1, <1>2, <1>3, <1>4

(***************************************************************************)
(* An idle worker claims nothing.                                          *)
(***************************************************************************)
LEMMA IdleFacts == Idle \in Request /\ Ready(Idle) /\ \A r : ~Clash(r, Idle) /\ ~Clash(Idle, r)
BY DEF Request, Idle, Ready, Clash

(***************************************************************************)
(* A step or the answer of a submit keeps what it was submitted with.      *)
(***************************************************************************)
LEMMA MoveFacts ==
    ASSUME NEW r \in Submitted, NEW pc \in Submits
    PROVE  LET s == [r EXCEPT !.pc = pc] IN
           /\ s \in Submitted
           /\ s.pc = pc /\ s.user = r.user /\ s.contract = r.contract /\ s.key = r.key
           /\ s.terms = r.terms
BY DEF Submitted

(***************************************************************************)
(* The terms that the transaction has read.                                *)
(***************************************************************************)
LEMMA ReadFacts ==
    ASSUME NEW r \in Submitted, NEW t \in Terms
    PROVE  LET s == [r EXCEPT !.pc = "sign", !.terms = t] IN
           /\ s \in Submitted
           /\ s.pc = "sign" /\ s.user = r.user /\ s.contract = r.contract /\ s.terms = t
<1> DEFINE s == [r EXCEPT !.pc = "sign", !.terms = t]
<1>1. s = [[r EXCEPT !.pc = "sign"] EXCEPT !.terms = t]
  BY DEF Submitted
<1>2. [r EXCEPT !.pc = "sign"] \in Submitted
  BY MoveFacts DEF Submits
<1> HIDE DEF s
<1>3. s \in Submitted /\ s.terms = t
  BY <1>1, <1>2 DEF Submitted
<1>4. s.pc = "sign" /\ s.user = r.user /\ s.contract = r.contract
  BY <1>1 DEF Submitted
<1> QED
  BY <1>3, <1>4 DEF s

(***************************************************************************)
(* An answer.                                                              *)
(***************************************************************************)
LEMMA AnswerFacts ==
    ASSUME NEW r \in Submitted, NEW a \in Answers
    PROVE  LET s == [r EXCEPT !.pc = "answered", !.answer = a] IN
           s \in Submitted /\ s.pc = "answered"
<1> DEFINE s == [r EXCEPT !.pc = "answered", !.answer = a]
<1>1. s = [[r EXCEPT !.pc = "answered"] EXCEPT !.answer = a]
  BY DEF Submitted
<1>2. [r EXCEPT !.pc = "answered"] \in Submitted
  BY MoveFacts DEF Submits
<1> HIDE DEF s
<1>3. s \in Submitted
  BY <1>1, <1>2 DEF Submitted
<1>4. s.pc = "answered"
  BY <1>1 DEF Submitted
<1> QED
  BY <1>3, <1>4 DEF s

(***************************************************************************)
(* Submits are requests.                                                   *)
(***************************************************************************)
LEMMA SubmittedAreRequests == Submitted \subseteq Request
BY DEF Submitted, Request

-----------------------------------------------------------------------------
(***************************************************************************)
(* A step that leaves contracts and investments alone: only its request    *)
(* has to be looked at.                                                    *)
(***************************************************************************)
LEMMA QuietStep ==
    ASSUME IInv, UNCHANGED <<contract, investments>>,
           code' \subseteq Contracts, uses' \in [Contracts -> 0..2],
           tier' \in [Tiers -> Terms \cup {NoTerms}], TierOfContractExists',
           NEW w \in Workers, NEW r \in Request, req' = [req EXCEPT ![w] = r],
           Ready(r), \A v \in Workers \ {w} : ~Clash(req[v], r)
    PROVE  IInv'
<1>1. \A v \in Workers : req'[v] = IF v = w THEN r ELSE req[v]
  BY DEF IInv, TypeOK
<1>2. TypeOK'
  BY DEF IInv, TypeOK
<1>3. \A s : Ready(s)' <=> Ready(s)
  BY DEF Ready, WithKey
<1>4. \A v \in Workers : Ready(req'[v])
  BY <1>1 DEF IInv, RequestsInv
<1>5. \A v \in Workers : Ready(req[v])'
  BY <1>4 DEF Ready, WithKey
<1>6. \A v, x \in Workers : v # x => ~Clash(req'[v], req'[x])
  BY <1>1 DEF IInv, RequestsInv, Clash
<1>7. RequestsInv'
  BY <1>5, <1>6 DEF RequestsInv, Clash
<1>8. RowsInv' /\ InvestedByOwner'
  BY DEF IInv, RowsInv, InvestedByOwner, InvestedIn
<1> QED
  BY <1>2, <1>7, <1>8 DEF IInv

(***************************************************************************)
(* A step that only moves a request.                                       *)
(***************************************************************************)
LEMMA TablesStep ==
    ASSUME IInv, UNCHANGED tables, NEW w \in Workers, NEW r \in Request,
           req' = [req EXCEPT ![w] = r],
           Ready(r), \A v \in Workers \ {w} : ~Clash(req[v], r)
    PROVE  IInv'
<1>1. UNCHANGED <<tier, contract, code, investments, uses>>
  BY DEF tables
<1>2. TierOfContractExists'
  BY <1>1 DEF IInv, TierOfContractExists
<1> QED
  BY <1>1, <1>2, QuietStep DEF IInv, TypeOK

(***************************************************************************)
(* Requests that end: no claim is left to keep.                            *)
(***************************************************************************)
LEMMA FinishStep ==
    ASSUME IInv, UNCHANGED tables, NEW w \in Workers, Finish(w)
    PROVE  IInv'
BY IdleFacts, TablesStep DEF Finish

(***************************************************************************)
(* A request that is answered gives up its claims.                         *)
(***************************************************************************)
LEMMA AnswerStep ==
    ASSUME IInv, UNCHANGED tables, NEW w \in Workers, req[w].pc \in Submits,
           NEW a \in Answers, Answer(w, a)
    PROVE  IInv'
<1> DEFINE r == [req[w] EXCEPT !.pc = "answered", !.answer = a]
<1>1. req[w] \in Submitted
  BY RequestFacts DEF IInv, TypeOK
<1>2. r \in Submitted /\ r.pc = "answered"
  BY <1>1, AnswerFacts
<1>3. Ready(r) /\ \A v \in Workers : ~Clash(req[v], r)
  BY <1>2 DEF Ready, Clash
<1>4. req' = [req EXCEPT ![w] = r]
  BY DEF Answer, IInv, TypeOK
<1> QED
  BY <1>2, <1>3, <1>4, SubmittedAreRequests, TablesStep

-----------------------------------------------------------------------------
(***************************************************************************)
(* The beginnings of requests.                                             *)
(***************************************************************************)
LEMMA StartContractStep ==
    ASSUME IInv, NEW w \in Workers, NEW u \in Users, NEW t \in Tiers, StartContract(w, u, t)
    PROVE  IInv'
<1> DEFINE r == [pc |-> "create", user |-> u, tier |-> t, shown |-> tier[t]]
<1>1. tier[t] \in Terms
  BY DEF StartContract, IInv, TypeOK
<1>2. r \in Request
  BY <1>1 DEF Request
<1>3. Ready(r) /\ \A v \in Workers : ~Clash(req[v], r)
  BY DEF Ready, Clash
<1> QED
  BY <1>2, <1>3, TablesStep DEF StartContract

(***************************************************************************)
(* A signature is submitted: the key is looked up.                         *)
(***************************************************************************)
LEMMA SubmitStep ==
    ASSUME IInv, NEW w \in Workers, NEW u \in Users, NEW c \in Contracts,
           NEW k \in Keys \cup {NoKey}, Submit(w, u, c, k)
    PROVE  IInv'
<1> DEFINE r == [pc |-> IF WithKey(k) # {} THEN "answered" ELSE "get", user |-> u,
                 contract |-> c, key |-> k, terms |-> NoTerms, answer |-> "original"]
<1>1. r \in Submitted
  BY DEF Submitted, Submits, Answers
<1>2. Ready(r) /\ \A v \in Workers : ~Clash(req[v], r)
  BY DEF Submit, Ready, Clash
<1> QED
  BY <1>1, <1>2, SubmittedAreRequests, TablesStep DEF Submit

(***************************************************************************)
(* The steps of a submit before its transaction.                           *)
(***************************************************************************)
LEMMA GetCodeStep ==
    ASSUME IInv, NEW w \in Workers, GetCode(w)
    PROVE  IInv'
<1>1. req[w].pc = "get" /\ req[w] \in Submitted /\ Ready(req[w]) /\ UNCHANGED tables
  BY RequestFacts DEF GetCode, At, IInv, TypeOK, RequestsInv, Submits
<1>2. CASE req[w].contract \in code
  <2> DEFINE r == [req[w] EXCEPT !.pc = "del"]
  <2>1. r \in Submitted /\ r.pc = "del" /\ r.contract = req[w].contract
    BY <1>1, MoveFacts DEF Submits
  <2>2. Ready(r) /\ \A v \in Workers : ~Clash(req[v], r)
    BY <1>1, <2>1 DEF Ready, Clash
  <2>3. req' = [req EXCEPT ![w] = r]
    BY <1>2 DEF GetCode, Step, IInv, TypeOK
  <2> QED
    BY <1>1, <2>1, <2>2, <2>3, SubmittedAreRequests, TablesStep
<1>3. CASE req[w].contract \notin code
  BY <1>1, <1>3, AnswerStep DEF GetCode, Submits, Answers
<1> QED
  BY <1>2, <1>3

(***************************************************************************)
(* The code is deleted, or the deletion fails; either way the request goes *)
(* on to its transaction.                                                  *)
(***************************************************************************)
LEMMA DelCodeStep ==
    ASSUME IInv, NEW w \in Workers, DelCode(w)
    PROVE  IInv'
<1>1. req[w].pc = "del" /\ req[w] \in Submitted /\ Ready(req[w])
  BY RequestFacts DEF DelCode, At, IInv, TypeOK, RequestsInv, Submits
<1> DEFINE r == [req[w] EXCEPT !.pc = "tx"]
<1>2. r \in Submitted /\ r.pc = "tx" /\ r.contract = req[w].contract
  BY <1>1, MoveFacts DEF Submits
<1>3. Ready(r) /\ \A v \in Workers : ~Clash(req[v], r)
  BY <1>1, <1>2 DEF Ready, Clash
<1>4. req' = [req EXCEPT ![w] = r] /\ UNCHANGED <<tier, contract, investments>>
  BY DEF DelCode, Step, IInv, TypeOK
<1>5. code' \subseteq Contracts
  BY DEF DelCode, IInv, TypeOK
<1> DEFINE c == req[w].contract
<1>6. uses' = [uses EXCEPT ![c] = IF uses[c] = 0 THEN 1 ELSE 2] /\ uses \in [Contracts -> 0..2]
  BY DEF DelCode, IInv, TypeOK
<1>7. uses' \in [Contracts -> 0..2]
  <2>1. c \in Contracts /\ (IF uses[c] = 0 THEN 1 ELSE 2) \in 0..2
    BY <1>1 DEF Submitted
  <2> QED
    BY <1>6, <2>1
<1>8. tier' \in [Tiers -> Terms \cup {NoTerms}] /\ TierOfContractExists'
  BY <1>4 DEF IInv, TypeOK, TierOfContractExists
<1> QED
  BY <1>2, <1>3, <1>4, <1>5, <1>7, <1>8, SubmittedAreRequests, QuietStep

-----------------------------------------------------------------------------
(***************************************************************************)
(* The transaction of a submit.  The tier it reads gives terms, because    *)
(* no tier of a contract is deleted.                                       *)
(***************************************************************************)
LEMMA ReadContractStep ==
    ASSUME IInv, NEW w \in Workers, ReadContract(w)
    PROVE  IInv'
<1>1. req[w].pc = "tx" /\ req[w] \in Submitted /\ Ready(req[w]) /\ UNCHANGED tables
  BY RequestFacts DEF ReadContract, At, IInv, TypeOK, RequestsInv, Submits
<1> DEFINE c == req[w].contract
<1>2. CASE contract[c].user = req[w].user
  <2> DEFINE t == tier[contract[c].tier]
             r == [req[w] EXCEPT !.pc = "sign", !.terms = t]
  <2>1. c \in Contracts /\ contract[c].status # "none" /\ t \in Terms
    BY <1>1 DEF Submitted, Ready, IInv, TypeOK, TierOfContractExists
  <2>2. r \in Submitted /\ r.pc = "sign" /\ r.contract = c /\ r.user = req[w].user /\ r.terms = t
    BY <1>1, <2>1, ReadFacts
  <2>3. Ready(r) /\ \A v \in Workers : ~Clash(req[v], r)
    BY <1>2, <2>1, <2>2 DEF Ready, Clash
  <2>4. req' = [req EXCEPT ![w] = r]
    BY <1>2 DEF ReadContract, IInv, TypeOK
  <2> QED
    BY <1>1, <2>2, <2>3, <2>4, SubmittedAreRequests, TablesStep
<1>3. CASE contract[c].user # req[w].user
  BY <1>1, <1>3, AnswerStep DEF ReadContract, Submits, Answers
<1> QED
  BY <1>2, <1>3

(***************************************************************************)
(* The update locks the row of a draft that nobody else has locked.        *)
(***************************************************************************)
LEMMA SignContractStep ==
    ASSUME IInv, NEW w \in Workers, SignContract(w)
    PROVE  IInv'
<1>1. req[w].pc = "sign" /\ req[w] \in Submitted /\ Ready(req[w]) /\ UNCHANGED tables
  BY RequestFacts DEF SignContract, At, IInv, TypeOK, RequestsInv, Submits
<1> DEFINE r == [req[w] EXCEPT !.pc = "insert"]
<1>2. CASE contract[req[w].contract].status = "draft"
  <2>1. /\ r \in Submitted /\ r.pc = "insert" /\ r.contract = req[w].contract
        /\ r.user = req[w].user /\ r.terms = req[w].terms
    BY <1>1, MoveFacts DEF Submits
  <2>2. Ready(r)
    BY <1>1, <1>2, <2>1 DEF Ready
  <2>3. \A v \in Workers \ {w} : ~Clash(req[v], r)
    BY <2>1 DEF Clash, SignContract, ContractLocked
  <2>4. req' = [req EXCEPT ![w] = r]
    BY <1>2 DEF SignContract, Step, IInv, TypeOK
  <2> QED
    BY <1>1, <2>1, <2>2, <2>3, <2>4, SubmittedAreRequests, TablesStep
<1>3. CASE contract[req[w].contract].status # "draft"
  BY <1>1, <1>3, AnswerStep DEF SignContract, Submits, Answers
<1> QED
  BY <1>2, <1>3

(***************************************************************************)
(* The insert finds neither a committed row with its key nor one about to  *)
(* be committed.                                                           *)
(***************************************************************************)
LEMMA CreateInvestmentStep ==
    ASSUME IInv, NEW w \in Workers, CreateInvestment(w)
    PROVE  IInv'
<1>1. req[w].pc = "insert" /\ req[w] \in Submitted /\ Ready(req[w]) /\ UNCHANGED tables
  BY RequestFacts DEF CreateInvestment, At, IInv, TypeOK, RequestsInv, Submits
<1> DEFINE r == [req[w] EXCEPT !.pc = "commit"]
<1>2. CASE WithKey(req[w].key) = {}
  <2>1. /\ r \in Submitted /\ r.pc = "commit" /\ r.contract = req[w].contract
        /\ r.user = req[w].user /\ r.terms = req[w].terms /\ r.key = req[w].key
    BY <1>1, MoveFacts DEF Submits
  <2>2. Ready(r)
    BY <1>1, <1>2, <2>1 DEF Ready
  <2>3. \A v \in Workers \ {w} : ~Clash(req[v], req[w])
    BY DEF IInv, RequestsInv
  <2>4. \A v \in Workers \ {w} : ~Clash(req[v], r)
    BY <1>1, <2>1, <2>3 DEF Clash, CreateInvestment, KeyLocked, At
  <2>5. req' = [req EXCEPT ![w] = r]
    BY <1>2 DEF CreateInvestment, Step, IInv, TypeOK
  <2> QED
    BY <1>1, <2>1, <2>2, <2>4, <2>5, SubmittedAreRequests, TablesStep
<1>3. CASE WithKey(req[w].key) # {}
  BY <1>1, <1>3, AnswerStep DEF CreateInvestment, Submits, Answers
<1> QED
  BY <1>2, <1>3

(***************************************************************************)
(* The commit: the contract was a draft without an investment, and no      *)
(* other request could have put its key into the table.                    *)
(***************************************************************************)
LEMMA CommitInvestmentStep ==
    ASSUME IInv, NEW w \in Workers, CommitInvestment(w)
    PROVE  IInv'
<1> DEFINE r == req[w]
           row == [contract |-> r.contract, user |-> r.user, key |-> r.key, terms |-> r.terms]
           n == Len(investments)
           done == [r EXCEPT !.pc = "answered", !.answer = "created"]
<1>1. /\ r.pc = "commit" /\ r \in Submitted /\ Ready(r)
      /\ investments' = Append(investments, row)
      /\ contract' = [contract EXCEPT ![r.contract].status = "signed"]
      /\ req' = [req EXCEPT ![w] = done]
      /\ UNCHANGED <<tier, code, uses>>
  BY RequestFacts DEF CommitInvestment, At, Answer, IInv, TypeOK, RequestsInv, Submits
<1> HIDE DEF r
<1>2. /\ r.contract \in Contracts /\ r.key \in Keys \cup {NoKey} /\ row \in Investment
      /\ contract[r.contract].status = "draft" /\ contract[r.contract].user = r.user
      /\ WithKey(r.key) = {}
  BY <1>1 DEF Submitted, Ready, Investment
<1>3. /\ investments \in Seq(Investment) /\ n \in Nat
      /\ DOMAIN investments = 1..n /\ DOMAIN investments' = 1..(n + 1)
      /\ \A i \in 1..n : investments'[i] = investments[i]
      /\ investments'[n + 1] = row
      /\ investments' \in Seq(Investment)
  BY <1>1, <1>2 DEF IInv, TypeOK, Investment
<1>4. \A c \in Contracts :
         /\ contract'[c].user = contract[c].user /\ contract'[c].tier = contract[c].tier
         /\ contract'[c].status = IF c = r.contract THEN "signed" ELSE contract[c].status
  <2>1. contract \in [Contracts -> ContractRow]
    BY DEF IInv, TypeOK, ContractRow
  <2> QED
    BY <1>1, <1>2, <2>1 DEF ContractRow
<1>5. contract' \in [Contracts -> ContractRow]
  <2>1. contract \in [Contracts -> ContractRow]
    BY DEF IInv, TypeOK, ContractRow
  <2>2. [contract[r.contract] EXCEPT !.status = "signed"] \in ContractRow
    BY <1>2, <2>1 DEF ContractRow, Status
  <2> QED
    BY <1>1, <2>1, <2>2
<1>6. done \in Request /\ done.pc = "answered"
  BY <1>1, AnswerFacts, SubmittedAreRequests DEF Answers
<1>7. \A v \in Workers : req'[v] = IF v = w THEN done ELSE req[v]
  BY <1>1 DEF IInv, TypeOK
<1>8. TypeOK'
  BY <1>1, <1>3, <1>5, <1>6 DEF IInv, TypeOK, ContractRow, Investment
<1>9. \A i \in 1..n : investments[i].contract # r.contract
  BY <1>2, <1>3 DEF IInv, RowsInv, InvestedIn
<1>10. r.key # NoKey => \A i \in 1..n : investments[i].key # r.key
  BY <1>2, <1>3 DEF WithKey
<1>11. RowsInv'
  <2> HIDE DEF n
  <2>1. row.contract = r.contract /\ row.key = r.key
    OBVIOUS
  <2> HIDE DEF row
  <2>2. \A i \in 1..(n + 1) : i \in 1..n \/ i = n + 1
    BY <1>3
  <2>3. \A i, j \in 1..n : /\ investments[i].contract = investments[j].contract => i = j
                           /\ investments[i].key # NoKey
                              /\ investments[i].key = investments[j].key => i = j
    BY <1>3 DEF IInv, RowsInv
  <2>4. \A i, j \in 1..(n + 1) :
           investments'[i].contract = investments'[j].contract => i = j
    BY <1>3, <1>9, <2>1, <2>2, <2>3
  <2>5. \A i, j \in 1..(n + 1) :
           investments'[i].key # NoKey /\ investments'[i].key = investments'[j].key => i = j
    BY <1>3, <1>10, <2>1, <2>2, <2>3
  <2>6. ASSUME NEW c \in Contracts
        PROVE  contract'[c].status = "signed" <=>
                  \E i \in 1..(n + 1) : investments'[i].contract = c
    <3>1. CASE c = r.contract
      <4>1. n + 1 \in 1..(n + 1) /\ investments'[n + 1].contract = c
        BY <1>3, <2>1, <3>1
      <4> QED
        BY <1>4, <3>1, <4>1
    <3>2. CASE c # r.contract
      <4>1. contract[c].status = "signed" <=> \E i \in 1..n : investments[i].contract = c
        BY <1>3 DEF IInv, RowsInv, InvestedIn
      <4>2. 1..n \subseteq 1..(n + 1)
        BY <1>3
      <4>3. \A i \in 1..(n + 1) : investments'[i].contract = c => i \in 1..n
        BY <1>3, <2>1, <2>2, <3>2
      <4> QED
        BY <1>3, <1>4, <3>2, <4>1, <4>2, <4>3
    <3> QED
      BY <3>1, <3>2
  <2> QED
    BY <1>3, <2>4, <2>5, <2>6 DEF RowsInv, InvestedIn
<1>12. InvestedByOwner'
  <2>1. \A i \in 1..n : investments[i] \in Investment
    BY <1>3
  <2>2. \A i \in 1..n : investments[i].contract \in Contracts
    BY <2>1 DEF Investment
  <2> QED
    BY <1>2, <1>3, <1>4, <2>2 DEF IInv, InvestedByOwner
<1>13. TierOfContractExists'
  BY <1>1, <1>2, <1>4 DEF IInv, TierOfContractExists
<1>14. ASSUME NEW v \in Workers \ {w}
       PROVE  Ready(req[v])'
  <2>1. req'[v] = req[v] /\ Ready(req[v]) /\ ~Clash(req[v], r) /\ req[v] \in Request
    BY <1>7 DEF IInv, TypeOK, RequestsInv, r
  <2>2. req[v].pc \in Submits => req[v].contract \in Contracts /\ req[v].key \in Keys \cup {NoKey}
    BY <2>1, RequestFacts DEF Submitted
  <2>3. req[v].pc \in {"insert", "commit"} => req[v].contract # r.contract
    BY <1>1, <2>1 DEF Clash
  <2>4. req[v].pc = "commit" => WithKey(req[v].key)' = {}
    <3> SUFFICES ASSUME req[v].pc = "commit", NEW i \in 1..(n + 1),
                        req[v].key # NoKey, investments'[i].key = req[v].key
                 PROVE  FALSE
      BY <1>3, <2>1 DEF WithKey
    <3>1. req[v].key # r.key
      BY <1>1, <2>1 DEF Clash
    <3>2. i \in 1..n /\ investments[i].key = req[v].key
      BY <1>3, <3>1
    <3> QED
      BY <1>3, <2>1, <3>2 DEF Ready, WithKey
  <2> QED
    BY <1>4, <2>1, <2>2, <2>3, <2>4 DEF Ready, Submits
<1>15. RequestsInv'
  <2>1. Ready(req[w])'
    BY <1>6, <1>7 DEF Ready
  <2>2. \A v, x \in Workers : v # x => ~Clash(req'[v], req'[x])
    <3> SUFFICES ASSUME NEW v \in Workers, NEW x \in Workers, v # x
                 PROVE  ~Clash(req'[v], req'[x])
      OBVIOUS
    <3>1. CASE v = w \/ x = w
      BY <1>6, <1>7, <3>1 DEF Clash
    <3>2. CASE v # w /\ x # w
      BY <1>7, <3>2 DEF IInv, RequestsInv
    <3> QED
      BY <3>1, <3>2
  <2> QED
    BY <1>14, <2>1, <2>2 DEF RequestsInv, Clash
<1> QED
  BY <1>8, <1>11, <1>12, <1>13, <1>15 DEF IInv

-----------------------------------------------------------------------------
(***************************************************************************)
(* A new draft is no contract that anyone works on, and its tier exists:   *)
(* the foreign key is checked in the same statement.                       *)
(***************************************************************************)
LEMMA CreateContractStep ==
    ASSUME IInv, NEW w \in Workers, CreateContract(w)
    PROVE  IInv'
<1>1. /\ req[w].user \in Users /\ req[w].tier \in Tiers /\ req[w].shown \in Terms
      /\ UNCHANGED <<tier, code, investments, uses>>
  BY RequestFacts DEF CreateContract, At, IInv, TypeOK
<1>2. CASE Finish(w) /\ UNCHANGED contract
  BY <1>1, <1>2, FinishStep DEF tables
<1>3. ASSUME tier[req[w].tier] # NoTerms, NEW c \in Contracts, contract[c].status = "none",
             contract' = [contract EXCEPT ![c] =
                 [status |-> "draft", user |-> req[w].user, tier |-> req[w].tier,
                  shown |-> req[w].shown]],
             req' = [req EXCEPT ![w] = [pc |-> "issue", contract |-> c]]
      PROVE  IInv'
  <2> DEFINE new == [status |-> "draft", user |-> req[w].user, tier |-> req[w].tier,
                     shown |-> req[w].shown]
             r == [pc |-> "issue", contract |-> c]
  <2>1. contract \in [Contracts -> ContractRow] /\ new \in ContractRow
    BY <1>1 DEF IInv, TypeOK, ContractRow, Status
  <2>2. /\ contract' \in [Contracts -> ContractRow]
        /\ \A d \in Contracts : contract'[d] = IF d = c THEN new ELSE contract[d]
    BY <1>3, <2>1
  <2>3. \A v \in Workers : req'[v] = IF v = w THEN r ELSE req[v]
    BY <1>3 DEF IInv, TypeOK
  <2>4. r \in Request
    BY DEF Request
  <2>5. TypeOK'
    BY <1>1, <1>3, <2>2, <2>4 DEF IInv, TypeOK, ContractRow
  <2>6. TierOfContractExists'
    BY <1>1, <1>3, <2>2 DEF IInv, TierOfContractExists
  <2>7. \A i \in DOMAIN investments : investments[i].contract \in Contracts \ {c}
    <3>1. investments \in Seq(Investment)
      BY DEF IInv, TypeOK, Investment
    <3>2. \A i \in DOMAIN investments : investments[i] \in Investment
      BY <3>1
    <3>3. InvestedIn(c) = {}
      BY <1>3 DEF IInv, RowsInv
    <3> QED
      BY <3>2, <3>3 DEF Investment, InvestedIn
  <2>8. InvestedByOwner'
    BY <1>1, <2>2, <2>7 DEF IInv, InvestedByOwner
  <2>9. RowsInv'
    <3>1. \A d \in Contracts : InvestedIn(d)' = InvestedIn(d)
      BY <1>1 DEF InvestedIn
    <3>2. \A d \in Contracts : contract'[d].status = "signed" <=> contract[d].status = "signed"
      BY <1>3, <2>2
    <3> QED
      BY <1>1, <3>1, <3>2 DEF IInv, RowsInv
  <2>10. ASSUME NEW v \in Workers PROVE Ready(req[v])'
    <3>1. CASE v = w
      BY <2>3, <3>1 DEF Ready
    <3>2. CASE v # w
      <4>1. req'[v] = req[v] /\ Ready(req[v]) /\ req[v] \in Request
        BY <2>3, <3>2 DEF IInv, TypeOK, RequestsInv
      <4>2. req[v].pc \in Submits => req[v].contract \in Contracts
        BY <4>1, RequestFacts DEF Submitted
      <4> QED
        BY <1>1, <1>3, <2>2, <4>1, <4>2 DEF Ready, Submits, WithKey
    <3> QED
      BY <3>1, <3>2
  <2>11. \A v, x \in Workers : v # x => ~Clash(req'[v], req'[x])
    BY <2>3 DEF IInv, RequestsInv, Clash
  <2>12. RequestsInv'
    BY <2>10, <2>11 DEF RequestsInv, Clash
  <2> QED
    BY <2>5, <2>6, <2>8, <2>9, <2>12 DEF IInv
<1> QED
  BY <1>2, <1>3 DEF CreateContract

(***************************************************************************)
(* The code of a new contract.                                             *)
(***************************************************************************)
LEMMA IssueCodeStep ==
    ASSUME IInv, NEW w \in Workers, IssueCode(w)
    PROVE  IInv'
<1>1. code' \subseteq Contracts
  BY RequestFacts DEF IssueCode, At, IInv, TypeOK
<1>2. UNCHANGED <<tier, contract, investments, uses>> /\ req' = [req EXCEPT ![w] = Idle]
  BY DEF IssueCode, Finish
<1>3. TierOfContractExists'
  BY <1>2 DEF IInv, TierOfContractExists
<1> QED
  BY <1>1, <1>2, <1>3, IdleFacts, QuietStep DEF IInv, TypeOK

(***************************************************************************)
(* The foreign key keeps the tiers of contracts.                           *)
(***************************************************************************)
LEMMA DeleteTierStep ==
    ASSUME IInv, NEW w \in Workers, DeleteTier(w)
    PROVE  IInv'
<1>1. UNCHANGED <<contract, code, investments, uses>> /\ req' = [req EXCEPT ![w] = Idle]
  BY DEF DeleteTier, Finish
<1>2. /\ tier' \in [Tiers -> Terms \cup {NoTerms}]
      /\ \A t \in Tiers : tier'[t] # tier[t] => ~TierInUse(t)
  BY DEF DeleteTier, IInv, TypeOK
<1>3. TierOfContractExists'
  <2> SUFFICES ASSUME NEW c \in Contracts, contract[c].status # "none"
               PROVE  tier'[contract[c].tier] # NoTerms
    BY <1>1 DEF TierOfContractExists
  <2>1. contract[c].tier \in Tiers /\ TierInUse(contract[c].tier)
    BY DEF IInv, TypeOK, TierInUse
  <2> QED
    BY <1>2, <2>1 DEF IInv, TierOfContractExists
<1> QED
  BY <1>1, <1>2, <1>3, IdleFacts, QuietStep DEF IInv, TypeOK

(***************************************************************************)
(* Steps of no request: QuietStep does not apply, but no more changes.     *)
(***************************************************************************)
LEMMA OtherStep ==
    ASSUME IInv, UNCHANGED <<contract, investments, uses, req>>,
           code' \subseteq Contracts,
           tier' \in [Tiers -> Terms \cup {NoTerms}], TierOfContractExists'
    PROVE  IInv'
BY DEF IInv, TypeOK, RequestsInv, Ready, Clash, WithKey, RowsInv, InvestedIn, InvestedByOwner

(***************************************************************************)
(* The initial states satisfy the inductive invariant.                     *)
(***************************************************************************)
LEMMA InitInv == Init => IInv
<1> SUFFICES ASSUME Init PROVE IInv
  OBVIOUS
<1>1. PICK u \in Users, t \in Tiers : contract = [c \in Contracts |->
           [status |-> "none", user |-> u, tier |-> t, shown |-> NoTerms]]
  BY DEF Init
<1>2. DOMAIN investments = {} /\ investments \in Seq(Investment)
  BY DEF Init
<1>3. req \in [Workers -> Request] /\ \A w \in Workers : req[w] = Idle
  BY IdleFacts DEF Init
<1>4. TypeOK
  BY <1>1, <1>2, <1>3 DEF Init, TypeOK, Status, Investment
<1>5. RequestsInv
  BY <1>3, IdleFacts DEF RequestsInv
<1>6. RowsInv /\ InvestedByOwner /\ TierOfContractExists
  BY <1>1, <1>2 DEF RowsInv, InvestedByOwner, TierOfContractExists, InvestedIn
<1> QED
  BY <1>4, <1>5, <1>6 DEF IInv

(***************************************************************************)
(* Every step keeps the inductive invariant.                               *)
(***************************************************************************)
LEMMA NextInv == IInv /\ [Next]_vars => IInv'
<1> SUFFICES ASSUME IInv, [Next]_vars PROVE IInv'
  OBVIOUS
<1>1. ASSUME NEW w \in Workers, Signing(w) PROVE IInv'
  BY <1>1, GetCodeStep, DelCodeStep, ReadContractStep, SignContractStep,
     CreateInvestmentStep, CommitInvestmentStep DEF Signing
<1>2. ASSUME NEW w \in Workers, Answered(w) \/ Abort(w) PROVE IInv'
  BY <1>2, FinishStep DEF Answered, Abort
<1>3. ASSUME NEW w \in Workers, CreateContract(w) \/ IssueCode(w) \/ DeleteTier(w) PROVE IInv'
  BY <1>3, CreateContractStep, IssueCodeStep, DeleteTierStep
<1>4. CASE ExpireCode
  <2>1. UNCHANGED <<tier, contract, investments, uses, req>> /\ code' \subseteq Contracts
    BY <1>4 DEF ExpireCode, IInv, TypeOK
  <2>2. tier' \in [Tiers -> Terms \cup {NoTerms}] /\ TierOfContractExists'
    BY <2>1 DEF IInv, TypeOK, TierOfContractExists
  <2> QED
    BY <2>1, <2>2, OtherStep
<1>5. ASSUME NEW t \in Tiers, UpdateTier(t) PROVE IInv'
  <2>1. PICK new \in Terms : tier' = [tier EXCEPT ![t] = new]
    BY <1>5 DEF UpdateTier
  <2>2. UNCHANGED <<contract, code, investments, uses, req>>
    BY <1>5 DEF UpdateTier
  <2>3. tier' \in [Tiers -> Terms \cup {NoTerms}] /\ code' \subseteq Contracts
    BY <2>1, <2>2 DEF IInv, TypeOK
  <2>4. TierOfContractExists'
    BY <2>1, <2>2 DEF IInv, TypeOK, TierOfContractExists
  <2> QED
    BY <2>2, <2>3, <2>4, OtherStep
<1>6. CASE UNCHANGED vars
  <2>1. UNCHANGED <<tier, contract, code, investments, uses, req>>
    BY <1>6 DEF vars, tables
  <2>2. /\ tier' \in [Tiers -> Terms \cup {NoTerms}] /\ TierOfContractExists'
        /\ code' \subseteq Contracts
    BY <2>1 DEF IInv, TypeOK, TierOfContractExists
  <2> QED
    BY <2>1, <2>2, OtherStep
<1>7. ASSUME NEW w \in Workers, NEW t \in Tiers, CheckTier(w, t) PROVE IInv'
  <2> DEFINE r == [pc |-> "delete", tier |-> t]
  <2>1. r \in Request /\ Ready(r) /\ \A v \in Workers : ~Clash(req[v], r)
    BY DEF Ready, Clash, Request
  <2> QED
    BY <1>7, <2>1, TablesStep DEF CheckTier
<1>8. ASSUME NEW w \in Workers, NEW t \in Tiers, NEW u \in Users, StartContract(w, u, t)
      PROVE  IInv'
  BY <1>8, StartContractStep
<1>9. ASSUME NEW w \in Workers, NEW u \in Users, NEW c \in Contracts, NEW k \in Keys \cup {NoKey},
             Submit(w, u, c, k)
      PROVE  IInv'
  BY <1>9, SubmitStep
<1> QED
  BY <1>1, <1>2, <1>3, <1>4, <1>5, <1>6, <1>7, <1>8, <1>9 DEF Next

(***************************************************************************)
(* The inductive invariant holds in every state.                           *)
(***************************************************************************)
LEMMA Inductive == Spec => []IInv
<1> QED
  BY InitInv, NextInv, PTL DEF Spec

(***************************************************************************)
(* Tables and requests keep the shape that the model gives them.           *)
(***************************************************************************)
THEOREM Typed == Spec => []TypeOK
<1>1. IInv => TypeOK
  BY DEF IInv
<1> QED
  BY <1>1, Inductive, PTL

(***************************************************************************)
(* A contract is signed exactly if it has one investment, for any number   *)
(* of requests that pass Verify with the same code.                        *)
(***************************************************************************)
THEOREM SignedContractsInvested == Spec => []SignedIffInvested
<1>1. IInv => SignedIffInvested
  <2> SUFFICES ASSUME IInv, NEW c \in Contracts
               PROVE  Cardinality(InvestedIn(c)) = IF contract[c].status = "signed" THEN 1 ELSE 0
    BY DEF SignedIffInvested
  <2>1. contract[c].status = "signed" <=> InvestedIn(c) # {}
    BY DEF IInv, RowsInv
  <2>2. CASE InvestedIn(c) = {}
    BY <2>1, <2>2, FS_EmptySet
  <2>3. ASSUME NEW i \in InvestedIn(c) PROVE Cardinality(InvestedIn(c)) = 1
    <3>1. InvestedIn(c) = {i}
      BY <2>3 DEF IInv, RowsInv, InvestedIn
    <3>2. Cardinality({i}) = 1
      BY FS_Singleton
    <3> QED
      BY <3>1, <3>2
  <2> QED
    BY <2>1, <2>2, <2>3
<1> QED
  BY <1>1, Inductive, PTL

(***************************************************************************)
(* However submits with one key overlap, they make one investment at most. *)
(***************************************************************************)
THEOREM KeysInvestOnce == Spec => []KeysUnique
<1>1. IInv => KeysUnique
  <2> SUFFICES ASSUME IInv, NEW k \in Keys
               PROVE  Cardinality(WithKey(k)) <= 1
    BY DEF KeysUnique
  <2>1. CASE WithKey(k) = {}
    BY <2>1, FS_EmptySet
  <2>2. ASSUME NEW i \in WithKey(k) PROVE Cardinality(WithKey(k)) = 1
    <3>1. WithKey(k) = {i}
      BY <2>2 DEF IInv, RowsInv, WithKey
    <3>2. Cardinality({i}) = 1
      BY FS_Singleton
    <3> QED
      BY <3>1, <3>2
  <2> QED
    BY <2>1, <2>2
<1> QED
  BY <1>1, Inductive, PTL

(***************************************************************************)
(* No tier of a contract is ever deleted, however its deletion and the     *)
(* start of a contract overlap.                                            *)
(***************************************************************************)
THEOREM TiersOfContractsExist == Spec => []TierOfContractExists
<1>1. IInv => TierOfContractExists
  BY DEF IInv
<1> QED
  BY <1>1, Inductive, PTL

(***************************************************************************)
(* Every investment belongs to the owner of its contract.                  *)
(***************************************************************************)
THEOREM OwnersInvest == Spec => []InvestedByOwner
<1>1. IInv => InvestedByOwner
  BY DEF IInv
<1> QED
  BY <1>1, Inductive, PTL
-----------------------------------------------------------------------------
(***************************************************************************)
(* The refinement.  The transactions that have read their tier give the    *)
(* terms that are quoted for a contract.                                   *)
(***************************************************************************)
Quotes(r) == r.pc \in {"sign", "insert", "commit"}

LEMMA QuotedTerms == IInv => Quoted \in [Contracts -> SUBSET Terms]
BY DEF IInv, RequestsInv, Ready, Quoted, Quoting

(***************************************************************************)
(* A request that goes on quotes no more than it did.                      *)
(***************************************************************************)
LEMMA QuotesLess ==
    ASSUME IInv, IInv', NEW w \in Workers, NEW r, req' = [req EXCEPT ![w] = r],
           Quotes(r) => /\ Quotes(req[w])
                        /\ r.contract = req[w].contract /\ r.terms = req[w].terms
    PROVE  Abstract!Withdrawn
<1>1. \A v \in Workers : req'[v] = IF v = w THEN r ELSE req[v]
  BY DEF IInv, TypeOK
<1>2. Quoted' \in [Contracts -> SUBSET Terms]
  <2>1. \A v \in Workers : Ready(req[v])'
    BY DEF IInv, RequestsInv
  <2> QED
    BY <2>1 DEF Ready, Quoted, Quoting
<1>3. ASSUME NEW c \in Contracts PROVE Quoted'[c] \subseteq Quoted[c]
  <2> SUFFICES ASSUME NEW v \in Workers, Quoting(v, c)'
               PROVE  req'[v].terms \in Quoted[c]
    BY DEF Quoted
  <2>1. Quoting(v, c) /\ req[v].terms = req'[v].terms
    BY <1>1 DEF Quoting, Quotes
  <2> QED
    BY <2>1 DEF Quoted
<1> QED
  BY <1>2, <1>3 DEF Abstract!Withdrawn

(***************************************************************************)
(* Requests outside these statements quote nothing.                        *)
(***************************************************************************)
LEMMA QuotesSame ==
    ASSUME IInv, NEW w \in Workers, NEW r, req' = [req EXCEPT ![w] = r],
           ~Quotes(r), ~Quotes(req[w])
    PROVE  Quoted' = Quoted
<1>1. \A v \in Workers : req'[v] = IF v = w THEN r ELSE req[v]
  BY DEF IInv, TypeOK
<1>2. \A v \in Workers, c \in Contracts : Quoting(v, c)' <=> Quoting(v, c)
  BY <1>1 DEF Quoting, Quotes
<1>3. \A v \in Workers, c \in Contracts : Quoting(v, c) => req'[v].terms = req[v].terms
  BY <1>1 DEF Quoting, Quotes
<1>4. ASSUME NEW c \in Contracts
      PROVE  {req'[v].terms : v \in {x \in Workers : Quoting(x, c)'}}
             = {req[v].terms : v \in {x \in Workers : Quoting(x, c)}}
  BY <1>2, <1>3
<1> QED
  BY <1>4 DEF Quoted

(***************************************************************************)
(* Nothing is signed, drafted or edited.                                   *)
(***************************************************************************)
LEMMA RefineQuiet ==
    ASSUME IInv, IInv', UNCHANGED <<tier, contract, investments>>,
           NEW w \in Workers, NEW r, req' = [req EXCEPT ![w] = r],
           Quotes(r) => /\ Quotes(req[w])
                        /\ r.contract = req[w].contract /\ r.terms = req[w].terms
    PROVE  Abstract!Next
<1>1. UNCHANGED Papers
  BY DEF Papers
<1> QED
  BY <1>1, QuotesLess DEF Abstract!Next, Abstract!Withdraw

(***************************************************************************)
(* Requests that end.                                                      *)
(***************************************************************************)
LEMMA RefineFinish ==
    ASSUME IInv, IInv', UNCHANGED <<tier, contract, investments>>, NEW w \in Workers, Finish(w)
    PROVE  Abstract!Next
<1>1. ~Quotes(Idle)
  BY DEF Quotes, Idle
<1> QED
  BY <1>1, RefineQuiet DEF Finish

(***************************************************************************)
(* The steps of a submit, apart from the reading and the commit.           *)
(***************************************************************************)
LEMMA RefineMove ==
    ASSUME IInv, IInv', UNCHANGED <<tier, contract, investments>>, NEW w \in Workers,
           req[w].pc \in Submits,
           \/ \E a \in Answers : Answer(w, a)
           \/ \E pc \in Submits : Step(w, pc) /\ (Quotes([pc |-> pc]) => Quotes(req[w]))
    PROVE  Abstract!Next
<1>1. req[w] \in Submitted
  BY RequestFacts DEF IInv, TypeOK
<1>2. ASSUME NEW a \in Answers, Answer(w, a) PROVE Abstract!Next
  <2> DEFINE r == [req[w] EXCEPT !.pc = "answered", !.answer = a]
  <2>1. ~Quotes(r)
    BY <1>1, AnswerFacts DEF Quotes
  <2>2. req' = [req EXCEPT ![w] = r]
    BY <1>2 DEF Answer, IInv, TypeOK
  <2> QED
    BY <2>1, <2>2, RefineQuiet
<1>3. ASSUME NEW pc \in Submits, Step(w, pc), Quotes([pc |-> pc]) => Quotes(req[w])
      PROVE  Abstract!Next
  <2> DEFINE r == [req[w] EXCEPT !.pc = pc]
  <2>1. r.pc = pc /\ r.contract = req[w].contract /\ r.terms = req[w].terms
    BY <1>1, MoveFacts
  <2>2. req' = [req EXCEPT ![w] = r]
    BY <1>3 DEF Step, IInv, TypeOK
  <2>3. Quotes(r) => Quotes(req[w])
    BY <1>3, <2>1 DEF Quotes
  <2> QED
    BY <2>1, <2>2, <2>3, RefineQuiet
<1> QED
  BY <1>2, <1>3

(***************************************************************************)
(* The terms are quoted when the transaction reads the tier, which is      *)
(* there because its contract is.                                          *)
(***************************************************************************)
LEMMA RefineRead ==
    ASSUME IInv, IInv', NEW w \in Workers, ReadContract(w)
    PROVE  Abstract!Next
<1> DEFINE c == req[w].contract
           t == tier[contract[c].tier]
           r == [req[w] EXCEPT !.pc = "sign", !.terms = t]
<1>1. /\ req[w].pc = "tx" /\ req[w] \in Submitted /\ Ready(req[w])
      /\ UNCHANGED <<tier, contract, investments>>
  BY RequestFacts DEF ReadContract, At, IInv, TypeOK, RequestsInv, Submits, tables
<1>2. c \in Contracts /\ contract[c].status # "none" /\ t \in Terms
  BY <1>1 DEF Submitted, Ready, IInv, TypeOK, TierOfContractExists
<1>3. CASE contract[c].user = req[w].user
  <2>1. r.pc = "sign" /\ r.contract = c /\ r.terms = t
    BY <1>1, <1>2, ReadFacts
  <2>2. req' = [req EXCEPT ![w] = r]
    BY <1>3 DEF ReadContract, IInv, TypeOK
  <2> HIDE DEF r, t, c
  <2>3. \A v \in Workers : req'[v] = IF v = w THEN r ELSE req[v]
    BY <2>2 DEF IInv, TypeOK
  <2>4. /\ \A d \in Contracts : Quoting(w, d)' <=> d = c
        /\ \A d \in Contracts : ~Quoting(w, d)
        /\ \A v \in Workers \ {w}, d \in Contracts : Quoting(v, d)' <=> Quoting(v, d)
    BY <1>1, <2>1, <2>3 DEF Quoting
  <2>5. ASSUME NEW d \in Contracts
        PROVE  Quoted'[d] = IF d = c THEN Quoted[c] \cup {t} ELSE Quoted[d]
    <3>1. Quoted'[d] = {req'[v].terms : v \in {x \in Workers : Quoting(x, d)'}}
      BY DEF Quoted
    <3>2. Quoted[d] = {req[v].terms : v \in {x \in Workers : Quoting(x, d)}}
      BY DEF Quoted
    <3>3. CASE d = c
      BY <2>1, <2>3, <2>4, <3>1, <3>2, <3>3
    <3>4. CASE d # c
      BY <2>3, <2>4, <3>1, <3>2, <3>4
    <3> QED
      BY <3>3, <3>4
  <2>6. Quoted' = [Quoted EXCEPT ![c] = Quoted[c] \cup {t}]
    BY <2>5 DEF Quoted
  <2>7. UNCHANGED Papers /\ Papers[c].status # "none" /\ tier[Papers[c].tier] = t
    BY <1>1, <1>2 DEF Papers, t
  <2>8. Abstract!Quote(c)
    BY <1>1, <2>6, <2>7 DEF Abstract!Quote
  <2> QED
    BY <1>2, <2>8 DEF Abstract!Next
<1>4. CASE contract[c].user # req[w].user
  <2>1. Answer(w, "forbidden") /\ "forbidden" \in Answers
    BY <1>4 DEF ReadContract, Answers
  <2> QED
    BY <1>1, <2>1, RefineMove DEF Submits
<1> QED
  BY <1>3, <1>4

(***************************************************************************)
(* The commit is the signature: the draft, its owner and the free key are  *)
(* what the locks of the transaction have kept.                            *)
(***************************************************************************)
LEMMA RefineCommit ==
    ASSUME IInv, IInv', NEW w \in Workers, CommitInvestment(w)
    PROVE  Abstract!Next
<1> DEFINE r == req[w]
           c == r.contract
           done == [r EXCEPT !.pc = "answered", !.answer = "created"]
<1>1. /\ r.pc = "commit" /\ r \in Submitted /\ Ready(r)
      /\ req' = [req EXCEPT ![w] = done]
      /\ UNCHANGED tier
  BY RequestFacts DEF CommitInvestment, At, Answer, IInv, TypeOK, RequestsInv, Submits
<1>2. /\ c \in Contracts /\ r.key \in Keys \cup {NoKey} /\ r.terms \in Terms
      /\ contract[c].status = "draft" /\ contract[c].user = r.user
      /\ WithKey(r.key) = {}
  BY <1>1 DEF Submitted, Ready
<1>3. Papers[c].status = "draft" /\ Papers[c].user = r.user
  BY <1>2 DEF Papers
<1>4. r.terms \in Quoted[c]
  BY <1>1, <1>2 DEF Quoted, Quoting
<1>5. Abstract!KeyFree(r.key)
  BY <1>2 DEF Abstract!KeyFree, WithKey
<1>6. Papers' = [Papers EXCEPT ![c].status = "signed"]
  <2>1. contract' = [contract EXCEPT ![c].status = "signed"]
    BY DEF CommitInvestment
  <2>2. contract \in [Contracts -> ContractRow]
    BY DEF IInv, TypeOK, ContractRow
  <2>3. ASSUME NEW d \in Contracts
        PROVE  /\ contract'[d].user = contract[d].user /\ contract'[d].tier = contract[d].tier
               /\ contract'[d].status = IF d = c THEN "signed" ELSE contract[d].status
    BY <1>2, <2>1, <2>2 DEF ContractRow
  <2> QED
    BY <1>2, <2>3 DEF Papers
<1>7. investments' = Append(investments, [contract |-> c, user |-> Papers[c].user,
                                          key |-> r.key, terms |-> r.terms])
  BY <1>3 DEF CommitInvestment
<1>8. Abstract!Withdrawn
  <2>1. ~Quotes(done)
    BY <1>1, AnswerFacts DEF Quotes, Answers
  <2> QED
    BY <1>1, <2>1, QuotesLess
<1>9. Abstract!Sign(c, r.key, r.terms)
  BY <1>1, <1>3, <1>4, <1>5, <1>6, <1>7, <1>8 DEF Abstract!Sign
<1> QED
  BY <1>2, <1>9 DEF Abstract!Next

(***************************************************************************)
(* The insert of a contract is the draft.                                  *)
(***************************************************************************)
LEMMA RefineCreate ==
    ASSUME IInv, IInv', NEW w \in Workers, CreateContract(w)
    PROVE  Abstract!Next
<1>1. /\ req[w].user \in Users /\ req[w].tier \in Tiers /\ req[w].shown \in Terms
      /\ req[w].pc = "create"
      /\ UNCHANGED <<tier, code, investments, uses>>
  BY RequestFacts DEF CreateContract, At, IInv, TypeOK
<1>2. CASE Finish(w) /\ UNCHANGED contract
  BY <1>1, <1>2, RefineFinish
<1>3. ASSUME tier[req[w].tier] # NoTerms, NEW c \in Contracts, contract[c].status = "none",
             contract' = [contract EXCEPT ![c] =
                 [status |-> "draft", user |-> req[w].user, tier |-> req[w].tier,
                  shown |-> req[w].shown]],
             req' = [req EXCEPT ![w] = [pc |-> "issue", contract |-> c]]
      PROVE  Abstract!Next
  <2>1. Quoted' = Quoted
    BY <1>1, <1>3, QuotesSame DEF Quotes
  <2>2. ASSUME NEW d \in Contracts
        PROVE  contract'[d] = IF d = c THEN [status |-> "draft", user |-> req[w].user,
                                             tier |-> req[w].tier, shown |-> req[w].shown]
                              ELSE contract[d]
    BY <1>3 DEF IInv, TypeOK
  <2>3. Papers' = [Papers EXCEPT ![c] =
                      [status |-> "draft", user |-> req[w].user, tier |-> req[w].tier]]
    <3> DEFINE new == [status |-> "draft", user |-> req[w].user, tier |-> req[w].tier]
    <3>1. \A d \in Contracts : Papers'[d] = IF d = c THEN new ELSE Papers[d]
      BY <2>2 DEF Papers
    <3> HIDE DEF new
    <3>2. Papers' = [Papers EXCEPT ![c] = new]
      BY <3>1 DEF Papers
    <3> QED
      BY <3>2 DEF new
  <2>4. Papers[c].status = "none"
    BY <1>3 DEF Papers
  <2>5. Abstract!Draft(c, req[w].user, req[w].tier)
    BY <1>1, <1>3, <2>1, <2>3, <2>4 DEF Abstract!Draft
  <2> QED
    BY <1>1, <2>5 DEF Abstract!Next
<1> QED
  BY <1>2, <1>3 DEF CreateContract

(***************************************************************************)
(* The deletion of a tier; the foreign key may refuse it.                  *)
(***************************************************************************)
LEMMA RefineDelete ==
    ASSUME IInv, IInv', NEW w \in Workers, DeleteTier(w)
    PROVE  Abstract!Next
<1> DEFINE t == req[w].tier
<1>1. /\ t \in Tiers /\ req[w].pc = "delete" /\ Finish(w)
      /\ UNCHANGED <<contract, investments>>
  BY RequestFacts DEF DeleteTier, At, IInv, TypeOK
<1>2. CASE TierInUse(t)
  BY <1>1, <1>2, RefineFinish DEF DeleteTier
<1>3. CASE ~TierInUse(t)
  <2>1. ~Quotes(req[w]) /\ ~Quotes(Idle)
    BY <1>1 DEF Quotes, Idle
  <2>2. Quoted' = Quoted
    BY <1>1, <2>1, QuotesSame DEF Finish
  <2>3. \A c \in Contracts : Papers[c].status # "none" => Papers[c].tier # t
    BY <1>3 DEF Papers, TierInUse
  <2>4. UNCHANGED Papers
    BY <1>1 DEF Papers
  <2>5. tier' = [tier EXCEPT ![t] = NoTerms]
    BY <1>3 DEF DeleteTier
  <2>6. Abstract!RemoveTier(t)
    BY <1>1, <2>2, <2>3, <2>4, <2>5 DEF Abstract!RemoveTier
  <2> QED
    BY <1>1, <2>6 DEF Abstract!Next
<1> QED
  BY <1>2, <1>3

(***************************************************************************)
(* Initial states map to initial states.                                   *)
(***************************************************************************)
LEMMA RefineInit == Init => Abstract!Init
<1> SUFFICES ASSUME Init PROVE Abstract!Init
  OBVIOUS
<1>1. PICK u \in Users, t \in Tiers : contract = [c \in Contracts |->
           [status |-> "none", user |-> u, tier |-> t, shown |-> NoTerms]]
  BY DEF Init
<1>2. Papers \in [Contracts -> [status : {"none"}, user : Users, tier : Tiers]]
  BY <1>1 DEF Papers
<1>3. \A w \in Workers, c \in Contracts : ~Quoting(w, c)
  BY DEF Init, Idle, Quoting
<1>4. Quoted = [c \in Contracts |-> {}]
  BY <1>3 DEF Quoted
<1> QED
  BY <1>2, <1>4 DEF Init, Abstract!Init

(***************************************************************************)
(* Every statement maps to an atomic step or to a stutter.                 *)
(***************************************************************************)
LEMMA RefineNext == IInv /\ IInv' /\ [Next]_vars => [Abstract!Next]_(Abstract!vars)
<1> SUFFICES ASSUME IInv, IInv', [Next]_vars
             PROVE  Abstract!Next \/ UNCHANGED Abstract!vars
  OBVIOUS
<1>1. ASSUME NEW w \in Workers, GetCode(w) \/ DelCode(w) \/ SignContract(w) \/ CreateInvestment(w)
      PROVE  Abstract!Next
  <2>1. req[w].pc \in Submits /\ UNCHANGED <<tier, contract, investments>>
    BY <1>1 DEF GetCode, DelCode, SignContract, CreateInvestment, At, Submits, tables
  <2>2. \/ \E a \in Answers : Answer(w, a)
        \/ \E pc \in Submits : Step(w, pc) /\ (Quotes([pc |-> pc]) => Quotes(req[w]))
    BY <1>1 DEF GetCode, DelCode, SignContract, CreateInvestment, At, Submits, Answers, Quotes
  <2> QED
    BY <2>1, <2>2, RefineMove
<1>2. ASSUME NEW w \in Workers, Answered(w) \/ Abort(w) \/ IssueCode(w) PROVE Abstract!Next
  BY <1>2, RefineFinish DEF Answered, Abort, IssueCode, tables
<1>3. ASSUME NEW w \in Workers, Signing(w) PROVE Abstract!Next
  BY <1>1, <1>3, RefineRead, RefineCommit DEF Signing
<1>4. ASSUME NEW w \in Workers, NEW r, req' = [req EXCEPT ![w] = r], ~Quotes(r),
             UNCHANGED tables
      PROVE  Abstract!Next
  BY <1>4, RefineQuiet DEF tables
<1>5. ASSUME NEW w \in Workers, NEW t \in Tiers, CheckTier(w, t) PROVE Abstract!Next
  BY <1>4, <1>5 DEF CheckTier, Quotes
<1>6. ASSUME NEW w \in Workers, NEW t \in Tiers, NEW u \in Users, StartContract(w, u, t)
      PROVE  Abstract!Next
  BY <1>4, <1>6 DEF StartContract, Quotes
<1>7. ASSUME NEW w \in Workers, NEW u \in Users, NEW c \in Contracts, NEW k \in Keys \cup {NoKey},
             Submit(w, u, c, k)
      PROVE  Abstract!Next
  <2> DEFINE r == [pc |-> IF WithKey(k) # {} THEN "answered" ELSE "get", user |-> u,
                   contract |-> c, key |-> k, terms |-> NoTerms, answer |-> "original"]
  <2>1. req' = [req EXCEPT ![w] = r] /\ UNCHANGED tables
    BY <1>7 DEF Submit
  <2>2. ~Quotes(r)
    BY DEF Quotes
  <2> QED
    BY <1>4, <2>1, <2>2
<1>8. ASSUME NEW t \in Tiers, UpdateTier(t) PROVE Abstract!Next
  <2>1. PICK new \in Terms : tier' = [tier EXCEPT ![t] = new]
    BY <1>8 DEF UpdateTier
  <2>2. UNCHANGED <<Papers, Quoted, investments>> /\ tier[t] # NoTerms
    BY <1>8 DEF UpdateTier, Papers, Quoted, Quoting
  <2>3. Abstract!ChangeTier(t, new)
    BY <2>1, <2>2 DEF Abstract!ChangeTier
  <2> QED
    BY <2>3 DEF Abstract!Next
<1>9. ASSUME UNCHANGED <<tier, contract, investments, req>> PROVE UNCHANGED Abstract!vars
  BY <1>9 DEF Abstract!vars, Papers, Quoted, Quoting
<1>10. CASE ExpireCode \/ UNCHANGED vars
  BY <1>9, <1>10 DEF ExpireCode, vars, tables
<1> QED
  BY <1>2, <1>3, <1>5, <1>6, <1>7, <1>8, <1>10, RefineCreate, RefineDelete DEF Next

(***************************************************************************)
(* The overlapping statements of StartContract, SignAndCreateInvestment    *)
(* and the edits of tiers implement the atomic signing of Signing.         *)
(***************************************************************************)
THEOREM Refinement == Spec => ImplementsSigning
<1> QED
  BY RefineInit, RefineNext, Inductive, PTL DEF Spec, ImplementsSigning, Abstract!Spec
-----------------------------------------------------------------------------
(***************************************************************************)
(* The atomic steps of Signing keep its promises, whoever takes them: this *)
(* is what the refinement is worth.                                        *)
(***************************************************************************)
LEMMA InvestedContracts ==
    ASSUME Abstract!TypeOK, Abstract!Promises, NEW i \in DOMAIN investments
    PROVE  investments[i].contract \in Contracts
             /\ Papers[investments[i].contract].status = "signed"
<1> DEFINE Row == [contract : Contracts, user : Users, key : Keys \cup {NoKey}, terms : Terms]
<1>1. investments \in Seq(Row)
  BY DEF Abstract!TypeOK
<1> HIDE DEF Row
<1>2. investments[i] \in Row
  <2>1. DOMAIN investments = 1..Len(investments) /\ investments \in [1..Len(investments) -> Row]
    BY <1>1
  <2> QED
    BY <2>1
<1>3. investments[i].contract \in Contracts
  BY <1>2 DEF Row
<1> QED
  BY <1>3 DEF Abstract!Promises

LEMMA PromisesSign ==
    ASSUME Abstract!TypeOK, Abstract!Promises, NEW c \in Contracts, NEW k \in Keys \cup {NoKey},
           NEW terms \in Terms, Abstract!Sign(c, k, terms)
    PROVE  Abstract!TypeOK' /\ Abstract!Promises'
<1> DEFINE Row == [contract : Contracts, user : Users, key : Keys \cup {NoKey}, terms : Terms]
           row == [contract |-> c, user |-> Papers[c].user, key |-> k, terms |-> terms]
           n == Len(investments)
<1>1. /\ Papers[c].status = "draft" /\ tier' = tier
      /\ Papers' = [Papers EXCEPT ![c].status = "signed"]
      /\ investments' = Append(investments, row)
      /\ Abstract!KeyFree(k) /\ Abstract!Withdrawn
  BY DEF Abstract!Sign
<1>2. /\ tier \in [Tiers -> Terms \cup {NoTerms}]
      /\ Papers \in [Contracts -> [status : {"none", "draft", "signed"}, user : Users, tier : Tiers]]
      /\ Quoted \in [Contracts -> SUBSET Terms] /\ investments \in Seq(Row)
  BY DEF Abstract!TypeOK
<1>3. row \in Row
  BY <1>2
<1>4. n \in Nat /\ DOMAIN investments = 1..n
  BY <1>2
<1>5. /\ investments' \in Seq(Row) /\ DOMAIN investments' = 1..(n + 1)
      /\ investments'[n + 1] = row /\ \A i \in 1..n : investments'[i] = investments[i]
  BY <1>1, <1>2, <1>3
<1>6. Papers' \in [Contracts -> [status : {"none", "draft", "signed"}, user : Users, tier : Tiers]]
  BY <1>1, <1>2
<1>7. \A d \in Contracts : /\ Papers'[d].user = Papers[d].user /\ Papers'[d].tier = Papers[d].tier
                           /\ Papers'[d].status = IF d = c THEN "signed" ELSE Papers[d].status
  BY <1>1, <1>2
<1>8. Quoted' \in [Contracts -> SUBSET Terms]
  BY <1>1, <1>2 DEF Abstract!Withdrawn
<1>9. Abstract!TypeOK'
  BY <1>1, <1>2, <1>5, <1>6, <1>8 DEF Abstract!TypeOK
<1>10. \A i \in 1..n : investments[i].contract \in Contracts /\ investments[i].contract # c
  BY <1>1, <1>4, InvestedContracts
<1>11. \A i \in 1..n : investments[i].key = k => k = NoKey
  BY <1>1, <1>4 DEF Abstract!KeyFree
<1>12. \A i \in 1..(n + 1) : i \in 1..n \/ i = n + 1
  BY <1>4
<1> HIDE DEF row, n
<1>13. row.contract = c /\ row.user = Papers[c].user /\ row.key = k
  BY DEF row
<1>14. \A d \in Contracts :
          Papers'[d].status = "signed" <=> \E i \in 1..(n + 1) : investments'[i].contract = d
  <2> SUFFICES ASSUME NEW d \in Contracts
               PROVE  Papers'[d].status = "signed"
                        <=> \E i \in 1..(n + 1) : investments'[i].contract = d
    OBVIOUS
  <2>1. n + 1 \in 1..(n + 1) /\ \A i \in 1..n : i \in 1..(n + 1)
    BY <1>4
  <2>2. Papers[d].status = "signed" <=> \E i \in 1..n : investments[i].contract = d
    BY <1>4 DEF Abstract!Promises
  <2>3. CASE d = c
    BY <1>5, <1>7, <1>13, <2>1, <2>3
  <2>4. CASE d # c
    BY <1>5, <1>7, <1>12, <1>13, <2>1, <2>2, <2>4
  <2> QED
    BY <2>3, <2>4
<1>15. \A i \in 1..(n + 1) : investments'[i].user = Papers'[investments'[i].contract].user
  BY <1>4, <1>5, <1>7, <1>10, <1>12, <1>13 DEF Abstract!Promises
<1>16. \A i, j \in 1..(n + 1) : i # j =>
          /\ investments'[i].contract # investments'[j].contract
          /\ investments'[i].key = investments'[j].key => investments'[i].key = NoKey
  <2>1. \A i, j \in 1..n : i # j =>
          /\ investments[i].contract # investments[j].contract
          /\ investments[i].key = investments[j].key => investments[i].key = NoKey
    BY <1>4 DEF Abstract!Promises
  <2> QED
    BY <1>5, <1>10, <1>11, <1>12, <1>13, <2>1
<1>17. \A d \in Contracts : Papers'[d].status # "none" => tier'[Papers'[d].tier] # NoTerms
  BY <1>1, <1>7 DEF Abstract!Promises
<1> QED
  BY <1>5, <1>9, <1>14, <1>15, <1>16, <1>17 DEF Abstract!Promises

LEMMA PromisesNext ==
    Abstract!TypeOK /\ Abstract!Promises /\ [Abstract!Next]_(Abstract!vars)
        => Abstract!TypeOK' /\ Abstract!Promises'
<1> SUFFICES ASSUME Abstract!TypeOK, Abstract!Promises, [Abstract!Next]_(Abstract!vars)
             PROVE  Abstract!TypeOK' /\ Abstract!Promises'
  OBVIOUS
<1> DEFINE Paper == [status : {"none", "draft", "signed"}, user : Users, tier : Tiers]
<1>1. /\ tier \in [Tiers -> Terms \cup {NoTerms}] /\ Papers \in [Contracts -> Paper]
      /\ Quoted \in [Contracts -> SUBSET Terms]
  BY DEF Abstract!TypeOK
<1>2. CASE Abstract!Withdraw
  BY <1>1, <1>2 DEF Abstract!Withdraw, Abstract!Withdrawn, Abstract!TypeOK, Abstract!Promises
<1>3. ASSUME NEW c \in Contracts, NEW u \in Users, NEW t \in Tiers, Abstract!Draft(c, u, t)
      PROVE  Abstract!TypeOK' /\ Abstract!Promises'
  <2>1. /\ Papers[c].status = "none" /\ tier[t] # NoTerms
        /\ Papers' = [Papers EXCEPT ![c] = [status |-> "draft", user |-> u, tier |-> t]]
        /\ UNCHANGED <<tier, Quoted, investments>>
    BY <1>3 DEF Abstract!Draft
  <2>2. Papers' \in [Contracts -> Paper]
    BY <1>1, <2>1
  <2>3. Abstract!TypeOK'
    BY <2>1, <2>2 DEF Abstract!TypeOK
  <2>4. \A i \in DOMAIN investments : investments[i].contract \in Contracts \ {c}
    BY <2>1, InvestedContracts
  <2>5. \A d \in Contracts : d # c => Papers'[d] = Papers[d]
    BY <1>1, <2>1
  <2>6. Papers'[c].status = "draft" /\ Papers'[c].tier = t
    BY <1>1, <2>1
  <2> QED
    BY <2>1, <2>3, <2>4, <2>5, <2>6 DEF Abstract!Promises
<1>4. ASSUME NEW c \in Contracts, Abstract!Quote(c)
      PROVE  Abstract!TypeOK' /\ Abstract!Promises'
  <2>1. /\ Papers[c].status # "none" /\ UNCHANGED <<tier, Papers, investments>>
        /\ Quoted' = [Quoted EXCEPT ![c] = @ \cup {tier[Papers[c].tier]}]
    BY <1>4 DEF Abstract!Quote
  <2>2. tier[Papers[c].tier] \in Terms
    BY <1>1, <2>1 DEF Abstract!Promises
  <2>3. Quoted' \in [Contracts -> SUBSET Terms]
    BY <1>1, <2>1, <2>2
  <2> QED
    BY <2>1, <2>3 DEF Abstract!TypeOK, Abstract!Promises
<1>5. ASSUME NEW t \in Tiers, NEW terms \in Terms, Abstract!ChangeTier(t, terms)
      PROVE  Abstract!TypeOK' /\ Abstract!Promises'
  <2>1. tier' = [tier EXCEPT ![t] = terms] /\ UNCHANGED <<Papers, Quoted, investments>>
    BY <1>5 DEF Abstract!ChangeTier
  <2> QED
    BY <1>1, <2>1 DEF Abstract!TypeOK, Abstract!Promises
<1>6. ASSUME NEW t \in Tiers, Abstract!RemoveTier(t)
      PROVE  Abstract!TypeOK' /\ Abstract!Promises'
  <2>1. /\ \A c \in Contracts : Papers[c].status # "none" => Papers[c].tier # t
        /\ tier' = [tier EXCEPT ![t] = NoTerms] /\ UNCHANGED <<Papers, Quoted, investments>>
    BY <1>6 DEF Abstract!RemoveTier
  <2> QED
    BY <1>1, <2>1 DEF Abstract!TypeOK, Abstract!Promises
<1>7. CASE UNCHANGED Abstract!vars
  BY <1>7 DEF Abstract!vars, Abstract!TypeOK, Abstract!Promises
<1> QED
  BY <1>2, <1>3, <1>4, <1>5, <1>6, <1>7, PromisesSign DEF Abstract!Next

LEMMA PromisesInit == Abstract!Init => Abstract!TypeOK /\ Abstract!Promises
BY DEF Abstract!Init, Abstract!TypeOK, Abstract!Promises

(***************************************************************************)
(* The atomic requests of investors and administrators keep what Signing   *)
(* promises: one investment per signed contract, of its owner, one per     *)
(* key, and no contract whose tier is gone.                                *)
(***************************************************************************)
THEOREM SigningKeepsPromises == Abstract!Spec => []Abstract!Promises
BY PromisesInit, PromisesNext, PTL DEF Abstract!Spec

(***************************************************************************)
(* And so do the statements of StartContract, SignAndCreateInvestment,     *)
(* UpdateTier and DeleteTier, which implement them.                        *)
(***************************************************************************)
THEOREM PromisesCarryOver == Spec => []Abstract!Promises
BY SigningKeepsPromises, Refinement, PTL DEF ImplementsSigning
=============================================================================
