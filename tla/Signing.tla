------------------------------ MODULE Signing ------------------------------
(***************************************************************************)
(* What the signing of contracts promises: a draft is signed once, for its *)
(* owner, with one investment and on terms that its tier had while the     *)
(* contract existed; an idempotency key buys once; a tier that is referred *)
(* to stays.  Each action is one request of an investor or administrator;  *)
(* ContractSigning describes the statements behind them.                   *)
(***************************************************************************)
EXTENDS Naturals, Sequences

CONSTANTS Users, Contracts, Tiers,
          Keys, NoKey,      \* idempotency keys; a request without one
          Terms, NoTerms    \* what a tier offers; a tier that is deleted

VARIABLES tier,         \* the terms of each tier now, or NoTerms
          contract,     \* status, owner and tier of each contract
          quoted,       \* the terms somebody is about to sign each contract on
          investments   \* the rows of investments, oldest first

vars == <<tier, contract, quoted, investments>>

KeyFree(k) == k # NoKey => \A i \in DOMAIN investments : investments[i].key # k
Withdrawn  == quoted' \in [Contracts -> SUBSET Terms]
              /\ \A c \in Contracts : quoted'[c] \subseteq quoted[c]
-----------------------------------------------------------------------------
Init ==
    /\ tier \in [Tiers -> Terms]
    /\ contract \in [Contracts -> [status : {"none"}, user : Users, tier : Tiers]]
    /\ quoted = [c \in Contracts |-> {}]
    /\ investments = <<>>

Draft(c, u, t) ==
    /\ contract[c].status = "none"
    /\ tier[t] # NoTerms
    /\ contract' = [contract EXCEPT ![c] = [status |-> "draft", user |-> u, tier |-> t]]
    /\ UNCHANGED <<tier, quoted, investments>>

Quote(c) ==
    /\ contract[c].status # "none"
    /\ quoted' = [quoted EXCEPT ![c] = @ \cup {tier[contract[c].tier]}]
    /\ UNCHANGED <<tier, contract, investments>>

Withdraw == UNCHANGED <<tier, contract, investments>> /\ Withdrawn

Sign(c, k, terms) ==
    /\ contract[c].status = "draft"
    /\ terms \in quoted[c]
    /\ KeyFree(k)
    /\ contract' = [contract EXCEPT ![c].status = "signed"]
    /\ investments' = Append(investments,
           [contract |-> c, user |-> contract[c].user, key |-> k, terms |-> terms])
    /\ Withdrawn
    /\ UNCHANGED tier

ChangeTier(t, terms) ==
    /\ tier[t] # NoTerms
    /\ tier' = [tier EXCEPT ![t] = terms]
    /\ UNCHANGED <<contract, quoted, investments>>

RemoveTier(t) ==
    /\ \A c \in Contracts : contract[c].status # "none" => contract[c].tier # t
    /\ tier' = [tier EXCEPT ![t] = NoTerms]
    /\ UNCHANGED <<contract, quoted, investments>>

Next ==
    \/ Withdraw
    \/ \E c \in Contracts, u \in Users, t \in Tiers : Draft(c, u, t)
    \/ \E c \in Contracts : Quote(c)
    \/ \E c \in Contracts, k \in Keys \cup {NoKey}, terms \in Terms : Sign(c, k, terms)
    \/ \E t \in Tiers, terms \in Terms : ChangeTier(t, terms)
    \/ \E t \in Tiers : RemoveTier(t)

Spec == Init /\ [][Next]_vars
-----------------------------------------------------------------------------
TypeOK ==
    /\ tier \in [Tiers -> Terms \cup {NoTerms}]
    /\ contract \in [Contracts ->
           [status : {"none", "draft", "signed"}, user : Users, tier : Tiers]]
    /\ quoted \in [Contracts -> SUBSET Terms]
    /\ investments \in Seq([contract : Contracts, user : Users, key : Keys \cup {NoKey},
                            terms : Terms])

(***************************************************************************)
(* What the five actions together keep: a signed contract has one          *)
(* investment and no other contract has any, it is its owner's, a key buys *)
(* once, and nobody refers to a tier that is gone - or quotes its terms,   *)
(* as TypeOK says.                                                         *)
(***************************************************************************)
Promises ==
    /\ \A c \in Contracts :
          contract[c].status = "signed" <=> \E i \in DOMAIN investments : investments[i].contract = c
    /\ \A i \in DOMAIN investments : investments[i].user = contract[investments[i].contract].user
    /\ \A i, j \in DOMAIN investments : i # j =>
          /\ investments[i].contract # investments[j].contract
          /\ investments[i].key = investments[j].key => investments[i].key = NoKey
    /\ \A c \in Contracts : contract[c].status # "none" => tier[contract[c].tier] # NoTerms
=============================================================================
