------------------------- MODULE MCContractSigning -------------------------
(***************************************************************************)
(* Two accounts with up to two contracts on a tier whose terms change, one *)
(* idempotency key (and requests without one), two requests at a time.     *)
(* The invariants and actions name no particular account, contract,        *)
(* worker or terms: these sets are symmetric.                              *)
(***************************************************************************)
EXTENDS ContractSigning, TLC

Symmetric == Permutations(Users) \cup Permutations(Contracts)
                 \cup Permutations(Workers) \cup Permutations(Terms)
=============================================================================
