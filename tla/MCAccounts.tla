----------------------------- MODULE MCAccounts -----------------------------
(***************************************************************************)
(* Two accounts, one eKYC record, a file, two requests at a time.  The     *)
(* invariants and actions name no particular account or worker.            *)
(***************************************************************************)
EXTENDS Accounts, TLC

Symmetric == Permutations(Users) \cup Permutations(Workers)
=============================================================================
