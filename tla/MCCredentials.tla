--------------------------- MODULE MCCredentials ---------------------------
(***************************************************************************)
(* One account with two roles, two reset links one after the other or at   *)
(* the same time, two requests at a time.  The invariants and actions name *)
(* no particular role, password, link or worker: these sets are symmetric. *)
(***************************************************************************)
EXTENDS Credentials, TLC

Symmetric == Permutations(Roles) \cup Permutations(Passwords)
                 \cup Permutations(Links) \cup Permutations(Workers)
=============================================================================
