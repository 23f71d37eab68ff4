-------------------------------- MODULE Sums --------------------------------
(***************************************************************************)
(* Sums of amounts, as the loops over payouts and plans in                 *)
(* service/dividend.go and service/distribution.go add them up.  A sum is  *)
(* the number of its dongs: every x has a column of f[x] of them.          *)
(***************************************************************************)
EXTENDS Integers, FiniteSets

Dongs(f) == UNION {{x} \X (1..f[x]) : x \in DOMAIN f}
Sum(f)   == Cardinality(Dongs(f))
=============================================================================
