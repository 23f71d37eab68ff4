---------------------------- MODULE MCTieredPlan ----------------------------
(***************************************************************************)
(* Small pools and few accounts; the configured rates of the three bands   *)
(* (1.5, 2 and 2.5 %), a table with a band of rate zero, and no rates.     *)
(***************************************************************************)
EXTENDS TieredPlan

MCRateTables == {<<3, 4, 5>>, <<0, 1, 3>>, <<0, 0, 0>>}
=============================================================================
