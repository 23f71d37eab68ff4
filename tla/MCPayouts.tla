----------------------------- MODULE MCPayouts -----------------------------
(***************************************************************************)
(* One dividend of two dong and one or two shareholders, one of whom is an *)
(* administrator; a declaration that leaves a remainder, and tiered plans  *)
(* with equal and different payouts (equal ones may be marked in either    *)
(* order); three requests at once.                                         *)
(***************************************************************************)
EXTENDS Payouts, TLC

CONSTANTS ann, bob
MCHoldings == {ann :> 2 @@ bob :> 1, ann :> 0 @@ bob :> 3}
=============================================================================
