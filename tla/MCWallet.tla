------------------------------ MODULE MCWallet ------------------------------
(***************************************************************************)
(* One sales order sold by ann with bob as affiliate, one investment that  *)
(* credits ann and one dividend of ann; two requests of two dong each.     *)
(* A single credit seldom covers a request, two of them cover one.         *)
(***************************************************************************)
EXTENDS Wallet, TLC

CONSTANTS order, investment, dividend, ann, bob, seller, affiliate, level1, payout

MCKindOf  == order :> "sales" @@ investment :> "investment" @@ dividend :> "dividend"
MCCauseOf == seller :> order @@ affiliate :> order
             @@ level1 :> investment @@ payout :> dividend
MCOwnerOf == seller :> ann @@ affiliate :> bob @@ level1 :> ann @@ payout :> ann
MCNet     == seller :> 1 @@ affiliate :> 1 @@ level1 :> 2 @@ payout :> 2
=============================================================================
