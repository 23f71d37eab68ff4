--------------------------- MODULE MCShareIssuance ---------------------------
(***************************************************************************)
(* Small instances of ShareIssuance.  i1 and i2 are Ann's, i3 is Bob's;    *)
(* the tier of i1 and i3 belongs to round 1, the tier of i2 to round 2.    *)
(* The referrals are either the cycle Ann - Bob - Ann, or the chain in     *)
(* which Bob referred Ann and Cat referred Bob.                            *)
(***************************************************************************)
EXTENDS ShareIssuance, TLC

CONSTANTS ann, bob, cat, i1, i2, i3

MCInvUser     == [i \in Invs |-> IF i = i3 THEN bob ELSE ann]
MCInvShares   == [i \in Invs |-> IF i = i2 THEN 2 ELSE 1]
MCInvRound    == [i \in Invs |-> IF i = i2 THEN 2 ELSE 1]
MCTwoRounds   == 1..2
MCFourRounds  == 1..4
MCForSale     == [r \in Rounds |-> IF r = 1 THEN 2 ELSE 3]
MCTotalShares == [r \in Rounds |-> IF r = 1 THEN 3 ELSE 4]
MCCycle       == ann :> bob @@ bob :> ann
MCChain       == ann :> bob @@ bob :> cat @@ cat :> None
=============================================================================
