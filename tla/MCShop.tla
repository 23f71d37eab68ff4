------------------------------- MODULE MCShop -------------------------------
(***************************************************************************)
(* Two affiliates, one customer, two products, two slugs, one order at a   *)
(* time, two requests at a time.  The invariants and actions name no       *)
(* particular affiliate, slug, product or worker: these sets are           *)
(* symmetric.                                                              *)
(***************************************************************************)
EXTENDS Shop, TLC

Symmetric == Permutations(Affiliates) \cup Permutations(Slugs)
                 \cup Permutations(Products) \cup Permutations(Workers)
=============================================================================
