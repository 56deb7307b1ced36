------------------------------ MODULE MCAdvance ------------------------------
(* Advance on one chain, with an advance and an operator who rewinds, and on two chains, with *)
(* two advances.                                                                              *)
EXTENDS Advance, TLC

AlikeSymmetry == Permutations(Advancers) \cup Permutations(Chains)
=============================================================================
