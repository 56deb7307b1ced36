--------------------------- MODULE MCKnownContracts ---------------------------
(* Two runs of the command over the chain of KnownWorld. *)
EXTENDS KnownContracts, KnownWorld
=============================================================================
