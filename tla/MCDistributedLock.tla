--------------------------- MODULE MCDistributedLock ---------------------------
(* Model-checking instances of DistributedLock. *)
EXTENDS DistributedLock, TLC

CONSTANTS h1, h2, h3

Symmetry == Permutations(Holders)
===============================================================================
