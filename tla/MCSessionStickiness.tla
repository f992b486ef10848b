-------------------------- MODULE MCSessionStickiness --------------------------
(* Model-checking instances of SessionStickiness. *)
EXTENDS SessionStickiness, TLC

CONSTANTS w1, w2, w3, k1, k2, k3

Symmetry == Permutations(Workers) \cup Permutations(Keys)
===============================================================================
