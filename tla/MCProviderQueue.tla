--------------------------- MODULE MCProviderQueue ---------------------------
(* Model-checking instances of ProviderQueue. *)
EXTENDS ProviderQueue, TLC

CONSTANTS r1, r2, r3, m1, m2, m3, w1

Symmetry == Permutations(Requests) \cup Permutations(Msgs)
=============================================================================
