--------------------------- MODULE MCCircuitBreaker ---------------------------
(* Model-checking instances of CircuitBreaker. *)
EXTENDS CircuitBreaker, TLC

CONSTANTS w1, w2, k1, k2
===============================================================================
