---------------------------- MODULE MCGovernance ----------------------------
(* Model-checking instances of Governance: two requests of one virtual key *)
(* that has a rate limit and a budget.                                     *)
EXTENDS Governance, TLC

CONSTANTS r1, r2, key, budget

MCChecks ==
  [r \in Requests |-> IF r = r1 THEN << <<key>>, <<budget>> >> ELSE << <<budget>> >>]

MCUpdates == MCChecks

MCKeyEntries == <<key>>

\* An answer with usage data, and a stream whose last chunk has none.
MCAmounts == {[cost |-> 1, tokens |-> 1, requests |-> 1],
              [cost |-> 0, tokens |-> 0, requests |-> 1]}

MCDuration == [cost |-> 1, tokens |-> 1, requests |-> 2]

Symmetry == Permutations(Requests)
=============================================================================
