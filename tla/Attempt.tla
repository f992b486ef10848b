------------------------------- MODULE Attempt -------------------------------
(***************************************************************************)
(* What one provider attempt promises to the request flow around it        *)
(* (tryRequest and tryStreamRequest of core/deepintshield.go, from the     *)
(* look-up of the provider's queue to their return): an attempt that was   *)
(* turned away is never sent upstream, an attempt is sent upstream at most *)
(* once, and not any more once it was answered.  An attempt its caller     *)
(* walked away from may still be sent.                                     *)
(*                                                                         *)
(* ProviderQueue implements this specification; RequestFlow is built on it.*)
(***************************************************************************)
EXTENDS Naturals

CONSTANT Attempts

VARIABLES
  outcome,  \* outcome[a]: how the attempt ended for its caller, or "open"
  called    \* called[a]: upstream call sequences made for it

vars == <<outcome, called>>

Outcomes == {"open", "rejected", "answered", "abandoned"}

Init ==
  /\ outcome = [a \in Attempts |-> "open"]
  /\ called = [a \in Attempts |-> 0]

End(a, how) ==
  /\ outcome[a] = "open"
  /\ outcome' = [outcome EXCEPT ![a] = how]
  /\ UNCHANGED called

\* No queue, shutting down, full, cancelled while queueing, or a plugin
\* answered instead of the provider.  Closing a queue turns away everybody who
\* is parked on it at once.
RejectAll(S) ==
  /\ \A a \in S : outcome[a] = "open" /\ called[a] = 0
  /\ outcome' = [a \in Attempts |-> IF a \in S THEN "rejected" ELSE outcome[a]]
  /\ UNCHANGED called

Reject(a) == RejectAll({a})

\* The worker's result or error arrives; without a key there was no call.
Answer(a) == End(a, "answered")

\* The caller's context ended while it was waiting.
Abandon(a) == End(a, "abandoned")

\* A worker runs executeRequestWithRetries for it.
Call(a) ==
  /\ outcome[a] \in {"open", "abandoned"} /\ called[a] = 0
  /\ called' = [called EXCEPT ![a] = 1]
  /\ UNCHANGED outcome

Next ==
  \/ \E S \in SUBSET Attempts : RejectAll(S)
  \/ \E a \in Attempts : Answer(a) \/ Abandon(a) \/ Call(a)

Spec == Init /\ [][Next]_vars

=============================================================================
