---------------------------- MODULE CircuitBreaker ----------------------------
(***************************************************************************)
(* API key health in core: the lock-free circuit breaker of KeyLoadTracker *)
(* (key_load_tracker.go), the circuit filter and the key pins of           *)
(* selectKeyFromProviderForModel, and the accounting requestWorker does    *)
(* around the upstream call.                                               *)
(*                                                                         *)
(* Keys are the ones that support the model (the filters on batch use,     *)
(* enabled flag, value, model and deployment are on static configuration). *)
(* A worker's step is one atomic operation of the code: the breaker takes  *)
(* no lock, so another worker may run between any two of them. Session     *)
(* stickiness is in SessionStickiness.                                     *)
(*                                                                         *)
(* Time is what the code compares: the age of CircuitOpenedAt, counted up  *)
(* to Cooldown. ErrorCount is only compared with Threshold and counts up   *)
(* to it.                                                                  *)
(***************************************************************************)
EXTENDS Integers, FiniteSets

CONSTANTS
  Workers,    \* goroutines of requestWorker
  Keys,       \* keys that support the model, at least two
  Threshold,  \* ErrorThreshold
  Cooldown,   \* Cooldown, in ticks
  Pins,       \* keys a request may pin by ID or name
  None

ASSUME ConstantsAssumption ==
  /\ Threshold \in Nat \ {0} /\ Cooldown \in Nat \ {0}
  /\ IsFiniteSet(Keys) /\ IsFiniteSet(Workers)
  /\ Pins \subseteq Keys /\ None \notin Keys \cup Nat

VARIABLES
  circuit,  \* circuit[k]: CircuitState
  errors,   \* errors[k]: ErrorCount, counted up to Threshold
  age,      \* age[k]: time since CircuitOpenedAt, None when never stored
  active,   \* active[k]: ActiveRequests
  pc,       \* pc[w]: control state of worker w
  pin,      \* pin[w]: the key its request pins
  todo,     \* todo[w]: keys the circuit filter has still to look at
  usable,   \* usable[w]: healthyKeys
  key       \* key[w]: the key being looked at, then the selected key

breaker == <<circuit, errors, age, active>>
locals  == <<pc, pin, todo, usable, key>>
vars    == <<breaker, locals>>

TypeOK ==
  /\ circuit \in [Keys -> {"closed", "open", "halfOpen"}]
  /\ errors \in [Keys -> 0..Threshold]
  /\ age \in [Keys -> 0..Cooldown \cup {None}]
  /\ active \in [Keys -> 0..Cardinality(Workers)]
  /\ pc \in [Workers -> {"idle", "filter", "opened", "probe", "rejected", "start",
               "call", "success", "close", "error", "trip", "tripped", "retrip",
               "retripped"}]
  /\ pin \in [Workers -> Pins \cup {None}]
  /\ todo \in [Workers -> SUBSET Keys] /\ usable \in [Workers -> SUBSET Keys]
  /\ key \in [Workers -> Keys \cup {None}]

Init ==
  /\ circuit = [k \in Keys |-> "closed"]
  /\ errors = [k \in Keys |-> 0]
  /\ age = [k \in Keys |-> None]
  /\ active = [k \in Keys |-> 0]
  /\ pc = [w \in Workers |-> "idle"]
  /\ pin = [w \in Workers |-> None]
  /\ todo = [w \in Workers |-> {}] /\ usable = [w \in Workers |-> {}]
  /\ key = [w \in Workers |-> None]

-----------------------------------------------------------------------------
Goto(w, s) == pc' = [pc EXCEPT ![w] = s]

\* The request is over.
Finish(w) ==
  /\ Goto(w, "idle") /\ key' = [key EXCEPT ![w] = None]
  /\ UNCHANGED <<pin, todo, usable>>

-----------------------------------------------------------------------------
(* selectKeyFromProviderForModel                                           *)

\* A worker takes a request from the queue.
Begin(w) ==
  /\ pc[w] = "idle" /\ Goto(w, "filter")
  /\ \E p \in Pins \cup {None} : pin' = [pin EXCEPT ![w] = p]
  /\ todo' = [todo EXCEPT ![w] = Keys]
  /\ UNCHANGED <<breaker, usable, key>>

\* IsCircuitOpen(k) of the next key loads CircuitState: closed and half-open
\* circuits are let through.
Filter(w) ==
  /\ pc[w] = "filter"
  /\ \E k \in todo[w] :
       /\ todo' = [todo EXCEPT ![w] = @ \ {k}]
       /\ \/ /\ circuit[k] = "open"
             /\ Goto(w, "opened") /\ key' = [key EXCEPT ![w] = k]
             /\ UNCHANGED usable
          \/ /\ circuit[k] # "open"
             /\ usable' = [usable EXCEPT ![w] = @ \cup {k}]
             /\ UNCHANGED <<pc, key>>
  /\ UNCHANGED <<breaker, pin>>

\* It loads CircuitOpenedAt: a circuit never stamped, or within its cooldown,
\* drops the key; a cooled-down one goes on to the compare-and-swap.
Opened(w) ==
  /\ pc[w] = "opened"
  /\ IF age[key[w]] = Cooldown
     THEN Goto(w, "probe") /\ UNCHANGED key
     ELSE Goto(w, "filter") /\ key' = [key EXCEPT ![w] = None]
  /\ UNCHANGED <<breaker, pin, todo, usable>>

\* Faulty variant of ToHalfOpen: the circuit is left open.
ToHalfOpenMissing(c) == c

\* CompareAndSwap(CircuitOpen, CircuitHalfOpen)
ToHalfOpen(c) == IF c = "open" THEN "halfOpen" ELSE c

\* The swap may fail; the key is let through either way.
Probe(w) ==
  LET k == key[w]
  IN  /\ pc[w] = "probe"
      /\ circuit' = [circuit EXCEPT ![k] = ToHalfOpen(@)]
      /\ usable' = [usable EXCEPT ![w] = @ \cup {k}]
      /\ Goto(w, "filter") /\ key' = [key EXCEPT ![w] = None]
      /\ UNCHANGED <<errors, age, active, pin, todo>>

\* If every circuit is open all the keys stay.
Supported(w) == IF usable[w] = {} THEN Keys ELSE usable[w]

\* A pinned key is looked up among the keys the filter left; otherwise
\* keySelector (weighted random, round robin, least load) returns one of them.
Select(w) ==
  /\ pc[w] = "filter" /\ todo[w] = {}
  /\ \/ /\ pin[w] \in Supported(w) /\ Goto(w, "start")
        /\ key' = [key EXCEPT ![w] = pin[w]]
     \/ /\ pin[w] \notin Supported(w) \cup {None} /\ Goto(w, "rejected")
        /\ UNCHANGED key
     \/ /\ pin[w] = None /\ Goto(w, "start")
        /\ \E k \in Supported(w) : key' = [key EXCEPT ![w] = k]
  /\ pin' = [pin EXCEPT ![w] = None] /\ usable' = [usable EXCEPT ![w] = {}]
  /\ UNCHANGED <<breaker, todo>>

\* "no supported key found with id ...": the request fails.
Reject(w) ==
  /\ pc[w] = "rejected" /\ Finish(w)
  /\ UNCHANGED breaker

-----------------------------------------------------------------------------
(* requestWorker around the upstream call, and KeyLoadTracker.             *)

Start(w) ==
  /\ pc[w] = "start" /\ Goto(w, "call")
  /\ active' = [active EXCEPT ![key[w]] = @ + 1]
  /\ UNCHANGED <<circuit, errors, age, pin, todo, usable, key>>

\* Faulty variant of DecrementActive: a failed call is never given back.
DecrementActiveOnSuccess(k, ok) ==
  active' = IF ok THEN [active EXCEPT ![k] = @ - 1] ELSE active

DecrementActive(k, ok) == active' = [active EXCEPT ![k] = @ - 1]

\* The call ends; an error goes to RecordError, a success to RecordSuccess.
End(w) ==
  /\ pc[w] = "call"
  /\ \E ok \in BOOLEAN :
       DecrementActive(key[w], ok) /\ Goto(w, IF ok THEN "success" ELSE "error")
  /\ UNCHANGED <<circuit, errors, age, pin, todo, usable, key>>

\* RecordSuccess: ErrorCount.Store(0), then CompareAndSwap(HalfOpen, Closed).
ResetErrors(w) ==
  /\ pc[w] = "success" /\ Goto(w, "close")
  /\ errors' = [errors EXCEPT ![key[w]] = 0]
  /\ UNCHANGED <<circuit, age, active, pin, todo, usable, key>>

\* Faulty variant of ToClosed: a store instead of a compare-and-swap.
ToClosedAlways(c) == "closed"

ToClosed(c) == IF c = "halfOpen" THEN "closed" ELSE c

CloseCircuit(w) ==
  /\ pc[w] = "close" /\ Finish(w)
  /\ circuit' = [circuit EXCEPT ![key[w]] = ToClosed(@)]
  /\ UNCHANGED <<errors, age, active>>

\* RecordError: ErrorCount.Add(1), and the comparison with the threshold.
CountError(w) ==
  LET k == key[w]
  IN  /\ pc[w] = "error"
      /\ errors' = [errors EXCEPT ![k] = IF @ = Threshold THEN @ ELSE @ + 1]
      /\ IF errors'[k] = Threshold
         THEN Goto(w, "trip") /\ UNCHANGED <<pin, todo, usable, key>>
         ELSE Finish(w)
      /\ UNCHANGED <<circuit, age, active>>

\* CompareAndSwap(Closed, Open)
Trip(w) ==
  LET k == key[w]
  IN  /\ pc[w] = "trip"
      /\ IF circuit[k] = "closed"
         THEN circuit' = [circuit EXCEPT ![k] = "open"] /\ Goto(w, "tripped")
         ELSE UNCHANGED circuit /\ Goto(w, "retrip")
      /\ UNCHANGED <<errors, age, active, pin, todo, usable, key>>

\* Faulty variant of Stamp: the opening time is not stored.
StampMissing(k) == UNCHANGED age

\* CircuitOpenedAt.Store(time.Now())
Stamp(k) == age' = [age EXCEPT ![k] = 0]

Tripped(w) ==
  /\ pc[w] = "tripped" /\ Goto(w, "retrip")
  /\ Stamp(key[w])
  /\ UNCHANGED <<circuit, errors, active, pin, todo, usable, key>>

\* CompareAndSwap(HalfOpen, Open)
Retrip(w) ==
  LET k == key[w]
  IN  /\ pc[w] = "retrip"
      /\ IF circuit[k] = "halfOpen"
         THEN /\ circuit' = [circuit EXCEPT ![k] = "open"] /\ Goto(w, "retripped")
              /\ UNCHANGED <<pin, todo, usable, key>>
         ELSE UNCHANGED circuit /\ Finish(w)
      /\ UNCHANGED <<errors, age, active>>

Retripped(w) ==
  /\ pc[w] = "retripped" /\ Finish(w)
  /\ Stamp(key[w])
  /\ UNCHANGED <<circuit, errors, active>>

-----------------------------------------------------------------------------
\* Time passes: opened circuits cool down.
Tick ==
  /\ age' = [k \in Keys |-> IF age[k] \in {None, Cooldown} THEN age[k] ELSE age[k] + 1]
  /\ age' # age
  /\ UNCHANGED <<circuit, errors, active, locals>>

Step(w) ==
  \/ Filter(w) \/ Opened(w) \/ Probe(w) \/ Select(w) \/ Reject(w)
  \/ Start(w) \/ End(w) \/ ResetErrors(w) \/ CloseCircuit(w) \/ CountError(w)
  \/ Trip(w) \/ Tripped(w) \/ Retrip(w) \/ Retripped(w)

Next == Tick \/ \E w \in Workers : Begin(w) \/ Step(w)

\* Workers run, time passes, and requests keep arriving.
Fairness == WF_vars(Tick) /\ \A w \in Workers : WF_vars(Begin(w) \/ Step(w))

Spec == Init /\ [][Next]_vars /\ Fairness

-----------------------------------------------------------------------------
(* Properties.                                                             *)

\* ActiveRequests of a key is the number of upstream calls running with it
\* (IncrementActive and DecrementActive in requestWorker), which is what the
\* least-load selector compares.
ActiveCountsCalls ==
  \A k \in Keys :
    active[k] = Cardinality({w \in Workers : pc[w] = "call" /\ key[w] = k})

\* An open circuit carries the time it opened, or RecordError is about to store
\* it: without one IsCircuitOpen would report it open for ever.
OpenIsStamped ==
  \A k \in Keys :
    circuit[k] = "open" /\ age[k] = None =>
      \E w \in Workers : pc[w] \in {"tripped", "retripped"} /\ key[w] = k

\* RecordSuccess of a call that began before the circuit opened does not close
\* it, and a closed circuit opens before it can be probed.
CircuitMovesInOrder ==
  [][\A k \in Keys :
       <<circuit[k], circuit'[k]>> \notin {<<"open", "closed">>,
                                           <<"closed", "halfOpen">>}]_vars

\* A circuit does not stay open: after the cooldown a selection that looks at
\* the key turns it half-open.
OpenEnds == \A k \in Keys : circuit[k] = "open" ~> circuit[k] # "open"

\* "Explicit key pins (below) bypass this filter": a request that pins a key
\* that supports the model is not rejected for its circuit.
PinBypassesFilter == \A w \in Workers : pc[w] # "rejected"

===============================================================================
