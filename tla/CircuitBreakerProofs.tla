------------------------- MODULE CircuitBreakerProofs -------------------------
(***************************************************************************)
(* Proofs about CircuitBreaker for every set of workers and keys, every    *)
(* threshold and every cooldown: type correctness, that ActiveRequests     *)
(* counts the running calls, that an open circuit gets the time it opened, *)
(* and the order in which a circuit changes state.                         *)
(***************************************************************************)
EXTENDS CircuitBreaker, FiniteSetTheorems, TLAPS

USE ConstantsAssumption

\* TypeOK without the bound on ActiveRequests, which needs the counting below.
ShapeOK ==
  /\ circuit \in [Keys -> {"closed", "open", "halfOpen"}]
  /\ errors \in [Keys -> 0..Threshold]
  /\ age \in [Keys -> 0..Cooldown \cup {None}]
  /\ active \in [Keys -> Int]
  /\ pc \in [Workers -> {"idle", "filter", "opened", "probe", "rejected", "start",
               "call", "success", "close", "error", "trip", "tripped", "retrip",
               "retripped"}]
  /\ pin \in [Workers -> Pins \cup {None}]
  /\ todo \in [Workers -> SUBSET Keys] /\ usable \in [Workers -> SUBSET Keys]
  /\ key \in [Workers -> Keys \cup {None}]

\* A worker that acts on a key has one.
HasKey ==
  \A w \in Workers : pc[w] \notin {"idle", "filter", "rejected"} => key[w] \in Keys

ShapeInv == ShapeOK /\ HasKey

\* The initial states satisfy every invariant of this module.
LEMMA AllInit == Init => ShapeInv /\ ActiveCountsCalls /\ OpenIsStamped
<1> SUFFICES ASSUME Init PROVE ShapeInv /\ ActiveCountsCalls /\ OpenIsStamped
  OBVIOUS
<1>1. ShapeInv
  BY DEF Init, ShapeInv, ShapeOK, HasKey
<1>2. ASSUME NEW k \in Keys
      PROVE active[k] = Cardinality({w \in Workers : pc[w] = "call" /\ key[w] = k})
  <2>1. {w \in Workers : pc[w] = "call" /\ key[w] = k} = {}
    BY DEF Init
  <2> QED
    BY <2>1, FS_EmptySet DEF Init
<1> QED
  BY <1>1, <1>2 DEF Init, ActiveCountsCalls, OpenIsStamped

\* Every step keeps the shape of the state; a selection only ever yields keys.
LEMMA ShapeStep == ShapeInv /\ [Next]_vars => ShapeInv'
<1> SUFFICES ASSUME ShapeInv, [Next]_vars PROVE ShapeInv'
  OBVIOUS
<1> USE DEF ShapeInv, ShapeOK, HasKey, Goto, breaker, locals
<1>1. CASE Tick
  BY <1>1 DEF Tick
<1>2. ASSUME NEW w \in Workers, Begin(w) PROVE ShapeInv'
  BY <1>2 DEF Begin
<1>3. ASSUME NEW w \in Workers, Filter(w) PROVE ShapeInv'
  BY <1>3 DEF Filter
<1>4. ASSUME NEW w \in Workers, Opened(w) PROVE ShapeInv'
  BY <1>4 DEF Opened
<1>5. ASSUME NEW w \in Workers, Probe(w) PROVE ShapeInv'
  BY <1>5 DEF Probe, ToHalfOpen
<1>6. ASSUME NEW w \in Workers, Select(w) PROVE ShapeInv'
  BY <1>6 DEF Select, Supported
<1>7. ASSUME NEW w \in Workers, Reject(w) PROVE ShapeInv'
  BY <1>7 DEF Reject, Finish
<1>8. ASSUME NEW w \in Workers, Start(w) PROVE ShapeInv'
  BY <1>8 DEF Start
<1>9. ASSUME NEW w \in Workers, End(w) PROVE ShapeInv'
  BY <1>9 DEF End, DecrementActive
<1>10. ASSUME NEW w \in Workers, ResetErrors(w) PROVE ShapeInv'
  BY <1>10 DEF ResetErrors
<1>11. ASSUME NEW w \in Workers, CloseCircuit(w) PROVE ShapeInv'
  BY <1>11 DEF CloseCircuit, Finish, ToClosed
<1>12. ASSUME NEW w \in Workers, CountError(w) PROVE ShapeInv'
  BY <1>12 DEF CountError, Finish
<1>13. ASSUME NEW w \in Workers, Trip(w) PROVE ShapeInv'
  BY <1>13 DEF Trip
<1>14. ASSUME NEW w \in Workers, Tripped(w) PROVE ShapeInv'
  BY <1>14 DEF Tripped, Stamp
<1>15. ASSUME NEW w \in Workers, Retrip(w) PROVE ShapeInv'
  BY <1>15 DEF Retrip, Finish
<1>16. ASSUME NEW w \in Workers, Retripped(w) PROVE ShapeInv'
  BY <1>16 DEF Retripped, Finish, Stamp
<1>17. CASE UNCHANGED vars
  BY <1>17 DEF vars, breaker, locals
<1> QED
  BY <1>1, <1>2, <1>3, <1>4, <1>5, <1>6, <1>7, <1>8, <1>9, <1>10, <1>11,
     <1>12, <1>13, <1>14, <1>15, <1>16, <1>17 DEF Next, Step

-----------------------------------------------------------------------------
\* A step that neither starts nor ends a call leaves the sets of running calls
\* and the counters alone.
LEMMA QuietStep ==
  ASSUME ShapeInv, ActiveCountsCalls, active' = active,
         \A w \in Workers : pc'[w] = "call" <=> pc[w] = "call",
         \A w \in Workers : pc[w] = "call" => key'[w] = key[w]
  PROVE  ActiveCountsCalls'
<1> SUFFICES ASSUME NEW k \in Keys
             PROVE  active'[k] = Cardinality({w \in Workers : pc'[w] = "call" /\ key'[w] = k})
  BY DEF ActiveCountsCalls
<1>1. {w \in Workers : pc'[w] = "call" /\ key'[w] = k}
        = {w \in Workers : pc[w] = "call" /\ key[w] = k}
  OBVIOUS
<1> QED
  BY <1>1 DEF ActiveCountsCalls

\* IncrementActive adds the call that starts to its key's count.
LEMMA StartStep ==
  ASSUME ShapeInv, ActiveCountsCalls, NEW w \in Workers, Start(w)
  PROVE  ActiveCountsCalls'
<1> SUFFICES ASSUME NEW k \in Keys
             PROVE  active'[k] = Cardinality({v \in Workers : pc'[v] = "call" /\ key'[v] = k})
  BY DEF ActiveCountsCalls
<1> USE DEF ShapeInv, ShapeOK, HasKey, Start, Goto
<1> DEFINE Old == {v \in Workers : pc[v] = "call" /\ key[v] = k}
           New == {v \in Workers : pc'[v] = "call" /\ key'[v] = k}
<1>1. active[k] = Cardinality(Old) /\ IsFiniteSet(Old)
  BY FS_Subset DEF ActiveCountsCalls
<1>2. CASE key[w] = k
  <2>1. New = Old \cup {w} /\ w \notin Old
    BY <1>2
  <2>2. Cardinality(New) = Cardinality(Old) + 1
    <3> HIDE DEF Old, New
    <3> QED
      BY <2>1, <1>1, FS_AddElement
  <2>3. active'[k] = active[k] + 1
    BY <1>2
  <2> QED
    BY <2>2, <2>3, <1>1
<1>3. CASE key[w] # k
  <2>1. New = Old
    BY <1>3
  <2>2. active'[k] = active[k]
    BY <1>3
  <2> QED
    BY <2>1, <2>2, <1>1
<1> QED
  BY <1>2, <1>3

\* DecrementActive removes the call that ends from its key's count, whether it
\* succeeded or failed.
LEMMA EndStep ==
  ASSUME ShapeInv, ActiveCountsCalls, NEW w \in Workers, End(w)
  PROVE  ActiveCountsCalls'
<1> SUFFICES ASSUME NEW k \in Keys
             PROVE  active'[k] = Cardinality({v \in Workers : pc'[v] = "call" /\ key'[v] = k})
  BY DEF ActiveCountsCalls
<1> USE DEF ShapeInv, ShapeOK, HasKey, End, Goto, DecrementActive
<1> DEFINE Old == {v \in Workers : pc[v] = "call" /\ key[v] = k}
           New == {v \in Workers : pc'[v] = "call" /\ key'[v] = k}
<1>1. active[k] = Cardinality(Old) /\ IsFiniteSet(Old)
  BY FS_Subset DEF ActiveCountsCalls
<1>2. CASE key[w] = k
  <2>1. New = Old \ {w} /\ w \in Old
    BY <1>2
  <2>2. Cardinality(New) = Cardinality(Old) - 1
    BY <2>1, <1>1, FS_RemoveElement
  <2>3. active'[k] = active[k] - 1
    BY <1>2
  <2> QED
    BY <2>2, <2>3, <1>1
<1>3. CASE key[w] # k
  <2>1. New = Old
    BY <1>3
  <2>2. active'[k] = active[k]
    BY <1>3
  <2> QED
    BY <2>1, <2>2, <1>1
<1> QED
  BY <1>2, <1>3

\* Every step keeps the counters exact.
LEMMA CountStep == ShapeInv /\ ActiveCountsCalls /\ [Next]_vars => ActiveCountsCalls'
<1> SUFFICES ASSUME ShapeInv, ActiveCountsCalls, [Next]_vars PROVE ActiveCountsCalls'
  OBVIOUS
<1> DEFINE Quiet == /\ active' = active
                    /\ \A v \in Workers : pc'[v] = "call" <=> pc[v] = "call"
                    /\ \A v \in Workers : pc[v] = "call" => key'[v] = key[v]
<1>q. SUFFICES ASSUME ~ \E w \in Workers : Start(w) \/ End(w) PROVE Quiet
  BY StartStep, EndStep, QuietStep
<1> USE DEF ShapeInv, ShapeOK, Goto, breaker, locals
<1>1. CASE Tick
  BY <1>1 DEF Tick
<1>2. ASSUME NEW w \in Workers, Begin(w) PROVE Quiet
  BY <1>2 DEF Begin
<1>3. ASSUME NEW w \in Workers, Filter(w) PROVE Quiet
  BY <1>3 DEF Filter
<1>4. ASSUME NEW w \in Workers, Opened(w) PROVE Quiet
  BY <1>4 DEF Opened
<1>5. ASSUME NEW w \in Workers, Probe(w) PROVE Quiet
  BY <1>5 DEF Probe, ToHalfOpen
<1>6. ASSUME NEW w \in Workers, Select(w) PROVE Quiet
  BY <1>6 DEF Select, Supported
<1>7. ASSUME NEW w \in Workers, Reject(w) PROVE Quiet
  BY <1>7 DEF Reject, Finish
<1>8. ASSUME NEW w \in Workers, Start(w) PROVE Quiet
  BY <1>8, <1>q
<1>9. ASSUME NEW w \in Workers, End(w) PROVE Quiet
  BY <1>9, <1>q
<1>10. ASSUME NEW w \in Workers, ResetErrors(w) PROVE Quiet
  BY <1>10 DEF ResetErrors
<1>11. ASSUME NEW w \in Workers, CloseCircuit(w) PROVE Quiet
  BY <1>11 DEF CloseCircuit, Finish, ToClosed
<1>12. ASSUME NEW w \in Workers, CountError(w) PROVE Quiet
  BY <1>12 DEF CountError, Finish
<1>13. ASSUME NEW w \in Workers, Trip(w) PROVE Quiet
  BY <1>13 DEF Trip
<1>14. ASSUME NEW w \in Workers, Tripped(w) PROVE Quiet
  BY <1>14 DEF Tripped, Stamp
<1>15. ASSUME NEW w \in Workers, Retrip(w) PROVE Quiet
  BY <1>15 DEF Retrip, Finish
<1>16. ASSUME NEW w \in Workers, Retripped(w) PROVE Quiet
  BY <1>16 DEF Retripped, Finish, Stamp
<1>17. CASE UNCHANGED vars
  BY <1>17 DEF vars, breaker, locals
<1> QED
  BY <1>1, <1>2, <1>3, <1>4, <1>5, <1>6, <1>7, <1>8, <1>9, <1>10, <1>11,
     <1>12, <1>13, <1>14, <1>15, <1>16, <1>17 DEF Next, Step

\* ActiveRequests is the number of running calls of each key in every
\* behaviour, so that the least-load selector compares true loads.
THEOREM ActiveIsExact == Spec => []ActiveCountsCalls
  BY AllInit, ShapeStep, CountStep, PTL DEF Spec

\* The state of the breaker and of the selections keeps its type; a counter of
\* active requests is never negative and never exceeds the number of workers.
THEOREM TypeCorrect == Spec => []TypeOK
<1>1. ShapeInv /\ ActiveCountsCalls => TypeOK
  <2> SUFFICES ASSUME ShapeInv, ActiveCountsCalls, NEW k \in Keys
               PROVE  active[k] \in 0..Cardinality(Workers)
    BY DEF ShapeInv, ShapeOK, TypeOK
  <2> DEFINE C == {w \in Workers : pc[w] = "call" /\ key[w] = k}
  <2>1. IsFiniteSet(C) /\ Cardinality(C) <= Cardinality(Workers)
    BY FS_Subset
  <2>2. Cardinality(C) \in Nat /\ Cardinality(Workers) \in Nat
    BY <2>1, FS_CardinalityType
  <2>3. active[k] = Cardinality(C)
    BY DEF ActiveCountsCalls
  <2> QED
    BY <2>1, <2>2, <2>3
<1> QED
  BY <1>1, AllInit, ShapeStep, CountStep, PTL DEF Spec

-----------------------------------------------------------------------------
\* Every step keeps open circuits stamped or about to be: the worker whose
\* compare-and-swap opened the circuit stores the time in its next operation.
LEMMA StampStep == ShapeInv /\ OpenIsStamped /\ [Next]_vars => OpenIsStamped'
<1> SUFFICES ASSUME ShapeInv, OpenIsStamped, [Next]_vars PROVE OpenIsStamped'
  OBVIOUS
<1> USE DEF ShapeInv, ShapeOK, HasKey, OpenIsStamped, Goto, breaker, locals
<1>1. CASE Tick
  BY <1>1 DEF Tick
<1>2. ASSUME NEW w \in Workers, Begin(w) PROVE OpenIsStamped'
  BY <1>2 DEF Begin
<1>3. ASSUME NEW w \in Workers, Filter(w) PROVE OpenIsStamped'
  BY <1>3 DEF Filter
<1>4. ASSUME NEW w \in Workers, Opened(w) PROVE OpenIsStamped'
  BY <1>4 DEF Opened
<1>5. ASSUME NEW w \in Workers, Probe(w) PROVE OpenIsStamped'
  BY <1>5 DEF Probe, ToHalfOpen
<1>6. ASSUME NEW w \in Workers, Select(w) PROVE OpenIsStamped'
  BY <1>6 DEF Select, Supported
<1>7. ASSUME NEW w \in Workers, Reject(w) PROVE OpenIsStamped'
  BY <1>7 DEF Reject, Finish
<1>8. ASSUME NEW w \in Workers, Start(w) PROVE OpenIsStamped'
  BY <1>8 DEF Start
<1>9. ASSUME NEW w \in Workers, End(w) PROVE OpenIsStamped'
  BY <1>9 DEF End, DecrementActive
<1>10. ASSUME NEW w \in Workers, ResetErrors(w) PROVE OpenIsStamped'
  BY <1>10 DEF ResetErrors
<1>11. ASSUME NEW w \in Workers, CloseCircuit(w) PROVE OpenIsStamped'
  BY <1>11 DEF CloseCircuit, Finish, ToClosed
<1>12. ASSUME NEW w \in Workers, CountError(w) PROVE OpenIsStamped'
  BY <1>12 DEF CountError, Finish
<1>13. ASSUME NEW w \in Workers, Trip(w) PROVE OpenIsStamped'
  BY <1>13 DEF Trip
<1>14. ASSUME NEW w \in Workers, Tripped(w) PROVE OpenIsStamped'
  BY <1>14 DEF Tripped, Stamp
<1>15. ASSUME NEW w \in Workers, Retrip(w) PROVE OpenIsStamped'
  BY <1>15 DEF Retrip, Finish
<1>16. ASSUME NEW w \in Workers, Retripped(w) PROVE OpenIsStamped'
  BY <1>16 DEF Retripped, Finish, Stamp
<1>17. CASE UNCHANGED vars
  BY <1>17 DEF vars, breaker, locals
<1> QED
  BY <1>1, <1>2, <1>3, <1>4, <1>5, <1>6, <1>7, <1>8, <1>9, <1>10, <1>11,
     <1>12, <1>13, <1>14, <1>15, <1>16, <1>17 DEF Next, Step

\* An open circuit without an opening time is about to get it, in every
\* behaviour: no interleaving leaves a key excluded for ever.
THEOREM OpenGetsStamped == Spec => []OpenIsStamped
  BY AllInit, ShapeStep, StampStep, PTL DEF Spec

\* What a step may do to the circuits of the keys.
Ordered ==
  \A k \in Keys : <<circuit[k], circuit'[k]>> \notin {<<"open", "closed">>,
                                                     <<"closed", "halfOpen">>}

\* Every compare-and-swap of the breaker moves a circuit the allowed way.
LEMMA OrderStep == ShapeInv /\ [Next]_vars => Ordered
<1> SUFFICES ASSUME ShapeInv, [Next]_vars PROVE Ordered
  OBVIOUS
<1> USE DEF Ordered, ShapeInv, ShapeOK, HasKey, Goto, breaker, locals
<1>1. CASE Tick
  BY <1>1 DEF Tick
<1>2. ASSUME NEW w \in Workers, Begin(w) PROVE Ordered
  BY <1>2 DEF Begin
<1>3. ASSUME NEW w \in Workers, Filter(w) PROVE Ordered
  BY <1>3 DEF Filter
<1>4. ASSUME NEW w \in Workers, Opened(w) PROVE Ordered
  BY <1>4 DEF Opened
<1>5. ASSUME NEW w \in Workers, Probe(w) PROVE Ordered
  BY <1>5 DEF Probe, ToHalfOpen
<1>6. ASSUME NEW w \in Workers, Select(w) PROVE Ordered
  BY <1>6 DEF Select, Supported
<1>7. ASSUME NEW w \in Workers, Reject(w) PROVE Ordered
  BY <1>7 DEF Reject, Finish
<1>8. ASSUME NEW w \in Workers, Start(w) PROVE Ordered
  BY <1>8 DEF Start
<1>9. ASSUME NEW w \in Workers, End(w) PROVE Ordered
  BY <1>9 DEF End, DecrementActive
<1>10. ASSUME NEW w \in Workers, ResetErrors(w) PROVE Ordered
  BY <1>10 DEF ResetErrors
<1>11. ASSUME NEW w \in Workers, CloseCircuit(w) PROVE Ordered
  BY <1>11 DEF CloseCircuit, Finish, ToClosed
<1>12. ASSUME NEW w \in Workers, CountError(w) PROVE Ordered
  BY <1>12 DEF CountError, Finish
<1>13. ASSUME NEW w \in Workers, Trip(w) PROVE Ordered
  BY <1>13 DEF Trip
<1>14. ASSUME NEW w \in Workers, Tripped(w) PROVE Ordered
  BY <1>14 DEF Tripped, Stamp
<1>15. ASSUME NEW w \in Workers, Retrip(w) PROVE Ordered
  BY <1>15 DEF Retrip, Finish
<1>16. ASSUME NEW w \in Workers, Retripped(w) PROVE Ordered
  BY <1>16 DEF Retripped, Finish, Stamp
<1>17. CASE UNCHANGED vars
  BY <1>17 DEF vars, breaker, locals
<1> QED
  BY <1>1, <1>2, <1>3, <1>4, <1>5, <1>6, <1>7, <1>8, <1>9, <1>10, <1>11,
     <1>12, <1>13, <1>14, <1>15, <1>16, <1>17 DEF Next, Step

\* No step closes an open circuit or half-opens a closed one, whatever late
\* results arrive.
THEOREM CircuitsMoveInOrder == Spec => CircuitMovesInOrder
  BY AllInit, ShapeStep, OrderStep, PTL DEF Spec, CircuitMovesInOrder, Ordered
===============================================================================
