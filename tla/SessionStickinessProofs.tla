------------------------ MODULE SessionStickinessProofs ------------------------
(***************************************************************************)
(* Proofs about SessionStickiness for every set of workers and keys and    *)
(* every TTL: type correctness, that a selection returns a usable key, and *)
(* that an undisturbed one returns the stored key.                         *)
(***************************************************************************)
EXTENDS SessionStickiness, TLAPS

USE ConstantsAssumption

\* A selection that has chosen or looked up a key took it from its own keys.
ChosenIsUsable ==
  \A w \in Workers :
    pc[w] \in {"refresh", "reread", "redelete", "return"} => key[w] \in usable[w]

\* The store starts empty and nobody is selecting.
LEMMA TypeInit == Init => TypeOK
<1> SUFFICES ASSUME Init PROVE TypeOK
  OBVIOUS
<1>1. touched \in [Workers -> BOOLEAN]
  BY Zenon DEF Init
<1>2. entry \in Keys \cup {None} /\ life \in 0..TTL /\ (entry = None <=> life = 0)
  BY DEF Init
<1>3. closed \in BOOLEAN /\ usable \in [Workers -> SUBSET Keys]
  BY DEF Init
<1>4. key \in [Workers -> Keys \cup {None}]
  BY DEF Init
<1> QED
  BY <1>1, <1>2, <1>3, <1>4 DEF Init, TypeOK

\* Marking the selections that an operation interferes with keeps the type of
\* touched.
LEMMA InterfereType ==
  ASSUME TypeOK, NEW W, Interfere(W)
  PROVE  touched' \in [Workers -> BOOLEAN]
<1>1. \A w \in Workers : (touched[w] \/ (w \in W /\ pc[w] # "idle")) \in BOOLEAN
  BY Zenon
<1> QED
  BY <1>1, Zenon DEF Interfere

\* Deleting the entry ends its life with it.
LEMMA DropType ==
  ASSUME TypeOK, NEW W, DropEntry(W)
  PROVE  /\ entry' \in Keys \cup {None} /\ life' \in 0..TTL
         /\ entry' = None <=> life' = 0
         /\ touched' \in [Workers -> BOOLEAN]
<1>1. touched' \in [Workers -> BOOLEAN]
  BY InterfereType DEF DropEntry, TypeOK
<1>2. (entry' = None /\ life' = 0) \/ UNCHANGED <<entry, life>>
  BY DEF DropEntry
<1> QED
  BY <1>1, <1>2 DEF TypeOK

\* Every step keeps the types; an entry and its remaining life go together. A
\* refresh writes a key only because a selection never holds None then.
LEMMA TypeStep == TypeOK /\ ChosenIsUsable /\ [Next]_vars => TypeOK'
<1> SUFFICES ASSUME TypeOK, ChosenIsUsable, [Next]_vars PROVE TypeOK'
  OBVIOUS
<1> USE DEF TypeOK, Goto, store
<1>1. CASE Tick
  <2>1. touched' \in [Workers -> BOOLEAN]
    BY <1>1, InterfereType DEF Tick, Expire
  <2>2. /\ entry' \in Keys \cup {None} /\ life' \in 0..TTL
        /\ entry' = None <=> life' = 0
    BY <1>1 DEF Tick, Expire
  <2> QED
    BY <1>1, <2>1, <2>2 DEF Tick
<1>2. CASE CloseStore
  BY <1>2 DEF CloseStore, Interfere
<1>3. ASSUME NEW v \in Workers, Begin(v) PROVE TypeOK'
  BY <1>3 DEF Begin
<1>4. ASSUME NEW v \in Workers, Get(v) PROVE TypeOK'
  BY <1>4 DEF Get, Cached, Found
<1>5. ASSUME NEW v \in Workers, Refresh(v) PROVE TypeOK'
  <2>1. touched' \in [Workers -> BOOLEAN]
    BY <1>5, InterfereType DEF Refresh
  <2>2. key[v] \in Keys
    BY <1>5 DEF Refresh, ChosenIsUsable
  <2>3. /\ entry' \in Keys \cup {None} /\ life' \in 0..TTL
        /\ entry' = None <=> life' = 0
    <3>1. (entry' = key[v] /\ life' = TTL) \/ UNCHANGED <<entry, life>>
      BY <1>5 DEF Refresh
    <3> QED
      BY <2>2, <3>1
  <2>4. pc' = [pc EXCEPT ![v] = "return"] /\ key' = [key EXCEPT ![v] = key[v]]
    BY <1>5 DEF Refresh, Selected
  <2>5. UNCHANGED <<closed, usable>>
    BY <1>5 DEF Refresh, Selected
  <2> QED
    BY <2>1, <2>2, <2>3, <2>4, <2>5
<1>6. ASSUME NEW v \in Workers, Delete(v) PROVE TypeOK'
  BY <1>6, DropType DEF Delete
<1>7. ASSUME NEW v \in Workers, Set(v) PROVE TypeOK'
  BY <1>7 DEF Set, Selected, Vacant
<1>8. ASSUME NEW v \in Workers, Reread(v) PROVE TypeOK'
  BY <1>8 DEF Reread, Selected, Winner, Found
<1>9. ASSUME NEW v \in Workers, Redelete(v) PROVE TypeOK'
  BY <1>9, DropType DEF Redelete, Selected
<1>10. ASSUME NEW v \in Workers, Return(v) PROVE TypeOK'
  BY <1>10 DEF Return, Over
<1>12. ASSUME NEW v \in Workers, SelectorFails(v) PROVE TypeOK'
  BY <1>12 DEF SelectorFails, Over
<1>11. CASE UNCHANGED vars
  BY <1>11 DEF vars
<1> QED
  BY <1>1, <1>2, <1>3, <1>4, <1>5, <1>6, <1>7, <1>8, <1>9, <1>10, <1>11, <1>12
  DEF Next

\* No selection holds a key at the start.
LEMMA UsableInit == Init => ChosenIsUsable
  BY DEF Init, ChosenIsUsable

\* Every step keeps the chosen keys usable: nobody changes another selection's
\* keys, and what is read from the store is looked up before it is taken.
LEMMA UsableStep == TypeOK /\ ChosenIsUsable /\ [Next]_vars => ChosenIsUsable'
<1> SUFFICES ASSUME TypeOK, ChosenIsUsable, [Next]_vars PROVE ChosenIsUsable'
  OBVIOUS
<1> USE DEF TypeOK, ChosenIsUsable, Goto, store
<1>1. CASE Tick
  BY <1>1 DEF Tick, Expire, Interfere
<1>2. CASE CloseStore
  BY <1>2 DEF CloseStore, Interfere
<1>3. ASSUME NEW v \in Workers, Begin(v) PROVE ChosenIsUsable'
  BY <1>3 DEF Begin
<1>4. ASSUME NEW v \in Workers, Get(v) PROVE ChosenIsUsable'
  BY <1>4 DEF Get, Cached, Found
<1>5. ASSUME NEW v \in Workers, Refresh(v) PROVE ChosenIsUsable'
  BY <1>5 DEF Refresh, Selected, Interfere
<1>6. ASSUME NEW v \in Workers, Delete(v) PROVE ChosenIsUsable'
  BY <1>6 DEF Delete, DropEntry, Interfere
<1>7. ASSUME NEW v \in Workers, Set(v) PROVE ChosenIsUsable'
  BY <1>7 DEF Set, Selected, Vacant
<1>8. ASSUME NEW v \in Workers, Reread(v) PROVE ChosenIsUsable'
  BY <1>8 DEF Reread, Selected, Winner, Found
<1>9. ASSUME NEW v \in Workers, Redelete(v) PROVE ChosenIsUsable'
  BY <1>9 DEF Redelete, Selected, DropEntry, Interfere
<1>10. ASSUME NEW v \in Workers, Return(v) PROVE ChosenIsUsable'
  BY <1>10 DEF Return, Over
<1>12. ASSUME NEW v \in Workers, SelectorFails(v) PROVE ChosenIsUsable'
  BY <1>12 DEF SelectorFails, Over
<1>11. CASE UNCHANGED vars
  BY <1>11 DEF vars
<1> QED
  BY <1>1, <1>2, <1>3, <1>4, <1>5, <1>6, <1>7, <1>8, <1>9, <1>10, <1>11, <1>12
  DEF Next

\* The entry is present exactly as long as it has life left, and the state of
\* the selections is well formed.
THEOREM TypeCorrect == Spec => []TypeOK
  BY TypeInit, TypeStep, UsableInit, UsableStep, PTL DEF Spec

\* Whatever other selections, the clock and Close do to the entry, a selection
\* returns one of the keys the filters left it.
THEOREM SelectionsAreUsable == Spec => []SelectedIsUsable
<1>1. ChosenIsUsable => SelectedIsUsable
  BY DEF ChosenIsUsable, SelectedIsUsable
<1> QED
  BY <1>1, UsableInit, UsableStep, TypeCorrect, PTL DEF Spec

-----------------------------------------------------------------------------
\* What an undisturbed selection may rely on: the store is open, the key it
\* looked up or stored is the entry, and when it lost the claim there is one.
Undisturbed(w) ==
  pc[w] # "idle" /\ ~touched[w] =>
    /\ ~closed
    /\ pc[w] \in {"refresh", "return"} => entry = key[w]
    /\ pc[w] = "reread" => entry # None

StickyInv == \A w \in Workers : Undisturbed(w)

\* Nobody is selecting at the start.
LEMMA StickyInit == Init => StickyInv
  BY DEF Init, StickyInv, Undisturbed

\* Every step keeps it: a step that changes the entry marks the selections in
\* progress, and one that claims it finds it absent, which no undisturbed
\* selection with a key can see.
LEMMA StickyStep ==
  TypeOK /\ ChosenIsUsable /\ StickyInv /\ [Next]_vars => StickyInv'
<1> SUFFICES ASSUME TypeOK, ChosenIsUsable, StickyInv, [Next]_vars PROVE StickyInv'
  OBVIOUS
<1> USE DEF TypeOK, ChosenIsUsable, StickyInv, Undisturbed, Goto, store
<1>1. CASE Tick
  BY <1>1 DEF Tick, Expire, Interfere
<1>2. CASE CloseStore
  BY <1>2 DEF CloseStore, Interfere
<1>3. ASSUME NEW v \in Workers, Begin(v) PROVE StickyInv'
  BY <1>3 DEF Begin
<1>4. ASSUME NEW v \in Workers, Get(v) PROVE StickyInv'
  BY <1>4 DEF Get, Cached, Found
<1>5. ASSUME NEW v \in Workers, Refresh(v) PROVE StickyInv'
  BY <1>5 DEF Refresh, Selected, Interfere
<1>6. ASSUME NEW v \in Workers, Delete(v) PROVE StickyInv'
  BY <1>6 DEF Delete, DropEntry, Interfere
<1>7. ASSUME NEW v \in Workers, Set(v) PROVE StickyInv'
  BY <1>7 DEF Set, Selected, Vacant
<1>8. ASSUME NEW v \in Workers, Reread(v) PROVE StickyInv'
  BY <1>8 DEF Reread, Selected, Winner, Found
<1>9. ASSUME NEW v \in Workers, Redelete(v) PROVE StickyInv'
  BY <1>9 DEF Redelete, Selected, DropEntry, Interfere
<1>10. ASSUME NEW v \in Workers, Return(v) PROVE StickyInv'
  BY <1>10 DEF Return, Over
<1>12. ASSUME NEW v \in Workers, SelectorFails(v) PROVE StickyInv'
  BY <1>12 DEF SelectorFails, Over
<1>11. CASE UNCHANGED vars
  BY <1>11 DEF vars
<1> QED
  BY <1>1, <1>2, <1>3, <1>4, <1>5, <1>6, <1>7, <1>8, <1>9, <1>10, <1>11, <1>12
  DEF Next

\* A selection nobody disturbed returns the key the store holds: the loser of
\* the claim adopts the winner's key.
THEOREM StickyKeysAreStored == Spec => []StickyKeyIsStored
<1>1. StickyInv => StickyKeyIsStored
  BY DEF StickyInv, Undisturbed, StickyKeyIsStored
<1> QED
  BY <1>1, StickyInit, StickyStep, UsableInit, UsableStep, TypeCorrect, PTL DEF Spec
===============================================================================
