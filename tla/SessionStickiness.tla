--------------------------- MODULE SessionStickiness ---------------------------
(***************************************************************************)
(* Session stickiness in selectKeyFromProviderForModel: concurrent         *)
(* selections for one session ID agree on a key through one entry of the   *)
(* KV store (framework/kvstore), read with Get, refreshed with SetWithTTL, *)
(* claimed with SetNXWithTTL and removed with Delete. Each store operation *)
(* is atomic under the store's mutex; the selection holds nothing between  *)
(* two of them.                                                            *)
(*                                                                         *)
(* A selection starts with the keys the circuit filter left it (more than  *)
(* one: a single key is returned before the store is asked); two           *)
(* selections may see different ones. An expired entry is absent to every  *)
(* operation, so expiry removes it. A closed store fails every operation.  *)
(***************************************************************************)
EXTENDS Naturals, FiniteSets

CONSTANTS
  Workers,  \* goroutines of requestWorker selecting a key for the session
  Keys,     \* keys that support the model
  TTL,      \* life of an entry, in ticks
  None

ASSUME ConstantsAssumption ==
  /\ TTL \in Nat \ {0}
  /\ IsFiniteSet(Keys) /\ None \notin Keys

VARIABLES
  entry,    \* the key ID stored for the session, None when there is none
  life,     \* its remaining time to live
  closed,   \* the KV store was closed
  pc,       \* pc[w]: control state of the selection of worker w
  usable,   \* usable[w]: supportedKeys
  key,      \* key[w]: cachedKey or selectedKey
  touched   \* touched[w]: someone else changed the entry since w began

store  == <<entry, life, closed>>
vars   == <<store, pc, usable, key, touched>>

TypeOK ==
  /\ entry \in Keys \cup {None} /\ life \in 0..TTL
  /\ entry = None <=> life = 0
  /\ closed \in BOOLEAN
  /\ pc \in [Workers -> {"idle", "get", "refresh", "delete", "set", "reread",
                         "redelete", "return"}]
  /\ usable \in [Workers -> SUBSET Keys]
  /\ key \in [Workers -> Keys \cup {None}]
  /\ touched \in [Workers -> BOOLEAN]

Init ==
  /\ entry = None /\ life = 0 /\ closed = FALSE
  /\ pc = [w \in Workers |-> "idle"]
  /\ usable = [w \in Workers |-> {}]
  /\ key = [w \in Workers |-> None]
  /\ touched = [w \in Workers |-> FALSE]

-----------------------------------------------------------------------------
Goto(w, s) == pc' = [pc EXCEPT ![w] = s]

\* The selection returns k.
Selected(w, k) ==
  /\ Goto(w, "return") /\ key' = [key EXCEPT ![w] = k]
  /\ UNCHANGED usable

\* The entry changes under the selections that the workers of W have in progress.
Interfere(W) ==
  touched' = [w \in Workers |-> touched[w] \/ (w \in W /\ pc[w] # "idle")]

\* Get of the store: nothing is found once it is closed.
Found == IF closed THEN None ELSE entry

\* Delete of the store: whatever is there now, by whoever it was written.
DropEntry(W) ==
  \/ ~closed /\ entry' = None /\ life' = 0 /\ Interfere(W)
  \/ closed /\ UNCHANGED <<entry, life, touched>>

-----------------------------------------------------------------------------
\* A request with the session ID, not a fallback, reaches the sticky lookup.
Begin(w) ==
  /\ pc[w] = "idle" /\ Goto(w, "get")
  /\ \E s \in SUBSET Keys :
       Cardinality(s) > 1 /\ usable' = [usable EXCEPT ![w] = s]
  /\ touched' = [touched EXCEPT ![w] = closed]
  /\ UNCHANGED <<store, key>>

\* Faulty variant of Cached: an entry is taken without looking it up.
CachedUnchecked(w) == Found # None

\* getCachedKeyFromStore finds the entry among the supported keys.
Cached(w) == Found \in usable[w]

Get(w) ==
  /\ pc[w] = "get"
  /\ \/ Cached(w) /\ Goto(w, "refresh") /\ key' = [key EXCEPT ![w] = Found]
     \/ ~Cached(w) /\ Found # None /\ Goto(w, "delete") /\ UNCHANGED key
     \/ Found = None /\ Goto(w, "set") /\ UNCHANGED key
  /\ UNCHANGED <<store, usable, touched>>

\* SetWithTTL overwrites whatever is there now; an error is only logged.
Refresh(w) ==
  /\ pc[w] = "refresh"
  /\ Selected(w, key[w])
  /\ \/ /\ ~closed
        /\ entry' = key[w] /\ life' = TTL
        /\ IF entry = key[w] THEN UNCHANGED touched ELSE Interfere(Workers \ {w})
     \/ closed /\ UNCHANGED <<entry, life, touched>>
  /\ UNCHANGED closed

Delete(w) ==
  /\ pc[w] = "delete" /\ Goto(w, "set")
  /\ DropEntry(Workers \ {w})
  /\ UNCHANGED <<closed, usable, key>>

\* SetNXWithTTL writes only when there is no live entry.
Vacant == entry = None

\* keySelector picks a key and SetNXWithTTL stores it, finds another, or fails.
Set(w) ==
  /\ pc[w] = "set"
  /\ \E k \in usable[w] :
       \/ /\ ~closed /\ Vacant
          /\ entry' = k /\ life' = TTL
          /\ Selected(w, k)
       \/ /\ ~closed /\ ~Vacant
          /\ key' = [key EXCEPT ![w] = k] /\ Goto(w, "reread")
          /\ UNCHANGED <<entry, life, usable>>
       \/ /\ closed /\ Selected(w, k)
          /\ UNCHANGED <<entry, life>>
  /\ UNCHANGED <<closed, touched>>

\* Faulty variant of Winner: the loser of the race keeps its own key.
WinnerIgnored(w) == key[w]

\* The key another request stored in the meantime, if it is still there.
Winner(w) == IF Found = None THEN key[w] ELSE Found

Reread(w) ==
  /\ pc[w] = "reread"
  /\ IF Found \in usable[w] \cup {None}
     THEN Selected(w, Winner(w))
     ELSE Goto(w, "redelete") /\ UNCHANGED <<usable, key>>
  /\ UNCHANGED <<store, touched>>

Redelete(w) ==
  /\ pc[w] = "redelete" /\ Selected(w, key[w])
  /\ DropEntry(Workers)
  /\ UNCHANGED closed

\* The selection is over.
Over(w) ==
  /\ Goto(w, "idle")
  /\ usable' = [usable EXCEPT ![w] = {}] /\ key' = [key EXCEPT ![w] = None]
  /\ touched' = [touched EXCEPT ![w] = FALSE]
  /\ UNCHANGED store

\* The request goes upstream with its key.
Return(w) == pc[w] = "return" /\ Over(w)

\* keySelector fails: so does the selection, and nothing is stored.
SelectorFails(w) == pc[w] = "set" /\ Over(w)

-----------------------------------------------------------------------------
\* Faulty variant of Expire: an expired entry stays visible.
ExpireMissing == UNCHANGED <<entry, touched>>

\* isExpired: from now on every operation treats the entry as absent.
Expire == entry' = None /\ Interfere(Workers)

\* Time passes.
Tick ==
  /\ life > 0 /\ life' = life - 1
  /\ IF life = 1 THEN Expire ELSE UNCHANGED <<entry, touched>>
  /\ UNCHANGED <<closed, pc, usable, key>>

\* Close of the store.
CloseStore ==
  /\ ~closed /\ closed' = TRUE /\ Interfere(Workers)
  /\ UNCHANGED <<entry, life, pc, usable, key>>

Next ==
  \/ Tick \/ CloseStore
  \/ \E w \in Workers :
       \/ Begin(w) \/ Get(w) \/ Refresh(w) \/ Delete(w) \/ Set(w)
       \/ Reread(w) \/ Redelete(w) \/ Return(w) \/ SelectorFails(w)

Spec == Init /\ [][Next]_vars

-----------------------------------------------------------------------------
(* Properties.                                                             *)

\* A selection during which nobody else deleted or replaced the entry, and it did
\* not expire, returns the key the store holds: the loser of the SetNXWithTTL race
\* adopts the winner's key ("first-write-wins").
StickyKeyIsStored ==
  \A w \in Workers : pc[w] = "return" /\ ~touched[w] => entry = key[w]

\* Whatever the races on the entry, a selection returns one of the keys the
\* filters left it: a session is never bound to a key that was disabled, removed
\* or circuit-broken since (getCachedKeyFromStore, "stale").
SelectedIsUsable ==
  \A w \in Workers : pc[w] \in {"refresh", "return"} => key[w] \in usable[w]

===============================================================================
