----------------------------- MODULE Governance -----------------------------
(***************************************************************************)
(* The usage counters of plugins/governance: budgets and rate limits held  *)
(* in the sync.Maps of LocalGovernanceStore, checked before a request is   *)
(* sent (PreLLMHook), charged by a goroutine after it was answered         *)
(* (PostLLMHook), zeroed and written to the database by the worker of      *)
(* UsageTracker, rewritten when a virtual key is edited, and loaded again  *)
(* when the process starts.                                                *)
(*                                                                         *)
(* An entry of a map is replaced as a whole: every writer loads the entry, *)
(* changes a copy and stores the copy, with no lock or compare-and-swap    *)
(* around the three.  Loads and stores are therefore steps of their own.   *)
(*                                                                         *)
(* Which entries a request touches (provider, model, user, virtual key,    *)
(* team, customer) is data: Checks and Updates give, for each request, the *)
(* calls of the store in order, and for each call its entries in order.    *)
(***************************************************************************)
EXTENDS Integers, Sequences

CONSTANTS
  Requests,    \* goroutines that serve requests, one attempt after the other
  Budgets,     \* entries of gs.budgets
  RateLimits,  \* entries of gs.rateLimits
  Checks,      \* Checks[r]: the calls of the Check functions, as sequences
  Updates,     \* Updates[r]: the calls of the Update...UsageInMemory functions
  KeyEntries,  \* the entries an edit of the virtual key rewrites, in order
  Amounts,     \* what an answer may cost: the amounts of a UsageUpdate
  Limit,       \* the maximum of every counter
  Duration,    \* Duration[m]: reset duration of the counters of meter m
  MaxTime,     \* bound: clock readings
  MaxAttempts, \* bound: attempts over all requests
  MaxEvents,   \* bound: edits of the virtual key and stops of the process
  NoEntry      \* nothing loaded

Objects == Budgets \cup RateLimits

Meters == {"cost", "tokens", "requests"}

ASSUME GovernanceAssumption ==
  /\ Budgets \cap RateLimits = {}
  /\ \A r \in Requests : /\ Checks[r] \in Seq(Seq(Objects)) /\ Checks[r] # <<>>
                         /\ Updates[r] \in Seq(Seq(Objects))
                         /\ \A c \in 1..Len(Checks[r]) : Checks[r][c] # <<>>
                         /\ \A c \in 1..Len(Updates[r]) : Updates[r][c] # <<>>
  /\ KeyEntries \in Seq(Objects)
  /\ Amounts \subseteq [Meters -> Nat]
  /\ Limit \in Nat \ {0} /\ Duration \in [Meters -> Nat \ {0}]
  /\ MaxTime \in Nat /\ MaxAttempts \in Nat /\ MaxEvents \in Nat

VARIABLES
  now,       \* the clock
  mem,       \* mem[o]: the entry in the map
  db,        \* db[o]: its row
  rpc,       \* rpc[r]: control state of the request
  call,      \* call[r]: which call of Checks[r] or Updates[r] runs
  pos,       \* pos[r]: which entry of that call is next
  seen,      \* seen[r][o]: the entry r loaded last
  unow,      \* unow[r]: the clock reading of the running Update call
  amount,    \* amount[r]: what the answer costs
  wpc,       \* the worker: the part of resetExpiredCounters it is in
  wtodo,     \* the entries its Range has not visited
  wnow,      \* the clock reading of its scan
  wcopy,     \* wcopy[o]: the copies it will write to the database
  wheld,     \* the entry it loaded and is about to store zeroed
  apos,      \* the edit: the next of KeyEntries, 0 when none runs
  aheld,     \* the entry it loaded and is about to store
  server,    \* "down", "loaded" or "serving"
  restarted, \* has the process been stopped?
  attempts, events, \* counters for the bounds
  spent      \* history: spent[o][m][t] was charged to o at time t or later

clockVars == <<now>>
reqVars   == <<rpc, call, pos, seen, unow, amount>>
workVars  == <<wpc, wtodo, wnow, wcopy, wheld>>
editVars  == <<apos, aheld>>
procVars  == <<server, restarted, attempts, events>>

vars == <<clockVars, mem, db, reqVars, workVars, editVars, procVars, spent>>

MetersOf(o) == IF o \in Budgets THEN {"cost"} ELSE {"tokens", "requests"}

Counter == [usage : Nat, reset : Nat]

Entry(o) == [MetersOf(o) -> Counter]

ASSUME NoEntryAssumption == \A o \in Objects : NoEntry \notin Entry(o)

Free == [m \in Meters |-> 0]

Times == 0..(MaxTime + 1)

-----------------------------------------------------------------------------
(* The operations on one entry.                                            *)

\* now.Sub(LastReset) >= duration
ExpiredAt(t, m, c) == t - c.reset >= Duration[m]

\* Faulty variant of ResetExpired: a new window starts with the old usage.
ResetExpiredKeepsUsage(e, t) ==
  [m \in DOMAIN e |->
     IF ExpiredAt(t, m, e[m]) THEN [usage |-> e[m].usage, reset |-> t] ELSE e[m]]

\* The copy with its expired counters zeroed: each meter on its own.
ResetExpired(e, t) ==
  [m \in DOMAIN e |->
     IF ExpiredAt(t, m, e[m]) THEN [usage |-> 0, reset |-> t] ELSE e[m]]

\* Faulty variant of Add: the amount is given back.
AddRefunds(e, a) == [m \in DOMAIN e |-> [e[m] EXCEPT !.usage = @ - a[m]]]

\* clone.CurrentUsage += cost, and the like
Add(e, a) == [m \in DOMAIN e |-> [e[m] EXCEPT !.usage = @ + a[m]]]

\* Faulty variant of Exceeded: an expired counter is compared like any other.
ExceededThoughExpired(e, t) == \E m \in DOMAIN e : e[m].usage >= Limit

\* Some counter that has not expired has reached its limit.
Exceeded(e, t) ==
  \E m \in DOMAIN e : ~ExpiredAt(t, m, e[m]) /\ e[m].usage >= Limit

\* The history after the charge a to o, now.
Charged(o, a) ==
  [spent EXCEPT ![o] =
     [m \in MetersOf(o) |-> [t \in Times |->
        IF t <= now THEN spent[o][m][t] + a[m] ELSE spent[o][m][t]]]]

-----------------------------------------------------------------------------
NoCopies == [o \in Objects |-> NoEntry]

Fresh(t) == [o \in Objects |-> [m \in MetersOf(o) |-> [usage |-> 0, reset |-> t]]]

Init ==
  /\ now = 0
  /\ mem = Fresh(0) /\ db = Fresh(0)
  /\ rpc = [r \in Requests |-> "idle"]
  /\ call = [r \in Requests |-> 1] /\ pos = [r \in Requests |-> 1]
  /\ seen = [r \in Requests |-> NoCopies]
  /\ unow = [r \in Requests |-> 0] /\ amount = [r \in Requests |-> Free]
  /\ wpc = "idle" /\ wtodo = {} /\ wnow = 0 /\ wcopy = NoCopies /\ wheld = NoEntry
  /\ apos = 0 /\ aheld = NoEntry
  /\ server = "serving" /\ restarted = FALSE /\ attempts = 0 /\ events = 0
  /\ spent = [o \in Objects |-> [m \in MetersOf(o) |-> [t \in Times |-> 0]]]

Tick ==
  /\ now < MaxTime /\ now' = now + 1
  /\ UNCHANGED <<mem, db, reqVars, workVars, editVars, procVars, spent>>

-----------------------------------------------------------------------------
(* Before the request: PreLLMHook, evaluateGovernanceRequest.              *)

Goto(r, pc, c, p) ==
  /\ rpc' = [rpc EXCEPT ![r] = pc]
  /\ call' = [call EXCEPT ![r] = c] /\ pos' = [pos EXCEPT ![r] = p]

\* The request is over: nothing it loaded is used again.
Finish(r) ==
  /\ Goto(r, "idle", 1, 1)
  /\ seen' = [seen EXCEPT ![r] = NoCopies]
  /\ unow' = [unow EXCEPT ![r] = 0] /\ amount' = [amount EXCEPT ![r] = Free]

\* A Check function loads the entries of its hierarchy one after the other.
Load(r, c, p) ==
  LET entries == Checks[r][c]
      o       == entries[p]
  IN  /\ seen' = [seen EXCEPT ![r][o] = mem[o]]
      /\ IF p < Len(entries) THEN Goto(r, "collect", c, p + 1) ELSE Goto(r, "compare", c, 1)
      /\ UNCHANGED <<now, mem, db, unow, amount, workVars, editVars, server,
                     restarted, events, spent>>

\* A request arrives and the first check begins.
PreLLMHook(r) ==
  /\ server = "serving" /\ rpc[r] = "idle"
  /\ attempts < MaxAttempts /\ attempts' = attempts + 1
  /\ Load(r, 1, 1)

Collect(r) == rpc[r] = "collect" /\ Load(r, call[r], pos[r]) /\ UNCHANGED attempts

\* Then it compares what it loaded: a counter at its limit rejects.  After the
\* last call the request is sent to the provider.
Compare(r) ==
  /\ rpc[r] = "compare"
  /\ LET entries == Checks[r][call[r]]
     IN  IF \E i \in 1..Len(entries) : Exceeded(seen[r][entries[i]], now)
         THEN Finish(r)
         ELSE /\ IF call[r] < Len(Checks[r])
                 THEN Goto(r, "collect", call[r] + 1, 1)
                 ELSE Goto(r, "sent", 1, 1)
              /\ seen' = [seen EXCEPT ![r] = NoCopies]
              /\ UNCHANGED <<unow, amount>>
  /\ UNCHANGED <<now, mem, db, workVars, editVars, procVars, spent>>

-----------------------------------------------------------------------------
(* After it: PostLLMHook, postHookWorker, UpdateUsage.                     *)

\* Budgets are only updated when there is a cost.
CallApplies(a, entries) ==
  \A i \in 1..Len(entries) : entries[i] \in Budgets => a.cost > 0

\* The calls UpdateUsage still has to make after call c, given the amounts.
CallsAfter(r, c, a) ==
  {d \in (c + 1)..Len(Updates[r]) : CallApplies(a, Updates[r][d])}

\* UpdateUsage goes on to its next call or returns.
NextUpdate(r, c, a) ==
  IF CallsAfter(r, c, a) = {}
  THEN Finish(r)
  ELSE /\ \E d \in CallsAfter(r, c, a) :
            /\ \A e \in CallsAfter(r, c, a) : d <= e
            /\ Goto(r, "update", d, 1)
       /\ amount' = [amount EXCEPT ![r] = a]
       /\ seen' = [seen EXCEPT ![r] = NoCopies] /\ unow' = [unow EXCEPT ![r] = 0]

\* A failed request is not charged.
PostLLMHook(r) ==
  /\ rpc[r] = "sent"
  /\ \/ Finish(r)
     \/ \E a \in Amounts : NextUpdate(r, 0, a)
  /\ UNCHANGED <<now, mem, db, workVars, editVars, procVars, spent>>

\* An Update function reads the clock once.
UpdateUsage(r) ==
  /\ rpc[r] = "update"
  /\ unow' = [unow EXCEPT ![r] = now]
  /\ Goto(r, "load", call[r], 1)
  /\ UNCHANGED <<now, mem, db, seen, amount, workVars, editVars, procVars, spent>>

\* clone := *cachedBudget
UpdateLoad(r) ==
  /\ rpc[r] = "load"
  /\ LET o == Updates[r][call[r]][pos[r]]
     IN  seen' = [seen EXCEPT ![r][o] = mem[o]]
  /\ Goto(r, "store", call[r], pos[r])
  /\ UNCHANGED <<now, mem, db, unow, amount, workVars, editVars, procVars, spent>>

\* The clone after the reset of what has expired and the addition.
NewEntry(e, t, a) == Add(ResetExpired(e, t), a)

UpdateStore(r) ==
  /\ rpc[r] = "store"
  /\ LET entries == Updates[r][call[r]]
         o       == entries[pos[r]]
     IN  /\ mem' = [mem EXCEPT ![o] = NewEntry(seen[r][o], unow[r], amount[r])]
         /\ spent' = Charged(o, amount[r])
         /\ IF pos[r] < Len(entries)
            THEN /\ Goto(r, "load", call[r], pos[r] + 1)
                 /\ seen' = [seen EXCEPT ![r] = NoCopies]
                 /\ UNCHANGED <<unow, amount>>
            ELSE NextUpdate(r, call[r], amount[r])
  /\ UNCHANGED <<now, db, workVars, editVars, procVars>>

-----------------------------------------------------------------------------
(* The worker: resetExpiredCounters, every workerInterval.                 *)

Scans == {"resetRateLimits", "resetBudgets"}
Dumps == {"dumpRateLimits", "dumpBudgets"}

\* The map a part of resetExpiredCounters ranges over, and the part after it.
RangeOf(part) == IF part \in {"resetRateLimits", "dumpRateLimits"} THEN RateLimits ELSE Budgets

Follows(part) ==
  CASE part = "resetRateLimits" -> "resetBudgets"
    [] part = "resetBudgets"    -> "dumpRateLimits"
    [] part = "dumpRateLimits"  -> "dumpBudgets"
    [] part = "dumpBudgets"     -> "idle"

StartPart(part) ==
  /\ wpc' = part
  /\ wtodo' = IF part \in Scans THEN RangeOf(part) ELSE {}
  /\ wnow' = IF part \in Scans THEN now ELSE 0
  /\ wcopy' = NoCopies /\ wheld' = NoEntry

\* The ticker runs from NewUsageTracker on, before the start-up resets.
ResetTick ==
  /\ server # "down" /\ wpc = "idle"
  /\ StartPart("resetRateLimits")
  /\ UNCHANGED <<now, mem, db, reqVars, editVars, procVars, spent>>

\* The Range of ResetExpired...InMemory visits an entry.
ScanLoad(o) ==
  /\ wpc \in Scans /\ wheld = NoEntry /\ o \in wtodo
  /\ \/ /\ \E m \in DOMAIN mem[o] : ExpiredAt(wnow, m, mem[o][m])
        /\ wheld' = [object |-> o, entry |-> mem[o]]
        /\ UNCHANGED <<wpc, wtodo, wnow, wcopy>>
     \/ /\ \A m \in DOMAIN mem[o] : ~ExpiredAt(wnow, m, mem[o][m])
        /\ IF wtodo = {o} /\ wcopy = NoCopies
           THEN StartPart(Follows(wpc))
           ELSE wtodo' = wtodo \ {o} /\ UNCHANGED <<wpc, wnow, wcopy, wheld>>
  /\ UNCHANGED <<now, mem, db, reqVars, editVars, procVars, spent>>

\* It stores the zeroed copy.
ScanStore ==
  /\ wheld # NoEntry
  /\ LET o    == wheld.object
         copy == ResetExpired(wheld.entry, wnow)
     IN  /\ mem' = [mem EXCEPT ![o] = copy]
         /\ wcopy' = [wcopy EXCEPT ![o] = copy]
         /\ wtodo' = wtodo \ {o}
  /\ wheld' = NoEntry
  /\ UNCHANGED <<now, db, reqVars, wpc, wnow, editVars, procVars, spent>>

\* Usage and reset time of the counters a copy holds at zero.
PersistReset(row, copy) ==
  IF copy = NoEntry THEN row
  ELSE [m \in DOMAIN row |-> IF copy[m].usage = 0 THEN copy[m] ELSE row[m]]

\* The transaction of ResetExpiredBudgets or ResetExpiredRateLimits.
PersistResets ==
  /\ wpc \in Scans /\ wtodo = {} /\ wheld = NoEntry
  /\ db' = [o \in Objects |-> PersistReset(db[o], wcopy[o])]
  /\ StartPart(Follows(wpc))
  /\ UNCHANGED <<now, mem, reqVars, editVars, procVars, spent>>

\* Faulty variant of DumpRow: the dump leaves the row alone.
DumpRowSkipped(row, e) == row

\* current_usage alone: the row keeps its last_reset.
DumpRow(row, e) == [m \in DOMAIN row |-> [row[m] EXCEPT !.usage = e[m].usage]]

\* DumpRateLimits and DumpBudgets.  No other goroutine reads or writes the rows
\* between the loads and the transaction, so they are one step.
Dump ==
  /\ wpc \in Dumps
  /\ db' = [o \in Objects |-> IF o \in RangeOf(wpc) THEN DumpRow(db[o], mem[o]) ELSE db[o]]
  /\ StartPart(Follows(wpc))
  /\ UNCHANGED <<now, mem, reqVars, editVars, procVars, spent>>

\* A failed transaction is logged and the worker goes on.
TransactionFails ==
  /\ \/ wpc \in Scans /\ wtodo = {} /\ wheld = NoEntry
     \/ wpc \in Dumps
  /\ StartPart(Follows(wpc))
  /\ UNCHANGED <<now, mem, db, reqVars, editVars, procVars, spent>>

-----------------------------------------------------------------------------
(* UpdateVirtualKeyInMemory: the configuration comes from the database,    *)
(* usage and reset time from the entry in memory.                          *)

EditLoad ==
  /\ aheld = NoEntry
  /\ \/ /\ server = "serving" /\ apos = 0 /\ KeyEntries # <<>> /\ events < MaxEvents
        /\ apos' = 1 /\ events' = events + 1
     \/ apos # 0 /\ UNCHANGED <<apos, events>>
  /\ aheld' = mem[KeyEntries[apos']]
  /\ UNCHANGED <<now, mem, db, reqVars, workVars, server, restarted, attempts, spent>>

EditStore ==
  /\ aheld # NoEntry
  /\ mem' = [mem EXCEPT ![KeyEntries[apos]] = aheld]
  /\ aheld' = NoEntry
  /\ apos' = IF apos < Len(KeyEntries) THEN apos + 1 ELSE 0
  /\ UNCHANGED <<now, db, reqVars, workVars, procVars, spent>>

-----------------------------------------------------------------------------
(* Stop and start.  Cleanup writes nothing, so an orderly stop loses what  *)
(* a crash loses.                                                          *)

Stop ==
  /\ server = "serving" /\ events < MaxEvents
  /\ server' = "down" /\ restarted' = TRUE /\ events' = events + 1
  /\ mem' = Fresh(0)
  /\ rpc' = [r \in Requests |-> "idle"]
  /\ call' = [r \in Requests |-> 1] /\ pos' = [r \in Requests |-> 1]
  /\ seen' = [r \in Requests |-> NoCopies]
  /\ unow' = [r \in Requests |-> 0] /\ amount' = [r \in Requests |-> Free]
  /\ StartPart("idle")
  /\ apos' = 0 /\ aheld' = NoEntry
  /\ UNCHANGED <<now, db, attempts, spent>>

\* loadFromDatabase, rebuildInMemoryStructures
LoadFromDatabase ==
  /\ server = "down" /\ server' = "loaded"
  /\ mem' = db
  /\ UNCHANGED <<now, db, reqVars, workVars, editVars, restarted, attempts,
                 events, spent>>

\* Expired budgets are reset in memory and in the database, the expired counters
\* in the virtual key's row in the database only; either write may fail, and
\* another instance may hold the lock that guards all of it.
PerformStartupResets ==
  LET expired   == {o \in Budgets : \E m \in DOMAIN mem[o] : ExpiredAt(now, m, mem[o][m])}
      keyLimits == {KeyEntries[i] : i \in 1..Len(KeyEntries)} \cap RateLimits
  IN  /\ server = "loaded" /\ server' = "serving"
      /\ \/ /\ mem' = [o \in Objects |->
                       IF o \in expired THEN ResetExpired(mem[o], now) ELSE mem[o]]
            /\ \E written \in SUBSET {expired, keyLimits} :
                 db' = [o \in Objects |-> IF o \notin UNION written THEN db[o]
                                          ELSE IF o \in expired THEN mem'[o]
                                          ELSE ResetExpired(db[o], now)]
         \/ UNCHANGED <<mem, db>>
      /\ UNCHANGED <<now, reqVars, workVars, editVars, restarted, attempts,
                 events, spent>>

-----------------------------------------------------------------------------
Serve(r) ==
  \/ Collect(r) \/ Compare(r)
  \/ PostLLMHook(r) \/ UpdateUsage(r) \/ UpdateLoad(r) \/ UpdateStore(r)

Scan == (\E o \in Objects : ScanLoad(o)) \/ ScanStore

Worker == ResetTick \/ Scan \/ PersistResets \/ Dump \/ TransactionFails

Edit == EditLoad \/ EditStore

Start == LoadFromDatabase \/ PerformStartupResets

Next ==
  \/ Tick
  \/ \E r \in Requests : PreLLMHook(r) \/ Serve(r)
  \/ Worker
  \/ Edit
  \/ Stop \/ Start

Spec == Init /\ [][Next]_vars

\* Goroutines under way are scheduled, the ticker fires and a stopped process
\* is started again.  Transactions may fail, but not every one for ever.
Fairness ==
  /\ \A r \in Requests : WF_vars(Serve(r))
  /\ WF_vars(Worker)
  /\ \A part \in Dumps : SF_vars(wpc = part /\ Dump)
  /\ WF_vars(apos # 0 /\ Edit) /\ WF_vars(Start)

FairSpec == Spec /\ Fairness

-----------------------------------------------------------------------------
(* Properties.                                                             *)

CopyOf(o, e) == e = NoEntry \/ e \in Entry(o)

TypeOK ==
  /\ now \in 0..MaxTime
  /\ DOMAIN mem = Objects /\ DOMAIN db = Objects
  /\ \A o \in Objects : mem[o] \in Entry(o) /\ db[o] \in Entry(o)
  /\ rpc \in [Requests -> {"idle", "collect", "compare", "sent",
                            "update", "load", "store"}]
  /\ call \in [Requests -> Nat] /\ pos \in [Requests -> Nat]
  /\ \A r \in Requests, o \in Objects : CopyOf(o, seen[r][o])
  /\ unow \in [Requests -> 0..MaxTime]
  /\ amount \in [Requests -> Amounts \cup {Free}]
  /\ wpc \in Scans \cup Dumps \cup {"idle"} /\ wtodo \subseteq Objects
  /\ wnow \in 0..MaxTime /\ \A o \in Objects : CopyOf(o, wcopy[o])
  /\ wheld # NoEntry => wheld.object \in Objects /\ wheld.entry \in Entry(wheld.object)
  /\ apos \in 0..Len(KeyEntries)
  /\ aheld # NoEntry => apos \in 1..Len(KeyEntries) /\ aheld \in Entry(KeyEntries[apos])
  /\ server \in {"down", "loaded", "serving"}
  /\ restarted \in BOOLEAN
  /\ attempts \in 0..MaxAttempts /\ events \in 0..MaxEvents

\* What a counter shows was charged since the counter was reset, whatever the
\* overlapping load-copy-store sequences of UpdateUsage, the reset worker and
\* an edit of the key do to each other; after a restart, whose row may combine
\* an old usage with a new reset time, it was at least charged at some time.
NeverOvercounted ==
  \A o \in Objects : \A m \in MetersOf(o) :
    /\ ~restarted => mem[o][m].usage <= spent[o][m][mem[o][m].reset]
    /\ mem[o][m].usage <= spent[o][m][0] /\ db[o][m].usage <= spent[o][m][0]

\* The first reading of the clock that is less than Duration[m] ago.
WindowStart(m) == IF now < Duration[m] THEN 0 ELSE now - Duration[m] + 1

\* A check of a budget or a rate limit refuses a request only when a counter that
\* it looks at for this request was really charged its limit within the reset
\* duration, however old the entry it loaded is.
RejectedOnlyWhenSpent ==
  [][\A r \in Requests :
       rpc[r] = "compare" /\ rpc'[r] = "idle" /\ server' = "serving" /\ ~restarted =>
         \E i \in 1..Len(Checks[r][call[r]]) :
           LET o == Checks[r][call[r]][i]
           IN  \E m \in MetersOf(o) : spent[o][m][WindowStart(m)] >= Limit]_vars

\* Once requests stop coming and the clock rests, no counter stays expired and
\* the usage in the database is the usage in memory: resetExpiredCounters
\* catches up with late stores that bring an expired entry back over its reset,
\* with failed transactions and with a restart.
CountersSettle ==
  <>[](\A o \in Objects : \A m \in MetersOf(o) :
         ~ExpiredAt(now, m, mem[o][m]) /\ db[o][m].usage = mem[o][m].usage)

\* What was charged to a budget since its reset is in the budget: UpdateUsage
\* says "Use atomic budget update to prevent race conditions and ensure
\* consistency".
NoUsageIsLost ==
  \A b \in Budgets : spent[b]["cost"][mem[b]["cost"].reset + 1] <= mem[b]["cost"].usage

=============================================================================
