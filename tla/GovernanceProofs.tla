-------------------------- MODULE GovernanceProofs --------------------------
(***************************************************************************)
(* Proofs about the usage counters of Governance, for any number of        *)
(* requests, budgets and rate limits and any reset durations.              *)
(*                                                                         *)
(* NeverOvercounted speaks of the maps only.  A counter gets into a map    *)
(* from a copy that a request, the worker or an edit of the key loaded     *)
(* earlier, so the inductive invariant says the same of every copy that    *)
(* somebody may still store: what it shows was charged since its reset.    *)
(***************************************************************************)
EXTENDS Governance, TLAPS

-----------------------------------------------------------------------------
(* The invariant.                                                          *)

\* The history is a count that only later times lower.
SpentOK(s) ==
  /\ DOMAIN s = Objects
  /\ \A o \in Objects : /\ s[o] \in [MetersOf(o) -> [Times -> Nat]]
                        /\ \A m \in MetersOf(o) : \A t, u \in Times :
                             t <= u => s[o][m][u] <= s[o][m][t]

\* The usage of e was charged at some time.
ChargedEver(s, o, e) == \A m \in MetersOf(o) : e[m].usage <= s[o][m][0]

\* It was charged since the reset e shows.
ChargedSince(s, n, o, e) ==
  \A m \in MetersOf(o) : e[m].reset <= n /\ e[m].usage <= s[o][m][e[m].reset]

\* A row: a dump may combine a new usage with an old reset time.
HonestRow(s, o, e) == e \in Entry(o) /\ ChargedEver(s, o, e)

\* An entry that may be in the map; rs says whether the process was restarted.
Honest(s, n, rs, o, e) == HonestRow(s, o, e) /\ (rs \/ ChargedSince(s, n, o, e))

ClockInv == now \in 0..MaxTime /\ SpentOK(spent) /\ restarted \in BOOLEAN

MapInv ==
  /\ DOMAIN mem = Objects /\ DOMAIN db = Objects
  /\ \A o \in Objects : /\ Honest(spent, now, restarted, o, mem[o])
                        /\ HonestRow(spent, o, db[o])

ReqStates == {"idle", "collect", "compare", "sent", "update", "load", "store"}

\* Where a request with these values is, and that it has loaded what it is
\* about to look at.
ControlOK(r, pc, c, p, sn) ==
  /\ pc \in ReqStates /\ c \in Nat /\ p \in Nat
  /\ pc = "collect" =>
       /\ c \in 1..Len(Checks[r]) /\ p \in 1..Len(Checks[r][c])
       /\ \A i \in 1..Len(Checks[r][c]) :
            i < p => sn[Checks[r][c][i]] \in Entry(Checks[r][c][i])
  /\ pc = "compare" =>
       /\ c \in 1..Len(Checks[r])
       /\ \A i \in 1..Len(Checks[r][c]) :
            sn[Checks[r][c][i]] \in Entry(Checks[r][c][i])
  /\ pc \in {"update", "load", "store"} =>
       c \in 1..Len(Updates[r]) /\ p \in 1..Len(Updates[r][c])
  /\ pc = "store" => sn[Updates[r][c][p]] \in Entry(Updates[r][c][p])

\* What a request has loaded, if anything, may be stored.
CopiesOK(s, n, rs, sn) ==
  /\ DOMAIN sn = Objects
  /\ \A o \in Objects : CopyOf(o, sn[o]) /\ (sn[o] \in Entry(o) => Honest(s, n, rs, o, sn[o]))

ReqInv ==
  /\ rpc \in [Requests -> ReqStates] /\ call \in [Requests -> Nat] /\ pos \in [Requests -> Nat]
  /\ unow \in [Requests -> 0..now] /\ amount \in [Requests -> Amounts \cup {Free}]
  /\ seen = [r \in Requests |-> seen[r]]
  /\ \A r \in Requests : /\ ControlOK(r, rpc[r], call[r], pos[r], seen[r])
                         /\ CopiesOK(spent, now, restarted, seen[r])

WorkInv ==
  /\ wpc \in Scans \cup Dumps \cup {"idle"} /\ wtodo \subseteq Objects /\ wnow \in 0..now
  /\ DOMAIN wcopy = Objects
  /\ \A o \in Objects : CopyOf(o, wcopy[o]) /\ (wcopy[o] # NoEntry => HonestRow(spent, o, wcopy[o]))
  /\ wheld # NoEntry => /\ wheld.object \in Objects
                        /\ Honest(spent, now, restarted, wheld.object, wheld.entry)

EditInv ==
  /\ apos \in 0..Len(KeyEntries)
  /\ aheld # NoEntry => /\ apos \in 1..Len(KeyEntries)
                        /\ Honest(spent, now, restarted, KeyEntries[apos], aheld)

ProcInv ==
  /\ server \in {"down", "loaded", "serving"} /\ (server # "serving" => restarted)
  /\ attempts \in 0..MaxAttempts /\ events \in 0..MaxEvents

Inv == ClockInv /\ MapInv /\ ReqInv /\ WorkInv /\ EditInv /\ ProcInv

\* What every step does to the history, the clock and the restart flag.
Later ==
  /\ SpentOK(spent) /\ SpentOK(spent') /\ now \in 0..MaxTime /\ now' \in 0..MaxTime
  /\ now <= now' /\ restarted' \in BOOLEAN /\ (restarted => restarted')
  /\ \A o \in Objects : \A m \in MetersOf(o) : \A t \in Times : spent[o][m][t] <= spent'[o][m][t]

-----------------------------------------------------------------------------
(* Entries.                                                                *)

\* A copy made from an entry that could be stored can still be stored later.
LEMMA HonestStays ==
  ASSUME Later, NEW o \in Objects, NEW e
  PROVE  /\ HonestRow(spent, o, e) => HonestRow(spent', o, e)
         /\ Honest(spent, now, restarted, o, e) => Honest(spent', now', restarted', o, e)
<1>0. MaxTime \in Nat BY GovernanceAssumption
<1>1. ASSUME HonestRow(spent, o, e) PROVE HonestRow(spent', o, e)
  <2>1. ASSUME NEW m \in MetersOf(o) PROVE e[m].usage <= spent'[o][m][0]
    <3>1. e[m].usage \in Nat BY <1>1 DEF HonestRow, Entry, Counter
    <3>2. 0 \in Times BY <1>0 DEF Times
    <3>3. spent[o][m][0] \in Nat /\ spent'[o][m][0] \in Nat BY <3>2 DEF Later, SpentOK
    <3>4. e[m].usage <= spent[o][m][0] BY <1>1 DEF HonestRow, ChargedEver
    <3>5. spent[o][m][0] <= spent'[o][m][0] BY <3>2 DEF Later
    <3> QED BY <3>1, <3>3, <3>4, <3>5
  <2> QED BY <1>1, <2>1 DEF HonestRow, ChargedEver
<1>2. ASSUME HonestRow(spent, o, e), ChargedSince(spent, now, o, e)
      PROVE  ChargedSince(spent', now', o, e)
  <2>1. ASSUME NEW m \in MetersOf(o)
        PROVE  e[m].reset <= now' /\ e[m].usage <= spent'[o][m][e[m].reset]
    <3>1. e[m].usage \in Nat /\ e[m].reset \in Nat BY <1>2 DEF HonestRow, Entry, Counter
    <3>2. e[m].reset <= now /\ e[m].usage <= spent[o][m][e[m].reset] BY <1>2 DEF ChargedSince
    <3>3. e[m].reset \in Times /\ e[m].reset <= now' BY <1>0, <3>1, <3>2 DEF Times, Later
    <3>4. spent[o][m][e[m].reset] \in Nat /\ spent'[o][m][e[m].reset] \in Nat
      BY <3>3 DEF Later, SpentOK
    <3>5. spent[o][m][e[m].reset] <= spent'[o][m][e[m].reset] BY <3>3 DEF Later
    <3> QED BY <3>1, <3>2, <3>3, <3>4, <3>5
  <2> QED BY <2>1 DEF ChargedSince
<1> QED BY <1>1, <1>2 DEF Honest, Later

\* Zeroing the expired counters at a reading of the clock keeps an entry so.
LEMMA ResetHonest ==
  ASSUME ClockInv, NEW o \in Objects, NEW e, NEW t \in 0..now
  PROVE  /\ HonestRow(spent, o, e) => HonestRow(spent, o, ResetExpired(e, t))
         /\ Honest(spent, now, restarted, o, e) =>
              Honest(spent, now, restarted, o, ResetExpired(e, t))
<1> DEFINE f == ResetExpired(e, t)
<1>0. MaxTime \in Nat /\ now \in Nat /\ t \in Nat /\ t <= now
  BY GovernanceAssumption DEF ClockInv
<1>1. ASSUME e \in Entry(o)
      PROVE  /\ f \in Entry(o)
             /\ \A m \in MetersOf(o) : f[m] = e[m] \/ f[m] = [usage |-> 0, reset |-> t]
  <2>1. DOMAIN e = MetersOf(o) BY <1>1 DEF Entry
  <2>2. ASSUME NEW m \in MetersOf(o)
        PROVE  f[m] \in Counter /\ (f[m] = e[m] \/ f[m] = [usage |-> 0, reset |-> t])
    <3>1. e[m] \in Counter BY <1>1 DEF Entry
    <3>2. f[m] = e[m] \/ f[m] = [usage |-> 0, reset |-> t] BY <2>1 DEF ResetExpired
    <3>3. [usage |-> 0, reset |-> t] \in Counter BY <1>0 DEF Counter
    <3> QED BY <3>1, <3>2, <3>3
  <2>3. f \in Entry(o) BY <2>1, <2>2 DEF ResetExpired, Entry
  <2> QED BY <2>2, <2>3
<1>2. ASSUME NEW m \in MetersOf(o)
      PROVE  spent[o][m][0] \in Nat /\ spent[o][m][t] \in Nat
  <2>1. 0 \in Times /\ t \in Times BY <1>0 DEF Times, ClockInv
  <2> QED BY <2>1 DEF ClockInv, SpentOK
<1>3. ASSUME HonestRow(spent, o, e) PROVE HonestRow(spent, o, f)
  <2>1. e \in Entry(o) BY <1>3 DEF HonestRow
  <2>2. ASSUME NEW m \in MetersOf(o) PROVE f[m].usage <= spent[o][m][0]
    <3>1. CASE f[m] = e[m] BY <1>3, <3>1 DEF HonestRow, ChargedEver
    <3>2. CASE f[m] = [usage |-> 0, reset |-> t]
      <4>1. f[m].usage = 0 BY <3>2
      <4> HIDE DEF f
      <4> QED BY <4>1, <1>2
    <3> QED BY <2>1, <1>1, <3>1, <3>2
  <2> QED BY <2>1, <1>1, <2>2 DEF HonestRow, ChargedEver
<1>4. ASSUME HonestRow(spent, o, e), ChargedSince(spent, now, o, e)
      PROVE  ChargedSince(spent, now, o, f)
  <2>1. e \in Entry(o) BY <1>4 DEF HonestRow
  <2>2. ASSUME NEW m \in MetersOf(o)
        PROVE  f[m].reset <= now /\ f[m].usage <= spent[o][m][f[m].reset]
    <3>1. CASE f[m] = e[m] BY <1>4, <3>1 DEF ChargedSince
    <3>2. CASE f[m] = [usage |-> 0, reset |-> t]
      <4>1. f[m].usage = 0 /\ f[m].reset = t BY <3>2
      <4> HIDE DEF f
      <4> QED BY <4>1, <1>0, <1>2
    <3> QED BY <2>1, <1>1, <3>1, <3>2
  <2> QED BY <2>2 DEF ChargedSince
<1> QED BY <1>3, <1>4 DEF Honest

\* The history after a charge is a history, and no count is lowered by it.
LEMMA ChargeGrows ==
  ASSUME ClockInv, NEW o \in Objects, NEW a \in [Meters -> Nat], spent' = Charged(o, a),
         now' = now, restarted' = restarted
  PROVE  /\ Later
         /\ \A m \in MetersOf(o) : \A t \in Times :
              t <= now => spent'[o][m][t] = spent[o][m][t] + a[m]
<1> DEFINE Row(m) == [t \in Times |->
                        IF t <= now THEN spent[o][m][t] + a[m] ELSE spent[o][m][t]]
<1>0. MaxTime \in Nat /\ now \in Nat /\ now \in 0..MaxTime /\ SpentOK(spent)
  BY GovernanceAssumption DEF ClockInv
<1>1. MetersOf(o) \subseteq Meters BY DEF MetersOf, Meters
<1>2. DOMAIN spent' = Objects /\ spent'[o] = [m \in MetersOf(o) |-> Row(m)]
      /\ \A p \in Objects : p # o => spent'[p] = spent[p]
  BY <1>0 DEF Charged, SpentOK
<1>3. \A m \in MetersOf(o) : \A t \in Times : spent[o][m][t] \in Nat BY <1>0 DEF SpentOK
<1>4. \A m \in MetersOf(o) : a[m] \in Nat BY <1>1
<1>5. \A t \in Times : t \in Nat BY <1>0 DEF Times
<1>6. \A m \in MetersOf(o) : \A t \in Times :
        spent'[o][m][t] = IF t <= now THEN spent[o][m][t] + a[m] ELSE spent[o][m][t]
  BY <1>2
<1>7. \A p \in Objects : \A m \in MetersOf(p) : \A t \in Times :
        spent[p][m][t] <= spent'[p][m][t]
  <2> SUFFICES ASSUME NEW p \in Objects, NEW m \in MetersOf(p), NEW t \in Times
               PROVE  spent[p][m][t] <= spent'[p][m][t]
    OBVIOUS
  <2>1. CASE p = o BY <2>1, <1>6, <1>3, <1>4
  <2>2. CASE p # o
    <3>1. spent[p][m][t] \in Nat BY <1>0 DEF SpentOK
    <3> QED BY <2>2, <1>2, <3>1
  <2> QED BY <2>1, <2>2
<1>8. SpentOK(spent')
  <2> SUFFICES ASSUME NEW p \in Objects
               PROVE  /\ spent'[p] \in [MetersOf(p) -> [Times -> Nat]]
                      /\ \A m \in MetersOf(p) : \A t, u \in Times :
                           t <= u => spent'[p][m][u] <= spent'[p][m][t]
    BY <1>2 DEF SpentOK
  <2>1. CASE p = o
    <3>1. ASSUME NEW m \in MetersOf(o) PROVE Row(m) \in [Times -> Nat]
      BY <1>3, <1>4
    <3>2. spent'[o] \in [MetersOf(o) -> [Times -> Nat]] BY <1>2, <3>1
    <3>3. ASSUME NEW m \in MetersOf(o), NEW t \in Times, NEW u \in Times, t <= u
          PROVE  spent'[o][m][u] <= spent'[o][m][t]
      <4>1. spent[o][m][u] <= spent[o][m][t] BY <1>0, <3>3 DEF SpentOK
      <4> QED BY <4>1, <1>0, <1>3, <1>4, <1>5, <1>6, <3>3
    <3> QED BY <2>1, <3>2, <3>3
  <2>2. CASE p # o BY <2>2, <1>0, <1>2 DEF SpentOK
  <2> QED BY <2>1, <2>2
<1>9. Later BY <1>0, <1>7, <1>8 DEF Later, ClockInv
<1>10. \A m \in MetersOf(o) : \A t \in Times :
         t <= now => spent'[o][m][t] = spent[o][m][t] + a[m]
  BY <1>6
<1> QED BY <1>9, <1>10

\* An entry that is charged together with the history stays within it.
LEMMA AddHonest ==
  ASSUME ClockInv, NEW o \in Objects, NEW a \in [Meters -> Nat], spent' = Charged(o, a),
         now' = now, restarted' = restarted, NEW e, Honest(spent, now, restarted, o, e)
  PROVE  Honest(spent', now', restarted', o, Add(e, a))
<1> DEFINE f == Add(e, a)
<1>0. MaxTime \in Nat /\ now \in Nat /\ now <= MaxTime
  BY GovernanceAssumption DEF ClockInv
<1>1. MetersOf(o) \subseteq Meters BY DEF MetersOf, Meters
<1>2. e \in Entry(o) /\ DOMAIN e = MetersOf(o) BY DEF Honest, HonestRow, Entry
<1>3. ASSUME NEW m \in MetersOf(o)
      PROVE  /\ e[m].usage \in Nat /\ e[m].reset \in Nat /\ a[m] \in Nat
             /\ f[m] \in Counter /\ f[m].usage = e[m].usage + a[m] /\ f[m].reset = e[m].reset
  <2>1. e[m] \in Counter /\ a[m] \in Nat BY <1>1, <1>2 DEF Entry
  <2>2. f[m] = [e[m] EXCEPT !.usage = @ + a[m]] BY <1>2 DEF Add
  <2> QED BY <2>1, <2>2 DEF Counter
<1>4. f \in Entry(o) BY <1>2, <1>3 DEF Add, Entry
<1>5. \A m \in MetersOf(o) : \A t \in Times :
        t <= now => spent'[o][m][t] = spent[o][m][t] + a[m] /\ spent[o][m][t] \in Nat
  BY ChargeGrows DEF ClockInv, SpentOK
<1>6. ASSUME NEW m \in MetersOf(o) PROVE f[m].usage <= spent'[o][m][0]
  <2>1. 0 \in Times /\ 0 <= now BY <1>0 DEF Times
  <2>2. e[m].usage <= spent[o][m][0] BY DEF Honest, HonestRow, ChargedEver
  <2> HIDE DEF f
  <2> QED BY <2>1, <2>2, <1>3, <1>5
<1>7. ASSUME ChargedSince(spent, now, o, e), NEW m \in MetersOf(o)
      PROVE  f[m].reset <= now /\ f[m].usage <= spent'[o][m][f[m].reset]
  <2>1. e[m].reset <= now /\ e[m].usage <= spent[o][m][e[m].reset] BY <1>7 DEF ChargedSince
  <2>2. e[m].reset \in Times BY <1>0, <1>3, <2>1 DEF Times
  <2> HIDE DEF f
  <2> QED BY <2>1, <2>2, <1>3, <1>5
<1> QED BY <1>4, <1>6, <1>7 DEF Honest, HonestRow, ChargedEver, ChargedSince

-----------------------------------------------------------------------------
(* Parts of the state that a step leaves alone keep their invariant.       *)

\* The copies of a request can still be stored after any step.
LEMMA CopiesStay ==
  ASSUME Later, NEW sn, CopiesOK(spent, now, restarted, sn)
  PROVE  CopiesOK(spent', now', restarted', sn)
BY HonestStays DEF CopiesOK

\* Maps and rows that a step leaves alone stay honest.
LEMMA MapStays ==
  ASSUME MapInv, Later, UNCHANGED <<mem, db>> PROVE MapInv'
BY HonestStays DEF MapInv

\* So do the copies and times of the requests.
LEMMA ReqStays ==
  ASSUME ReqInv, Later, UNCHANGED reqVars PROVE ReqInv'
<1>1. UNCHANGED <<rpc, call, pos, seen, unow, amount>> BY DEF reqVars
<1>2. ASSUME NEW r \in Requests PROVE CopiesOK(spent', now', restarted', seen[r])
  BY CopiesStay DEF ReqInv
<1>3. 0..now \subseteq 0..now' BY DEF Later
<1>4. unow \in [Requests -> 0..now'] BY <1>3 DEF ReqInv
<1> QED BY <1>1, <1>2, <1>4 DEF ReqInv

\* So does what the reset worker holds.
LEMMA WorkStays ==
  ASSUME WorkInv, Later, UNCHANGED workVars PROVE WorkInv'
<1>1. UNCHANGED <<wpc, wtodo, wnow, wcopy, wheld>> BY DEF workVars
<1>2. wnow \in 0..now' BY DEF WorkInv, Later
<1>3. \A o \in Objects : wcopy[o] # NoEntry => HonestRow(spent', o, wcopy[o])
  BY HonestStays DEF WorkInv
<1>4. wheld # NoEntry => Honest(spent', now', restarted', wheld.object, wheld.entry)
  BY HonestStays DEF WorkInv
<1> QED BY <1>1, <1>2, <1>3, <1>4 DEF WorkInv

\* So does what an edit of a virtual key holds.
LEMMA EditStays ==
  ASSUME EditInv, Later, UNCHANGED editVars PROVE EditInv'
<1>1. UNCHANGED <<apos, aheld>> BY DEF editVars
<1>2. apos \in 1..Len(KeyEntries) => KeyEntries[apos] \in Objects BY GovernanceAssumption
<1>3. aheld # NoEntry => Honest(spent', now', restarted', KeyEntries[apos], aheld)
  BY <1>2, HonestStays DEF EditInv
<1> QED BY <1>1, <1>3 DEF EditInv

\* A step that changes neither the clock nor the history.
LEMMA SameLater ==
  ASSUME ClockInv, UNCHANGED <<now, spent, restarted>> PROVE Later /\ ClockInv'
<1>0. MaxTime \in Nat /\ now \in Nat BY GovernanceAssumption DEF ClockInv
<1>1. \A o \in Objects : \A m \in MetersOf(o) : \A t \in Times :
        spent[o][m][t] <= spent'[o][m][t]
  <2> SUFFICES ASSUME NEW o \in Objects, NEW m \in MetersOf(o), NEW t \in Times
               PROVE  spent[o][m][t] <= spent'[o][m][t]
    OBVIOUS
  <2>1. spent[o][m][t] \in Nat BY DEF ClockInv, SpentOK
  <2> QED BY <2>1
<1> QED BY <1>0, <1>1 DEF ClockInv, Later

\* A step that only goes forward keeps the clock and the history in order.
LEMMA LaterClock ==
  ASSUME Later PROVE ClockInv'
BY DEF Later, ClockInv

-----------------------------------------------------------------------------
(* Requests.                                                               *)

\* The request that moves ends in a state that satisfies the invariant; the
\* others are where they were.
LEMMA ReqMoves ==
  ASSUME ReqInv, Later, NEW r \in Requests, NEW pc, NEW c, NEW p, NEW sn, NEW u, NEW a,
         rpc' = [rpc EXCEPT ![r] = pc], call' = [call EXCEPT ![r] = c],
         pos' = [pos EXCEPT ![r] = p], seen' = [seen EXCEPT ![r] = sn],
         unow' = [unow EXCEPT ![r] = u], amount' = [amount EXCEPT ![r] = a],
         ControlOK(r, pc, c, p, sn), CopiesOK(spent', now', restarted', sn),
         u \in 0..now', a \in Amounts \cup {Free}
  PROVE  ReqInv'
<1>0. pc \in ReqStates /\ c \in Nat /\ p \in Nat BY DEF ControlOK
<1>1. /\ rpc' \in [Requests -> ReqStates] /\ call' \in [Requests -> Nat]
      /\ pos' \in [Requests -> Nat] /\ amount' \in [Requests -> Amounts \cup {Free}]
      /\ seen' = [q \in Requests |-> seen'[q]]
  BY <1>0 DEF ReqInv
<1>2. unow' \in [Requests -> 0..now']
  <2>1. 0..now \subseteq 0..now' BY DEF Later
  <2>2. unow \in [Requests -> 0..now'] BY <2>1 DEF ReqInv
  <2> QED BY <2>2
<1>3. ASSUME NEW q \in Requests
      PROVE  /\ ControlOK(q, rpc'[q], call'[q], pos'[q], seen'[q])
             /\ CopiesOK(spent', now', restarted', seen'[q])
  <2>1. CASE q = r BY <2>1 DEF ReqInv
  <2>2. CASE q # r
    <3>1. /\ rpc'[q] = rpc[q] /\ call'[q] = call[q] /\ pos'[q] = pos[q]
          /\ seen'[q] = seen[q]
      BY <2>2 DEF ReqInv
    <3>2. CopiesOK(spent', now', restarted', seen[q]) BY CopiesStay DEF ReqInv
    <3> QED BY <3>1, <3>2 DEF ReqInv
  <2> QED BY <2>1, <2>2
<1> QED BY <1>1, <1>2, <1>3 DEF ReqInv

\* A request that has loaded nothing has nothing wrong to store.
LEMMA NoCopiesOK ==
  ASSUME NEW s, NEW n, NEW rs PROVE CopiesOK(s, n, rs, NoCopies)
BY NoEntryAssumption DEF CopiesOK, NoCopies, CopyOf

\* The amounts are numbers.
LEMMA AmountsAreNat ==
  ASSUME NEW a \in Amounts \cup {Free} PROVE a \in [Meters -> Nat]
BY GovernanceAssumption DEF Free

\* A request that is over is in order.
LEMMA FinishOK ==
  ASSUME ReqInv, Later, NEW r \in Requests, Finish(r) PROVE ReqInv'
<1>1. ControlOK(r, "idle", 1, 1, NoCopies) BY DEF ControlOK, ReqStates
<1>2. CopiesOK(spent', now', restarted', NoCopies) BY NoCopiesOK
<1>3. 0 \in 0..now' BY GovernanceAssumption DEF Later
<1> QED BY <1>1, <1>2, <1>3, ReqMoves DEF Finish, Goto

\* The calls of a request and their entries.
LEMMA CallsAreEntries ==
  ASSUME NEW r \in Requests
  PROVE  /\ 1 \in 1..Len(Checks[r]) /\ Len(Checks[r]) \in Nat /\ Len(Updates[r]) \in Nat
         /\ \A c \in 1..Len(Checks[r]) :
              /\ 1 \in 1..Len(Checks[r][c]) /\ Len(Checks[r][c]) \in Nat
              /\ \A i \in 1..Len(Checks[r][c]) : Checks[r][c][i] \in Objects
         /\ \A c \in 1..Len(Updates[r]) :
              /\ 1 \in 1..Len(Updates[r][c]) /\ Len(Updates[r][c]) \in Nat
              /\ \A i \in 1..Len(Updates[r][c]) : Updates[r][c][i] \in Objects
<1>1. /\ Checks[r] \in Seq(Seq(Objects)) /\ Checks[r] # <<>>
      /\ Updates[r] \in Seq(Seq(Objects))
      /\ \A c \in 1..Len(Checks[r]) : Checks[r][c] # <<>>
      /\ \A c \in 1..Len(Updates[r]) : Updates[r][c] # <<>>
  BY GovernanceAssumption
<1>2. ASSUME NEW S, NEW s \in Seq(S), s # <<>>
      PROVE  1 \in 1..Len(s) /\ Len(s) \in Nat /\ \A i \in 1..Len(s) : s[i] \in S
  BY <1>2
<1>3. 1 \in 1..Len(Checks[r]) /\ Len(Checks[r]) \in Nat /\ Len(Updates[r]) \in Nat
  BY <1>1
<1>4. ASSUME NEW c \in 1..Len(Checks[r])
      PROVE  /\ 1 \in 1..Len(Checks[r][c]) /\ Len(Checks[r][c]) \in Nat
             /\ \A i \in 1..Len(Checks[r][c]) : Checks[r][c][i] \in Objects
  <2>1. Checks[r][c] \in Seq(Objects) /\ Checks[r][c] # <<>> BY <1>1
  <2> QED BY <2>1, <1>2
<1>5. ASSUME NEW c \in 1..Len(Updates[r])
      PROVE  /\ 1 \in 1..Len(Updates[r][c]) /\ Len(Updates[r][c]) \in Nat
             /\ \A i \in 1..Len(Updates[r][c]) : Updates[r][c][i] \in Objects
  <2>1. Updates[r][c] \in Seq(Objects) /\ Updates[r][c] # <<>> BY <1>1
  <2> QED BY <2>1, <1>2
<1> QED BY <1>3, <1>4, <1>5

\* The entry an update is at.
LEMMA UpdateEntry ==
  ASSUME NEW r \in Requests, NEW c \in 1..Len(Updates[r]), NEW p \in 1..Len(Updates[r][c])
  PROVE  c \in Nat /\ p \in Nat /\ Len(Updates[r][c]) \in Nat /\ Updates[r][c][p] \in Objects
<1>1. /\ Len(Updates[r]) \in Nat /\ Len(Updates[r][c]) \in Nat
      /\ \A i \in 1..Len(Updates[r][c]) : Updates[r][c][i] \in Objects
  BY CallsAreEntries
<1> QED BY <1>1

\* A request that loads mem[o] keeps what it had, and has mem[o].
LEMMA LoadCopies ==
  ASSUME MapInv, Later, NEW sn, NEW o \in Objects, CopiesOK(spent, now, restarted, sn)
  PROVE  /\ CopiesOK(spent', now', restarted', [sn EXCEPT ![o] = mem[o]])
         /\ [sn EXCEPT ![o] = mem[o]][o] \in Entry(o)
         /\ \A q \in Objects : sn[q] \in Entry(q) => [sn EXCEPT ![o] = mem[o]][q] \in Entry(q)
<1> DEFINE new == [sn EXCEPT ![o] = mem[o]]
<1>1. DOMAIN new = Objects /\ new[o] = mem[o] /\ \A q \in Objects : q # o => new[q] = sn[q]
  BY DEF CopiesOK
<1>2. mem[o] \in Entry(o) /\ Honest(spent, now, restarted, o, mem[o])
  BY DEF MapInv, Honest, HonestRow
<1>3. ASSUME NEW q \in Objects
      PROVE  CopyOf(q, new[q]) /\ (new[q] \in Entry(q) => Honest(spent, now, restarted, q, new[q]))
  BY <1>1, <1>2 DEF CopiesOK, CopyOf
<1>4. CopiesOK(spent, now, restarted, new) BY <1>1, <1>3 DEF CopiesOK
<1>5. CopiesOK(spent', now', restarted', new)
  <2> HIDE DEF new
  <2> QED BY <1>4, CopiesStay
<1> QED BY <1>1, <1>2, <1>5

\* A check that loads its next entry still has all the entries before it.
LEMMA LoadOK ==
  ASSUME ClockInv, MapInv, ReqInv, Later, NEW r \in Requests, NEW c, NEW p,
         ControlOK(r, "collect", c, p, seen[r]), Load(r, c, p)
  PROVE  ReqInv'
<1> DEFINE entries == Checks[r][c]
           o       == entries[p]
           new     == [seen[r] EXCEPT ![o] = mem[o]]
<1>1. /\ c \in 1..Len(Checks[r]) /\ p \in 1..Len(entries)
      /\ \A i \in 1..Len(entries) : i < p => seen[r][entries[i]] \in Entry(entries[i])
  BY DEF ControlOK
<1>2. Len(entries) \in Nat /\ \A i \in 1..Len(entries) : entries[i] \in Objects
  BY <1>1, CallsAreEntries
<1>3. o \in Objects /\ c \in Nat /\ p \in Nat BY <1>1, <1>2, CallsAreEntries
<1>4. CopiesOK(spent, now, restarted, seen[r]) BY DEF ReqInv
<1>5. /\ CopiesOK(spent', now', restarted', new) /\ new[o] \in Entry(o)
      /\ \A q \in Objects : seen[r][q] \in Entry(q) => new[q] \in Entry(q)
  <2> HIDE DEF o
  <2> QED BY <1>3, <1>4, LoadCopies
<1>6. seen' = [seen EXCEPT ![r] = new] BY DEF Load, ReqInv
<1>7. unow' = [unow EXCEPT ![r] = unow[r]] /\ amount' = [amount EXCEPT ![r] = amount[r]]
  BY DEF Load, ReqInv
<1>8. unow[r] \in 0..now' /\ amount[r] \in Amounts \cup {Free} BY DEF ReqInv, Later
<1>9. ASSUME NEW i \in 1..Len(entries), i <= p PROVE new[entries[i]] \in Entry(entries[i])
  <2>1. entries[i] \in Objects BY <1>2
  <2>2. CASE i = p BY <2>2, <1>5
  <2>3. CASE i < p
    <3>1. seen[r][entries[i]] \in Entry(entries[i]) BY <2>3, <1>1
    <3> HIDE DEF new
    <3> QED BY <2>1, <3>1, <1>5
  <2> QED BY <1>9, <1>3, <1>2, <2>2, <2>3
<1>10. CASE p < Len(entries)
  <2>1. Goto(r, "collect", c, p + 1) BY <1>10 DEF Load
  <2>2. p + 1 \in 1..Len(entries) BY <1>10, <1>2, <1>1
  <2>3. \A i \in 1..Len(entries) : i < p + 1 => i <= p BY <1>2, <1>3
  <2>4. ControlOK(r, "collect", c, p + 1, new)
    <3> HIDE DEF new
    <3> QED BY <1>1, <1>3, <1>9, <2>2, <2>3 DEF ControlOK, ReqStates
  <2> HIDE DEF new
  <2> QED BY <2>1, <2>4, <1>5, <1>6, <1>7, <1>8, ReqMoves DEF Goto
<1>11. CASE ~(p < Len(entries))
  <2>1. Goto(r, "compare", c, 1) BY <1>11 DEF Load
  <2>2. \A i \in 1..Len(entries) : i <= p BY <1>11, <1>2, <1>1
  <2>3. ControlOK(r, "compare", c, 1, new)
    <3> HIDE DEF new
    <3> QED BY <1>1, <1>3, <1>9, <2>2 DEF ControlOK, ReqStates
  <2> HIDE DEF new
  <2> QED BY <2>1, <2>3, <1>5, <1>6, <1>7, <1>8, ReqMoves DEF Goto
<1> QED BY <1>10, <1>11

\* UpdateUsage goes on to a call that exists, or returns.
LEMMA NextUpdateOK ==
  ASSUME ReqInv, Later, NEW r \in Requests, NEW c \in Nat, NEW a \in Amounts \cup {Free},
         NextUpdate(r, c, a)
  PROVE  ReqInv'
<1>1. CASE CallsAfter(r, c, a) = {} BY <1>1, FinishOK DEF NextUpdate
<1>2. CASE CallsAfter(r, c, a) # {}
  <2>1. PICK d \in CallsAfter(r, c, a) : Goto(r, "update", d, 1)
    BY <1>2 DEF NextUpdate
  <2>2. d \in 1..Len(Updates[r]) BY CallsAreEntries DEF CallsAfter
  <2>3. d \in Nat /\ 1 \in 1..Len(Updates[r][d]) BY <2>2, CallsAreEntries
  <2>4. ControlOK(r, "update", d, 1, NoCopies) BY <2>2, <2>3 DEF ControlOK, ReqStates
  <2>5. CopiesOK(spent', now', restarted', NoCopies) BY NoCopiesOK
  <2>6. 0 \in 0..now' BY GovernanceAssumption DEF Later
  <2>7. /\ amount' = [amount EXCEPT ![r] = a] /\ seen' = [seen EXCEPT ![r] = NoCopies]
        /\ unow' = [unow EXCEPT ![r] = 0]
    BY <1>2 DEF NextUpdate
  <2> QED BY <2>1, <2>4, <2>5, <2>6, <2>7, ReqMoves DEF Goto
<1> QED BY <1>1, <1>2

\* A step of a request that touches neither the maps nor the history.
LEMMA RequestStep ==
  ASSUME Inv, NEW r \in Requests,
         PreLLMHook(r) \/ Collect(r) \/ Compare(r) \/ PostLLMHook(r) \/ UpdateUsage(r)
           \/ UpdateLoad(r)
  PROVE  Inv'
<1> USE DEF Inv
<1>1. /\ UNCHANGED <<now, mem, db, workVars, editVars, server, restarted, events, spent>>
      /\ attempts' \in 0..MaxAttempts
  BY GovernanceAssumption
     DEF PreLLMHook, Collect, Compare, PostLLMHook, UpdateUsage, UpdateLoad, Load, procVars,
         ProcInv
<1>2. Later /\ ClockInv' BY <1>1, SameLater
<1>3. MapInv' /\ WorkInv' /\ EditInv' BY <1>1, <1>2, MapStays, WorkStays, EditStays
<1>4. ProcInv' BY <1>1 DEF ProcInv
<1>5. /\ ControlOK(r, rpc[r], call[r], pos[r], seen[r])
      /\ CopiesOK(spent, now, restarted, seen[r])
      /\ CopiesOK(spent', now', restarted', seen[r])
  BY <1>2, CopiesStay DEF ReqInv
<1>6. 0 \in 0..now' /\ now' = now /\ now \in 0..now
  BY <1>1, GovernanceAssumption DEF ClockInv
<1>7. ReqInv'
  <2>1. CASE PreLLMHook(r)
    <3>1. ControlOK(r, "collect", 1, 1, seen[r])
      <4>1. 1 \in 1..Len(Checks[r]) /\ 1 \in 1..Len(Checks[r][1]) BY CallsAreEntries
      <4>2. \A i \in 1..Len(Checks[r][1]) : ~(i < 1) BY CallsAreEntries
      <4> QED BY <4>1, <4>2 DEF ControlOK, ReqStates
    <3> QED BY <2>1, <3>1, <1>2, LoadOK DEF PreLLMHook
  <2>2. CASE Collect(r) BY <2>2, <1>2, <1>5, LoadOK DEF Collect
  <2>3. CASE Compare(r)
    <3>1. CASE Finish(r) BY <3>1, <1>2, FinishOK
    <3>2. CASE ~Finish(r)
      <4>1. /\ \/ call[r] < Len(Checks[r]) /\ Goto(r, "collect", call[r] + 1, 1)
               \/ Goto(r, "sent", 1, 1)
            /\ seen' = [seen EXCEPT ![r] = NoCopies]
            /\ unow' = unow /\ amount' = amount
        BY <2>3, <3>2 DEF Compare
      <4>2. /\ unow' = [unow EXCEPT ![r] = unow[r]]
            /\ amount' = [amount EXCEPT ![r] = amount[r]]
            /\ unow[r] \in 0..now' /\ amount[r] \in Amounts \cup {Free}
        BY <4>1, <1>6 DEF ReqInv
      <4>3. CopiesOK(spent', now', restarted', NoCopies) BY NoCopiesOK
      <4>4. CASE call[r] < Len(Checks[r]) /\ Goto(r, "collect", call[r] + 1, 1)
        <5>1. call[r] \in 1..Len(Checks[r]) BY <2>3, <1>5 DEF Compare, ControlOK
        <5>2. call[r] + 1 \in 1..Len(Checks[r]) /\ call[r] + 1 \in Nat
          BY <5>1, <4>4, CallsAreEntries
        <5>3. 1 \in 1..Len(Checks[r][call[r] + 1]) /\ Len(Checks[r][call[r] + 1]) \in Nat
          BY <5>2, CallsAreEntries
        <5>4. \A i \in 1..Len(Checks[r][call[r] + 1]) : ~(i < 1) BY <5>3
        <5>5. ControlOK(r, "collect", call[r] + 1, 1, NoCopies)
          BY <5>2, <5>3, <5>4 DEF ControlOK, ReqStates
        <5> QED BY <4>1, <4>2, <4>3, <4>4, <5>5, <1>2, ReqMoves DEF Goto
      <4>5. CASE Goto(r, "sent", 1, 1)
        <5>1. ControlOK(r, "sent", 1, 1, NoCopies) BY DEF ControlOK, ReqStates
        <5> QED BY <4>1, <4>2, <4>3, <4>5, <5>1, <1>2, ReqMoves DEF Goto
      <4> QED BY <4>1, <4>4, <4>5
    <3> QED BY <3>1, <3>2
  <2>4. CASE PostLLMHook(r) BY <2>4, <1>2, FinishOK, NextUpdateOK DEF PostLLMHook
  <2>5. CASE UpdateUsage(r)
    <3>1. call[r] \in 1..Len(Updates[r]) BY <2>5, <1>5 DEF UpdateUsage, ControlOK
    <3>2. call[r] \in Nat /\ 1 \in 1..Len(Updates[r][call[r]]) BY <3>1, CallsAreEntries
    <3>3. ControlOK(r, "load", call[r], 1, seen[r]) BY <3>1, <3>2 DEF ControlOK, ReqStates
    <3>4. /\ seen' = [seen EXCEPT ![r] = seen[r]]
          /\ amount' = [amount EXCEPT ![r] = amount[r]]
          /\ amount[r] \in Amounts \cup {Free}
      BY <2>5 DEF UpdateUsage, ReqInv
    <3>5. ReqInv' BY <2>5, <3>3, <3>4, <1>2, <1>5, <1>6, ReqMoves DEF UpdateUsage, Goto
    <3> QED BY <3>5
  <2>6. CASE UpdateLoad(r)
    <3> DEFINE o   == Updates[r][call[r]][pos[r]]
               new == [seen[r] EXCEPT ![o] = mem[o]]
    <3>1. call[r] \in 1..Len(Updates[r]) /\ pos[r] \in 1..Len(Updates[r][call[r]])
      BY <2>6, <1>5 DEF UpdateLoad, ControlOK
    <3>2. call[r] \in Nat /\ pos[r] \in Nat /\ o \in Objects BY <3>1, UpdateEntry
    <3>3. CopiesOK(spent', now', restarted', new) /\ new[o] \in Entry(o)
      <4> HIDE DEF o
      <4> QED BY <3>2, <1>2, <1>5, LoadCopies
    <3>4. ControlOK(r, "store", call[r], pos[r], new)
      <4> HIDE DEF new
      <4> QED BY <3>1, <3>2, <3>3 DEF ControlOK, ReqStates
    <3>5. seen' = [seen EXCEPT ![r] = new] BY <2>6 DEF UpdateLoad, ReqInv
    <3>6. /\ unow' = [unow EXCEPT ![r] = unow[r]]
          /\ amount' = [amount EXCEPT ![r] = amount[r]]
          /\ unow[r] \in 0..now' /\ amount[r] \in Amounts \cup {Free}
      BY <2>6, <1>6 DEF UpdateLoad, ReqInv
    <3>7. Goto(r, "store", call[r], pos[r]) BY <2>6 DEF UpdateLoad
    <3> HIDE DEF new
    <3> QED BY <3>3, <3>4, <3>5, <3>6, <3>7, <1>2, ReqMoves DEF Goto
  <2> QED BY <2>1, <2>2, <2>3, <2>4, <2>5, <2>6
<1> QED BY <1>2, <1>3, <1>4, <1>7

\* The store of a charged copy: what the request loaded, with its expired
\* counters zeroed at the call's reading of the clock, plus the amount.
LEMMA UpdateStoreStep ==
  ASSUME Inv, NEW r \in Requests, UpdateStore(r) PROVE Inv'
<1> USE DEF Inv
<1> DEFINE entries == Updates[r][call[r]]
           o       == entries[pos[r]]
           a       == amount[r]
<1>1. ControlOK(r, rpc[r], call[r], pos[r], seen[r]) /\ rpc[r] = "store"
  BY DEF ReqInv, UpdateStore
<1>2. /\ call[r] \in 1..Len(Updates[r]) /\ pos[r] \in 1..Len(entries)
      /\ seen[r][o] \in Entry(o)
  BY <1>1 DEF ControlOK
<1>3. call[r] \in Nat /\ pos[r] \in Nat /\ Len(entries) \in Nat /\ o \in Objects
  BY <1>2, UpdateEntry
<1>4. a \in Amounts \cup {Free} /\ a \in [Meters -> Nat] /\ unow[r] \in 0..now
  BY AmountsAreNat DEF ReqInv
<1>5. /\ mem' = [mem EXCEPT ![o] = NewEntry(seen[r][o], unow[r], a)]
      /\ spent' = Charged(o, a)
      /\ UNCHANGED <<now, db, workVars, editVars, procVars>>
  BY DEF UpdateStore
<1>6. UNCHANGED <<server, restarted, attempts, events>> BY <1>5 DEF procVars
<1>7. Later
  <2> HIDE DEF o, a
  <2> QED BY <1>3, <1>4, <1>5, <1>6, ChargeGrows
<1>8. Honest(spent', now', restarted', o, NewEntry(seen[r][o], unow[r], a))
  <2>1. Honest(spent, now, restarted, o, seen[r][o]) BY <1>2, <1>3 DEF ReqInv, CopiesOK
  <2> HIDE DEF o, a
  <2>2. Honest(spent, now, restarted, o, ResetExpired(seen[r][o], unow[r]))
    BY <2>1, <1>3, <1>4, ResetHonest
  <2> QED BY <2>2, <1>3, <1>4, <1>5, <1>6, AddHonest DEF NewEntry
<1>9. MapInv'
  <2> HIDE DEF o, a
  <2>1. ASSUME NEW p \in Objects
        PROVE  /\ Honest(spent', now', restarted', p, mem'[p])
               /\ HonestRow(spent', p, db'[p])
    <3>1. HonestRow(spent', p, db'[p]) BY <1>5, <1>7, HonestStays DEF MapInv
    <3>2. CASE p = o
      <4>1. mem'[o] = NewEntry(seen[r][o], unow[r], a) BY <1>3, <1>5 DEF MapInv
      <4> QED BY <3>1, <3>2, <4>1, <1>8
    <3>3. CASE p # o
      <4>1. mem'[p] = mem[p] BY <3>3, <1>5 DEF MapInv
      <4> QED BY <3>1, <4>1, <1>7, HonestStays DEF MapInv
    <3> QED BY <3>2, <3>3
  <2> QED BY <2>1, <1>5 DEF MapInv
<1>10. ReqInv'
  <2>1. CASE pos[r] < Len(entries)
    <3>1. /\ Goto(r, "load", call[r], pos[r] + 1)
          /\ seen' = [seen EXCEPT ![r] = NoCopies] /\ unow' = unow /\ amount' = amount
      BY <2>1 DEF UpdateStore
    <3>2. /\ unow' = [unow EXCEPT ![r] = unow[r]] /\ amount' = [amount EXCEPT ![r] = a]
          /\ unow[r] \in 0..now'
      BY <3>1, <1>4, <1>5 DEF ReqInv
    <3>3. pos[r] + 1 \in Nat /\ pos[r] + 1 \in 1..Len(entries) BY <2>1, <1>2, <1>3
    <3>4. ControlOK(r, "load", call[r], pos[r] + 1, NoCopies)
      BY <3>3, <1>2, <1>3 DEF ControlOK, ReqStates
    <3>5. CopiesOK(spent', now', restarted', NoCopies) BY NoCopiesOK
    <3> QED BY <3>1, <3>2, <3>4, <3>5, <1>4, <1>7, ReqMoves DEF Goto
  <2>2. CASE ~(pos[r] < Len(entries))
    <3>1. NextUpdate(r, call[r], a) BY <2>2 DEF UpdateStore
    <3> QED BY <3>1, <1>3, <1>4, <1>7, NextUpdateOK
  <2> QED BY <2>1, <2>2
<1>11. ClockInv' /\ WorkInv' /\ EditInv' BY <1>5, <1>7, LaterClock, WorkStays, EditStays
<1>12. ProcInv' BY <1>6 DEF ProcInv
<1> QED BY <1>9, <1>10, <1>11, <1>12

-----------------------------------------------------------------------------
(* The worker.                                                             *)

Parts == Scans \cup Dumps \cup {"idle"}

\* A part of resetExpiredCounters begins with no copies.
LEMMA StartPartOK ==
  ASSUME ClockInv', NEW part \in Parts, now' = now, StartPart(part) PROVE WorkInv'
<1>1. RangeOf(part) \subseteq Objects BY DEF RangeOf, Objects
<1>2. wtodo' \subseteq Objects BY <1>1 DEF StartPart
<1>3. wnow' \in 0..now' BY GovernanceAssumption DEF StartPart, ClockInv
<1>4. DOMAIN wcopy' = Objects /\ \A o \in Objects : wcopy'[o] = NoEntry
  BY DEF StartPart, NoCopies
<1>5. wpc' \in Parts /\ wheld' = NoEntry BY DEF StartPart
<1> QED BY <1>2, <1>3, <1>4, <1>5 DEF WorkInv, Parts, CopyOf

\* After a part comes a part.
LEMMA FollowsOK ==
  ASSUME NEW part \in Scans \cup Dumps PROVE Follows(part) \in Parts
BY DEF Follows, Parts, Scans, Dumps

\* A step of the worker that does not store into the maps.
LEMMA WorkerStep ==
  ASSUME Inv, ResetTick \/ (\E o \in Objects : ScanLoad(o)) \/ PersistResets \/ Dump
                \/ TransactionFails
  PROVE  Inv'
<1> USE DEF Inv
<1>1. UNCHANGED <<now, mem, reqVars, editVars, server, restarted, attempts, events, spent>>
  BY DEF ResetTick, ScanLoad, PersistResets, Dump, TransactionFails, procVars
<1>2. Later /\ ClockInv' BY <1>1, SameLater
<1>3. ReqInv' /\ EditInv' BY <1>1, <1>2, ReqStays, EditStays
<1>4. ProcInv' BY <1>1 DEF ProcInv
<1>5. WorkInv' /\ MapInv'
  <2>1. CASE ResetTick
    <3>1. "resetRateLimits" \in Parts BY DEF Parts, Scans
    <3> QED BY <2>1, <3>1, <1>1, <1>2, StartPartOK, MapStays DEF ResetTick
  <2>2. ASSUME NEW o \in Objects, ScanLoad(o) PROVE WorkInv' /\ MapInv'
    <3>1. UNCHANGED <<mem, db>> BY <2>2 DEF ScanLoad
    <3>2. MapInv' BY <3>1, <1>2, MapStays
    <3>3. CASE wheld' = [object |-> o, entry |-> mem[o]] /\ UNCHANGED <<wpc, wtodo, wnow, wcopy>>
      <4>1. wheld'.object = o /\ wheld'.entry = mem[o] BY <3>3
      <4>2. Honest(spent', now', restarted', o, mem[o]) BY <1>1 DEF MapInv
      <4> QED BY <3>2, <3>3, <4>1, <4>2, <1>1 DEF WorkInv
    <3>4. CASE StartPart(Follows(wpc))
      <4>1. Follows(wpc) \in Parts BY <2>2, FollowsOK DEF ScanLoad
      <4> QED BY <3>2, <3>4, <4>1, <1>1, <1>2, StartPartOK
    <3>5. CASE wtodo' = wtodo \ {o} /\ UNCHANGED <<wpc, wnow, wcopy, wheld>>
      BY <3>2, <3>5, <1>1 DEF WorkInv
    <3> QED BY <2>2, <3>3, <3>4, <3>5 DEF ScanLoad
  <2>3. CASE PersistResets
    <3>1. Follows(wpc) \in Parts BY <2>3, FollowsOK DEF PersistResets
    <3>2. WorkInv' BY <2>3, <3>1, <1>1, <1>2, StartPartOK DEF PersistResets
    <3>3. ASSUME NEW o \in Objects PROVE HonestRow(spent, o, PersistReset(db[o], wcopy[o]))
      <4>1. HonestRow(spent, o, db[o]) BY DEF MapInv
      <4>2. wcopy[o] # NoEntry => HonestRow(spent, o, wcopy[o]) BY DEF WorkInv
      <4>3. CASE wcopy[o] = NoEntry BY <4>1, <4>3 DEF PersistReset
      <4>4. CASE wcopy[o] # NoEntry
        <5>1. DOMAIN db[o] = MetersOf(o) BY <4>1 DEF HonestRow, Entry
        <5>2. PersistReset(db[o], wcopy[o]) =
                [m \in MetersOf(o) |-> IF wcopy[o][m].usage = 0 THEN wcopy[o][m] ELSE db[o][m]]
          BY <4>4, <5>1 DEF PersistReset
        <5> QED BY <4>1, <4>2, <4>4, <5>2 DEF HonestRow, ChargedEver, Entry
      <4> QED BY <4>3, <4>4
    <3>4. db' = [o \in Objects |-> PersistReset(db[o], wcopy[o])] BY <2>3 DEF PersistResets
    <3> QED BY <3>2, <3>3, <3>4, <1>1 DEF MapInv
  <2>4. CASE Dump
    <3>1. Follows(wpc) \in Parts BY <2>4, FollowsOK DEF Dump
    <3>2. WorkInv' BY <2>4, <3>1, <1>1, <1>2, StartPartOK DEF Dump
    <3>3. ASSUME NEW o \in Objects PROVE HonestRow(spent, o, DumpRow(db[o], mem[o]))
      <4>1. HonestRow(spent, o, db[o]) /\ HonestRow(spent, o, mem[o]) BY DEF MapInv, Honest
      <4>2. db[o] \in Entry(o) /\ mem[o] \in Entry(o) BY <4>1 DEF HonestRow
      <4>3. DOMAIN DumpRow(db[o], mem[o]) = MetersOf(o) BY <4>2 DEF DumpRow, Entry
      <4>4. ASSUME NEW m \in MetersOf(o)
            PROVE  /\ DumpRow(db[o], mem[o])[m] \in Counter
                   /\ DumpRow(db[o], mem[o])[m].usage = mem[o][m].usage
        <5>1. db[o][m] \in Counter /\ mem[o][m] \in Counter BY <4>2 DEF Entry
        <5>2. DumpRow(db[o], mem[o])[m] = [db[o][m] EXCEPT !.usage = mem[o][m].usage]
          BY <4>2 DEF DumpRow, Entry
        <5> QED BY <5>1, <5>2 DEF Counter
      <4>5. DumpRow(db[o], mem[o]) \in Entry(o) BY <4>2, <4>4 DEF DumpRow, Entry
      <4> QED BY <4>1, <4>4, <4>5 DEF HonestRow, ChargedEver
    <3>4. db' = [o \in Objects |-> IF o \in RangeOf(wpc) THEN DumpRow(db[o], mem[o]) ELSE db[o]]
      BY <2>4 DEF Dump
    <3> QED BY <3>2, <3>3, <3>4, <1>1 DEF MapInv
  <2>5. CASE TransactionFails
    <3>1. Follows(wpc) \in Parts BY <2>5, FollowsOK DEF TransactionFails
    <3> QED BY <2>5, <3>1, <1>1, <1>2, StartPartOK, MapStays DEF TransactionFails
  <2> QED BY <2>1, <2>2, <2>3, <2>4, <2>5
<1> QED BY <1>2, <1>3, <1>4, <1>5

\* A store of an entry that may be in the map, with nothing else changed but
\* who holds what.
LEMMA StoreOK ==
  ASSUME Inv, Later, NEW o \in Objects, NEW e, Honest(spent', now', restarted', o, e),
         mem' = [mem EXCEPT ![o] = e], db' = db
  PROVE  MapInv'
<1>1. ASSUME NEW p \in Objects
      PROVE  Honest(spent', now', restarted', p, mem'[p]) /\ HonestRow(spent', p, db'[p])
  <2>1. HonestRow(spent', p, db'[p]) BY HonestStays DEF Inv, MapInv
  <2>2. CASE p = o
    <3>1. mem'[o] = e BY DEF Inv, MapInv
    <3> QED BY <2>1, <2>2, <3>1
  <2>3. CASE p # o
    <3>1. mem'[p] = mem[p] BY <2>3 DEF Inv, MapInv
    <3> QED BY <2>1, <3>1, HonestStays DEF Inv, MapInv
  <2> QED BY <2>2, <2>3
<1> QED BY <1>1 DEF Inv, MapInv

\* The worker stores the zeroed copy of what it loaded.
LEMMA ScanStoreStep ==
  ASSUME Inv, ScanStore PROVE Inv'
<1> USE DEF Inv
<1> DEFINE o    == wheld.object
           copy == ResetExpired(wheld.entry, wnow)
<1>1. /\ mem' = [mem EXCEPT ![o] = copy] /\ wcopy' = [wcopy EXCEPT ![o] = copy]
      /\ wtodo' = wtodo \ {o} /\ wheld' = NoEntry
      /\ UNCHANGED <<now, db, reqVars, wpc, wnow, editVars, procVars, spent>>
  BY DEF ScanStore
<1>2. UNCHANGED <<server, restarted, attempts, events>> BY <1>1 DEF procVars
<1>3. Later /\ ClockInv' BY <1>1, <1>2, SameLater
<1>4. o \in Objects /\ Honest(spent, now, restarted, o, wheld.entry) /\ wnow \in 0..now
  BY DEF WorkInv, ScanStore
<1>5. Honest(spent', now', restarted', o, copy)
  <2>1. Honest(spent, now, restarted, o, copy) BY <1>4, ResetHonest
  <2> HIDE DEF o, copy
  <2> QED BY <2>1, <1>1, <1>2
<1>6. MapInv'
  <2> HIDE DEF o, copy
  <2> QED BY <1>1, <1>3, <1>4, <1>5, StoreOK
<1>7. WorkInv'
  <2>1. HonestRow(spent', o, copy) BY <1>5 DEF Honest
  <2> HIDE DEF o, copy
  <2>2. copy \in Entry(o) BY <2>1 DEF HonestRow
  <2>3. DOMAIN wcopy' = Objects /\ wcopy'[o] = copy
        /\ \A p \in Objects : p # o => wcopy'[p] = wcopy[p]
    BY <1>1, <1>4 DEF WorkInv
  <2>4. \A p \in Objects : /\ CopyOf(p, wcopy'[p])
                           /\ wcopy'[p] # NoEntry => HonestRow(spent', p, wcopy'[p])
    BY <1>1, <2>1, <2>2, <2>3 DEF WorkInv, CopyOf
  <2> QED BY <1>1, <2>3, <2>4 DEF WorkInv
<1>8. ReqInv' /\ EditInv' BY <1>1, <1>3, ReqStays, EditStays
<1>9. ProcInv' BY <1>2 DEF ProcInv
<1> QED BY <1>3, <1>6, <1>7, <1>8, <1>9

-----------------------------------------------------------------------------
(* Edits of the key, the clock and the process.                            *)

\* An edit of the key stores back the entry it loaded.
LEMMA EditStep ==
  ASSUME Inv, Edit PROVE Inv'
<1> USE DEF Inv
<1>1. KeyEntries \in Seq(Objects) /\ Len(KeyEntries) \in Nat BY GovernanceAssumption
<1>2. CASE EditLoad
  <2>1. /\ UNCHANGED <<now, mem, db, reqVars, workVars, server, restarted, attempts, spent>>
        /\ events' \in 0..MaxEvents
    BY <1>2, GovernanceAssumption DEF EditLoad, ProcInv
  <2>2. Later /\ ClockInv' BY <2>1, SameLater
  <2>3. apos' \in 1..Len(KeyEntries)
    <3>1. CASE apos = 0 /\ KeyEntries # <<>> /\ apos' = 1 BY <1>1, <3>1
    <3>2. CASE apos # 0 /\ apos' = apos BY <1>1, <3>2 DEF EditInv
    <3> QED BY <1>2, <3>1, <3>2 DEF EditLoad
  <2>4. KeyEntries[apos'] \in Objects BY <1>1, <2>3
  <2>5. aheld' = mem[KeyEntries[apos']] BY <1>2 DEF EditLoad
  <2>6. Honest(spent', now', restarted', KeyEntries[apos'], aheld')
    BY <2>1, <2>4, <2>5 DEF MapInv
  <2>7. apos' \in 0..Len(KeyEntries) BY <1>1, <2>3
  <2>8. EditInv' BY <2>3, <2>6, <2>7 DEF EditInv
  <2>9. MapInv' /\ ReqInv' /\ WorkInv' BY <2>1, <2>2, MapStays, ReqStays, WorkStays
  <2>10. ProcInv' BY <2>1 DEF ProcInv
  <2> QED BY <2>2, <2>8, <2>9, <2>10
<1>3. CASE EditStore
  <2>1. /\ mem' = [mem EXCEPT ![KeyEntries[apos]] = aheld] /\ aheld' = NoEntry
        /\ apos' = IF apos < Len(KeyEntries) THEN apos + 1 ELSE 0
        /\ UNCHANGED <<now, db, reqVars, workVars, procVars, spent>>
    BY <1>3 DEF EditStore
  <2>2. UNCHANGED <<server, restarted, attempts, events>> BY <2>1 DEF procVars
  <2>3. Later /\ ClockInv' BY <2>1, <2>2, SameLater
  <2>4. apos \in 1..Len(KeyEntries) /\ Honest(spent, now, restarted, KeyEntries[apos], aheld)
    BY <1>3 DEF EditStore, EditInv
  <2>5. KeyEntries[apos] \in Objects BY <1>1, <2>4
  <2>6. Honest(spent', now', restarted', KeyEntries[apos], aheld) BY <2>1, <2>2, <2>4
  <2>7. MapInv' BY <2>1, <2>3, <2>5, <2>6, StoreOK
  <2>8. apos' \in 0..Len(KeyEntries) BY <1>1, <2>1, <2>4
  <2>9. EditInv' BY <2>1, <2>8 DEF EditInv
  <2>10. ReqInv' /\ WorkInv' BY <2>1, <2>3, ReqStays, WorkStays
  <2>11. ProcInv' BY <2>2 DEF ProcInv
  <2> QED BY <2>3, <2>7, <2>9, <2>10, <2>11
<1> QED BY <1>2, <1>3 DEF Edit

\* Time alone makes no copy wrong.
LEMMA TickStep ==
  ASSUME Inv, Tick PROVE Inv'
<1> USE DEF Inv
<1>1. UNCHANGED <<mem, db, reqVars, workVars, editVars, procVars, spent>> BY DEF Tick
<1>2. UNCHANGED <<server, restarted, attempts, events>> BY <1>1 DEF procVars
<1>3. now' \in 0..MaxTime /\ now \in 0..MaxTime /\ now <= now'
  BY GovernanceAssumption DEF Tick, ClockInv
<1>4. \A o \in Objects : \A m \in MetersOf(o) : \A t \in Times :
        spent[o][m][t] <= spent'[o][m][t]
  <2> SUFFICES ASSUME NEW o \in Objects, NEW m \in MetersOf(o), NEW t \in Times
               PROVE  spent[o][m][t] <= spent'[o][m][t]
    OBVIOUS
  <2>1. spent[o][m][t] \in Nat BY DEF ClockInv, SpentOK
  <2> QED BY <2>1, <1>1
<1>5. Later BY <1>1, <1>2, <1>3, <1>4 DEF Later, ClockInv
<1>6. ProcInv' BY <1>2 DEF ProcInv
<1> QED BY <1>1, <1>5, <1>6, LaterClock, MapStays, ReqStays, WorkStays, EditStays

\* Counters at zero were charged at any time, and since any reset.
LEMMA FreshHonest ==
  ASSUME NEW s, SpentOK(s), NEW n \in 0..MaxTime, NEW rs, NEW o \in Objects
  PROVE  Honest(s, n, rs, o, Fresh(0)[o])
<1>0. MaxTime \in Nat /\ n \in Nat BY GovernanceAssumption
<1>1. Fresh(0)[o] = [m \in MetersOf(o) |-> [usage |-> 0, reset |-> 0]] BY DEF Fresh
<1>2. ASSUME NEW m \in MetersOf(o)
      PROVE  /\ Fresh(0)[o][m] \in Counter
             /\ Fresh(0)[o][m].usage = 0 /\ Fresh(0)[o][m].reset = 0
  BY <1>1 DEF Counter
<1>3. Fresh(0)[o] \in Entry(o) BY <1>1, <1>2 DEF Entry
<1>4. ASSUME NEW m \in MetersOf(o) PROVE s[o][m][0] \in Nat
  <2>1. 0 \in Times BY <1>0 DEF Times
  <2> QED BY <2>1 DEF SpentOK
<1> HIDE DEF Fresh
<1>5. ASSUME NEW m \in MetersOf(o)
      PROVE  /\ Fresh(0)[o][m].usage <= s[o][m][0] /\ Fresh(0)[o][m].reset <= n
             /\ Fresh(0)[o][m].usage <= s[o][m][Fresh(0)[o][m].reset]
  BY <1>0, <1>2, <1>4
<1> QED BY <1>3, <1>5 DEF Honest, HonestRow, ChargedEver, ChargedSince

\* An idle request is in order.
LEMMA IdleOK ==
  ASSUME NEW s, NEW n, NEW rs, NEW r
  PROVE  ControlOK(r, "idle", 1, 1, NoCopies) /\ CopiesOK(s, n, rs, NoCopies)
BY NoCopiesOK DEF ControlOK, ReqStates

\* A stop forgets everything but the rows.
LEMMA StopStep ==
  ASSUME Inv, Stop PROVE Inv'
<1> USE DEF Inv
<1>1. /\ UNCHANGED <<now, db, attempts, spent>> /\ server' = "down" /\ restarted' = TRUE
      /\ mem' = Fresh(0) /\ events' \in 0..MaxEvents
  BY GovernanceAssumption DEF Stop, ProcInv
<1>2. now' \in 0..MaxTime /\ SpentOK(spent') /\ ClockInv' BY <1>1 DEF ClockInv
<1>3. MapInv'
  <2>1. DOMAIN Fresh(0) = Objects BY DEF Fresh
  <2>2. \A o \in Objects : Honest(spent', now', restarted', o, Fresh(0)[o])
    BY <1>2, FreshHonest
  <2>3. \A o \in Objects : HonestRow(spent', o, db'[o]) BY <1>1 DEF MapInv
  <2> QED BY <1>1, <2>1, <2>2, <2>3 DEF MapInv
<1>4. ReqInv'
  <2>1. 0 \in 0..now' BY <1>2, GovernanceAssumption
  <2>2. /\ rpc' = [r \in Requests |-> "idle"] /\ call' = [r \in Requests |-> 1]
        /\ pos' = [r \in Requests |-> 1] /\ seen' = [r \in Requests |-> NoCopies]
        /\ unow' = [r \in Requests |-> 0] /\ amount' = [r \in Requests |-> Free]
    BY DEF Stop
  <2>3. /\ rpc' \in [Requests -> ReqStates] /\ call' \in [Requests -> Nat]
        /\ pos' \in [Requests -> Nat] /\ unow' \in [Requests -> 0..now']
        /\ amount' \in [Requests -> Amounts \cup {Free}] /\ seen' = [r \in Requests |-> seen'[r]]
    BY <2>1, <2>2 DEF ReqStates
  <2>4. ASSUME NEW r \in Requests
        PROVE  /\ ControlOK(r, rpc'[r], call'[r], pos'[r], seen'[r])
               /\ CopiesOK(spent', now', restarted', seen'[r])
    <3>1. rpc'[r] = "idle" /\ call'[r] = 1 /\ pos'[r] = 1 /\ seen'[r] = NoCopies BY <2>2
    <3> QED BY <3>1, IdleOK
  <2> QED BY <2>3, <2>4 DEF ReqInv
<1>5. WorkInv'
  <2>1. "idle" \in Parts /\ StartPart("idle") BY DEF Stop, Parts
  <2> QED BY <2>1, <1>1, <1>2, StartPartOK
<1>6. EditInv' BY GovernanceAssumption DEF Stop, EditInv
<1>7. ProcInv' BY <1>1 DEF ProcInv
<1> QED BY <1>2, <1>3, <1>4, <1>5, <1>6, <1>7

\* Before it serves again the process has been restarted, so the rows only have
\* to show what was charged at some time.
LEMMA StartStep ==
  ASSUME Inv, Start PROVE Inv'
<1> USE DEF Inv
<1>1. /\ UNCHANGED <<now, reqVars, workVars, editVars, restarted, attempts, events, spent>>
      /\ restarted /\ server' \in {"down", "loaded", "serving"}
  BY DEF Start, LoadFromDatabase, PerformStartupResets, ProcInv
<1>2. Later /\ ClockInv' BY <1>1, SameLater
<1>3. ProcInv' BY <1>1 DEF ProcInv
<1>4. ReqInv' /\ WorkInv' /\ EditInv' BY <1>1, <1>2, ReqStays, WorkStays, EditStays
<1>5. \A o \in Objects : \A e : HonestRow(spent, o, e) => Honest(spent', now', restarted', o, e)
  BY <1>1 DEF Honest
<1>6. \A o \in Objects : HonestRow(spent, o, db[o]) /\ HonestRow(spent, o, mem[o])
  BY DEF MapInv, Honest
<1>7. MapInv'
  <2>1. CASE LoadFromDatabase
    <3>1. mem' = db /\ db' = db BY <2>1 DEF LoadFromDatabase
    <3> QED BY <3>1, <1>1, <1>5, <1>6 DEF MapInv
  <2>2. CASE PerformStartupResets
    <3> DEFINE reset == [o \in Objects |-> ResetExpired(mem[o], now)]
               row   == [o \in Objects |-> ResetExpired(db[o], now)]
    <3>1. now \in 0..now BY GovernanceAssumption DEF ClockInv
    <3>2. \A o \in Objects : HonestRow(spent, o, reset[o]) /\ HonestRow(spent, o, row[o])
      BY <1>6, <3>1, ResetHonest
    <3>3. /\ DOMAIN mem' = Objects /\ DOMAIN db' = Objects
          /\ \A o \in Objects : /\ mem'[o] = mem[o] \/ mem'[o] = reset[o]
                                /\ db'[o] \in {db[o], mem'[o], row[o]}
      BY <2>2 DEF PerformStartupResets, MapInv
    <3> HIDE DEF reset, row
    <3>4. ASSUME NEW o \in Objects
          PROVE  HonestRow(spent, o, mem'[o]) /\ HonestRow(spent, o, db'[o])
      BY <1>6, <3>2, <3>3
    <3> QED BY <3>3, <3>4, <1>1, <1>5 DEF MapInv
  <2> QED BY <2>1, <2>2 DEF Start
<1> QED BY <1>2, <1>3, <1>4, <1>7

-----------------------------------------------------------------------------
(* The invariant is inductive.                                             *)

\* The first state.
LEMMA InitInv == Init => Inv
<1> SUFFICES ASSUME Init PROVE Inv
  OBVIOUS
<1>0. MaxTime \in Nat /\ MaxAttempts \in Nat /\ MaxEvents \in Nat BY GovernanceAssumption
<1>1. SpentOK(spent)
  <2>1. spent = [o \in Objects |-> [m \in MetersOf(o) |-> [t \in Times |-> 0]]] BY DEF Init
  <2>2. ASSUME NEW o \in Objects
        PROVE  /\ spent[o] \in [MetersOf(o) -> [Times -> Nat]]
               /\ \A m \in MetersOf(o) : \A t \in Times : spent[o][m][t] = 0
    BY <2>1
  <2> QED BY <2>1, <2>2 DEF SpentOK
<1>2. now = 0 /\ now \in 0..MaxTime /\ ClockInv
  <2>1. now = 0 /\ restarted = FALSE BY Zenon DEF Init
  <2>2. now \in 0..MaxTime BY <1>0, <2>1
  <2>3. restarted \in BOOLEAN BY <2>1
  <2> QED BY <1>1, <2>1, <2>2, <2>3 DEF ClockInv
<1>3. MapInv
  <2>1. DOMAIN Fresh(0) = Objects BY DEF Fresh
  <2>2. \A o \in Objects : Honest(spent, now, restarted, o, Fresh(0)[o])
    BY <1>1, <1>2, FreshHonest
  <2> QED BY <2>1, <2>2 DEF Init, MapInv, Honest
<1>4. ReqInv
  <2>1. 0 \in 0..now BY <1>2
  <2>2. /\ rpc = [r \in Requests |-> "idle"] /\ call = [r \in Requests |-> 1]
        /\ pos = [r \in Requests |-> 1] /\ seen = [r \in Requests |-> NoCopies]
        /\ unow = [r \in Requests |-> 0] /\ amount = [r \in Requests |-> Free]
    BY DEF Init
  <2>3. /\ rpc \in [Requests -> ReqStates] /\ call \in [Requests -> Nat]
        /\ pos \in [Requests -> Nat] /\ unow \in [Requests -> 0..now]
        /\ amount \in [Requests -> Amounts \cup {Free}] /\ seen = [r \in Requests |-> seen[r]]
    BY <2>1, <2>2 DEF ReqStates
  <2>4. ASSUME NEW r \in Requests
        PROVE  /\ ControlOK(r, rpc[r], call[r], pos[r], seen[r])
               /\ CopiesOK(spent, now, restarted, seen[r])
    <3>1. rpc[r] = "idle" /\ call[r] = 1 /\ pos[r] = 1 /\ seen[r] = NoCopies BY <2>2
    <3> QED BY <3>1, IdleOK
  <2> QED BY <2>3, <2>4 DEF ReqInv
<1>5. WorkInv BY <1>2 DEF Init, WorkInv, NoCopies, CopyOf
<1>6. EditInv BY GovernanceAssumption DEF Init, EditInv
<1>7. ProcInv BY <1>0 DEF Init, ProcInv
<1> QED BY <1>2, <1>3, <1>4, <1>5, <1>6, <1>7 DEF Inv

\* Every step.
LEMMA StepInv == Inv /\ [Next]_vars => Inv'
<1> SUFFICES ASSUME Inv, [Next]_vars PROVE Inv'
  OBVIOUS
<1>1. CASE Tick BY <1>1, TickStep
<1>2. ASSUME NEW r \in Requests, PreLLMHook(r) \/ Serve(r) PROVE Inv'
  <2>1. CASE UpdateStore(r) BY <2>1, UpdateStoreStep
  <2>2. CASE ~UpdateStore(r) BY <1>2, <2>2, RequestStep DEF Serve
  <2> QED BY <2>1, <2>2
<1>3. CASE Worker BY <1>3, WorkerStep, ScanStoreStep DEF Worker, Scan
<1>4. CASE Edit BY <1>4, EditStep
<1>5. CASE Stop BY <1>5, StopStep
<1>6. CASE Start BY <1>6, StartStep
<1>7. CASE UNCHANGED vars
  <2>1. UNCHANGED <<now, mem, db, reqVars, workVars, editVars, server, restarted, attempts,
                    events, spent>>
    BY <1>7 DEF vars, clockVars, procVars
  <2>2. Later /\ ClockInv' BY <2>1, SameLater DEF Inv
  <2>3. ProcInv' BY <2>1 DEF Inv, ProcInv
  <2> QED BY <2>1, <2>2, <2>3, MapStays, ReqStays, WorkStays, EditStays DEF Inv
<1> QED BY <1>1, <1>2, <1>3, <1>4, <1>5, <1>6, <1>7 DEF Next

\* So the invariant holds throughout.
LEMMA InvHolds == Spec => []Inv
BY InitInv, StepInv, PTL DEF Spec

-----------------------------------------------------------------------------
(* The theorems.                                                           *)

\* The state of the counters, of their copies and of every request has its type.
THEOREM TypeCorrect == Spec => []TypeOK
<1>1. Inv => TypeOK
  <2> SUFFICES ASSUME Inv PROVE TypeOK
    OBVIOUS
  <2>0. MaxTime \in Nat /\ now \in 0..MaxTime /\ 0..now \subseteq 0..MaxTime
    BY GovernanceAssumption DEF Inv, ClockInv
  <2>1. /\ DOMAIN mem = Objects /\ DOMAIN db = Objects
        /\ \A o \in Objects : mem[o] \in Entry(o) /\ db[o] \in Entry(o)
    BY DEF Inv, MapInv, Honest, HonestRow
  <2>2. unow \in [Requests -> 0..MaxTime] BY <2>0 DEF Inv, ReqInv
  <2>3. /\ rpc \in [Requests -> {"idle", "collect", "compare", "sent", "update", "load", "store"}]
        /\ call \in [Requests -> Nat] /\ pos \in [Requests -> Nat]
        /\ amount \in [Requests -> Amounts \cup {Free}]
        /\ \A r \in Requests, o \in Objects : CopyOf(o, seen[r][o])
    BY DEF Inv, ReqInv, ReqStates, CopiesOK
  <2>4. /\ wpc \in Scans \cup Dumps \cup {"idle"} /\ wtodo \subseteq Objects
        /\ wnow \in 0..MaxTime /\ \A o \in Objects : CopyOf(o, wcopy[o])
        /\ wheld # NoEntry => wheld.object \in Objects /\ wheld.entry \in Entry(wheld.object)
    BY <2>0 DEF Inv, WorkInv, Honest, HonestRow
  <2>5. /\ apos \in 0..Len(KeyEntries)
        /\ aheld # NoEntry => apos \in 1..Len(KeyEntries) /\ aheld \in Entry(KeyEntries[apos])
    BY DEF Inv, EditInv, Honest, HonestRow
  <2> QED BY <2>0, <2>1, <2>2, <2>3, <2>4, <2>5 DEF TypeOK, Inv, ProcInv, ClockInv
<1> QED BY <1>1, InvHolds, PTL

\* What a budget or a rate limit shows was really charged: since its reset
\* until the first restart, at some time after it.
THEOREM CountersAreHonest == Spec => []NeverOvercounted
<1>1. Inv => NeverOvercounted
  BY DEF Inv, MapInv, Honest, HonestRow, ChargedEver, ChargedSince, NeverOvercounted
<1> QED BY <1>1, InvHolds, PTL

\* A request that the checks of governance refuse was subject to a counter that
\* was charged its limit within the reset duration, whichever copies of which
\* age the check compared.
THEOREM RefusalsAreDue == Spec => RejectedOnlyWhenSpent
<1> DEFINE Due == \A r \in Requests :
             rpc[r] = "compare" /\ rpc'[r] = "idle" /\ server' = "serving" /\ ~restarted =>
               \E i \in 1..Len(Checks[r][call[r]]) :
                 LET o == Checks[r][call[r]][i]
                 IN  \E m \in MetersOf(o) : spent[o][m][WindowStart(m)] >= Limit
<1>1. Inv /\ [Next]_vars => Due
  <2> SUFFICES ASSUME Inv, [Next]_vars, NEW r \in Requests,
                      rpc[r] = "compare", rpc'[r] = "idle", server' = "serving", ~restarted
               PROVE  \E i \in 1..Len(Checks[r][call[r]]) :
                        LET o == Checks[r][call[r]][i]
                        IN  \E m \in MetersOf(o) : spent[o][m][WindowStart(m)] >= Limit
    OBVIOUS
  <2>1. rpc \in [Requests -> ReqStates] BY DEF Inv, ReqInv
  <2>2. ~UNCHANGED rpc BY <2>1
  <2>3. ~(Tick \/ Worker \/ Edit \/ Stop \/ Start \/ UNCHANGED vars)
    BY <2>2 DEF Tick, Worker, ResetTick, Scan, ScanLoad, ScanStore, PersistResets, Dump,
                TransactionFails, Edit, EditLoad, EditStore, Stop, Start, LoadFromDatabase,
                PerformStartupResets, vars, reqVars
  <2>4. PICK q \in Requests : PreLLMHook(q) \/ Serve(q) BY <2>3 DEF Next
  <2>5. \A p \in Requests : p # q => rpc'[p] = rpc[p]
    <3>1. ASSUME NEW pc, NEW c, NEW p, Goto(q, pc, c, p)
          PROVE  \A s \in Requests : s # q => rpc'[s] = rpc[s]
      BY <2>1, <3>1 DEF Goto
    <3>2. Finish(q) => \A s \in Requests : s # q => rpc'[s] = rpc[s] BY <3>1 DEF Finish
    <3>3. ASSUME NEW c, NEW a, NextUpdate(q, c, a)
          PROVE  \A s \in Requests : s # q => rpc'[s] = rpc[s]
      BY <3>1, <3>2, <3>3 DEF NextUpdate
    <3>4. ASSUME NEW c, NEW p, Load(q, c, p)
          PROVE  \A s \in Requests : s # q => rpc'[s] = rpc[s]
      BY <3>1, <3>4 DEF Load
    <3>5. CASE PreLLMHook(q) \/ Collect(q) BY <3>4, <3>5 DEF PreLLMHook, Collect
    <3>6. CASE Compare(q) BY <3>1, <3>2, <3>6 DEF Compare
    <3>7. CASE PostLLMHook(q) BY <3>2, <3>3, <3>7 DEF PostLLMHook
    <3>8. CASE UpdateUsage(q) \/ UpdateLoad(q) BY <3>1, <3>8 DEF UpdateUsage, UpdateLoad
    <3>9. CASE UpdateStore(q) BY <3>1, <3>3, <3>9 DEF UpdateStore
    <3> QED BY <2>4, <3>5, <3>6, <3>7, <3>8, <3>9 DEF Serve
  <2>6. q = r BY <2>5
  <2>7. Compare(r)
    BY <2>4, <2>6 DEF Serve, PreLLMHook, Collect, PostLLMHook, UpdateUsage, UpdateLoad,
                      UpdateStore
  <2> DEFINE entries == Checks[r][call[r]]
  <2>8. \E i \in 1..Len(entries) : Exceeded(seen[r][entries[i]], now)
    <3>1. \A c, p : ~Goto(r, "collect", c, p) /\ ~Goto(r, "sent", c, p) BY <2>1 DEF Goto
    <3> QED BY <2>7, <3>1 DEF Compare
  <2>9. PICK i \in 1..Len(entries) : Exceeded(seen[r][entries[i]], now) BY <2>8
  <2> DEFINE o == entries[i]
             e == seen[r][o]
  <2>10. call[r] \in 1..Len(Checks[r]) /\ e \in Entry(o)
    BY DEF Inv, ReqInv, ControlOK
  <2>11. o \in Objects BY <2>10, CallsAreEntries
  <2>12. ChargedSince(spent, now, o, e) BY <2>10, <2>11 DEF Inv, ReqInv, CopiesOK, Honest
  <2> HIDE DEF o, e
  <2>13. DOMAIN e = MetersOf(o) BY <2>10 DEF Entry
  <2>14. PICK m \in MetersOf(o) : ~ExpiredAt(now, m, e[m]) /\ e[m].usage >= Limit
    BY <2>9, <2>13 DEF Exceeded, o, e
  <2>15. e[m].usage \in Nat /\ e[m].reset \in Nat BY <2>10 DEF Entry, Counter
  <2>16. e[m].reset <= now /\ e[m].usage <= spent[o][m][e[m].reset]
    BY <2>12 DEF ChargedSince
  <2>17. MaxTime \in Nat /\ Limit \in Nat /\ Duration[m] \in Nat \ {0} /\ now \in 0..MaxTime
    BY GovernanceAssumption DEF Inv, ClockInv, MetersOf, Meters
  <2>18. now - e[m].reset < Duration[m] BY <2>14, <2>15, <2>17 DEF ExpiredAt
  <2>19. /\ WindowStart(m) \in Times /\ e[m].reset \in Times /\ WindowStart(m) <= e[m].reset
    BY <2>15, <2>16, <2>17, <2>18 DEF WindowStart, Times
  <2>20. /\ spent[o][m][e[m].reset] <= spent[o][m][WindowStart(m)]
         /\ spent[o][m][e[m].reset] \in Nat /\ spent[o][m][WindowStart(m)] \in Nat
    BY <2>11, <2>19 DEF Inv, ClockInv, SpentOK
  <2>21. spent[o][m][WindowStart(m)] >= Limit BY <2>14, <2>15, <2>16, <2>17, <2>20
  <2> QED BY <2>21 DEF o
<1> QED BY <1>1, InvHolds, PTL DEF Spec, RejectedOnlyWhenSpent
=============================================================================
