------------------------- MODULE RequestFlowProofs -------------------------
(***************************************************************************)
(* Proofs about RequestFlow, for every number of calls, fallbacks,         *)
(* plugins, pipelines and retries: what a call returns, that its targets   *)
(* are tried one after the other, that pipelines in use are not shared,    *)
(* and where the hooks may leave the list of plugins they run over.        *)
(* RequestFlowHookProofs goes on from here.                                *)
(***************************************************************************)
EXTENDS RequestFlow, FiniteSetTheorems, WellFoundedInduction, TLAPS

-----------------------------------------------------------------------------
(* The shape of the state, and what the control state says about the rest. *)

\* The functions whose values depend on the call, and the attempts.
ShapeInv ==
  /\ at \in [Calls -> Nat] /\ DOMAIN verdict = Calls
  /\ res \in [Calls -> [value : Values \cup {None}, of : Nat]]
  /\ outcome \in [Tries -> A!Outcomes]
  /\ called \in [Tries -> {0, 1}]

\* Where a call may be.
Places == Returned \cup {"new", "try", "pre", "submit", "wait", "post", "decide", "fallback"}

\* The attempt holds a pipeline it took from the pool.
Holding == {"pre", "submit", "wait", "post"}

\* What a call has in hand.
InHand(c) ==
  /\ pc[c] \in Holding => mine[c] \in Pipelines
  /\ pc[c] = "pre" => hook[c] > 0
  /\ pc[c] \in {"post", "chunk", "decide"} => val[c] # None
  /\ pc[c] \in {"feed", "chunk"} => source[c] # "none"
  /\ source[c] # "none" => /\ stream[c] /\ pc[c] \in {"decide"} \cup Returned
                           /\ mine[c] \in Pipelines
                           /\ pc[c] = "decide" => val[c] = "resp"
  /\ source[c] = "provider" => theirs[c] \in Pipelines
  /\ freed[c] => source[c] = "provider"

\* What the worker that serves it has in hand.
InService(c) ==
  /\ wk[c] # "sent" => answer[c] = None
  /\ answer[c] \in Errors => theirs[c] = None
  /\ wk[c] # "none" => \/ pc[c] = "wait"
                       \/ ~stream[c] /\ pc[c] = "decide" /\ val[c] = "cancelled"
                       \/ ~stream[c] /\ pc[c] = "returned"
  /\ stream[c] /\ (wk[c] = "run" \/ answer[c] = "resp") => theirs[c] \in Pipelines
  /\ ~stream[c] => theirs[c] = None
  /\ theirs[c] # None => wk[c] \in {"run", "sent"} \/ source[c] = "provider"

\* Types and what belongs to each control state.
BaseInv == TypeOK /\ ShapeInv /\ \A c \in Calls : InHand(c) /\ InService(c)

-----------------------------------------------------------------------------
(* The targets of a call.                                                  *)

\* The targets before the one being tried failed and are closed, the ones after
\* it are untouched.
Passed(c) ==
  \A i \in Targets(c) :
    /\ i < at[c] => /\ outcome[<<c, i>>] \in {"rejected", "answered"}
                    /\ verdict[c][i] \in {"err", None}
    /\ i > at[c] => /\ outcome[<<c, i>>] = "open" /\ called[<<c, i>>] = 0
                    /\ verdict[c][i] = None

\* The attempt under way.
Current(c) ==
  /\ at[c] > 1 => verdict[c][1] # None
  /\ pc[c] = "new" => at[c] = 1
  /\ pc[c] = "fallback" => at[c] > 1
  /\ pc[c] \notin Returned => verdict[c][at[c]] = None
  /\ pc[c] \in {"new", "try", "pre", "submit", "wait", "fallback"} =>
       outcome[<<c, at[c]>>] = "open"
  /\ pc[c] = "post" => outcome[<<c, at[c]>>] \in {"open", "answered"}
  /\ pc[c] = "decide" => /\ outcome[<<c, at[c]>>] # "open"
                         /\ outcome[<<c, at[c]>>] = "abandoned" => val[c] = "cancelled"

\* The call returned what it had to.
Settled(c) ==
  pc[c] \in Returned /\ verdict[c][1] # None =>
    \/ /\ verdict[c][at[c]] \in {"resp", "deny", "cancelled"}
       /\ res[c] = [value |-> verdict[c][at[c]], of |-> at[c]]
    \/ /\ at[c] = Fallbacks[c] + 1 /\ verdict[c][at[c]] \in {"err", None}
       /\ outcome[<<c, at[c]>>] # "open"
       /\ res[c] = [value |-> verdict[c][1], of |-> 1]

\* What is known of every call's targets.
TargetInv == \A c \in Calls : Passed(c) /\ Current(c) /\ Settled(c)

-----------------------------------------------------------------------------
(* The end mark.                                                           *)

\* The mark is a failed attempt's or that of the stream's own end, and a finalizer
\* that ran too early ran after a failed attempt.
Marked(c) ==
  /\ mark[c] = "stale" =>
       AnsweredBefore(c) \/ (outcome[<<c, at[c]>>] = "answered" /\ source[c] = "none")
  /\ mark[c] = "last" => source[c] # "none"
  /\ freed[c] => mark[c] # "none"
  /\ freed[c] /\ pc[c] = "chunk" => AnsweredBefore(c)

\* What is known of every call's mark.
MarkInv == \A c \in Calls : Marked(c)

-----------------------------------------------------------------------------
(* The pipelines.                                                          *)

\* The attempt, and the worker of a stream, have not given back what they took.
HoldsMine(c) == pc[c] \in Holding
HoldsTheirs(c) == theirs[c] # None /\ ~freed[c]

\* A pipeline that was taken and not given back is not in the pool, and has one
\* user.
PoolInv ==
  /\ \A c \in Calls : /\ HoldsMine(c) => mine[c] \notin free
                      /\ HoldsTheirs(c) => theirs[c] \notin free
  /\ \A c, d \in Calls :
       /\ HoldsMine(c) /\ HoldsMine(d) /\ mine[c] = mine[d] => c = d
       /\ HoldsTheirs(c) /\ HoldsTheirs(d) /\ theirs[c] = theirs[d] => c = d
       /\ HoldsMine(c) /\ HoldsTheirs(d) => mine[c] # theirs[d]

\* The hooks stay within the list they run over.
InRange(c) ==
  /\ pc[c] = "pre" => hook[c] <= Len(ListOf(c)) + 1
  /\ pc[c] = "post" => hook[c] <= Len(ListOf(c))
  /\ pc[c] = "chunk" /\ source[c] = "provider" /\ ~freed[c] => hook[c] <= Len(ListOf(c))

\* No hook runs off the end of its list but on a released pipeline.
RangeInv == PanicsOnlyOnReleasedPipeline /\ \A c \in Calls : InRange(c)

-----------------------------------------------------------------------------
(* The lists the hooks run over.                                           *)

\* A plugin instance is listed once, and a pipeline taken since the last change
\* of the list has the current one.
Fresh(c) ==
  /\ edited[c] => mine[c] # None
  /\ late[c] => ws[c] # None
  /\ mine[c] # None /\ ~edited[c] =>
       /\ list[mine[c]] = plugins
       /\ theirs[c] # None => list[theirs[c]] = plugins
       /\ pc[c] = "wait" => count[c] = Len(plugins)
  /\ pc[c] \in {"new", "try", "fallback"} =>
       /\ mine[c] = None /\ ~late[c] /\ ~own[c] /\ ~cut[c] /\ metered[c] = 0
       /\ pres[c] = <<>> /\ posts[c] = <<>>

\* Every list holds a plugin once.
ListInv ==
  /\ ListedOnce(plugins) /\ \A p \in Pipelines : ListedOnce(list[p])
  /\ \A c \in Calls : Fresh(c)

-----------------------------------------------------------------------------
(* What a step of one call leaves alone.                                   *)

\* Nothing about call c changes.
Same(c) ==
  /\ stream'[c] = stream[c] /\ skips'[c] = skips[c] /\ pc'[c] = pc[c] /\ at'[c] = at[c]
  /\ val'[c] = val[c] /\ own'[c] = own[c] /\ verdict'[c] = verdict[c] /\ res'[c] = res[c]
  /\ mine'[c] = mine[c] /\ hook'[c] = hook[c] /\ pres'[c] = pres[c] /\ posts'[c] = posts[c]
  /\ cut'[c] = cut[c] /\ count'[c] = count[c] /\ request'[c] = request[c]
  /\ wk'[c] = wk[c] /\ tries'[c] = tries[c] /\ answer'[c] = answer[c]
  /\ theirs'[c] = theirs[c] /\ freed'[c] = freed[c] /\ source'[c] = source[c]
  /\ chunks'[c] = chunks[c]
  /\ ws'[c] = ws[c] /\ rejected'[c] = rejected[c] /\ done'[c] = done[c] /\ late'[c] = late[c]
  /\ mark'[c] = mark[c] /\ metered'[c] = metered[c]
  /\ \A i \in Targets(c) : /\ outcome'[<<c, i>>] = outcome[<<c, i>>]
                           /\ called'[<<c, i>>] = called[<<c, i>>]

\* Only call d goes on, and the plugin list stays.
OnlyCall(d) ==
  /\ plugins' = plugins /\ edits' = edits
  /\ \A c \in Calls : c # d => Same(c) /\ edited'[c] = edited[c]

\* The actions of one call and of those who serve it.
CallStep(d) == Begin(d) \/ Caller(d) \/ Worker(d) \/ Feeder(d) \/ CancelContext(d)

\* The parts of TypeOK, and of ShapeInv, that belong together.
CallType ==
  /\ stream \in [Calls -> BOOLEAN] /\ skips \in [Calls -> BOOLEAN] /\ pc \in [Calls -> Places]
  /\ at \in [Calls -> Nat] /\ \A c \in Calls : at[c] \in Targets(c)
  /\ val \in [Calls -> Values \cup {None}] /\ own \in [Calls -> BOOLEAN]
  /\ DOMAIN verdict = Calls
  /\ \A c \in Calls : verdict[c] \in [Targets(c) -> Values \cup {None}]
  /\ res \in [Calls -> [value : Values \cup {None}, of : Nat]]
  /\ \A c \in Calls : res[c].of \in Targets(c)

\* The hooks of the attempts.
HookType ==
  /\ mine \in [Calls -> Pipelines \cup {None}]
  /\ hook \in [Calls -> Nat] /\ count \in [Calls -> Nat]
  /\ pres \in [Calls -> Seq(Plugins)] /\ posts \in [Calls -> Seq(Plugins)]
  /\ cut \in [Calls -> BOOLEAN] /\ request \in [Calls -> BOOLEAN]

\* The workers and the streams.
WorkType ==
  /\ theirs \in [Calls -> Pipelines \cup {None}] /\ freed \in [Calls -> BOOLEAN]
  /\ wk \in [Calls -> {"none", "queued", "run", "sent"}]
  /\ tries \in [Calls -> 0..MaxRetries]
  /\ answer \in [Calls -> Values \cup {None}]
  /\ source \in [Calls -> {"none", "provider", "cached"}]
  /\ chunks \in [Calls -> 0..MaxChunks]

\* The contexts and the marks in them.
ContextType ==
  /\ ws \in [Calls -> Workspaces \cup {None}]
  /\ rejected \in [Calls -> BOOLEAN] /\ done \in [Calls -> BOOLEAN]
  /\ mark \in [Calls -> Marks] /\ metered \in [Calls -> Nat] /\ crash \subseteq Calls
  /\ edited \in [Calls -> BOOLEAN] /\ late \in [Calls -> BOOLEAN]

\* The plugin list, the pipelines and the attempts.
ListType ==
  /\ plugins \in Seq(Plugins) /\ edits \in 0..MaxEdits
  /\ list \in [Pipelines -> Seq(Plugins)] /\ free \subseteq Pipelines
  /\ outcome \in [Tries -> A!Outcomes] /\ called \in [Tries -> {0, 1}]

\* What a step of call d does with pipelines: at most one is taken or given back.
KeepsMine(d) == HoldsMine(d)' => HoldsMine(d) /\ mine'[d] = mine[d]
KeepsTheirs(d) == HoldsTheirs(d)' => HoldsTheirs(d) /\ theirs'[d] = theirs[d]

\* Nothing, one Get or one Put.
OwnPool(d) ==
  \/ UNCHANGED poolVars /\ KeepsMine(d) /\ KeepsTheirs(d)
  \/ \E p \in free : GetPluginPipeline(p) /\ mine'[d] = p /\ KeepsTheirs(d)
  \/ \E p \in free : GetPluginPipeline(p) /\ theirs'[d] = p /\ KeepsMine(d)
  \/ HoldsMine(d) /\ ~HoldsMine(d)' /\ ReleasePluginPipeline(mine[d]) /\ KeepsTheirs(d)
  \/ HoldsTheirs(d) /\ ~HoldsTheirs(d)' /\ ReleasePluginPipeline(theirs[d]) /\ KeepsMine(d)

\* A nonempty set of naturals has a least element.
LEMMA Least ==
  ASSUME NEW T \in SUBSET Nat, T # {}
  PROVE  \E x \in T : \A y \in T : x <= y
  <1>1. \A a, b \in Nat : a < b => <<a, b>> \in OpToRel(<, Nat)
    BY DEF OpToRel
  <1>2. \E x \in T : \A y \in T : ~(<<y, x>> \in OpToRel(<, Nat))
    BY NatLessThanWellFounded, WFMin, Zenon
  <1>3. \E x \in T : \A y \in T : x \in Nat /\ y \in Nat /\ ~(y < x)
    BY <1>1, <1>2, Zenon
  <1> QED BY <1>3

-----------------------------------------------------------------------------
(* What the actions of Attempt do to the attempts of one call.             *)

\* Tries has one member for each call and target.
LEMMA InTries == \A c \in Calls : \A i \in Targets(c) : <<c, i>> \in Tries
  BY DEF Tries

\* An attempt that is turned away.
LEMMA RejectOne ==
  ASSUME ShapeInv, NEW a \in Tries, A!Reject(a)
  PROVE  /\ outcome[a] = "open" /\ outcome'[a] = "rejected"
         /\ \A b \in Tries : b # a => outcome'[b] = outcome[b]
         /\ outcome' \in [Tries -> A!Outcomes] /\ called' = called
  BY DEF ShapeInv, A!Reject, A!RejectAll, A!Outcomes

\* An attempt that ends for its caller.
LEMMA EndOne ==
  ASSUME ShapeInv, NEW a \in Tries, NEW how \in A!Outcomes, A!End(a, how)
  PROVE  /\ outcome[a] = "open" /\ outcome'[a] = how
         /\ \A b \in Tries : b # a => outcome'[b] = outcome[b]
         /\ outcome' \in [Tries -> A!Outcomes] /\ called' = called
  BY DEF ShapeInv, A!End, A!Outcomes

\* An attempt that is sent upstream.
LEMMA CallOne ==
  ASSUME ShapeInv, NEW a \in Tries, A!Call(a)
  PROVE  /\ outcome' = outcome
         /\ \A b \in Tries : b # a => called'[b] = called[b]
         /\ called' \in [Tries -> {0, 1}]
  BY DEF ShapeInv, A!Call

-----------------------------------------------------------------------------
(* Types.                                                                  *)

\* The states Init leaves the calls in.
LEMMA BaseInit == Init => BaseInv
  <1> SUFFICES ASSUME Init PROVE BaseInv
    OBVIOUS
  <1> USE FlowAssumption
  <1>1. \A c \in Calls : 1 \in Targets(c)
    BY DEF Targets
  <1>2. TypeOK
    BY <1>1 DEF Init, TypeOK, Values, Errors, Returned, Marks
  <1>3. ShapeInv
    BY DEF Init, ShapeInv, A!Init, A!Outcomes
  <1>4. \A c \in Calls : InHand(c)
    BY DEF Init, InHand, Holding, Returned
  <1>5. \A c \in Calls : InService(c)
    BY DEF Init, InService, Values, Errors
  <1> QED BY <1>2, <1>3, <1>4, <1>5 DEF BaseInv

\* A sequence without a member, a longer one, one with a member replaced.
LEMMA ListOps ==
  ASSUME NEW s \in Seq(Plugins), NEW p \in Plugins, NEW i
  PROVE  /\ Append(s, p) \in Seq(Plugins) /\ Len(Append(s, p)) = Len(s) + 1
         /\ [s EXCEPT ![i] = p] \in Seq(Plugins)
         /\ Len(s) \in Nat /\ \A j \in 1..Len(s) : s[j] \in Plugins
  <1>1. [s EXCEPT ![i] = p] = [k \in 1..Len(s) |-> IF k = i THEN p ELSE s[k]]
    OBVIOUS
  <1> DEFINE new == [k \in 1..Len(s) |-> IF k = i THEN p ELSE s[k]]
  <1>2. new \in Seq(Plugins)
    OBVIOUS
  <1>3. [s EXCEPT ![i] = p] \in Seq(Plugins)
    BY <1>1, <1>2
  <1>4. /\ Append(s, p) \in Seq(Plugins) /\ Len(Append(s, p)) = Len(s) + 1
        /\ Len(s) \in Nat /\ \A j \in 1..Len(s) : s[j] \in Plugins
    OBVIOUS
  <1> QED BY <1>3, <1>4

\* The list a hook of c runs over, while it runs one.
LEMMA ListOfType ==
  ASSUME BaseInv, NEW c \in Calls, pc[c] \in {"pre", "wait", "post", "chunk"}
  PROVE  ListOf(c) \in Seq(Plugins) /\ Len(ListOf(c)) \in Nat
  <1>1. skips[c] \/ Using(c) \in Pipelines
    BY DEF BaseInv, InHand, Holding, Using, Feeding, TypeOK, Returned
  <1>2. ListOf(c) \in Seq(Plugins)
    BY <1>1 DEF ListOf, BaseInv, TypeOK
  <1> QED BY <1>2

\* Where the post-hooks start.
LEMMA RunFromType ==
  ASSUME NEW n \in Nat, NEW s \in Seq(Plugins)
  PROVE  RunFrom(n, s) \in Nat /\ RunFrom(n, s) <= Len(s) /\ RunFrom(n, s) <= n
  BY DEF RunFrom

\* A pipeline is taken or given back.
LEMMA PoolType ==
  ASSUME TypeOK, NEW p \in Pipelines,
         GetPluginPipeline(p) \/ ReleasePluginPipeline(p) \/ UNCHANGED poolVars
  PROVE  list' \in [Pipelines -> Seq(Plugins)] /\ free' \subseteq Pipelines
  BY DEF TypeOK, GetPluginPipeline, ReleasePluginPipeline, poolVars

\* One attempt is rejected, ended or sent upstream.
LEMMA AttemptShape ==
  ASSUME ShapeInv, NEW a \in Tries,
         A!Reject(a) \/ A!Answer(a) \/ A!Abandon(a) \/ A!Call(a) \/ UNCHANGED tryVars
  PROVE  outcome' \in [Tries -> A!Outcomes] /\ called' \in [Tries -> {0, 1}]
  <1>1. CASE A!Reject(a)
    BY <1>1, RejectOne DEF ShapeInv
  <1>2. CASE A!Answer(a)
    BY <1>2, EndOne DEF ShapeInv, A!Answer, A!Outcomes
  <1>3. CASE A!Abandon(a)
    BY <1>3, EndOne DEF ShapeInv, A!Abandon, A!Outcomes
  <1>4. CASE A!Call(a)
    BY <1>4, CallOne DEF ShapeInv
  <1>5. CASE UNCHANGED tryVars
    BY <1>5 DEF ShapeInv, tryVars
  <1> QED BY <1>1, <1>2, <1>3, <1>4, <1>5

\* A call that goes on to its next target.
LEMMA NextTargetType ==
  ASSUME TypeOK, ShapeInv, NEW c \in Calls, NEW v \in Values \cup {None}, NextTarget(c, v)
  PROVE  /\ pc' \in [Calls -> Places] /\ at' \in [Calls -> Nat]
         /\ res' \in [Calls -> [value : Values \cup {None}, of : Nat]]
         /\ at'[c] \in Targets(c) /\ res'[c].of \in Targets(c)
         /\ pc'[c] = "fallback" \/ pc'[c] = (IF source[c] = "none" THEN "returned" ELSE "feed")
         /\ \A d \in Calls : d # c => pc'[d] = pc[d] /\ at'[d] = at[d] /\ res'[d] = res[d]
  <1> USE FlowAssumption
  <1>0. pc \in [Calls -> Places]
    BY DEF TypeOK, Places
  <1>1. 1 \in Targets(c) /\ Targets(c) \subseteq Nat
    BY DEF Targets
  <1>2. CASE LastTarget(c, at[c])
    <2>1. Return(c, 1, v)
      BY <1>2 DEF NextTarget
    <2>2. /\ res' \in [Calls -> [value : Values \cup {None}, of : Nat]]
          /\ res'[c] = [value |-> v, of |-> 1]
          /\ \A d \in Calls : d # c => res'[d] = res[d]
      BY <2>1, <1>1 DEF Return, ShapeInv
    <2>3. /\ pc' \in [Calls -> Places]
          /\ pc'[c] = (IF source[c] = "none" THEN "returned" ELSE "feed")
          /\ \A d \in Calls : d # c => pc'[d] = pc[d]
      BY <2>1, <1>0 DEF Return, Goto, Places, Returned
    <2> QED BY <2>1, <2>2, <2>3, <1>1 DEF Return, ShapeInv, TypeOK
  <1>3. CASE ~LastTarget(c, at[c])
    <2>1. at[c] + 1 \in Targets(c)
      BY <1>3 DEF LastTarget, Targets, TypeOK
    <2>2. /\ at' \in [Calls -> Nat] /\ at'[c] = at[c] + 1
          /\ \A d \in Calls : d # c => at'[d] = at[d]
      BY <1>1, <1>3, <2>1 DEF NextTarget, ShapeInv
    <2>3. /\ pc' \in [Calls -> Places] /\ pc'[c] = "fallback"
          /\ \A d \in Calls : d # c => pc'[d] = pc[d]
      BY <1>3, <1>0 DEF NextTarget, Goto, Places
    <2>4. res' = res /\ res[c].of \in Targets(c)
      BY <1>3 DEF NextTarget, TypeOK
    <2> QED BY <2>1, <2>2, <2>3, <2>4 DEF ShapeInv
  <1> QED BY <1>2, <1>3

\* The call variables are functions of the calls.
LEMMA CallDomains ==
  ASSUME BaseInv
  PROVE  /\ DOMAIN stream = Calls /\ DOMAIN skips = Calls /\ DOMAIN pc = Calls
         /\ DOMAIN at = Calls /\ DOMAIN val = Calls /\ DOMAIN verdict = Calls /\ DOMAIN res = Calls
         /\ DOMAIN mine = Calls /\ DOMAIN hook = Calls /\ DOMAIN pres = Calls
         /\ DOMAIN posts = Calls /\ DOMAIN count = Calls /\ DOMAIN request = Calls
         /\ DOMAIN wk = Calls /\ DOMAIN tries = Calls /\ DOMAIN answer = Calls
         /\ DOMAIN theirs = Calls /\ DOMAIN source = Calls /\ DOMAIN chunks = Calls
         /\ DOMAIN ws = Calls /\ DOMAIN rejected = Calls /\ DOMAIN done = Calls
         /\ DOMAIN late = Calls /\ DOMAIN metered = Calls /\ DOMAIN edited = Calls
         /\ DOMAIN own = Calls /\ DOMAIN cut = Calls /\ DOMAIN freed = Calls
         /\ DOMAIN mark = Calls
  BY DEF BaseInv, TypeOK, ShapeInv

\* What happens to the attempt of one call leaves those of the others alone.
LEMMA ElseStay ==
  ASSUME BaseInv, NEW d \in Calls,
         \/ A!Reject(<<d, at[d]>>) \/ A!Answer(<<d, at[d]>>)
         \/ A!Abandon(<<d, at[d]>>) \/ A!Call(<<d, at[d]>>)
  PROVE  \A c \in Calls : \A i \in Targets(c) : c # d \/ i # at[d] =>
           /\ outcome'[<<c, i>>] = outcome[<<c, i>>]
           /\ called'[<<c, i>>] = called[<<c, i>>]
  <1>1. ShapeInv /\ <<d, at[d]>> \in Tries
    BY InTries DEF BaseInv, TypeOK
  <1> DEFINE a == <<d, at[d]>>
  <1>2. \A b \in Tries : b # a => outcome'[b] = outcome[b] /\ called'[b] = called[b]
    <2> HIDE DEF a
    <2>1. A!Reject(a) \/ A!Answer(a) \/ A!Abandon(a) \/ A!Call(a)
      BY DEF a
    <2>0. a \in Tries
      BY <1>1 DEF a
    <2>2. CASE A!Reject(a)
      BY <1>1, <2>0, <2>2, RejectOne
    <2>3. CASE A!Answer(a)
      BY <1>1, <2>0, <2>3, EndOne DEF A!Answer, A!Outcomes
    <2>4. CASE A!Abandon(a)
      BY <1>1, <2>0, <2>4, EndOne DEF A!Abandon, A!Outcomes
    <2>5. CASE A!Call(a)
      BY <1>1, <2>0, <2>5, CallOne
    <2> QED BY <2>1, <2>2, <2>3, <2>4, <2>5
  <1>3. \A c \in Calls : \A i \in Targets(c) : c # d \/ i # at[d] =>
          <<c, i>> \in Tries /\ <<c, i>> # a
    BY InTries
  <1> QED BY <1>2, <1>3

\* A step of one call changes nothing about the others.
LEMMA OthersStay == ASSUME BaseInv, NEW d \in Calls, CallStep(d) PROVE OnlyCall(d)
  <1> USE CallDomains
      DEF callVars, hookVars, workVars, streamVars, listVars, poolVars, ctxVars, tryVars
  <1> SUFFICES ASSUME NEW c \in Calls
               PROVE  /\ plugins' = plugins /\ edits' = edits
                      /\ c # d => Same(c) /\ edited'[c] = edited[c]
    BY DEF OnlyCall
  <1>1. CASE Begin(d)
    BY <1>1 DEF Begin, Same, Goto
  <1>2. CASE TryProvider(d)
    <2>1. CASE A!Reject(<<d, at[d]>>) /\ UNCHANGED <<hookVars, poolVars>>
      BY <1>2, <2>1, ElseStay DEF TryProvider, Same, Goto
    <2>2. CASE UNCHANGED tryVars
      BY <1>2, <2>2 DEF TryProvider, Same, Goto
    <2> QED BY <1>2, <2>1, <2>2 DEF TryProvider
  <1>3. CASE PreHook(d)
    <2> DEFINE rest == /\ request'[c] = request[c] /\ pc'[c] = pc[c] /\ val'[c] = val[c]
                       /\ cut'[c] = cut[c]
                       /\ count'[c] = count[c] /\ rejected'[c] = rejected[c]
                       /\ hook'[c] = hook[c]
    <2>1. c # d => rest
      <3>1. ASSUME c # d, PreHookOutcome(d, ListOf(d)[hook[d]]) PROVE rest
        <4>1. CASE \E ok, empty :
                           /\ request' = [request EXCEPT ![d] = ok]
                           /\ cut' = [cut EXCEPT ![d] = empty]
                           /\ hook' = [hook EXCEPT ![d] = hook[d] + 1]
                           /\ UNCHANGED <<pc, val, count, rejected>>
          BY <3>1, <4>1
        <4>2. CASE \E v : /\ val' = [val EXCEPT ![d] = v]
                          /\ count' = [count EXCEPT ![d] = hook[d]]
                          /\ Goto(d, "post")
                          /\ rejected' = rejected \/ rejected' = [rejected EXCEPT ![d] = TRUE]
                          /\ UNCHANGED <<hook, cut, request>>
          BY <3>1, <4>2 DEF Goto
        <4> QED BY <3>1, <4>1, <4>2 DEF PreHookOutcome
      <3>2. ASSUME c # d, UNCHANGED <<pc, val, cut, count, request, rejected>>,
                   hook' = [hook EXCEPT ![d] = hook[d] + 1]
            PROVE  rest
        BY <3>2
      <3> QED BY <1>3, <3>1, <3>2 DEF PreHook
    <2>2. c # d => ws'[c] = ws[c] /\ late'[c] = late[c]
      BY <1>3 DEF PreHook, Stamp
    <2>3. c # d => pres'[c] = pres[c]
      BY <1>3 DEF PreHook
    <2> QED BY <1>3, <2>1, <2>2, <2>3 DEF PreHook, Same
  <1>4. CASE StreamShortCircuit(d)
    BY <1>4, ElseStay DEF StreamShortCircuit, Leave, Goto, Same
  <1>5. CASE PreHooksDone(d)
    <2>1. CASE request[d]
      BY <1>5, <2>1 DEF PreHooksDone, Goto, Same
    <2>2. CASE ~request[d]
      BY <1>5, <2>2, ElseStay DEF PreHooksDone, Leave, Goto, Same
    <2> QED BY <2>1, <2>2
  <1>6. CASE Submit(d)
    <2>1. CASE UNCHANGED tryVars
      BY <1>6, <2>1 DEF Submit, Leave, Goto, Same
    <2>2. CASE A!Reject(<<d, at[d]>>)
      BY <1>6, <2>2, ElseStay DEF Submit, Leave, Goto, Same
    <2> QED BY <1>6, <2>1, <2>2 DEF Submit
  <1>7. CASE TakeAnswer(d)
    BY <1>7, ElseStay DEF TakeAnswer, Leave, Goto, Same
  <1>8. CASE WaitCancelled(d)
    BY <1>8, ElseStay DEF WaitCancelled, Leave, Goto, Same
  <1>9. CASE PostHook(d)
    <2>1. c # d => hook'[c] = hook[c] /\ posts'[c] = posts[c] /\ val'[c] = val[c]
                   /\ own'[c] = own[c] /\ metered'[c] = metered[c]
      BY <1>9 DEF PostHook, Meter
    <2> QED BY <1>9, <2>1 DEF PostHook, Same
  <1>10. CASE PostHooksDone(d)
    <2>1. CASE A!Reject(<<d, at[d]>>)
      BY <1>10, <2>1, ElseStay DEF PostHooksDone, Leave, Goto, Same
    <2>2. CASE UNCHANGED tryVars
      BY <1>10, <2>2 DEF PostHooksDone, Leave, Goto, Same
    <2> QED BY <1>10, <2>1, <2>2 DEF PostHooksDone
  <1>11. CASE Decide(d)
    BY <1>11 DEF Decide, Forget, NextTarget, Return, Same, Goto
  <1>12. CASE Fallback(d)
    <2>1. CASE UNCHANGED tryVars
      BY <1>12, <2>1 DEF Fallback, NextTarget, Return, Goto, Same
    <2>2. CASE A!Reject(<<d, at[d]>>)
      BY <1>12, <2>2, ElseStay DEF Fallback, NextTarget, Return, Goto, Same
    <2> QED BY <1>12, <2>1, <2>2 DEF Fallback
  <1>13. CASE Receive(d)
    BY <1>13 DEF Receive, Serve, Send, Same
  <1>14. CASE CallProvider(d)
    <2>1. c # d => /\ wk'[c] = wk[c] /\ answer'[c] = answer[c] /\ theirs'[c] = theirs[c]
                   /\ tries'[c] = tries[c]
      BY <1>14 DEF CallProvider, Serve, Send
    <2>2. CASE A!Call(<<d, at[d]>>)
      BY <1>14, <2>1, <2>2, ElseStay DEF CallProvider, Same
    <2>3. CASE UNCHANGED tryVars
      BY <1>14, <2>1, <2>3 DEF CallProvider, Same
    <2> QED BY <1>14, <2>2, <2>3 DEF CallProvider
  <1>15. CASE BeginChunk(d)
    BY <1>15 DEF BeginChunk, Goto, Same
  <1>16. CASE EndChunk(d)
    BY <1>16 DEF EndChunk, Goto, Same
  <1>17. CASE EndStream(d)
    BY <1>17 DEF EndStream, Goto, Same
  <1>18. CASE CancelContext(d)
    BY <1>18 DEF CancelContext, Same
  <1> QED
    BY <1>1, <1>2, <1>3, <1>4, <1>5, <1>6, <1>7, <1>8, <1>9, <1>10, <1>11, <1>12, <1>13, <1>14,
       <1>15, <1>16, <1>17, <1>18
       DEF CallStep, Caller, Attempting, Worker, Feeder

-----------------------------------------------------------------------------
(* Types, and what the control state says.                                 *)

\* What a call that is left alone has in hand, it still has.
LEMMA SameInHand ==
  ASSUME NEW c \in Calls, Same(c), InHand(c), InService(c)
  PROVE  InHand(c)' /\ InService(c)'
  BY DEF Same, InHand, InService, Holding, Returned

\* A step of a call does at most one thing to its current attempt.
LEMMA OwnAttempt ==
  ASSUME NEW d \in Calls, CallStep(d)
  PROVE  \/ A!Reject(<<d, at[d]>>) \/ A!Answer(<<d, at[d]>>) \/ A!Abandon(<<d, at[d]>>)
         \/ A!Call(<<d, at[d]>>) \/ UNCHANGED tryVars
  BY DEF CallStep, Caller, Attempting, Worker, Feeder, Begin, TryProvider, PreHook,
         StreamShortCircuit, PreHooksDone, Submit, TakeAnswer, WaitCancelled, PostHook,
         PostHooksDone, Decide, Fallback, Receive, CallProvider, BeginChunk, EndChunk,
         EndStream, CancelContext, tryVars

\* The attempts keep their shape in every step of a call.
LEMMA TriesShape ==
  ASSUME BaseInv, NEW d \in Calls, CallStep(d)
  PROVE  outcome' \in [Tries -> A!Outcomes] /\ called' \in [Tries -> {0, 1}]
  <1>1. ShapeInv /\ <<d, at[d]>> \in Tries
    BY InTries DEF BaseInv, TypeOK
  <1> QED BY <1>1, OwnAttempt, AttemptShape, Zenon

\* The pipelines keep their shape: what is released was taken from the pool.
LEMMA PipelinesShape ==
  ASSUME BaseInv, NEW d \in Calls, CallStep(d)
  PROVE  list' \in [Pipelines -> Seq(Plugins)] /\ free' \subseteq Pipelines
  <1>1. TypeOK /\ mine[d] \in Pipelines \cup {None} /\ theirs[d] \in Pipelines \cup {None}
    BY DEF BaseInv, TypeOK
  <1>2. pc[d] \in Holding => mine[d] \in Pipelines
    BY DEF BaseInv, InHand
  <1>3. source[d] = "provider" => theirs[d] \in Pipelines
    BY DEF BaseInv, InHand
  <1>4. \/ UNCHANGED poolVars
        \/ \E p \in Pipelines : GetPluginPipeline(p) \/ ReleasePluginPipeline(p)
    BY <1>1, <1>2, <1>3 DEF TypeOK, Holding, CallStep, Caller, Attempting, Worker, Feeder,
           Begin, TryProvider, PreHook,
           StreamShortCircuit, PreHooksDone, Submit, TakeAnswer, WaitCancelled, PostHook,
           PostHooksDone, Decide, Fallback, Receive, CallProvider, BeginChunk, EndChunk,
           EndStream, CancelContext, Leave, Serve, Finalizes, poolVars
  <1>5. list \in [Pipelines -> Seq(Plugins)] /\ free \subseteq Pipelines
    BY <1>1 DEF TypeOK
  <1> QED BY <1>1, <1>4, <1>5, PoolType DEF poolVars

\* TypeOK in parts.
LEMMA TypeParts ==
  TypeOK /\ ShapeInv <=> CallType /\ HookType /\ WorkType /\ ContextType /\ ListType
  BY DEF TypeOK, ShapeInv, CallType, HookType, WorkType, ContextType, ListType, Places

\* Where a call is, and what it has got.
LEMMA CallTypeStep ==
  ASSUME BaseInv, NEW d \in Calls, CallStep(d) PROVE CallType'
  <1> USE FlowAssumption
      DEF callVars, hookVars, workVars, streamVars, listVars, poolVars, ctxVars, tryVars
  <1>t. CallType /\ HookType /\ WorkType
    BY TypeParts DEF BaseInv
  <1>f. 1 \in Targets(d)
    BY DEF Targets
  <1>0. CASE UNCHANGED callVars
    BY <1>0, <1>t DEF CallType
  <1>1. CASE Begin(d)
    <2>1. pc' \in [Calls -> Places]
      BY <1>1, <1>t DEF Begin, Goto, CallType, Places, Returned
    <2>2. /\ res' \in [Calls -> [value : Values \cup {None}, of : Nat]]
          /\ \A c \in Calls : res'[c].of \in Targets(c)
      <3>1. CASE UNCHANGED res
        BY <1>t, <3>1 DEF CallType
      <3>2. CASE res' = [res EXCEPT ![d].value = "err"]
        <4> PICK r : r = [res[d] EXCEPT !.value = "err"]
          OBVIOUS
        <4>0. res[d] \in [value : Values \cup {None}, of : Nat] /\ "err" \in Values
          BY <1>t DEF CallType, Values, Errors
        <4>1. r \in [value : Values \cup {None}, of : Nat] /\ r.of = res[d].of
          BY <4>0
        <4>2. res' = [res EXCEPT ![d] = r]
          BY <3>2
        <4> QED BY <1>t, <4>1, <4>2 DEF CallType
      <3> QED BY <1>1, <3>1, <3>2 DEF Begin
    <2> QED BY <1>1, <1>t, <2>1, <2>2 DEF Begin, CallType
  <1>2. CASE TryProvider(d)
    BY <1>2, <1>t DEF TryProvider, Goto, CallType, Values, Errors, Places
  <1>3. CASE PreHook(d)
    BY <1>3, <1>t DEF PreHook, PreHookOutcome, Goto, CallType, Values, Errors, Places
  <1>4. CASE StreamShortCircuit(d)
    BY <1>4, <1>t DEF StreamShortCircuit, Leave, Goto, CallType, Values, Places
  <1>5. CASE PreHooksDone(d)
    BY <1>5, <1>t DEF PreHooksDone, Leave, Goto, CallType, Values, Errors, Places
  <1>6. CASE Submit(d)
    BY <1>6, <1>t DEF Submit, Leave, Goto, CallType, Values, Errors, Places
  <1>7. CASE TakeAnswer(d)
    <2>1. answer[d] \in Values \cup {None}
      BY <1>t DEF WorkType
    <2> QED BY <1>7, <1>t, <2>1 DEF TakeAnswer, Leave, Goto, CallType, Values, Places
  <1>8. CASE WaitCancelled(d)
    BY <1>8, <1>t DEF WaitCancelled, Leave, Goto, CallType, Values, Errors, Places
  <1>9. CASE PostHook(d)
    <2>1. \E v \in Values \cup {None} : val' = [val EXCEPT ![d] = v]
      BY <1>9, <1>t DEF PostHook, CallType, Values, Errors
    <2>2. own' = own \/ own' = [own EXCEPT ![d] = FALSE]
      BY <1>9 DEF PostHook
    <2>3. own' \in [Calls -> BOOLEAN] /\ val' \in [Calls -> Values \cup {None}]
      BY <1>t, <2>1, <2>2 DEF CallType
    <2> QED BY <1>9, <1>t, <2>3 DEF PostHook, CallType
  <1>10. CASE PostHooksDone(d)
    BY <1>10, <1>t DEF PostHooksDone, Leave, Goto, CallType, Places
  <1>11. CASE Decide(d)
    <2> USE <1>11 DEF Decide
    <2>1. /\ DOMAIN verdict' = Calls
          /\ \A c \in Calls : verdict'[c] \in [Targets(c) -> Values \cup {None}]
          /\ val' \in [Calls -> Values \cup {None}] /\ val[d] \in Values \cup {None}
          /\ own' \in [Calls -> BOOLEAN]
      BY <1>t DEF CallType, Forget
    <2>2. verdict'[d][1] \in Values \cup {None}
      BY <2>1, <1>f
    <2>3. CASE Return(d, at[d], val[d])
      <3>1. res' \in [Calls -> [value : Values \cup {None}, of : Nat]]
        BY <1>t, <2>1, <2>3 DEF Return, CallType, Targets
      <3>2. \A c \in Calls : res'[c].of \in Targets(c)
        BY <1>t, <2>3 DEF Return, CallType
      <3> QED BY <1>t, <2>1, <2>3, <3>1, <3>2 DEF Return, Goto, CallType, Places, Returned
    <2>4. CASE NextTarget(d, verdict'[d][1])
      <3> PICK v \in Values \cup {None} : v = verdict'[d][1]
        BY <2>2
      <3>1. NextTarget(d, v)
        BY <2>4
      <3> QED BY <1>t, <2>1, <3>1, NextTargetType DEF CallType, BaseInv
    <2> QED BY <2>3, <2>4
  <1>12. CASE Fallback(d)
    <2>1. CASE Goto(d, "try") /\ UNCHANGED <<at, res>>
      BY <1>12, <1>t, <2>1 DEF Fallback, Goto, CallType, Places
    <2>2. CASE NextTarget(d, verdict[d][1])
      <3>1. verdict[d][1] \in Values \cup {None}
        BY <1>t, <1>f DEF CallType
      <3>2. UNCHANGED <<stream, skips, val, own, verdict>>
        BY <1>12 DEF Fallback
      <3> QED BY <1>t, <2>2, <3>1, <3>2, NextTargetType DEF CallType, BaseInv
    <2> QED BY <1>12, <2>1, <2>2 DEF Fallback
  <1>13. CASE BeginChunk(d)
    <2>1. \E v \in Values \cup {None} : val' = [val EXCEPT ![d] = v]
      BY <1>13 DEF BeginChunk, Values, Errors
    <2>2. own' \in [Calls -> BOOLEAN]
      BY <1>13, <1>t DEF BeginChunk, CallType
    <2> QED BY <1>13, <1>t, <2>1, <2>2 DEF BeginChunk, Goto, CallType, Places, Returned
  <1>14. CASE EndChunk(d)
    BY <1>14, <1>t DEF EndChunk, Goto, CallType, Places, Returned
  <1>15. CASE EndStream(d)
    BY <1>15, <1>t DEF EndStream, Goto, CallType, Places, Returned
  <1> QED
    BY <1>0, <1>1, <1>2, <1>3, <1>4, <1>5, <1>6, <1>7, <1>8, <1>9, <1>10, <1>11, <1>12, <1>13,
       <1>14, <1>15
       DEF CallStep, Caller, Attempting, Worker, Feeder, Receive, CallProvider, CancelContext

\* The variables of tryRequest and its hooks.
LEMMA HookTypeStep ==
  ASSUME BaseInv, NEW d \in Calls, CallStep(d) PROVE HookType'
  <1> USE FlowAssumption
      DEF callVars, hookVars, workVars, streamVars, listVars, poolVars, ctxVars, tryVars
  <1>t. HookType /\ ListType
    BY TypeParts DEF BaseInv
  <1>l. ASSUME pc[d] \in {"pre", "wait", "post", "chunk"}
        PROVE  ListOf(d) \in Seq(Plugins) /\ Len(ListOf(d)) \in Nat
    BY <1>l, ListOfType
  <1>h. ASSUME pc[d] = "pre" \/ hook[d] > 0, pc[d] \in {"pre", "post", "chunk"},
               hook[d] <= Len(ListOf(d))
        PROVE  ListOf(d)[hook[d]] \in Plugins
    <2>1. hook[d] \in 1..Len(ListOf(d))
      BY <1>h, <1>t, <1>l DEF BaseInv, InHand, HookType
    <2> QED BY <1>h, <1>l, <2>1
  <1>0. CASE UNCHANGED hookVars
    BY <1>0, <1>t DEF HookType
  <1>1. CASE TryProvider(d)
    <2>1. CASE UNCHANGED hookVars
      BY <1>0, <2>1
    <2>2. CASE \E p \in free : mine' = [mine EXCEPT ![d] = p] /\ hook' = [hook EXCEPT ![d] = 1]
                               /\ UNCHANGED <<pres, posts, cut, count, request>>
      BY <1>t, <2>2 DEF HookType, ListType
    <2> QED BY <1>1, <2>1, <2>2 DEF TryProvider
  <1>2. CASE PreHook(d)
    <2>1. ListOf(d)[hook[d]] \in Plugins
      BY <1>2, <1>h DEF PreHook
    <2>2. pres' = pres \/ pres' = [pres EXCEPT ![d] = Append(pres[d], ListOf(d)[hook[d]])]
      BY <1>2 DEF PreHook
    <2>3. pres' \in [Calls -> Seq(Plugins)]
      BY <2>1, <2>2, <1>t, ListOps DEF HookType
    <2>4. hook' \in [Calls -> Nat] /\ count' \in [Calls -> Nat]
      <3>1. \/ hook' = hook \/ hook' = [hook EXCEPT ![d] = hook[d] + 1]
        BY <1>2 DEF PreHook, PreHookOutcome
      <3>2. \/ count' = count \/ count' = [count EXCEPT ![d] = hook[d]]
        BY <1>2 DEF PreHook, PreHookOutcome
      <3>3. hook \in [Calls -> Nat] /\ count \in [Calls -> Nat]
        BY <1>t DEF HookType
      <3>4. hook' \in [Calls -> Nat]
        BY <3>1, <3>3
      <3> QED BY <3>2, <3>3, <3>4
    <2>5. request' \in [Calls -> BOOLEAN] /\ cut' \in [Calls -> BOOLEAN]
      BY <1>2, <1>t DEF PreHook, PreHookOutcome, HookType
    <2> QED BY <1>2, <1>t, <2>3, <2>4, <2>5 DEF PreHook, HookType
  <1>3. CASE StreamShortCircuit(d)
    <2>1. ListOf(d)[hook[d]] \in Plugins
      BY <1>3, <1>h DEF StreamShortCircuit
    <2>2. pres' = [pres EXCEPT ![d] = Append(pres[d], ListOf(d)[hook[d]])]
      BY <1>3 DEF StreamShortCircuit
    <2>3. pres' \in [Calls -> Seq(Plugins)]
      BY <2>1, <2>2, <1>t, ListOps DEF HookType
    <2> QED BY <1>3, <1>t, <2>3 DEF StreamShortCircuit, HookType
  <1>4. CASE Submit(d)
    <2>1. Len(plugins) \in Nat
      BY <1>t DEF ListType
    <2> QED BY <1>4, <1>t, <2>1 DEF Submit, HookType
  <1>5. CASE TakeAnswer(d)
    <2>1. Len(plugins) \in Nat /\ count[d] \in Nat
      BY <1>t DEF ListType, HookType
    <2>2. \E n \in Nat : hook' = hook \/ hook' = [hook EXCEPT ![d] = RunFrom(n, ListOf(d))]
      BY <1>5, <2>1 DEF TakeAnswer
    <2>3. hook' \in [Calls -> Nat]
      <3>1. PICK n \in Nat : hook' = hook \/ hook' = [hook EXCEPT ![d] = RunFrom(n, ListOf(d))]
        BY <2>2
      <3>2. RunFrom(n, ListOf(d)) \in Nat
        BY <1>5, <1>l, RunFromType DEF TakeAnswer
      <3> QED BY <1>t, <3>1, <3>2 DEF HookType
    <2> QED BY <1>5, <1>t, <2>3 DEF TakeAnswer, HookType
  <1>6. CASE PostHook(d)
    <2>1. hook' \in [Calls -> Nat]
      <3>1. hook[d] > 0 /\ (hook' = hook \/ hook' = [hook EXCEPT ![d] = hook[d] - 1])
        BY <1>6 DEF PostHook
      <3>2. hook \in [Calls -> Nat]
        BY <1>t DEF HookType
      <3>3. hook[d] - 1 \in Nat
        BY <3>1, <3>2
      <3> QED BY <3>1, <3>2, <3>3
    <2>2. posts' = posts \/ posts' = [posts EXCEPT ![d] = Append(posts[d], ListOf(d)[hook[d]])]
      BY <1>6 DEF PostHook
    <2>3. CASE hook[d] > Len(ListOf(d))
      BY <1>6, <1>t, <2>3 DEF PostHook, HookType
    <2>4. CASE ~(hook[d] > Len(ListOf(d)))
      <3>1. hook[d] <= Len(ListOf(d)) /\ hook[d] > 0
        BY <1>6, <2>4, <1>l, <1>t DEF PostHook, HookType
      <3>2. ListOf(d)[hook[d]] \in Plugins
        BY <1>6, <1>h, <3>1 DEF PostHook
      <3>3. posts' \in [Calls -> Seq(Plugins)]
        BY <2>2, <3>2, <1>t, ListOps DEF HookType
      <3> QED BY <1>6, <1>t, <2>1, <3>3 DEF PostHook, HookType
    <2> QED BY <2>3, <2>4
  <1>7. CASE Decide(d)
    <2>1. CASE source[d] = "none"
      <3>1. /\ hook' = [hook EXCEPT ![d] = 0] /\ count' = [count EXCEPT ![d] = 0]
            /\ pres' = [pres EXCEPT ![d] = <<>>] /\ posts' = [posts EXCEPT ![d] = <<>>]
        BY <1>7, <2>1 DEF Decide, Forget
      <3>2. hook' \in [Calls -> Nat] /\ count' \in [Calls -> Nat]
        BY <1>t, <3>1 DEF HookType
      <3>3. pres' \in [Calls -> Seq(Plugins)] /\ posts' \in [Calls -> Seq(Plugins)]
        BY <1>t, <3>1 DEF HookType
      <3> QED BY <1>7, <1>t, <2>1, <3>2, <3>3 DEF Decide, Forget, HookType
    <2>2. CASE source[d] # "none"
      BY <1>7, <1>t, <2>2 DEF Decide, Forget, HookType
    <2> QED BY <2>1, <2>2
  <1>8. CASE BeginChunk(d)
    <2>1. Len(plugins) \in Nat /\ count[d] \in Nat
      BY <1>t DEF ListType, HookType
    <2>2. /\ mine[d] \in Pipelines
          /\ source[d] = "provider" => theirs[d] \in Pipelines
      BY <1>8 DEF BeginChunk, BaseInv, InHand
    <2>3. \E n \in Nat : \E p \in Pipelines :
            hook' = [hook EXCEPT ![d] = IF skips[d] THEN 0 ELSE RunFrom(n, list[p])]
      BY <1>8, <2>1, <2>2 DEF BeginChunk, Feeding
    <2>4. \A p \in Pipelines : list[p] \in Seq(Plugins)
      BY <1>t DEF ListType
    <2>5. hook' \in [Calls -> Nat]
      <3>1. PICK n \in Nat, p \in Pipelines :
              hook' = [hook EXCEPT ![d] = IF skips[d] THEN 0 ELSE RunFrom(n, list[p])]
        BY <2>3
      <3>2. RunFrom(n, list[p]) \in Nat
        BY <2>4, RunFromType
      <3> QED BY <1>t, <3>1, <3>2 DEF HookType
    <2> QED BY <1>8, <1>t, <2>5 DEF BeginChunk, HookType
  <1> QED
    BY <1>0, <1>1, <1>2, <1>3, <1>4, <1>5, <1>6, <1>7, <1>8
       DEF CallStep, Caller, Attempting, Worker, Feeder, Begin, PreHooksDone, WaitCancelled,
           PostHooksDone, Fallback, Receive, CallProvider, EndChunk, EndStream, CancelContext

\* The worker and the stream.
LEMMA WorkTypeStep ==
  ASSUME BaseInv, NEW d \in Calls, CallStep(d) PROVE WorkType'
  <1> USE FlowAssumption
      DEF callVars, hookVars, workVars, streamVars, listVars, poolVars, ctxVars, tryVars
  <1>t. WorkType /\ ListType
    BY TypeParts DEF BaseInv
  <1>0. CASE UNCHANGED <<workVars, streamVars>>
    BY <1>0, <1>t DEF WorkType
  <1>1. CASE StreamShortCircuit(d)
    BY <1>1, <1>t DEF StreamShortCircuit, WorkType
  <1>2. CASE Submit(d)
    BY <1>2, <1>t DEF Submit, WorkType
  <1>3. CASE TakeAnswer(d)
    <2>1. source' \in [Calls -> {"none", "provider", "cached"}]
      BY <1>3, <1>t DEF TakeAnswer, WorkType
    <2> QED BY <1>3, <1>t, <2>1 DEF TakeAnswer, WorkType
  <1>s. ASSUME NEW v \in Values, Serve(d, v)
        PROVE  /\ wk' \in [Calls -> {"none", "queued", "run", "sent"}]
               /\ answer' \in [Calls -> Values \cup {None}]
               /\ theirs' \in [Calls -> Pipelines \cup {None}]
               /\ tries' \in [Calls -> 0..MaxRetries]
    <2>1. 0 \in 0..MaxRetries
      OBVIOUS
    <2> QED BY <1>s, <1>t, <2>1 DEF Serve, Send, WorkType
  <1>4. CASE Receive(d)
    <2>1. CASE Serve(d, "err")
      <3>1. PICK v \in Values : v = "err"
        BY DEF Values, Errors
      <3>2. Serve(d, v)
        BY <2>1, <3>1
      <3> QED BY <1>4, <1>t, <1>s, <3>2 DEF Receive, WorkType
    <2>2. CASE UNCHANGED <<tries, answer>> /\ wk' = [wk EXCEPT ![d] = "run"]
      <3>1. theirs' \in [Calls -> Pipelines \cup {None}]
        BY <1>4, <1>t, <2>2 DEF Receive, Serve, WorkType, ListType
      <3> QED BY <1>4, <1>t, <2>2, <3>1 DEF Receive, WorkType
    <2> QED BY <1>4, <2>1, <2>2 DEF Receive
  <1>5. CASE CallProvider(d)
    <2>1. \/ \E v \in Values : Serve(d, v)
          \/ /\ tries[d] < MaxRetries /\ tries' = [tries EXCEPT ![d] = tries[d] + 1]
             /\ UNCHANGED <<wk, answer, theirs>>
      BY <1>5 DEF CallProvider, Values, Errors
    <2>2. CASE \E v \in Values : Serve(d, v)
      BY <1>5, <1>t, <1>s, <2>2 DEF CallProvider, WorkType
    <2>3. CASE /\ tries[d] < MaxRetries /\ tries' = [tries EXCEPT ![d] = tries[d] + 1]
               /\ UNCHANGED <<wk, answer, theirs>>
      <3>1. tries \in [Calls -> 0..MaxRetries]
        BY <1>t DEF WorkType
      <3>2. tries[d] + 1 \in 0..MaxRetries
        BY <2>3, <3>1
      <3>3. tries' \in [Calls -> 0..MaxRetries]
        BY <2>3, <3>1, <3>2
      <3> QED BY <1>5, <1>t, <2>3, <3>3 DEF CallProvider, WorkType
    <2> QED BY <2>1, <2>2, <2>3
  <1>6. CASE BeginChunk(d)
    BY <1>6, <1>t DEF BeginChunk, WorkType
  <1>7. CASE EndChunk(d)
    BY <1>7, <1>t DEF EndChunk, WorkType
  <1> QED
    BY <1>0, <1>1, <1>2, <1>3, <1>4, <1>5, <1>6, <1>7
       DEF CallStep, Caller, Attempting, Worker, Feeder, Begin, TryProvider, PreHook,
           PreHooksDone, WaitCancelled, PostHook, PostHooksDone, Decide, Fallback,
           EndStream, CancelContext

\* The contexts, and what governance did.
LEMMA ContextTypeStep ==
  ASSUME BaseInv, NEW d \in Calls, CallStep(d) PROVE ContextType'
  <1> USE FlowAssumption
      DEF callVars, hookVars, workVars, streamVars, listVars, poolVars, ctxVars, tryVars
  <1>t. ContextType
    BY TypeParts DEF BaseInv
  <1>0. CASE UNCHANGED <<ctxVars, metered, crash, edited>>
    BY <1>0, <1>t DEF ContextType
  <1>1. CASE PreHook(d)
    BY <1>1, <1>t DEF PreHook, PreHookOutcome, Stamp, ContextType
  <1>2. CASE PostHook(d)
    <2>1. metered' = metered \/ metered' = [metered EXCEPT ![d] = metered[d] + 1]
      BY <1>2 DEF PostHook, Meter
    <2>2. metered \in [Calls -> Nat]
      BY <1>t DEF ContextType
    <2>3. metered' \in [Calls -> Nat]
      BY <2>1, <2>2
    <2> QED BY <1>2, <1>t, <2>3 DEF PostHook, ContextType
  <1>3. CASE Decide(d)
    <2>1. metered' = metered \/ metered' = [metered EXCEPT ![d] = 0]
      BY <1>3 DEF Decide, Forget
    <2>2. metered' \in [Calls -> Nat]
      BY <1>t, <2>1 DEF ContextType
    <2> QED BY <1>3, <1>t, <2>2 DEF Decide, Forget, ContextType
  <1>4. CASE CancelContext(d)
    BY <1>4, <1>t DEF CancelContext, ContextType
  <1>5. CASE TakeAnswer(d)
    <2>1. mark' = mark \/ \E m \in Marks : mark' = [mark EXCEPT ![d] = m]
      BY <1>5, <1>t DEF TakeAnswer, ContextType, Marks
    <2> QED BY <1>5, <1>t, <2>1 DEF TakeAnswer, ContextType
  <1>6. CASE BeginChunk(d)
    <2>1. \E m \in Marks : mark' = [mark EXCEPT ![d] = m]
      BY <1>6, <1>t DEF BeginChunk, ContextType, Marks
    <2> QED BY <1>6, <1>t, <2>1 DEF BeginChunk, ContextType
  <1> QED
    BY <1>0, <1>1, <1>2, <1>3, <1>4, <1>5, <1>6
       DEF CallStep, Caller, Attempting, Worker, Feeder, Begin, TryProvider, StreamShortCircuit,
           PreHooksDone, Submit, WaitCancelled, PostHooksDone, Fallback, Receive,
           CallProvider, EndChunk, EndStream

\* What the call that takes a step has in hand afterwards.
LEMMA InHandStep ==
  ASSUME BaseInv, NEW d \in Calls, CallStep(d) PROVE InHand(d)'
  <1> USE FlowAssumption, CallDomains
      DEF callVars, hookVars, workVars, streamVars, listVars, poolVars, ctxVars, tryVars,
          Holding, Returned
  <1>h. InHand(d) /\ InService(d)
    BY DEF BaseInv
  <1>t. /\ source[d] \in {"none", "provider", "cached"} /\ answer[d] \in Values \cup {None}
        /\ val[d] \in Values \cup {None} /\ free \subseteq Pipelines /\ hook[d] \in Nat
    BY DEF BaseInv, TypeOK
  <1>1. CASE Begin(d)
    BY <1>1, <1>t, <1>h DEF Begin, Goto, InHand, InService, Values, Errors
  <1>2. CASE TryProvider(d)
    BY <1>2, <1>t, <1>h DEF TryProvider, Goto, InHand, InService, Values, Errors
  <1>3. CASE PreHook(d)
    <2>1. UNCHANGED <<mine, source, stream, theirs, freed>> /\ pc[d] = "pre"
      BY <1>3 DEF PreHook
    <2>2. \/ pc' = pc /\ hook' = [hook EXCEPT ![d] = hook[d] + 1]
          \/ pc' = [pc EXCEPT ![d] = "post"] /\ val'[d] \in {"resp", "err", "deny"}
      BY <1>3 DEF PreHook, PreHookOutcome, Goto
    <2>3. \/ pc'[d] = "pre" /\ hook'[d] > 0
          \/ pc'[d] = "post" /\ val'[d] # None
      BY <1>t, <2>1, <2>2 DEF Values, Errors
    <2> QED BY <1>h, <2>1, <2>3 DEF InHand
  <1>4. CASE StreamShortCircuit(d)
    BY <1>4, <1>t, <1>h DEF StreamShortCircuit, Leave, Goto, InHand, InService, Values, Errors
  <1>5. CASE PreHooksDone(d)
    BY <1>5, <1>t, <1>h DEF PreHooksDone, Leave, Goto, InHand, InService, Values, Errors
  <1>6. CASE Submit(d)
    BY <1>6, <1>t, <1>h DEF Submit, Leave, Goto, InHand, InService, Values, Errors
  <1>7. CASE TakeAnswer(d)
    BY <1>7, <1>t, <1>h DEF TakeAnswer, Leave, Goto, InHand, InService, Values, Errors
  <1>8. CASE WaitCancelled(d)
    BY <1>8, <1>t, <1>h DEF WaitCancelled, Leave, Goto, InHand, InService, Values, Errors
  <1>9. CASE PostHook(d)
    BY <1>9, <1>t, <1>h DEF PostHook, Meter, InHand, InService, Values, Errors
  <1>10. CASE PostHooksDone(d)
    BY <1>10, <1>t, <1>h DEF PostHooksDone, Leave, Goto, InHand, InService, Values, Errors
  <1>11. CASE Decide(d)
    <2>1. UNCHANGED <<source, stream, theirs, freed>> /\ pc[d] = "decide"
      BY <1>11 DEF Decide
    <2>2. CASE source[d] = "none"
      <3>1. pc'[d] \in {"returned", "fallback"}
        BY <1>11, <2>2 DEF Decide, NextTarget, Return, Goto
      <3> QED BY <1>h, <2>1, <2>2, <3>1 DEF InHand
    <2>3. CASE source[d] # "none"
      <3>1. StopsHere(val[d]) /\ mine[d] \in Pipelines /\ stream[d]
        BY <1>h, <2>1, <2>3 DEF InHand, StopsHere
      <3>2. pc'[d] = "feed" /\ mine' = mine
        BY <1>11, <2>3, <3>1 DEF Decide, Forget, Return, Goto
      <3> QED BY <1>h, <2>1, <2>3, <3>1, <3>2 DEF InHand
    <2> QED BY <2>2, <2>3
  <1>12. CASE Fallback(d)
    BY <1>12, <1>t, <1>h DEF Fallback, NextTarget, Return, Goto, InHand, InService, Values, Errors
  <1>13. CASE Receive(d)
    BY <1>13, <1>t, <1>h DEF Receive, Serve, Send, InHand, InService, Values, Errors
  <1>14. CASE CallProvider(d)
    BY <1>14, <1>t, <1>h DEF CallProvider, Serve, Send, InHand, InService, Values, Errors
  <1>15. CASE BeginChunk(d)
    BY <1>15, <1>t, <1>h DEF BeginChunk, Goto, InHand, InService, Values, Errors
  <1>16. CASE EndChunk(d)
    BY <1>16, <1>t, <1>h DEF EndChunk, Finalizes, Goto, InHand, InService, Values, Errors
  <1>17. CASE EndStream(d)
    BY <1>17, <1>t, <1>h DEF EndStream, Goto, InHand, InService, Values, Errors
  <1>18. CASE CancelContext(d)
    BY <1>18, <1>t, <1>h DEF CancelContext, InHand, InService, Values, Errors
  <1> QED
    BY <1>1, <1>2, <1>3, <1>4, <1>5, <1>6, <1>7, <1>8, <1>9, <1>10, <1>11, <1>12, <1>13, <1>14,
       <1>15, <1>16, <1>17, <1>18
       DEF CallStep, Caller, Attempting, Worker, Feeder

\* What those who serve it have in hand afterwards.
LEMMA InServiceStep ==
  ASSUME BaseInv, NEW d \in Calls, CallStep(d) PROVE InService(d)'
  <1> USE FlowAssumption, CallDomains
      DEF callVars, hookVars, workVars, streamVars, listVars, poolVars, ctxVars, tryVars,
          Holding, Returned
  <1>h. InHand(d) /\ InService(d)
    BY DEF BaseInv
  <1>t. /\ source[d] \in {"none", "provider", "cached"} /\ answer[d] \in Values \cup {None}
        /\ theirs[d] \in Pipelines \cup {None} /\ free \subseteq Pipelines
        /\ wk[d] \in {"none", "queued", "run", "sent"} /\ tries[d] \in 0..MaxRetries
    BY DEF BaseInv, TypeOK
  <1>1. CASE Begin(d)
    BY <1>1, <1>t, <1>h DEF Begin, Goto, InHand, InService, Values, Errors
  <1>2. CASE TryProvider(d)
    BY <1>2, <1>t, <1>h DEF TryProvider, Goto, InHand, InService, Values, Errors
  <1>3. CASE PreHook(d)
    BY <1>3, <1>t, <1>h DEF PreHook, PreHookOutcome, Stamp, Goto, InHand, InService, Values, Errors
  <1>4. CASE StreamShortCircuit(d)
    BY <1>4, <1>t, <1>h DEF StreamShortCircuit, Leave, Goto, InHand, InService, Values, Errors
  <1>5. CASE PreHooksDone(d)
    BY <1>5, <1>t, <1>h DEF PreHooksDone, Leave, Goto, InHand, InService, Values, Errors
  <1>6. CASE Submit(d)
    BY <1>6, <1>t, <1>h DEF Submit, Leave, Goto, InHand, InService, Values, Errors
  <1>7. CASE TakeAnswer(d)
    <2>1. /\ pc[d] = "wait" /\ answer[d] # None /\ theirs' = theirs /\ stream' = stream
          /\ wk'[d] = "none" /\ answer'[d] = None
      BY <1>7 DEF TakeAnswer
    <2>2. stream[d] /\ answer[d] = "resp" => source'[d] = "provider"
      BY <1>7 DEF TakeAnswer
    <2>3. ~(stream[d] /\ answer[d] = "resp") => theirs[d] = None
      BY <1>t, <1>h, <2>1 DEF InService, Values, Errors
    <2> QED BY <1>h, <1>t, <2>1, <2>2, <2>3 DEF InService, Values
  <1>8. CASE WaitCancelled(d)
    BY <1>8, <1>t, <1>h DEF WaitCancelled, Leave, Goto, InHand, InService, Values, Errors
  <1>9. CASE PostHook(d)
    BY <1>9, <1>t, <1>h DEF PostHook, Meter, InHand, InService, Values, Errors
  <1>10. CASE PostHooksDone(d)
    BY <1>10, <1>t, <1>h DEF PostHooksDone, Leave, Goto, InHand, InService, Values, Errors
  <1>11. CASE Decide(d)
    <2>1. UNCHANGED <<source, stream, wk, tries, answer, theirs>> /\ pc[d] = "decide"
      BY <1>11 DEF Decide
    <2>2. wk[d] # "none" => ~stream[d] /\ val[d] = "cancelled" /\ source[d] = "none"
      BY <1>h, <1>t, <2>1 DEF InService, InHand
    <2>3. wk[d] # "none" => pc'[d] = "returned"
      BY <1>11, <2>2 DEF Decide, StopsHere, Return, Goto
    <2> QED BY <1>h, <2>1, <2>2, <2>3 DEF InService
  <1>12. CASE Fallback(d)
    BY <1>12, <1>t, <1>h DEF Fallback, NextTarget, Return, Goto, InHand, InService, Values, Errors
  <1>13. CASE Receive(d)
    BY <1>13, <1>t, <1>h DEF Receive, Serve, Send, InHand, InService, Values, Errors
  <1>14. CASE CallProvider(d)
    <2>1. UNCHANGED <<source, stream, pc, val>> /\ wk[d] = "run"
      BY <1>14 DEF CallProvider
    <2>2. \/ \E v \in Values : Serve(d, v)
          \/ UNCHANGED <<wk, answer, theirs>>
      BY <1>14 DEF CallProvider, Values, Errors
    <2>3. ASSUME NEW v \in Values, Serve(d, v) PROVE InService(d)'
      <3>1. wk'[d] = "sent" /\ answer'[d] \in {None, v}
        BY <1>h, <2>1, <2>3 DEF Serve, Send, InService
      <3>2. theirs'[d] = IF v = "resp" THEN theirs[d] ELSE None
        BY <2>3 DEF Serve
      <3> QED BY <1>h, <1>t, <2>1, <3>1, <3>2 DEF InService, Errors, Values
    <2>4. CASE UNCHANGED <<wk, answer, theirs>>
      BY <1>h, <1>t, <2>1, <2>4 DEF InService
    <2> QED BY <2>2, <2>3, <2>4
  <1>15. CASE BeginChunk(d)
    BY <1>15, <1>t, <1>h DEF BeginChunk, Goto, InHand, InService, Values, Errors
  <1>16. CASE EndChunk(d)
    BY <1>16, <1>t, <1>h DEF EndChunk, Goto, InHand, InService, Values, Errors
  <1>17. CASE EndStream(d)
    BY <1>17, <1>t, <1>h DEF EndStream, Goto, InHand, InService, Values, Errors
  <1>18. CASE CancelContext(d)
    BY <1>18, <1>t, <1>h DEF CancelContext, InHand, InService, Values, Errors
  <1> QED
    BY <1>1, <1>2, <1>3, <1>4, <1>5, <1>6, <1>7, <1>8, <1>9, <1>10, <1>11, <1>12, <1>13, <1>14,
       <1>15, <1>16, <1>17, <1>18
       DEF CallStep, Caller, Attempting, Worker, Feeder

\* A change of the plugin list, or the use of a pipeline by another request.
LEMMA OtherSteps ==
  ASSUME BaseInv, Edit \/ OtherRequest
  PROVE  /\ UNCHANGED <<callVars, hookVars, workVars, streamVars, free, ctxVars, tryVars,
                        metered, crash>>
         /\ plugins' \in Seq(Plugins) /\ edits' \in 0..MaxEdits
         /\ list' \in [Pipelines -> Seq(Plugins)] /\ edited' \in [Calls -> BOOLEAN]
  <1> USE FlowAssumption DEF listVars, poolVars
  <1>t. /\ plugins \in Seq(Plugins) /\ edits \in 0..MaxEdits /\ free \subseteq Pipelines
        /\ list \in [Pipelines -> Seq(Plugins)] /\ edited \in [Calls -> BOOLEAN]
    BY DEF BaseInv, TypeOK
  <1>1. ASSUME NEW new \in Seq(Plugins), StorePlugins(new)
        PROVE  /\ UNCHANGED <<callVars, hookVars, workVars, streamVars, list, free, ctxVars,
                              tryVars, metered, crash>>
               /\ plugins' \in Seq(Plugins) /\ edits' \in 0..MaxEdits
               /\ edited' \in [Calls -> BOOLEAN]
    BY <1>1, <1>t DEF StorePlugins
  <1>2. ASSUME NEW name, RemovePlugin(name)
        PROVE  \E new \in Seq(Plugins) : StorePlugins(new)
    <2> DEFINE others == {i \in 1..Len(plugins) : NameOf[plugins[i]] # name}
               n == Cardinality(others)
    <2>1. n \in Nat
      <3>1. IsFiniteSet(1..Len(plugins)) /\ others \subseteq 1..Len(plugins)
        BY <1>t, FS_Interval
      <3>2. IsFiniteSet(others)
        BY <3>1, FS_Subset
      <3> QED BY <3>2, FS_CardinalityType
    <2>2. PICK f \in [1..n -> others] : StorePlugins([i \in 1..n |-> plugins[f[i]]])
      BY <1>2 DEF RemovePlugin
    <2>3. \A i \in 1..n : plugins[f[i]] \in Plugins
      BY <1>t
    <2> HIDE DEF n
    <2>4. [i \in 1..n |-> plugins[f[i]]] \in Seq(Plugins)
      BY <2>1, <2>3
    <2> QED BY <2>2, <2>4
  <1>3. ASSUME NEW p \in Plugins, ReloadPlugin(p)
        PROVE  \E new \in Seq(Plugins) : StorePlugins(new)
    <2> DEFINE same == {i \in 1..Len(plugins) : NameOf[plugins[i]] = NameOf[p]}
    <2> PICK k : k = CHOOSE i \in same : \A j \in same : i <= j
      OBVIOUS
    <2>1. \/ StorePlugins(Append(plugins, p))
          \/ StorePlugins([plugins EXCEPT ![k] = p])
      BY <1>3 DEF ReloadPlugin
    <2>2. Append(plugins, p) \in Seq(Plugins) /\ [plugins EXCEPT ![k] = p] \in Seq(Plugins)
      BY <1>t, ListOps
    <2> QED BY <2>1, <2>2
  <1>4. ASSUME ReorderPlugins
        PROVE  \E new \in Seq(Plugins) : StorePlugins(new)
    <2>1. PICK f \in [1..Len(plugins) -> 1..Len(plugins)] :
            StorePlugins([i \in 1..Len(plugins) |-> plugins[f[i]]])
      BY <1>4 DEF ReorderPlugins
    <2>2. \A i \in 1..Len(plugins) : f[i] \in 1..Len(plugins)
      BY <2>1
    <2>3. [i \in 1..Len(plugins) |-> plugins[f[i]]] \in Seq(Plugins)
      BY <1>t, <2>2
    <2> QED BY <2>1, <2>3
  <1>5. CASE Edit
    <2>1. \E new \in Seq(Plugins) : StorePlugins(new)
      BY <1>2, <1>3, <1>4, <1>5 DEF Edit
    <2> QED BY <1>1, <1>t, <2>1
  <1>6. CASE OtherRequest
    BY <1>6, <1>t DEF OtherRequest
  <1> QED BY <1>5, <1>6

\* Every step keeps the types and what the control state says.
LEMMA BaseStep == BaseInv /\ [Next]_vars => BaseInv'
  <1> SUFFICES ASSUME BaseInv, [Next]_vars PROVE BaseInv'
    OBVIOUS
  <1> USE FlowAssumption
      DEF callVars, hookVars, workVars, streamVars, listVars, poolVars, ctxVars, tryVars
  <1>t. CallType /\ HookType /\ WorkType /\ ContextType /\ ListType
    BY TypeParts DEF BaseInv
  <1>1. ASSUME NEW d \in Calls, CallStep(d) PROVE BaseInv'
    <2>1. OnlyCall(d)
      BY <1>1, OthersStay
    <2>2. CallType' /\ HookType' /\ WorkType' /\ ContextType'
      BY <1>1, CallTypeStep, HookTypeStep, WorkTypeStep, ContextTypeStep
    <2>3. ListType'
      BY <1>1, <1>t, <2>1, TriesShape, PipelinesShape DEF ListType, OnlyCall
    <2>4. \A c \in Calls : c # d => InHand(c)' /\ InService(c)'
      BY <2>1, SameInHand DEF OnlyCall, BaseInv
    <2>5. InHand(d)' /\ InService(d)'
      BY <1>1, InHandStep, InServiceStep
    <2>6. TypeOK' /\ ShapeInv'
      BY <2>2, <2>3, TypeParts, PTL
    <2>7. \A c \in Calls : InHand(c)' /\ InService(c)'
      BY <2>4, <2>5
    <2> QED BY <2>6, <2>7 DEF BaseInv
  <1>2. ASSUME Edit \/ OtherRequest \/ UNCHANGED vars PROVE BaseInv'
    <2>1. UNCHANGED <<callVars, hookVars, workVars, streamVars, free, ctxVars, tryVars,
                      metered, crash>>
      BY <1>2, OtherSteps DEF vars
    <2>2. /\ plugins' \in Seq(Plugins) /\ edits' \in 0..MaxEdits
          /\ list' \in [Pipelines -> Seq(Plugins)] /\ edited' \in [Calls -> BOOLEAN]
      BY <1>2, <1>t, OtherSteps DEF vars, ListType, ContextType
    <2>3. CallType' /\ HookType' /\ WorkType'
      BY <1>t, <2>1 DEF CallType, HookType, WorkType
    <2>4. ContextType' /\ ListType'
      BY <1>t, <2>1, <2>2 DEF ContextType, ListType
    <2>5. TypeOK' /\ ShapeInv'
      BY <2>3, <2>4, TypeParts, PTL
    <2>6. \A c \in Calls : InHand(c)' /\ InService(c)'
      BY <2>1 DEF BaseInv, InHand, InService
    <2> QED BY <2>5, <2>6 DEF BaseInv
  <1> QED BY <1>1, <1>2 DEF Next, CallStep

\* The types hold in every reachable state.
LEMMA BaseCorrect == Spec => []BaseInv
  BY BaseInit, BaseStep, PTL DEF Spec

\* The variables of handleRequest, tryRequest and their workers always have the
\* values the code gives them: a list index is a natural number, a released
\* pipeline is one that was taken, retries stay within MaxRetries.
THEOREM TypeCorrect == Spec => []TypeOK
  BY BaseCorrect, PTL DEF BaseInv

-----------------------------------------------------------------------------
(* The targets of a call: one after the other, until one settles it.       *)

\* How a step ends the current attempt.
LEMMA OwnOutcome ==
  ASSUME BaseInv, NEW d \in Calls
  PROVE  /\ outcome[<<d, at[d]>>] \in A!Outcomes
         /\ A!Reject(<<d, at[d]>>) => outcome'[<<d, at[d]>>] = "rejected"
         /\ A!Answer(<<d, at[d]>>) => outcome'[<<d, at[d]>>] = "answered"
         /\ A!Abandon(<<d, at[d]>>) => outcome'[<<d, at[d]>>] = "abandoned"
         /\ A!Call(<<d, at[d]>>) \/ UNCHANGED tryVars => outcome' = outcome
  <1>1. ShapeInv /\ <<d, at[d]>> \in Tries
    BY InTries DEF BaseInv, TypeOK
  <1> PICK a \in Tries : a = <<d, at[d]>>
    BY <1>1
  <1>2. A!Reject(a) => outcome'[a] = "rejected"
    BY <1>1, RejectOne
  <1>3. A!Answer(a) => outcome'[a] = "answered"
    BY <1>1, EndOne DEF A!Answer, A!Outcomes
  <1>4. A!Abandon(a) => outcome'[a] = "abandoned"
    BY <1>1, EndOne DEF A!Abandon, A!Outcomes
  <1>5. A!Call(a) \/ UNCHANGED tryVars => outcome' = outcome
    BY <1>1, CallOne DEF tryVars
  <1> QED BY <1>1, <1>2, <1>3, <1>4, <1>5 DEF ShapeInv

\* The other attempts of the call stay as they are.
LEMMA OtherTargets ==
  ASSUME BaseInv, NEW d \in Calls, CallStep(d)
  PROVE  \A i \in Targets(d) : i # at[d] =>
           outcome'[<<d, i>>] = outcome[<<d, i>>] /\ called'[<<d, i>>] = called[<<d, i>>]
  BY OwnAttempt, ElseStay DEF tryVars

\* As long as a call stays at its target, the ones before and after it do not change.
LEMMA PassedStays ==
  ASSUME BaseInv, NEW d \in Calls, CallStep(d), Passed(d),
         at'[d] = at[d], verdict'[d] = verdict[d]
  PROVE  Passed(d)'
  BY OtherTargets DEF Passed

\* No target is tried after Init.
LEMMA TargetInit == Init => TargetInv
  <1> SUFFICES ASSUME Init, NEW c \in Calls PROVE Passed(c) /\ Current(c) /\ Settled(c)
    BY DEF TargetInv
  <1>1. \A i \in Targets(c) : /\ outcome[<<c, i>>] = "open" /\ called[<<c, i>>] = 0
                              /\ verdict[c][i] = None
    BY InTries DEF Init, A!Init
  <1>2. at[c] = 1 /\ 1 \in Targets(c) /\ pc[c] = "new" /\ Targets(c) \subseteq Nat
    BY FlowAssumption DEF Init, Targets
  <1>3. \A i \in Targets(c) : ~(i < 1)
    BY DEF Targets
  <1> QED BY <1>1, <1>2, <1>3 DEF Passed, Current, Settled, Returned

\* A step that stays at its target without a verdict, and does not return.
LEMMA CurrentStays ==
  ASSUME BaseInv, NEW d \in Calls, CallStep(d), Passed(d), Current(d), Settled(d),
         at'[d] = at[d], verdict'[d] = verdict[d], res'[d] = res[d],
         \/ pc'[d] = pc[d] /\ outcome' = outcome
            /\ (pc[d] = "decide" /\ outcome[<<d, at[d]>>] = "abandoned" => val'[d] = val[d])
         \/ pc[d] \notin Returned /\ pc'[d] \in {"try", "pre", "submit", "wait"}
            /\ outcome'[<<d, at[d]>>] = "open"
         \/ pc[d] \notin Returned /\ pc'[d] = "post"
            /\ outcome'[<<d, at[d]>>] \in {"open", "answered"}
         \/ pc[d] \notin Returned /\ pc'[d] = "decide"
            /\ outcome'[<<d, at[d]>>] \in {"rejected", "answered"}
         \/ pc[d] \notin Returned /\ pc'[d] = "decide" /\ val'[d] = "cancelled"
            /\ outcome'[<<d, at[d]>>] = "abandoned"
         \/ pc[d] \in Returned /\ pc'[d] \in Returned /\ outcome' = outcome
  PROVE  Passed(d)' /\ Current(d)' /\ Settled(d)'
  <1>1. Passed(d)'
    BY PassedStays
  <1>2. Current(d)'
    BY DEF Current, Returned
  <1>3. Settled(d)'
    BY DEF Settled, Current, Returned
  <1> QED BY <1>1, <1>2, <1>3

\* Every step of a call keeps its targets in order.
LEMMA TargetOwn ==
  ASSUME BaseInv, NEW d \in Calls, CallStep(d), Passed(d), Current(d), Settled(d)
  PROVE  Passed(d)' /\ Current(d)' /\ Settled(d)'
  <1> USE FlowAssumption
      DEF callVars, hookVars, workVars, streamVars, listVars, poolVars, ctxVars, tryVars
  <1> DEFINE a == <<d, at[d]>>
             Goal == Passed(d)' /\ Current(d)' /\ Settled(d)'
  <1>d. /\ DOMAIN pc = Calls /\ DOMAIN val = Calls /\ DOMAIN at = Calls
        /\ DOMAIN verdict = Calls /\ DOMAIN res = Calls
    BY CallDomains
  <1>o. /\ A!Reject(a) => outcome'[a] = "rejected"
        /\ A!Answer(a) => outcome'[a] = "answered"
        /\ A!Abandon(a) => outcome'[a] = "abandoned"
        /\ A!Call(a) \/ UNCHANGED tryVars => outcome' = outcome
    BY OwnOutcome
  <1>p. /\ pc[d] \in {"new", "try", "pre", "submit", "wait", "fallback"} => outcome[a] = "open"
        /\ pc[d] = "post" => outcome[a] \in {"open", "answered"}
    BY DEF Current
  <1> HIDE DEF a, Goal, tryVars
  <1>n. \A where : Goto(d, where) => pc'[d] = where
    BY <1>d DEF Goto
  <1> DEFINE Stays ==
        /\ UNCHANGED <<at, verdict, res>>
        /\ \/ pc'[d] = pc[d] /\ outcome' = outcome /\ (pc[d] = "decide" => val'[d] = val[d])
           \/ pc[d] \notin Returned /\ pc'[d] \in {"try", "pre", "submit", "wait"}
              /\ outcome'[a] = "open"
           \/ pc[d] \notin Returned /\ pc'[d] = "post" /\ outcome'[a] \in {"open", "answered"}
           \/ pc[d] \notin Returned /\ pc'[d] = "decide"
              /\ outcome'[a] \in {"rejected", "answered"}
           \/ pc[d] \notin Returned /\ pc'[d] = "decide" /\ val'[d] = "cancelled"
              /\ outcome'[a] = "abandoned"
           \/ pc[d] \in Returned /\ pc'[d] \in Returned /\ outcome' = outcome
  <1>s. Stays => Goal
    BY CurrentStays DEF a, Goal
  <1>1. CASE Begin(d)
    <2>1. CASE Goto(d, "try") /\ UNCHANGED res
      <3>1. Stays
        BY <1>1, <1>o, <1>p, <1>n, <2>1 DEF Begin, Returned, tryVars
      <3> QED BY <1>s, <3>1 DEF Goal
    <2>2. CASE Goto(d, "returned")
      <3>1. /\ at' = at /\ verdict' = verdict /\ outcome' = outcome /\ called' = called
            /\ pc'[d] = "returned" /\ pc[d] = "new" /\ DOMAIN res = Calls
        BY <1>1, <1>d, <1>n, <2>2 DEF Begin, tryVars
      <3>2. Passed(d)'
        BY <3>1, PassedStays
      <3>3. Current(d)' /\ verdict[d][1] = None
        BY <3>1 DEF Current, Returned
      <3> QED BY <3>1, <3>2, <3>3 DEF Settled, Goal
    <2> QED BY <1>1, <2>1, <2>2 DEF Begin
  <1>2. TryProvider(d) => Stays
    BY <1>o, <1>p, <1>n DEF TryProvider, Returned, a, tryVars
  <1>3. ASSUME PreHook(d) PROVE Stays
    <2>1. pc'[d] = pc[d] \/ pc'[d] = "post"
      BY <1>3, <1>n DEF PreHook, PreHookOutcome
    <2>2. UNCHANGED <<at, verdict, res, tryVars>> /\ pc[d] = "pre"
      BY <1>3 DEF PreHook, tryVars
    <2> QED BY <1>o, <1>p, <2>1, <2>2 DEF Returned, tryVars
  <1>4. StreamShortCircuit(d) => Stays
    BY <1>o, <1>n DEF StreamShortCircuit, Leave, Returned, a
  <1>5. PreHooksDone(d) => Stays
    BY <1>o, <1>p, <1>n DEF PreHooksDone, Leave, Returned, a, tryVars
  <1>6. Submit(d) => Stays
    BY <1>o, <1>p, <1>n DEF Submit, Leave, Returned, a, tryVars
  <1>7. TakeAnswer(d) => Stays
    BY <1>o, <1>n DEF TakeAnswer, Leave, Returned, a
  <1>8. WaitCancelled(d) => Stays
    BY <1>d, <1>o, <1>n DEF WaitCancelled, Leave, Returned, a
  <1>9. PostHook(d) => Stays
    BY <1>o DEF PostHook, tryVars
  <1>10. PostHooksDone(d) => Stays
    BY <1>o, <1>p, <1>n DEF PostHooksDone, Leave, Returned, a, tryVars
  <1>i. /\ at[d] \in Targets(d) /\ 1 \in Targets(d) /\ Targets(d) = 1..(Fallbacks[d] + 1)
        /\ Fallbacks[d] \in Nat /\ at[d] \in Nat
        /\ verdict[d] \in [Targets(d) -> Values \cup {None}]
    BY DEF BaseInv, TypeOK, Targets
  <1>11. CASE Decide(d)
    <2>1. /\ pc[d] = "decide" /\ outcome' = outcome /\ called' = called
          /\ verdict'[d] = [verdict[d] EXCEPT ![at[d]] = val[d]]
          /\ val[d] \in Values
      BY <1>11, <1>d DEF Decide, BaseInv, InHand, TypeOK, tryVars
    <2>2. /\ verdict'[d][at[d]] = val[d]
          /\ \A i \in Targets(d) : i # at[d] => verdict'[d][i] = verdict[d][i]
      BY <2>1, <1>i
    <2>3. /\ outcome[a] # "open" /\ outcome[a] \in A!Outcomes
          /\ outcome[a] = "abandoned" => val[d] = "cancelled"
          /\ at[d] > 1 => verdict[d][1] # None
      BY <2>1, OwnOutcome DEF Current, a
    <2>4. at[d] > 1 \/ at[d] = 1
      BY <1>i
    <2>5. verdict'[d][1] # None
      BY <1>i, <2>1, <2>2, <2>3, <2>4
    <2>6. CASE StopsHere(val[d])
      <3>1. at'[d] = at[d] /\ pc'[d] \in Returned /\ res'[d] = [value |-> val[d], of |-> at[d]]
        BY <1>11, <1>d, <1>n, <2>6 DEF Decide, Return, Returned
      <3>2. Passed(d)'
        BY <1>i, <2>1, <2>2, <3>1 DEF Passed
      <3>3. Current(d)'
        BY <2>5, <3>1 DEF Current, Returned
      <3>4. Settled(d)'
        BY <2>2, <2>6, <3>1 DEF Settled, StopsHere
      <3> QED BY <3>2, <3>3, <3>4 DEF Goal
    <2>7. CASE ~StopsHere(val[d]) /\ LastTarget(d, at[d])
      <3>1. at'[d] = at[d] /\ pc'[d] \in Returned
            /\ res'[d] = [value |-> verdict'[d][1], of |-> 1]
        BY <1>11, <1>d, <1>n, <2>7 DEF Decide, NextTarget, Return, Returned
      <3>2. Passed(d)'
        BY <1>i, <2>1, <2>2, <3>1 DEF Passed
      <3>3. Current(d)'
        BY <2>5, <3>1 DEF Current, Returned
      <3>4. val[d] = "err"
        BY <2>1, <2>7 DEF StopsHere, Values, Errors
      <3>5. Settled(d)'
        BY <2>1, <2>2, <2>3, <2>7, <3>1, <3>4 DEF Settled, LastTarget, a
      <3> QED BY <3>2, <3>3, <3>5 DEF Goal
    <2>8. CASE ~StopsHere(val[d]) /\ ~LastTarget(d, at[d])
      <3>1. at'[d] = at[d] + 1 /\ pc'[d] = "fallback"
        BY <1>11, <1>d, <1>n, <2>8 DEF Decide, NextTarget
      <3>2. val[d] = "err"
        BY <2>1, <2>8 DEF StopsHere, Values, Errors
      <3>3. outcome[a] \in {"rejected", "answered"}
        BY <2>3, <3>2 DEF A!Outcomes
      <3>4. at[d] + 1 \in Targets(d)
        BY <1>i, <2>8 DEF LastTarget
      <3>5. ASSUME NEW i \in Targets(d)
            PROVE  /\ i < at[d] + 1 => /\ outcome[<<d, i>>] \in {"rejected", "answered"}
                                       /\ verdict'[d][i] \in {"err", None}
                   /\ i > at[d] + 1 => /\ outcome[<<d, i>>] = "open" /\ called[<<d, i>>] = 0
                                       /\ verdict'[d][i] = None
        <4>1. i = at[d] \/ i < at[d] \/ i > at[d]
          BY <1>i
        <4>2. CASE i = at[d]
          BY <1>i, <2>2, <3>2, <3>3, <4>2 DEF a
        <4>v. /\ i \in Nat /\ at[d] \in Nat
              /\ i # at[d] => verdict'[d][i] = verdict[d][i]
          BY <1>i, <2>2
        <4>p. /\ i < at[d] => /\ outcome[<<d, i>>] \in {"rejected", "answered"}
                              /\ verdict[d][i] \in {"err", None}
              /\ i > at[d] => /\ outcome[<<d, i>>] = "open" /\ called[<<d, i>>] = 0
                              /\ verdict[d][i] = None
          BY DEF Passed
        <4>3. CASE i < at[d]
          BY <4>v, <4>p, <4>3
        <4>4. CASE i > at[d]
          BY <4>v, <4>p, <4>4
        <4> QED BY <4>1, <4>2, <4>3, <4>4
      <3>6. Passed(d)'
        BY <2>1, <3>1, <3>5 DEF Passed
      <3>7. verdict'[d][at[d] + 1] = None /\ outcome[<<d, at[d] + 1>>] = "open"
        BY <1>i, <2>2, <3>4 DEF Passed
      <3>8. Current(d)'
        BY <1>i, <2>1, <2>5, <3>1, <3>7 DEF Current, Returned
      <3> QED BY <3>1, <3>6, <3>8 DEF Settled, Goal, Returned
    <2> QED BY <2>6, <2>7, <2>8
  <1>12. CASE Fallback(d)
    <2>1. CASE Goto(d, "try") /\ UNCHANGED <<at, res, tryVars>>
      <3>1. Stays
        BY <1>12, <1>o, <1>p, <1>n, <2>1 DEF Fallback, Returned, tryVars
      <3> QED BY <1>s, <3>1 DEF Goal
    <2>2. CASE A!Reject(a) /\ NextTarget(d, verdict[d][1])
      <3>1. /\ pc[d] = "fallback" /\ outcome'[a] = "rejected" /\ verdict' = verdict
            /\ verdict[d][at[d]] = None /\ verdict[d][1] # None
        BY <1>12, <1>o, <2>2 DEF Fallback, Current, Returned
      <3>2. CASE LastTarget(d, at[d])
        <4>1. at'[d] = at[d] /\ pc'[d] \in Returned
              /\ res'[d] = [value |-> verdict[d][1], of |-> 1]
          BY <1>d, <1>n, <2>2, <3>2 DEF NextTarget, Return, Returned
        <4>2. Passed(d)'
          BY <3>1, <4>1, PassedStays
        <4>3. Current(d)'
          BY <3>1, <4>1 DEF Current, Returned
        <4>4. Settled(d)'
          BY <3>1, <3>2, <4>1 DEF Settled, LastTarget, a
        <4> QED BY <4>2, <4>3, <4>4 DEF Goal
      <3>3. CASE ~LastTarget(d, at[d])
        <4>1. at'[d] = at[d] + 1 /\ pc'[d] = "fallback"
          BY <1>d, <1>n, <2>2, <3>3 DEF NextTarget
        <4>2. at[d] + 1 \in Targets(d)
          BY <1>i, <3>3 DEF LastTarget
        <4>3. ASSUME NEW i \in Targets(d)
              PROVE  /\ i < at[d] + 1 => /\ outcome'[<<d, i>>] \in {"rejected", "answered"}
                                         /\ verdict[d][i] \in {"err", None}
                     /\ i > at[d] + 1 => /\ outcome'[<<d, i>>] = "open" /\ called'[<<d, i>>] = 0
                                         /\ verdict[d][i] = None
          <5>1. i = at[d] \/ i < at[d] \/ i > at[d]
            BY <1>i
          <5>2. CASE i = at[d]
            BY <1>i, <3>1, <5>2 DEF a
          <5>3. CASE i < at[d]
            BY <1>i, <5>3, OtherTargets DEF Passed
          <5>4. CASE i > at[d]
            BY <1>i, <5>4, OtherTargets DEF Passed
          <5> QED BY <5>1, <5>2, <5>3, <5>4
        <4>4. Passed(d)'
          BY <3>1, <4>1, <4>3 DEF Passed
        <4>5. verdict[d][at[d] + 1] = None /\ outcome'[<<d, at[d] + 1>>] = "open"
          BY <1>i, <4>2, OtherTargets DEF Passed
        <4>6. Current(d)'
          BY <1>i, <3>1, <4>1, <4>5 DEF Current, Returned
        <4> QED BY <4>1, <4>4, <4>6 DEF Settled, Goal, Returned
      <3> QED BY <3>2, <3>3
    <2> QED BY <1>12, <2>1, <2>2 DEF Fallback, a
  <1>13. Receive(d) => Stays
    BY <1>o DEF Receive, tryVars
  <1>14. CallProvider(d) => Stays
    BY <1>o DEF CallProvider, a, tryVars
  <1>15. BeginChunk(d) => Stays
    BY <1>o, <1>n DEF BeginChunk, Returned, tryVars
  <1>16. EndChunk(d) => Stays
    BY <1>o, <1>n DEF EndChunk, Returned, tryVars
  <1>17. EndStream(d) => Stays
    BY <1>o, <1>n DEF EndStream, Returned, tryVars
  <1>18. CancelContext(d) => Stays
    BY <1>o DEF CancelContext, tryVars
  <1> QED
    BY <1>s, <1>1, <1>2, <1>3, <1>4, <1>5, <1>6, <1>7, <1>8, <1>9, <1>10, <1>11, <1>12, <1>13,
       <1>14, <1>15, <1>16, <1>17, <1>18
       DEF CallStep, Caller, Attempting, Worker, Feeder, Goal

\* Every step keeps the targets of every call in order.
LEMMA TargetStep == BaseInv /\ TargetInv /\ [Next]_vars => TargetInv'
  <1> SUFFICES ASSUME BaseInv, TargetInv, [Next]_vars, NEW c \in Calls
               PROVE  Passed(c)' /\ Current(c)' /\ Settled(c)'
    BY DEF TargetInv
  <1>0. Passed(c) /\ Current(c) /\ Settled(c) /\ at[c] \in Targets(c)
    BY DEF TargetInv, BaseInv, TypeOK
  <1>1. CASE CallStep(c)
    BY <1>0, <1>1, TargetOwn
  <1>2. ASSUME Same(c) PROVE Passed(c)' /\ Current(c)' /\ Settled(c)'
    <2>1. Passed(c)'
      BY <1>0, <1>2 DEF Same, Passed
    <2>2. Current(c)' /\ Settled(c)'
      BY <1>0, <1>2 DEF Same, Current, Settled
    <2> QED BY <2>1, <2>2
  <1>3. ASSUME NEW d \in Calls, d # c, CallStep(d) PROVE Same(c)
    BY <1>3, OthersStay DEF OnlyCall
  <1>4. ASSUME Edit \/ OtherRequest \/ UNCHANGED vars PROVE Same(c)
    <2>1. UNCHANGED <<callVars, hookVars, workVars, streamVars, ctxVars, tryVars, metered>>
      BY <1>4, OtherSteps DEF vars
    <2> QED BY <2>1 DEF Same, callVars, hookVars, workVars, streamVars, ctxVars, tryVars
  <1> QED BY <1>1, <1>2, <1>3, <1>4 DEF Next, CallStep

\* In every reachable state the targets of a call are tried in order.
LEMMA TargetCorrect == Spec => []TargetInv
  BY BaseInit, BaseStep, TargetInit, TargetStep, PTL DEF Spec

\* handleRequest returns the first response, or the first error that forbids to
\* go on, or else the primary's error, and tries nothing after that: whatever
\* the number of fallbacks, the hooks, the cancellations and the plugin changes.
THEOREM ResultsAreRight == Spec => []ResultIsRight
  <1>1. BaseInv /\ TargetInv => ResultIsRight
    <2> SUFFICES ASSUME BaseInv, TargetInv, NEW c \in Calls,
                        pc[c] \in Returned, verdict[c][1] # None
                 PROVE  LET stops == {i \in Targets(c) :
                                        verdict[c][i] \in {"resp", "deny", "cancelled"}}
                            first == CHOOSE i \in stops : \A j \in stops : i <= j
                        IN  IF stops = {}
                            THEN /\ res[c] = [value |-> verdict[c][1], of |-> 1]
                                 /\ \A i \in Targets(c) : outcome[<<c, i>>] # "open"
                            ELSE /\ res[c] = [value |-> verdict[c][first], of |-> first]
                                 /\ \A i \in Targets(c) : i > first =>
                                      outcome[<<c, i>>] = "open" /\ called[<<c, i>>] = 0
      BY DEF ResultIsRight
    <2> DEFINE stops == {i \in Targets(c) : verdict[c][i] \in {"resp", "deny", "cancelled"}}
               first == CHOOSE i \in stops : \A j \in stops : i <= j
    <2>1. /\ at[c] \in Targets(c) /\ Passed(c) /\ Settled(c)
          /\ Targets(c) = 1..(Fallbacks[c] + 1) /\ Fallbacks[c] \in Nat
      BY FlowAssumption DEF TargetInv, BaseInv, TypeOK, Targets
    <2>2. ASSUME NEW i \in stops PROVE i = at[c]
      <3>1. None \notin {"resp", "deny", "cancelled"}
        BY FlowAssumption DEF Values, Errors
      <3>2. i \in Targets(c) /\ verdict[c][i] \in {"resp", "deny", "cancelled"}
        OBVIOUS
      <3>3. ~(i < at[c]) /\ ~(i > at[c])
        BY <2>1, <3>1, <3>2 DEF Passed
      <3> QED BY <2>1, <3>2, <3>3
    <2>3. CASE verdict[c][at[c]] \in {"resp", "deny", "cancelled"}
      <3>1. at[c] \in stops
        BY <2>1, <2>3
      <3>2. first = at[c]
        <4>1. \E i \in stops : \A j \in stops : i <= j
          BY <2>1, <2>2, <3>1
        <4>2. first \in stops
          BY <4>1
        <4> QED BY <2>2, <4>2
      <3>3. res[c] = [value |-> verdict[c][at[c]], of |-> at[c]]
        BY <2>1, <2>3, FlowAssumption DEF Settled, Values, Errors
      <3>4. \A i \in Targets(c) : i > at[c] => outcome[<<c, i>>] = "open" /\ called[<<c, i>>] = 0
        BY <2>1 DEF Passed
      <3> HIDE DEF first, stops
      <3>5. stops # {}
        BY <3>1
      <3> QED BY <3>2, <3>3, <3>4, <3>5 DEF first, stops
    <2>4. CASE verdict[c][at[c]] \notin {"resp", "deny", "cancelled"}
      <3>1. stops = {}
        BY <2>2, <2>4
      <3>2. /\ at[c] = Fallbacks[c] + 1 /\ outcome[<<c, at[c]>>] # "open"
            /\ res[c] = [value |-> verdict[c][1], of |-> 1]
        BY <2>1, <2>4 DEF Settled
      <3>3. \A i \in Targets(c) : outcome[<<c, i>>] # "open"
        BY <2>1, <3>2 DEF Passed
      <3> QED BY <3>1, <3>2, <3>3
    <2> QED BY <2>3, <2>4
  <1> QED BY <1>1, BaseCorrect, TargetCorrect, PTL

\* The client's request is never with two providers at once: executeRequestWithRetries
\* runs for a fallback only when every earlier target was turned away or answered.
THEOREM ProvidersTakeTurns == Spec => []OneProviderAtATime
  <1>1. BaseInv /\ TargetInv => OneProviderAtATime
    <2> SUFFICES ASSUME BaseInv, TargetInv, NEW c \in Calls, NEW i \in Targets(c),
                        NEW j \in Targets(c), i < j, called[<<c, j>>] > 0
                 PROVE  outcome[<<c, i>>] \in {"rejected", "answered"}
      BY DEF OneProviderAtATime
    <2>1. at[c] \in Nat /\ Passed(c) /\ i \in Nat /\ j \in Nat
      BY FlowAssumption DEF TargetInv, BaseInv, TypeOK, Targets
    <2>2. ~(j > at[c])
      BY <2>1 DEF Passed
    <2>3. i < at[c]
      BY <2>1, <2>2
    <2> QED BY <2>1, <2>3 DEF Passed
  <1> QED BY <1>1, BaseCorrect, TargetCorrect, PTL

-----------------------------------------------------------------------------
(* The end mark that a failed attempt leaves in the context.               *)

\* No stream was served before Init.
LEMMA MarkInit == Init => MarkInv
  BY DEF Init, MarkInv, Marked

\* An earlier attempt that was answered stays so, and so does the current one.
LEMMA AnsweredStays ==
  ASSUME BaseInv, NEW d \in Calls, CallStep(d)
  PROVE  /\ at'[d] \in Nat /\ at'[d] >= at[d]
         /\ AnsweredBefore(d) => AnsweredBefore(d)'
         /\ outcome[<<d, at[d]>>] = "answered" =>
              \/ at'[d] = at[d] /\ outcome'[<<d, at[d]>>] = "answered"
              \/ AnsweredBefore(d)'
  <1> DEFINE a == <<d, at[d]>>
  <1>t. at[d] \in Nat /\ at[d] \in Targets(d) /\ Targets(d) \subseteq Nat /\ DOMAIN at = Calls
    <2>1. at[d] \in Targets(d) /\ DOMAIN at = Calls
      BY CallDomains DEF BaseInv, TypeOK
    <2>2. Targets(d) \subseteq Nat
      BY FlowAssumption DEF Targets
    <2> QED BY <2>1, <2>2
  <1>1. at'[d] = at[d] \/ at'[d] = at[d] + 1
    BY <1>t DEF CallStep, Caller, Attempting, Worker, Feeder, Begin, TryProvider, PreHook,
           StreamShortCircuit, PreHooksDone, Submit, TakeAnswer, WaitCancelled, PostHook,
           PostHooksDone, Decide, Fallback, NextTarget, Return, Receive, CallProvider, BeginChunk,
           EndChunk, EndStream, CancelContext, callVars
  <1>2. AnsweredBefore(d) => AnsweredBefore(d)'
    <2> SUFFICES ASSUME NEW i \in Targets(d), i < at[d], outcome[<<d, i>>] = "answered"
                 PROVE  AnsweredBefore(d)'
      BY DEF AnsweredBefore
    <2>1. outcome'[<<d, i>>] = "answered"
      BY <1>t, OtherTargets
    <2>2. i < at'[d]
      BY <1>t, <1>1
    <2> QED BY <2>1, <2>2 DEF AnsweredBefore
  <1>3. outcome[a] = "answered" => outcome'[a] = "answered"
    <2>1. ShapeInv /\ a \in Tries
      BY <1>t, InTries DEF BaseInv
    <2>2. A!Reject(a) \/ A!Answer(a) \/ A!Abandon(a) \/ A!Call(a) \/ UNCHANGED tryVars
      BY OwnAttempt
    <2> HIDE DEF a
    <2>3. A!Reject(a) \/ A!Answer(a) \/ A!Abandon(a) => outcome[a] = "open"
      BY <2>1, RejectOne, EndOne DEF A!Answer, A!Abandon, A!Outcomes
    <2>4. A!Call(a) \/ UNCHANGED tryVars => outcome' = outcome
      BY <2>1, CallOne DEF tryVars
    <2> QED BY <2>2, <2>3, <2>4
  <1>4. at'[d] = at[d] + 1 /\ outcome'[a] = "answered" => AnsweredBefore(d)'
    BY <1>t DEF AnsweredBefore
  <1> QED BY <1>t, <1>1, <1>2, <1>3, <1>4

\* Every step of a call keeps track of who set its mark.
LEMMA MarkOwn ==
  ASSUME BaseInv, NEW d \in Calls, CallStep(d), Passed(d), Current(d), Marked(d)
  PROVE  Marked(d)'
  <1> USE CallDomains
      DEF callVars, hookVars, workVars, streamVars, listVars, poolVars, ctxVars, tryVars
  <1>h. InHand(d)
    BY DEF BaseInv
  <1>a. /\ AnsweredBefore(d) => AnsweredBefore(d)'
        /\ outcome[<<d, at[d]>>] = "answered" =>
              \/ at'[d] = at[d] /\ outcome'[<<d, at[d]>>] = "answered"
              \/ AnsweredBefore(d)'
    BY AnsweredStays
  <1>o. pc[d] \in {"pre", "wait"} => outcome[<<d, at[d]>>] # "answered"
    BY DEF Current
  <1> HIDE DEF AnsweredBefore
  <1> DEFINE Kept == /\ UNCHANGED <<mark, freed, source>>
                     /\ pc'[d] = "chunk" => pc[d] = "chunk"
  <1>k. Kept => Marked(d)'
    BY <1>a DEF Marked
  <1>1. Begin(d) => Kept
    BY DEF Begin, Goto
  <1>2. TryProvider(d) => Kept
    BY DEF TryProvider, Goto
  <1>3. CASE PreHook(d)
    <2>1. UNCHANGED <<mark, freed, source>>
      BY <1>3 DEF PreHook
    <2>2. UNCHANGED pc \/ Goto(d, "post")
      BY <1>3 DEF PreHook, PreHookOutcome
    <2>3. pc'[d] = pc[d] \/ pc'[d] = "post"
      BY <2>2 DEF Goto
    <2>4. Kept
      BY <2>1, <2>3
    <2> QED BY <2>4, <1>k
  <1>4. CASE StreamShortCircuit(d)
    <2>1. pc[d] = "pre" /\ source[d] = "none" /\ source'[d] = "cached" /\ UNCHANGED <<mark, freed>>
      BY <1>4, <1>h DEF StreamShortCircuit, InHand, Returned
    <2>2. ~freed[d] /\ (mark[d] = "stale" => AnsweredBefore(d))
      BY <2>1, <1>h, <1>o DEF Marked, InHand
    <2> QED BY <1>a, <2>1, <2>2 DEF Marked
  <1>5. PreHooksDone(d) => Kept
    BY DEF PreHooksDone, Leave, Goto
  <1>6. Submit(d) => Kept
    BY DEF Submit, Leave, Goto
  <1>7. CASE TakeAnswer(d)
    <2>1. pc[d] = "wait" /\ source[d] = "none" /\ freed' = freed /\ at' = at
          /\ outcome'[<<d, at[d]>>] = "answered"
      BY <1>7, <1>h, OwnOutcome DEF TakeAnswer, InHand, Returned
    <2>2. ~freed[d] /\ mark[d] # "last" /\ (mark[d] = "stale" => AnsweredBefore(d))
      BY <2>1, <1>h, <1>o DEF Marked, InHand
    <2>3. \/ source'[d] = "provider" /\ mark'[d] = mark[d]
          \/ source'[d] = "none" /\ (mark'[d] = mark[d] \/ mark'[d] = "stale")
      BY <1>7, <2>1 DEF TakeAnswer
    <2> QED BY <1>a, <2>1, <2>2, <2>3 DEF Marked
  <1>8. WaitCancelled(d) => Kept
    BY DEF WaitCancelled, Leave, Goto
  <1>9. PostHook(d) => Kept
    BY DEF PostHook
  <1>10. PostHooksDone(d) => Kept
    BY DEF PostHooksDone, Leave, Goto
  <1>11. Decide(d) => Kept
    BY DEF Decide, NextTarget, Return, Goto
  <1>12. Fallback(d) => Kept
    BY DEF Fallback, NextTarget, Return, Goto
  <1>13. Receive(d) => Kept
    BY DEF Receive
  <1>14. CallProvider(d) => Kept
    BY DEF CallProvider
  <1>15. CASE BeginChunk(d)
    <2>1. /\ pc[d] = "feed" /\ source[d] # "none" /\ mark[d] # "last"
          /\ UNCHANGED <<freed, source>> /\ (mark'[d] = mark[d] \/ mark'[d] = "last")
      BY <1>15, <1>h DEF BeginChunk, InHand
    <2>2. mark[d] \in {"none", "stale"}
      BY <2>1 DEF BaseInv, TypeOK, Marks
    <2>3. mark[d] = "stale" => AnsweredBefore(d)
      BY <2>1 DEF Marked
    <2>4. freed[d] => mark[d] = "stale"
      BY <2>2 DEF Marked
    <2> QED BY <1>a, <2>1, <2>2, <2>3, <2>4 DEF Marked
  <1>16. CASE EndChunk(d)
    <2>1. /\ pc'[d] = "feed" /\ UNCHANGED <<mark, source>>
          /\ freed'[d] = freed[d] \/ mark[d] # "none"
      BY <1>16 DEF EndChunk, Goto, Finalizes
    <2> QED BY <1>a, <2>1 DEF Marked
  <1>17. EndStream(d) => Kept
    BY DEF EndStream, Goto
  <1>18. CancelContext(d) => Kept
    BY DEF CancelContext
  <1> QED
    BY <1>k, <1>1, <1>2, <1>3, <1>4, <1>5, <1>6, <1>7, <1>8, <1>9, <1>10, <1>11, <1>12, <1>13,
       <1>14, <1>15, <1>16, <1>17, <1>18
       DEF CallStep, Caller, Attempting, Worker, Feeder

\* Every step keeps track of who set the marks.
LEMMA MarkStep == BaseInv /\ TargetInv /\ MarkInv /\ [Next]_vars => MarkInv'
  <1> SUFFICES ASSUME BaseInv, TargetInv, MarkInv, [Next]_vars, NEW c \in Calls
               PROVE  Marked(c)'
    BY DEF MarkInv
  <1>0. Passed(c) /\ Current(c) /\ Marked(c) /\ at[c] \in Targets(c)
    BY DEF TargetInv, MarkInv, BaseInv, TypeOK
  <1>1. CASE CallStep(c)
    BY <1>0, <1>1, MarkOwn
  <1>2. ASSUME Same(c) PROVE Marked(c)'
    <2>1. AnsweredBefore(c) => AnsweredBefore(c)'
      BY <1>2 DEF Same, AnsweredBefore
    <2>2. outcome'[<<c, at[c]>>] = outcome[<<c, at[c]>>]
      BY <1>0, <1>2 DEF Same
    <2> QED BY <1>0, <1>2, <2>1, <2>2 DEF Same, Marked
  <1>3. ASSUME NEW d \in Calls, d # c, CallStep(d) PROVE Same(c)
    BY <1>3, OthersStay DEF OnlyCall
  <1>4. ASSUME Edit \/ OtherRequest \/ UNCHANGED vars PROVE Same(c)
    <2>1. UNCHANGED <<callVars, hookVars, workVars, streamVars, ctxVars, tryVars, metered>>
      BY <1>4, OtherSteps DEF vars
    <2> QED BY <2>1 DEF Same, callVars, hookVars, workVars, streamVars, ctxVars, tryVars
  <1> QED BY <1>1, <1>2, <1>3, <1>4 DEF Next, CallStep
-----------------------------------------------------------------------------
(* The pipelines: one in use is in use once, and not in the pool.          *)

\* What a step of a call does with pipelines.
LEMMA PoolOwn == ASSUME BaseInv, NEW d \in Calls, CallStep(d) PROVE OwnPool(d)
  <1> USE FlowAssumption, CallDomains
      DEF callVars, hookVars, workVars, streamVars, listVars, poolVars, ctxVars, tryVars
  <1>h. InHand(d) /\ InService(d)
    BY DEF BaseInv
  <1>w. wk[d] # "none" => ~freed[d]
    BY <1>h DEF InHand, InService, Returned
  <1>1. CASE Begin(d)
    BY <1>1, <1>h DEF Begin, Goto, InHand, InService, OwnPool, KeepsMine, KeepsTheirs, HoldsMine,
                      HoldsTheirs, Holding
  <1>2. CASE TryProvider(d)
    BY <1>2, <1>h DEF TryProvider, Goto, InHand, InService, OwnPool, KeepsMine, KeepsTheirs,
                      HoldsMine, HoldsTheirs, Holding
  <1>3. CASE PreHook(d)
    BY <1>3, <1>h DEF PreHook, PreHookOutcome, Stamp, Goto, InHand, InService, OwnPool, KeepsMine,
                      KeepsTheirs, HoldsMine, HoldsTheirs, Holding
  <1>4. CASE StreamShortCircuit(d)
    BY <1>4, <1>h DEF StreamShortCircuit, Leave, Goto, InHand, InService, OwnPool, KeepsMine,
                      KeepsTheirs, HoldsMine, HoldsTheirs, Holding
  <1>5. CASE PreHooksDone(d)
    BY <1>5, <1>h DEF PreHooksDone, Leave, Goto, InHand, InService, OwnPool, KeepsMine, KeepsTheirs,
                      HoldsMine, HoldsTheirs, Holding
  <1>6. CASE Submit(d)
    BY <1>6, <1>h DEF Submit, Leave, Goto, InHand, InService, OwnPool, KeepsMine, KeepsTheirs,
                      HoldsMine, HoldsTheirs, Holding
  <1>7. CASE TakeAnswer(d)
    BY <1>7, <1>h DEF TakeAnswer, Leave, Goto, InHand, InService, OwnPool, KeepsMine, KeepsTheirs,
                      HoldsMine, HoldsTheirs, Holding
  <1>8. CASE WaitCancelled(d)
    BY <1>8, <1>h DEF WaitCancelled, Leave, Goto, InHand, InService, OwnPool, KeepsMine,
                      KeepsTheirs, HoldsMine, HoldsTheirs, Holding
  <1>9. CASE PostHook(d)
    BY <1>9, <1>h DEF PostHook, Meter, InHand, InService, OwnPool, KeepsMine, KeepsTheirs,
                      HoldsMine, HoldsTheirs, Holding
  <1>10. CASE PostHooksDone(d)
    BY <1>10, <1>h DEF PostHooksDone, Leave, Goto, InHand, InService, OwnPool, KeepsMine,
                       KeepsTheirs, HoldsMine, HoldsTheirs, Holding
  <1>11. CASE Decide(d)
    BY <1>11, <1>h DEF Decide, Forget, NextTarget, Return, Goto, InHand, InService, OwnPool,
                       KeepsMine, KeepsTheirs, HoldsMine, HoldsTheirs, Holding
  <1>12. CASE Fallback(d)
    BY <1>12, <1>h DEF Fallback, NextTarget, Return, Goto, InHand, InService, OwnPool, KeepsMine,
                       KeepsTheirs, HoldsMine, HoldsTheirs, Holding
  <1>13. CASE Receive(d)
    BY <1>13, <1>h, <1>w DEF Receive, Serve, Send, InHand, InService, OwnPool, KeepsMine,
                             KeepsTheirs, HoldsMine, HoldsTheirs, Holding
  <1>14. CASE CallProvider(d)
    BY <1>14, <1>h, <1>w DEF CallProvider, Serve, Send, InHand, InService, OwnPool, KeepsMine,
                             KeepsTheirs, HoldsMine, HoldsTheirs, Holding
  <1>15. CASE BeginChunk(d)
    BY <1>15, <1>h DEF BeginChunk, Goto, InHand, InService, OwnPool, KeepsMine, KeepsTheirs,
                       HoldsMine, HoldsTheirs, Holding
  <1>16. CASE EndChunk(d)
    BY <1>16, <1>h DEF EndChunk, Finalizes, Goto, InHand, InService, OwnPool, KeepsMine,
                       KeepsTheirs, HoldsMine, HoldsTheirs, Holding
  <1>17. CASE EndStream(d)
    BY <1>17, <1>h DEF EndStream, Goto, InHand, InService, OwnPool, KeepsMine, KeepsTheirs,
                       HoldsMine, HoldsTheirs, Holding
  <1>18. CASE CancelContext(d)
    BY <1>18, <1>h DEF CancelContext, InHand, InService, OwnPool, KeepsMine, KeepsTheirs, HoldsMine,
                       HoldsTheirs, Holding
  <1> QED
    BY <1>1, <1>2, <1>3, <1>4, <1>5, <1>6, <1>7, <1>8, <1>9, <1>10, <1>11, <1>12, <1>13, <1>14,
       <1>15, <1>16, <1>17, <1>18
       DEF CallStep, Caller, Attempting, Worker, Feeder

\* Nothing is in use after Init.
LEMMA PoolInit == Init => PoolInv
  BY DEF Init, PoolInv, HoldsMine, HoldsTheirs, Holding

\* Nobody touches the list of a pipeline that is not in the pool.
LEMMA ListStays ==
  ASSUME BaseInv, [Next]_vars
  PROVE  \A p \in Pipelines : p \notin free => list'[p] = list[p]
  <1>t. list \in [Pipelines -> Seq(Plugins)]
    BY DEF BaseInv, TypeOK
  <1>1. ASSUME NEW d \in Calls, CallStep(d)
        PROVE  \A p \in Pipelines : p \notin free => list'[p] = list[p]
    BY <1>1, <1>t, PoolOwn DEF OwnPool, GetPluginPipeline, ReleasePluginPipeline, poolVars
  <1>2. ASSUME Edit \/ OtherRequest \/ UNCHANGED vars
        PROVE  \A p \in Pipelines : p \notin free => list'[p] = list[p]
    BY <1>2, <1>t DEF Edit, RemovePlugin, ReloadPlugin, ReorderPlugins, StorePlugins,
                      OtherRequest, vars, poolVars
  <1> QED BY <1>1, <1>2 DEF Next, CallStep

\* Every step keeps the pipelines in use apart and out of the pool.
LEMMA PoolStep == BaseInv /\ PoolInv /\ [Next]_vars => PoolInv'
  <1> SUFFICES ASSUME BaseInv, PoolInv, [Next]_vars PROVE PoolInv'
    OBVIOUS
  <1>t. free \subseteq Pipelines /\ None \notin Pipelines
    BY FlowAssumption DEF BaseInv, TypeOK
  <1>1. ASSUME NEW d \in Calls, CallStep(d) PROVE PoolInv'
    <2>1. \A c \in Calls : c # d => /\ HoldsMine(c)' <=> HoldsMine(c)
                                    /\ HoldsTheirs(c)' <=> HoldsTheirs(c)
                                    /\ mine'[c] = mine[c] /\ theirs'[c] = theirs[c]
      BY <1>1, OthersStay DEF OnlyCall, Same, HoldsMine, HoldsTheirs
    <2>2. OwnPool(d)
      BY <1>1, PoolOwn
    <2> HIDE DEF HoldsMine, HoldsTheirs
    <2>3. CASE UNCHANGED poolVars /\ KeepsMine(d) /\ KeepsTheirs(d)
      BY <2>1, <2>3 DEF PoolInv, KeepsMine, KeepsTheirs, poolVars
    <2>4. CASE \E p \in free : GetPluginPipeline(p) /\ mine'[d] = p /\ KeepsTheirs(d)
      BY <2>1, <2>4 DEF PoolInv, KeepsTheirs, GetPluginPipeline
    <2>5. CASE \E p \in free : GetPluginPipeline(p) /\ theirs'[d] = p /\ KeepsMine(d)
      BY <2>1, <2>5 DEF PoolInv, KeepsMine, GetPluginPipeline
    <2>6. CASE HoldsMine(d) /\ ~HoldsMine(d)' /\ ReleasePluginPipeline(mine[d]) /\ KeepsTheirs(d)
      BY <2>1, <2>6 DEF PoolInv, KeepsTheirs, ReleasePluginPipeline
    <2>7. CASE /\ HoldsTheirs(d) /\ ~HoldsTheirs(d)'
               /\ ReleasePluginPipeline(theirs[d]) /\ KeepsMine(d)
      BY <2>1, <2>7 DEF PoolInv, KeepsMine, ReleasePluginPipeline
    <2> QED BY <2>2, <2>3, <2>4, <2>5, <2>6, <2>7 DEF OwnPool
  <1>2. ASSUME Edit \/ OtherRequest \/ UNCHANGED vars PROVE PoolInv'
    <2>1. UNCHANGED <<callVars, hookVars, workVars, free>>
      BY <1>2, OtherSteps DEF vars, poolVars
    <2> QED BY <2>1 DEF PoolInv, HoldsMine, HoldsTheirs, callVars, hookVars, workVars
  <1> QED BY <1>1, <1>2 DEF Next, CallStep

\* No hook has run after Init.
LEMMA RangeInit == Init => RangeInv
  BY DEF Init, RangeInv, InRange, PanicsOnlyOnReleasedPipeline

\* The list a call uses stays as it is while the call does not give it back.
LEMMA InUseStays ==
  ASSUME BaseInv, PoolInv, [Next]_vars, NEW c \in Calls
  PROVE  /\ HoldsMine(c) => list'[mine[c]] = list[mine[c]]
         /\ HoldsTheirs(c) => list'[theirs[c]] = list[theirs[c]]
  <1>1. /\ HoldsMine(c) => mine[c] \in Pipelines
        /\ HoldsTheirs(c) => theirs[c] \in Pipelines
    BY DEF BaseInv, TypeOK, InHand, HoldsMine, HoldsTheirs
  <1> QED BY <1>1, ListStays DEF PoolInv

\* The hooks of a call that is left alone stay within their list.
LEMMA RangeElse ==
  ASSUME BaseInv, PoolInv, [Next]_vars, NEW c \in Calls, InRange(c), Same(c)
  PROVE  InRange(c)'
  <1>1. pc[c] \in {"pre", "post"} => ListOf(c)' = ListOf(c)
    BY InUseStays DEF Same, ListOf, Using, HoldsMine, Holding
  <1>2. pc[c] = "chunk" /\ source[c] = "provider" /\ ~freed[c] => ListOf(c)' = ListOf(c)
    <2>1. source[c] = "provider" => theirs[c] # None
      BY FlowAssumption DEF BaseInv, InHand
    <2> QED BY <2>1, InUseStays DEF Same, ListOf, Using, Feeding, HoldsTheirs
  <1> QED BY <1>1, <1>2 DEF InRange, Same

\* The hooks of the call that takes the step do too.
LEMMA RangeOwn ==
  ASSUME BaseInv, PoolInv, [Next]_vars, NEW d \in Calls, CallStep(d), InRange(d)
  PROVE  InRange(d)'
  <1> USE FlowAssumption, CallDomains
      DEF callVars, hookVars, workVars, streamVars, listVars, poolVars, ctxVars, tryVars
  <1>b. BaseInv'
    BY BaseStep
  <1>l. /\ pc[d] \in {"pre", "wait", "post", "chunk"} => Len(ListOf(d)) \in Nat
        /\ hook[d] \in Nat /\ count[d] \in Nat /\ Len(plugins) \in Nat
    <2>1. pc[d] \in {"pre", "wait", "post", "chunk"} => Len(ListOf(d)) \in Nat
      BY ListOfType
    <2>2. hook[d] \in Nat /\ count[d] \in Nat /\ plugins \in Seq(Plugins)
      BY DEF BaseInv, TypeOK
    <2> QED BY <2>1, <2>2
  <1>n. pc'[d] = "pre" => Len(ListOf(d)') \in Nat
    <2>1. pc'[d] = "pre" => mine'[d] \in Pipelines
      BY <1>b DEF BaseInv, InHand, Holding
    <2>2. list' \in [Pipelines -> Seq(Plugins)]
      BY <1>b DEF BaseInv, TypeOK
    <2>3. pc'[d] = "pre" => ListOf(d)' \in Seq(Plugins)
      BY <2>1, <2>2 DEF ListOf, Using
    <2> QED BY <2>3
  <1>u. HoldsMine(d) => list'[mine[d]] = list[mine[d]]
    BY InUseStays
  <1>m. ASSUME UNCHANGED <<mine, skips>>, pc[d] \in Holding, pc'[d] \in Holding
        PROVE  ListOf(d)' = ListOf(d)
    BY <1>u, <1>m DEF ListOf, Using, HoldsMine, Holding
  <1>0. CASE pc'[d] \notin {"pre", "post", "chunk"}
    BY <1>0 DEF InRange
  <1>1. CASE TryProvider(d) /\ pc'[d] = "pre"
    <2>1. hook'[d] = 1
      BY <1>1 DEF TryProvider, Goto
    <2> QED BY <1>1, <1>n, <2>1 DEF InRange
  <1>2. CASE PreHook(d)
    <2>1. /\ ListOf(d)' = ListOf(d) /\ hook[d] <= Len(ListOf(d)) /\ pc[d] = "pre"
      <3>1. UNCHANGED <<mine, skips>> /\ pc[d] = "pre" /\ hook[d] <= Len(ListOf(d))
        BY <1>2 DEF PreHook
      <3>2. pc'[d] \in {"pre", "post"}
        BY <1>2, <3>1 DEF PreHook, PreHookOutcome, Goto
      <3> QED BY <1>m, <3>1, <3>2 DEF Holding
    <2>2. \/ pc'[d] = "pre" /\ hook'[d] = hook[d] + 1
          \/ pc'[d] = "post" /\ hook'[d] = hook[d]
      BY <1>2, <2>1 DEF PreHook, PreHookOutcome, Goto
    <2> QED BY <1>l, <2>1, <2>2 DEF InRange
  <1>3. CASE TakeAnswer(d) /\ pc'[d] = "post"
    <2>1. UNCHANGED <<mine, skips>> /\ pc[d] = "wait"
      BY <1>3 DEF TakeAnswer
    <2>2. ListOf(d)' = ListOf(d)
      BY <1>3, <1>m, <2>1 DEF Holding
    <2>3. ListOf(d) \in Seq(Plugins)
      BY <2>1, ListOfType
    <2>4. \E n \in Nat : hook'[d] = RunFrom(n, ListOf(d))
      BY <1>3, <1>l DEF TakeAnswer, Leave, Goto
    <2>5. hook'[d] <= Len(ListOf(d))
      BY <2>3, <2>4, RunFromType
    <2> QED BY <1>3, <2>2, <2>5 DEF InRange
  <1>4. CASE PostHook(d)
    <2>1. /\ UNCHANGED <<mine, skips, pc, source, theirs, freed>> /\ pc[d] \in {"post", "chunk"}
          /\ hook'[d] = hook[d] \/ hook'[d] = hook[d] - 1
      BY <1>4 DEF PostHook
    <2>2. CASE pc[d] = "post"
      BY <1>l, <1>m, <2>1, <2>2 DEF InRange, Holding
    <2>3. CASE pc[d] = "chunk" /\ source[d] = "provider" /\ ~freed[d]
      <3>1. HoldsTheirs(d)
        BY <2>3 DEF BaseInv, InHand, HoldsTheirs
      <3>2. ListOf(d)' = ListOf(d)
        BY <2>1, <2>3, <3>1, InUseStays DEF ListOf, Using, Feeding
      <3> QED BY <1>l, <2>1, <2>3, <3>2 DEF InRange
    <2>4. CASE pc[d] = "chunk" /\ (source[d] # "provider" \/ freed[d])
      BY <2>1, <2>4 DEF InRange
    <2> QED BY <2>1, <2>2, <2>3, <2>4
  <1>5. CASE BeginChunk(d)
    <2>1. /\ pc'[d] = "chunk" /\ UNCHANGED <<source, theirs, skips, list>>
      BY <1>5 DEF BeginChunk, Goto
    <2>2. CASE source[d] # "provider"
      BY <2>1, <2>2 DEF InRange
    <2>3. CASE source[d] = "provider"
      <3>1. list[theirs[d]] \in Seq(Plugins)
        BY <2>3 DEF BaseInv, InHand, TypeOK
      <3>2. hook'[d] = IF skips[d] THEN 0 ELSE RunFrom(Len(plugins), list[theirs[d]])
        BY <1>5, <2>3 DEF BeginChunk, Feeding
      <3>3. ListOf(d)' = IF skips[d] THEN <<>> ELSE list[theirs[d]]
        BY <2>1, <2>3 DEF ListOf, Using, Feeding
      <3>4. CASE skips[d]
        BY <2>1, <3>2, <3>3, <3>4 DEF InRange
      <3>5. CASE ~skips[d]
        <4>1. hook'[d] <= Len(list[theirs[d]])
          BY <1>l, <3>1, <3>2, <3>5, RunFromType
        <4> QED BY <2>1, <3>3, <3>5, <4>1 DEF InRange
      <3> QED BY <3>4, <3>5
    <2> QED BY <2>2, <2>3
  <1>6. CASE UNCHANGED <<pc, mine, skips, source, hook>> /\ pc[d] \in Holding
    BY <1>m, <1>6 DEF InRange, Holding
  <1>7. CASE UNCHANGED <<pc, mine, skips, source, hook, theirs, freed>> /\ pc[d] = "chunk"
    <2>1. source[d] = "provider" /\ ~freed[d] => HoldsTheirs(d)
      BY <1>7 DEF BaseInv, InHand, HoldsTheirs
    <2>2. source[d] = "provider" /\ ~freed[d] => ListOf(d)' = ListOf(d)
      BY <1>7, <2>1, InUseStays DEF ListOf, Using, Feeding
    <2> QED BY <1>7, <2>2 DEF InRange
  <1>8. pc[d] \in Places /\ (wk[d] # "none" => pc[d] # "chunk")
    BY DEF BaseInv, TypeOK, Places, InService
  <1>9. Begin(d) \/ StreamShortCircuit(d) \/ PreHooksDone(d) \/ Submit(d) \/ WaitCancelled(d)
        \/ PostHooksDone(d) \/ Decide(d) \/ Fallback(d) \/ EndChunk(d) \/ EndStream(d)
        => pc'[d] \notin {"pre", "post", "chunk"}
    BY DEF Begin, StreamShortCircuit, PreHooksDone, Submit, WaitCancelled, PostHooksDone, Decide,
           NextTarget, Return, Fallback, EndChunk, EndStream, Leave, Goto
  <1>10. TryProvider(d) => pc'[d] \in {"decide", "pre"}
    BY DEF TryProvider, Goto
  <1>11. TakeAnswer(d) => pc'[d] \in {"decide", "post"}
    BY DEF TakeAnswer, Leave, Goto
  <1>12. Worker(d) \/ CancelContext(d) =>
           /\ UNCHANGED <<pc, mine, skips, source, hook, freed>>
           /\ pc[d] = "chunk" => UNCHANGED theirs
    BY <1>8 DEF Worker, Receive, CallProvider, CancelContext
  <1> QED
    BY <1>0, <1>1, <1>2, <1>3, <1>4, <1>5, <1>6, <1>7, <1>9, <1>10, <1>11, <1>12
       DEF CallStep, Caller, Attempting, Feeder, Holding

\* Every step keeps the hooks within their lists; the ones of a stream on a pipeline
\* that went back to the pool may run over and panic.
LEMMA RangeStep == BaseInv /\ MarkInv /\ PoolInv /\ RangeInv /\ [Next]_vars => RangeInv'
  <1> SUFFICES ASSUME BaseInv, MarkInv, PoolInv, RangeInv, [Next]_vars PROVE RangeInv'
    OBVIOUS
  <1>1. ASSUME NEW c \in Calls PROVE InRange(c)'
    <2>0. InRange(c)
      BY DEF RangeInv
    <2>1. CASE CallStep(c)
      BY <2>0, <2>1, RangeOwn
    <2>2. ASSUME NEW d \in Calls, d # c, CallStep(d) PROVE Same(c)
      BY <2>2, OthersStay DEF OnlyCall
    <2>3. ASSUME Edit \/ OtherRequest \/ UNCHANGED vars PROVE Same(c)
      <3>1. UNCHANGED <<callVars, hookVars, workVars, streamVars, ctxVars, tryVars, metered>>
        BY <2>3, OtherSteps DEF vars
      <3> QED BY <3>1 DEF Same, callVars, hookVars, workVars, streamVars, ctxVars, tryVars
    <2> QED BY <2>0, <2>1, <2>2, <2>3, RangeElse DEF Next, CallStep
  <1>2. PanicsOnlyOnReleasedPipeline'
    <2>1. ASSUME NEW d \in Calls, PostHook(d) PROVE PanicsOnlyOnReleasedPipeline'
      <3>1. /\ UNCHANGED <<source, freed, at, outcome>> /\ pc[d] \in {"post", "chunk"}
            /\ crash' = crash \/ (crash' = crash \cup {d} /\ hook[d] > Len(ListOf(d)))
        BY <2>1 DEF PostHook, streamVars, workVars, tryVars
      <3>2. Len(ListOf(d)) \in Nat /\ hook[d] \in Nat /\ InRange(d)
        BY <3>1, ListOfType DEF BaseInv, TypeOK, RangeInv
      <3>3. hook[d] > Len(ListOf(d)) => pc[d] = "chunk" /\ (source[d] # "provider" \/ freed[d])
        BY <3>1, <3>2 DEF InRange
      <3>4. pc[d] = "chunk" /\ source[d] # "provider" => source[d] = "cached"
        BY DEF BaseInv, TypeOK, InHand
      <3>5. pc[d] = "chunk" /\ freed[d] => AnsweredBefore(d)
        BY DEF MarkInv, Marked
      <3>6. \A c \in Calls : AnsweredBefore(c) => AnsweredBefore(c)'
        BY <3>1 DEF AnsweredBefore
      <3> HIDE DEF AnsweredBefore
      <3>7. hook[d] > Len(ListOf(d)) =>
              source[d] = "cached" \/ (source[d] = "provider" /\ freed[d] /\ AnsweredBefore(d)')
        BY <3>3, <3>4, <3>5, <3>6 DEF BaseInv, InHand
      <3>8. PanicsOnlyOnReleasedPipeline /\ crash \subseteq Calls
        BY DEF RangeInv, BaseInv, TypeOK
      <3> QED BY <3>1, <3>6, <3>7, <3>8 DEF PanicsOnlyOnReleasedPipeline
    <2>2. ASSUME crash' = crash, Next PROVE PanicsOnlyOnReleasedPipeline'
      BY <2>2 DEF Next, PanicsOnlyOnReleasedPipeline
    <2>3. UNCHANGED vars => PanicsOnlyOnReleasedPipeline'
      BY DEF vars, callVars, workVars, streamVars, tryVars, RangeInv, AnsweredBefore,
             PanicsOnlyOnReleasedPipeline
    <2>4. ASSUME NEW d \in Calls, CallStep(d) PROVE crash' = crash \/ PostHook(d)
      BY <2>4 DEF CallStep, Caller, Attempting, Worker, Feeder, Begin, TryProvider, PreHook,
              StreamShortCircuit, PreHooksDone, Submit, TakeAnswer, WaitCancelled,
              PostHooksDone, Decide, Fallback, Receive, CallProvider, BeginChunk, EndChunk,
              EndStream, CancelContext
    <2>5. Edit \/ OtherRequest => crash' = crash
      BY OtherSteps
    <2>6. Next => (\E d \in Calls : CallStep(d)) \/ Edit \/ OtherRequest
      BY DEF Next, CallStep
    <2> QED BY <2>1, <2>2, <2>3, <2>4, <2>5, <2>6
  <1> QED BY <1>1, <1>2 DEF RangeInv

\* In every reachable state a pipeline in use is in use once, and the hooks are
\* within their lists.
LEMMA RangeCorrect == Spec => [](MarkInv /\ PoolInv /\ RangeInv)
  BY BaseInit, BaseStep, TargetInit, TargetStep, MarkInit, MarkStep, PoolInit, PoolStep,
     RangeInit, RangeStep, PTL DEF Spec

\* The hooks index the plugin list out of bounds nowhere but in a goroutine that
\* feeds a stream on a pipeline that is back in the pool: a stream a pre-hook
\* answered, whose pipeline tryStreamRequest gave back, or a fallback's stream
\* whose finalizer ran after a chunk that only looked like the last one, because
\* an earlier attempt failed and left its mark.
THEOREM PanicsNeedReleasedPipeline == Spec => []PanicsOnlyOnReleasedPipeline
  BY RangeCorrect, PTL DEF RangeInv

\* A pipeline that tryRequest, tryStreamRequest or the worker of a stream took and
\* has not given back is not in the pool, and nobody else has taken it: however
\* many requests run, however few pipelines there are, and whenever the finalizer
\* of a stream gives its pipeline back.
THEOREM PipelinesAreNotShared == Spec => []PoolInv
  BY RangeCorrect, PTL

-----------------------------------------------------------------------------
(* The lists the hooks run over.                                           *)

\* The initial list holds no instance twice.
LEMMA ListInit == Init => ListInv
  BY FlowAssumption DEF Init, ListInv, Fresh, ListedOnce

\* A change of the plugin list puts no instance there twice.
LEMMA EditListedOnce == ASSUME BaseInv, ListedOnce(plugins), Edit PROVE ListedOnce(plugins')
  <1>t. plugins \in Seq(Plugins)
    BY DEF BaseInv, TypeOK
  <1>1. ASSUME NEW name, RemovePlugin(name) PROVE ListedOnce(plugins')
    <2> DEFINE others == {i \in 1..Len(plugins) : NameOf[plugins[i]] # name}
    <2>0. Cardinality(others) \in Nat
      <3>1. IsFiniteSet(1..Len(plugins)) /\ others \subseteq 1..Len(plugins)
        BY <1>t, FS_Interval
      <3>2. IsFiniteSet(others)
        BY <3>1, FS_Subset
      <3> QED BY <3>2, FS_CardinalityType
    <2> PICK n \in Nat : n = Cardinality(others)
      BY <2>0
    <2>1. PICK f \in [1..n -> others] :
            /\ \A i, j \in 1..n : i < j => f[i] < f[j]
            /\ plugins' = [i \in 1..n |-> plugins[f[i]]]
      BY <1>1 DEF RemovePlugin, StorePlugins
    <2>2. \A i \in 1..n : f[i] \in 1..Len(plugins)
      OBVIOUS
    <2>3. \A i, j \in 1..n : f[i] = f[j] => i = j
      BY <2>1, <2>2
    <2>4. Len(plugins') = n /\ \A i \in 1..n : plugins'[i] = plugins[f[i]]
      BY <2>1
    <2> QED BY <2>2, <2>3, <2>4 DEF ListedOnce
  <1>2. ASSUME NEW p \in Plugins, ReloadPlugin(p) PROVE ListedOnce(plugins')
    <2> DEFINE same == {i \in 1..Len(plugins) : NameOf[plugins[i]] = NameOf[p]}
    <2> PICK k : k = CHOOSE i \in same : \A j \in same : i <= j
      OBVIOUS
    <2>0. \A i \in 1..Len(plugins) : plugins[i] # p
      BY <1>2 DEF ReloadPlugin
    <2>1. CASE plugins' = Append(plugins, p)
      BY <1>t, <2>0, <2>1 DEF ListedOnce
    <2>2. CASE plugins' = [plugins EXCEPT ![k] = p]
      <3>1. /\ Len(plugins') = Len(plugins)
            /\ \A i \in 1..Len(plugins) : plugins'[i] = IF i = k THEN p ELSE plugins[i]
        BY <1>t, <2>2
      <3> QED BY <2>0, <3>1 DEF ListedOnce
    <2> QED BY <1>2, <2>1, <2>2 DEF ReloadPlugin, StorePlugins
  <1>3. ASSUME ReorderPlugins PROVE ListedOnce(plugins')
    <2>1. PICK f \in [1..Len(plugins) -> 1..Len(plugins)] :
            /\ \A i, j \in 1..Len(plugins) : i # j => f[i] # f[j]
            /\ plugins' = [i \in 1..Len(plugins) |-> plugins[f[i]]]
      BY <1>3 DEF ReorderPlugins, StorePlugins
    <2>2. Len(plugins') = Len(plugins)
      BY <1>t, <2>1
    <2>3. \A i \in 1..Len(plugins) : plugins'[i] = plugins[f[i]] /\ f[i] \in 1..Len(plugins)
      BY <2>1
    <2> QED BY <2>1, <2>2, <2>3 DEF ListedOnce
  <1> QED BY <1>1, <1>2, <1>3 DEF Edit

\* A pipeline keeps its list or is given the current one.
LEMMA ListMoves ==
  ASSUME BaseInv, [Next]_vars
  PROVE  \/ /\ plugins' = plugins
            /\ \A p \in Pipelines : list'[p] \in {list[p], plugins}
         \/ Edit /\ list' = list
  <1>t. list \in [Pipelines -> Seq(Plugins)]
    BY DEF BaseInv, TypeOK
  <1>1. ASSUME NEW d \in Calls, CallStep(d)
        PROVE  /\ plugins' = plugins
               /\ \A p \in Pipelines : list'[p] \in {list[p], plugins}
    <2>1. plugins' = plugins
      BY <1>1, OthersStay DEF OnlyCall
    <2>2. \A p \in Pipelines : list'[p] \in {list[p], plugins}
      BY <1>1, <1>t, PoolOwn DEF OwnPool, GetPluginPipeline, ReleasePluginPipeline, poolVars
    <2> QED BY <2>1, <2>2
  <1>2. CASE Edit
    BY <1>2 DEF Edit, RemovePlugin, ReloadPlugin, ReorderPlugins, StorePlugins, poolVars
  <1>3. CASE OtherRequest
    BY <1>3, <1>t DEF OtherRequest, listVars
  <1>4. CASE UNCHANGED vars
    BY <1>4 DEF vars, listVars, poolVars
  <1> QED BY <1>1, <1>2, <1>3, <1>4 DEF Next, CallStep

\* What is known of the lists of the call that takes the step.
LEMMA FreshOwn ==
  ASSUME BaseInv, [Next]_vars, NEW d \in Calls, CallStep(d), Fresh(d) PROVE Fresh(d)'
  <1> USE FlowAssumption, CallDomains
      DEF callVars, hookVars, workVars, streamVars, listVars, poolVars, ctxVars, tryVars
  <1>h. InHand(d) /\ InService(d)
    BY DEF BaseInv
  <1>t. /\ source[d] \in {"none", "provider", "cached"} /\ mine[d] \in Pipelines \cup {None}
        /\ theirs[d] \in Pipelines \cup {None} /\ free \subseteq Pipelines
        /\ list \in [Pipelines -> Seq(Plugins)] /\ late[d] \in BOOLEAN
    BY DEF BaseInv, TypeOK
  <1>l. plugins' = plugins /\ \A p \in Pipelines : list'[p] \in {list[p], plugins}
    BY OthersStay, ListMoves, <1>t, PoolOwn
       DEF OnlyCall, OwnPool, GetPluginPipeline, ReleasePluginPipeline
  <1>1. CASE Begin(d)
    BY <1>1, <1>h, <1>t, <1>l DEF Begin, Goto, Fresh, InHand, InService
  <1>2. CASE TryProvider(d)
    BY <1>2, <1>h, <1>t, <1>l DEF TryProvider, Goto, Fresh, InHand, InService, GetPluginPipeline
  <1>3. CASE PreHook(d)
    BY <1>3, <1>h, <1>t, <1>l DEF PreHook, PreHookOutcome, Stamp, Goto, Fresh, InHand, InService
  <1>4. CASE StreamShortCircuit(d)
    BY <1>4, <1>h, <1>t, <1>l DEF StreamShortCircuit, Leave, Goto, Fresh, InHand, InService
  <1>5. CASE PreHooksDone(d)
    BY <1>5, <1>h, <1>t, <1>l DEF PreHooksDone, Leave, Goto, Fresh, InHand, InService
  <1>6. CASE Submit(d)
    BY <1>6, <1>h, <1>t, <1>l DEF Submit, Leave, Goto, Fresh, InHand, InService
  <1>7. CASE TakeAnswer(d)
    BY <1>7, <1>h, <1>t, <1>l DEF TakeAnswer, Leave, Goto, Fresh, InHand, InService
  <1>8. CASE WaitCancelled(d)
    BY <1>8, <1>h, <1>t, <1>l DEF WaitCancelled, Leave, Goto, Fresh, InHand, InService
  <1>9. CASE PostHook(d)
    BY <1>9, <1>h, <1>t, <1>l DEF PostHook, Meter, Fresh, InHand, InService
  <1>10. CASE PostHooksDone(d)
    BY <1>10, <1>h, <1>t, <1>l DEF PostHooksDone, Leave, Goto, Fresh, InHand, InService
  <1>11. CASE Decide(d)
    <2>1. CASE source[d] = "none"
      <3>1. /\ mine'[d] = None /\ pres'[d] = <<>> /\ posts'[d] = <<>>
            /\ edited'[d] = FALSE /\ late'[d] = FALSE /\ metered'[d] = 0
            /\ own'[d] = FALSE /\ cut'[d] = FALSE
        BY <1>11, <2>1 DEF Decide, Forget
      <3> QED BY <3>1 DEF Fresh
    <2>2. CASE source[d] # "none"
      <3>1. pc[d] = "decide" /\ StopsHere(val[d])
        BY <1>11, <1>h, <2>2 DEF Decide, InHand, StopsHere
      <3>2. pc'[d] = "feed" /\ UNCHANGED <<hookVars, edited, late, ws, theirs>>
        BY <1>11, <2>2, <3>1 DEF Decide, Forget, Return, Goto
      <3> QED BY <1>l, <1>t, <3>2 DEF Fresh
    <2> QED BY <2>1, <2>2
  <1>12. CASE Fallback(d)
    BY <1>12, <1>h, <1>t, <1>l DEF Fallback, NextTarget, Return, Goto, Fresh, InHand, InService
  <1>13. CASE Receive(d)
    BY <1>13, <1>h, <1>t, <1>l DEF Receive, Serve, Send, Fresh, InHand, InService, GetPluginPipeline
  <1>14. CASE CallProvider(d)
    BY <1>14, <1>h, <1>t, <1>l DEF CallProvider, Serve, Send, Fresh, InHand, InService
  <1>15. CASE BeginChunk(d)
    BY <1>15, <1>h, <1>t, <1>l DEF BeginChunk, Goto, Fresh, InHand, InService
  <1>16. CASE EndChunk(d)
    BY <1>16, <1>h, <1>t, <1>l DEF EndChunk, Goto, Fresh, InHand, InService
  <1>17. CASE EndStream(d)
    BY <1>17, <1>h, <1>t, <1>l DEF EndStream, Goto, Fresh, InHand, InService
  <1>18. CASE CancelContext(d)
    BY <1>18, <1>h, <1>t, <1>l DEF CancelContext, Fresh, InHand, InService
  <1> QED
    BY <1>1, <1>2, <1>3, <1>4, <1>5, <1>6, <1>7, <1>8, <1>9, <1>10, <1>11, <1>12, <1>13, <1>14,
       <1>15, <1>16, <1>17, <1>18
       DEF CallStep, Caller, Attempting, Worker, Feeder

\* Every step keeps the lists in use up to date or marks the call.
LEMMA ListStep == BaseInv /\ ListInv /\ [Next]_vars => ListInv'
  <1> SUFFICES ASSUME BaseInv, ListInv, [Next]_vars PROVE ListInv'
    OBVIOUS
  <1>t. /\ mine \in [Calls -> Pipelines \cup {None}] /\ theirs \in [Calls -> Pipelines \cup {None}]
        /\ edited \in [Calls -> BOOLEAN]
    BY DEF BaseInv, TypeOK
  <1>1. ListedOnce(plugins)' /\ \A p \in Pipelines : ListedOnce(list'[p])
    <2>1. CASE plugins' = plugins /\ \A p \in Pipelines : list'[p] \in {list[p], plugins}
      BY <2>1 DEF ListInv, ListedOnce
    <2>2. CASE Edit /\ list' = list
      BY <2>2, EditListedOnce DEF ListInv, ListedOnce
    <2> QED BY <2>1, <2>2, ListMoves
  <1>2. ASSUME NEW c \in Calls PROVE Fresh(c)'
    <2>0. Fresh(c)
      BY DEF ListInv
    <2>1. CASE CallStep(c)
      BY <2>0, <2>1, FreshOwn
    <2>2. ASSUME Same(c), edited'[c] = edited[c], plugins' = plugins,
                 \A p \in Pipelines : list'[p] \in {list[p], plugins}
          PROVE  Fresh(c)'
      BY <1>t, <2>0, <2>2 DEF Fresh, Same
    <2>3. ASSUME NEW d \in Calls, d # c, CallStep(d) PROVE Fresh(c)'
      <3>1. Same(c) /\ edited'[c] = edited[c] /\ plugins' = plugins
        BY <2>3, OthersStay DEF OnlyCall
      <3>2. \A p \in Pipelines : list'[p] \in {list[p], plugins}
        BY <2>3, PoolOwn DEF BaseInv, TypeOK, OwnPool, GetPluginPipeline, ReleasePluginPipeline,
                             poolVars
      <3> QED BY <2>2, <3>1, <3>2
    <2>4. ASSUME Edit \/ OtherRequest \/ UNCHANGED vars PROVE Same(c)
      <3>1. UNCHANGED <<callVars, hookVars, workVars, streamVars, ctxVars, tryVars, metered>>
        BY <2>4, OtherSteps DEF vars
      <3> QED BY <3>1 DEF Same, callVars, hookVars, workVars, streamVars, ctxVars, tryVars
    <2>5. ASSUME Edit PROVE Fresh(c)'
      <3>1. list' = list /\ edited' = [e \in Calls |-> mine[e] # None]
        BY <2>5 DEF Edit, RemovePlugin, ReloadPlugin, ReorderPlugins, StorePlugins, poolVars
      <3> QED BY <2>0, <2>4, <2>5, <3>1 DEF Fresh, Same
    <2>6. ASSUME OtherRequest \/ UNCHANGED vars PROVE Fresh(c)'
      <3>1. edited'[c] = edited[c] /\ plugins' = plugins
            /\ \A p \in Pipelines : list'[p] \in {list[p], plugins}
        BY <2>6 DEF BaseInv, TypeOK, OtherRequest, vars, listVars, poolVars
      <3> QED BY <2>2, <2>4, <2>6, <3>1
    <2> QED BY <2>1, <2>3, <2>5, <2>6 DEF Next, CallStep
  <1>3. ListedOnce(plugins') /\ \A p \in Pipelines : ListedOnce(list'[p])
    BY <1>1 DEF ListedOnce
  <1> QED BY <1>2, <1>3 DEF ListInv

=============================================================================
