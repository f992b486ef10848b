---------------------------- MODULE RequestFlow ----------------------------
(***************************************************************************)
(* A client request through core/deepintshield.go: handleRequest and       *)
(* handleStreamRequest try the primary provider and then the fallbacks;    *)
(* each attempt (tryRequest, tryStreamRequest) takes a plugin pipeline     *)
(* from a pool, runs the pre-hooks, waits for a worker that calls the      *)
(* provider with retries, and runs the post-hooks in reverse.  Meanwhile   *)
(* plugins are removed, reloaded and reordered, and contexts end.          *)
(*                                                                         *)
(* The queue between an attempt and its worker is ProviderQueue; here only *)
(* what it promises is used, the actions of Attempt.  Of the plugins only  *)
(* the governance plugin is told apart: it stamps the workspace and meters *)
(* the answers.                                                            *)
(***************************************************************************)
EXTENDS Integers, Sequences, FiniteSets

CONSTANTS
  Calls,       \* calls of handleRequest / handleStreamRequest
  Cancellable, \* the ones whose context may end
  Fallbacks,   \* Fallbacks[c]: the number of fallbacks the request lists
  Plugins,     \* plugin instances
  NameOf,      \* NameOf[p]: GetName()
  TagOf,       \* TagOf[p]: WorkspaceID(), None for a global instance
  Governance,  \* the governance plugin
  Initial,     \* the plugin lists Init may have been given
  Workspaces,  \* workspaces a virtual key may belong to
  Pipelines,   \* PluginPipeline objects of the sync.Pool
  MaxRetries,  \* NetworkConfig.MaxRetries
  MaxEdits,    \* bound: changes of the plugin list
  MaxChunks,   \* bound: chunks of one stream
  None         \* no pipeline, no workspace, no value

\* A response; an error that lets the fallbacks go on, one that does not
\* (AllowFallbacks is false), and one of type RequestCancelled.
Errors == {"err", "deny", "cancelled"}
Values == {"resp"} \cup Errors

\* A list of plugins holds no instance twice.
ListedOnce(s) == \A i, j \in 1..Len(s) : s[i] = s[j] => i = j

ASSUME FlowAssumption ==
  /\ Cancellable \subseteq Calls
  /\ Fallbacks \in [Calls -> Nat]
  /\ Governance \in Plugins /\ Initial \subseteq Seq(Plugins)
  /\ \A s \in Initial : ListedOnce(s)
  /\ MaxRetries \in Nat /\ MaxEdits \in Nat /\ MaxChunks \in Nat
  /\ None \notin Pipelines /\ None \notin Workspaces /\ None \notin Values

VARIABLES
  stream,   \* stream[c]: c is a handleStreamRequest call
  skips,    \* skips[c]: its context skips the plugin pipeline
  pc,       \* pc[c]: control state of the call
  at,       \* at[c]: the target being tried, 1 for the primary
  val,      \* val[c]: what the attempt has in hand: a response or an error
  own,      \* own[c]: val[c] is the provider's, no plugin put it there
  verdict,  \* verdict[c][i]: what the attempt at target i returned
  res,      \* res[c]: what the call returned, and of which target
  mine,     \* mine[c]: the pipeline of the attempt
  hook,     \* hook[c]: index of the next hook
  pres,     \* pres[c]: plugins whose pre-hook ran in this attempt, in order
  posts,    \* posts[c]: plugins whose post-hook ran, for this answer or chunk
  cut,      \* cut[c]: a short circuit without content stopped the pre-hooks
  count,    \* count[c]: preCount, or pluginCount
  request,  \* request[c]: the pre-hooks' request is not nil
  ws,       \* ws[c]: the workspace in the call's context
  wk,       \* wk[c]: the worker that serves the attempt
  tries,    \* tries[c]: retries the worker made
  answer,   \* answer[c]: what it sent back
  theirs,   \* theirs[c]: the pipeline of the worker of a stream
  freed,    \* freed[c]: the finalizer of the stream released it
  source,   \* source[c]: who feeds the stream the call returned
  chunks,   \* chunks[c]: chunks handled
  plugins,  \* llmPlugins
  edits,    \* changes of llmPlugins so far
  list,     \* list[p]: pipeline.llmPlugins
  free,     \* the pipelines in the pool
  rejected, \* rejected[c]: governanceRejectedContextKey is set
  mark,     \* mark[c]: StreamEndIndicator, and who set it
  metered,  \* metered[c]: how often governance charged the attempt
  done,     \* done[c]: the context of the call has ended
  outcome, called, \* the attempts
  crash,    \* calls whose goroutine panicked
  edited,   \* ghost: llmPlugins changed since the attempt of c began
  late      \* ghost: the stamp changed the decision for an earlier plugin

callVars   == <<stream, skips, pc, at, val, own, verdict, res>>
hookVars   == <<mine, hook, pres, posts, cut, count, request>>
workVars   == <<wk, tries, answer, theirs, freed>>
streamVars == <<source, chunks>>
listVars   == <<plugins, edits, edited>>
poolVars   == <<list, free>>
ctxVars    == <<ws, rejected, mark, done, late>>
tryVars    == <<outcome, called>>

vars == <<callVars, hookVars, workVars, streamVars, listVars, poolVars,
          ctxVars, tryVars, metered, crash>>

Targets(c) == 1..(Fallbacks[c] + 1)

\* The attempts a call may make, one per target.
Tries == UNION {{c} \X Targets(c) : c \in Calls}

A == INSTANCE Attempt WITH Attempts <- Tries

Returned == {"feed", "chunk", "returned"}

\* The indicator is not set, was left behind by a failed attempt, or was set by
\* the provider for its last chunk.  The program cannot tell the last two apart.
Marks == {"none", "stale", "last"}

TypeOK ==
  /\ stream \in [Calls -> BOOLEAN] /\ skips \in [Calls -> BOOLEAN]
  /\ pc \in [Calls -> Returned \cup {"new", "try", "pre", "submit", "wait",
                                     "post", "decide", "fallback"}]
  /\ \A c \in Calls : at[c] \in Targets(c)
  /\ val \in [Calls -> Values \cup {None}] /\ own \in [Calls -> BOOLEAN]
  /\ \A c \in Calls : verdict[c] \in [Targets(c) -> Values \cup {None}]
  /\ \A c \in Calls : res[c] \in [value : Values \cup {None}, of : Targets(c)]
  /\ mine \in [Calls -> Pipelines \cup {None}]
  /\ theirs \in [Calls -> Pipelines \cup {None}] /\ freed \in [Calls -> BOOLEAN]
  /\ hook \in [Calls -> Nat] /\ count \in [Calls -> Nat]
  /\ pres \in [Calls -> Seq(Plugins)] /\ posts \in [Calls -> Seq(Plugins)]
  /\ cut \in [Calls -> BOOLEAN] /\ request \in [Calls -> BOOLEAN]
  /\ wk \in [Calls -> {"none", "queued", "run", "sent"}]
  /\ tries \in [Calls -> 0..MaxRetries]
  /\ answer \in [Calls -> Values \cup {None}]
  /\ source \in [Calls -> {"none", "provider", "cached"}]
  /\ chunks \in [Calls -> 0..MaxChunks]
  /\ plugins \in Seq(Plugins) /\ edits \in 0..MaxEdits
  /\ list \in [Pipelines -> Seq(Plugins)] /\ free \subseteq Pipelines
  /\ ws \in [Calls -> Workspaces \cup {None}]
  /\ rejected \in [Calls -> BOOLEAN] /\ done \in [Calls -> BOOLEAN]
  /\ mark \in [Calls -> Marks] /\ metered \in [Calls -> Nat]
  /\ crash \subseteq Calls
  /\ edited \in [Calls -> BOOLEAN] /\ late \in [Calls -> BOOLEAN]

\* Some requests have been served: the pooled pipelines have been used.
Init ==
  /\ stream \in [Calls -> BOOLEAN] /\ skips \in [Calls -> BOOLEAN]
  /\ pc = [c \in Calls |-> "new"] /\ at = [c \in Calls |-> 1]
  /\ val = [c \in Calls |-> None] /\ own = [c \in Calls |-> FALSE]
  /\ verdict = [c \in Calls |-> [i \in Targets(c) |-> None]]
  /\ res = [c \in Calls |-> [value |-> None, of |-> 1]]
  /\ mine = [c \in Calls |-> None] /\ theirs = [c \in Calls |-> None]
  /\ hook = [c \in Calls |-> 0] /\ count = [c \in Calls |-> 0]
  /\ pres = [c \in Calls |-> <<>>] /\ posts = [c \in Calls |-> <<>>]
  /\ cut = [c \in Calls |-> FALSE] /\ request = [c \in Calls |-> TRUE]
  /\ wk = [c \in Calls |-> "none"] /\ tries = [c \in Calls |-> 0]
  /\ answer = [c \in Calls |-> None] /\ freed = [c \in Calls |-> FALSE]
  /\ source = [c \in Calls |-> "none"] /\ chunks = [c \in Calls |-> 0]
  /\ plugins \in Initial /\ edits = 0
  /\ list = [p \in Pipelines |-> plugins] /\ free = Pipelines
  /\ ws \in [Calls -> Workspaces \cup {None}]
  /\ rejected = [c \in Calls |-> FALSE] /\ done = [c \in Calls |-> FALSE]
  /\ mark = [c \in Calls |-> "none"] /\ metered = [c \in Calls |-> 0]
  /\ crash = {}
  /\ edited = [c \in Calls |-> FALSE] /\ late = [c \in Calls |-> FALSE]
  /\ A!Init

-----------------------------------------------------------------------------
(* The steps several operations share.                                     *)

Goto(c, where) == pc' = [pc EXCEPT ![c] = where]

\* Faulty variant of GetPluginPipeline: the pooled object keeps its list.
GetPluginPipelineStale(p) == free' = free \ {p} /\ UNCHANGED list

\* pluginPipelinePool.Get() may return any pooled object.
GetPluginPipeline(p) ==
  /\ free' = free \ {p}
  /\ list' = [list EXCEPT ![p] = plugins]

\* The deferred releasePluginPipeline: the object keeps its list until it is
\* taken again.
ReleasePluginPipeline(p) == free' = free \cup {p} /\ UNCHANGED list

\* What feeds a stream runs the hooks on the pipeline of the worker, or of the
\* attempt that returned the cached stream.
Feeding(c) == IF source[c] = "provider" THEN theirs[c] ELSE mine[c]

\* The pipeline the hooks of c run on.
Using(c) == IF pc[c] = "chunk" THEN Feeding(c) ELSE mine[c]

\* Faulty variant of ListOf: the hooks follow the list of the moment.
ListOfNow(c) == plugins

\* The plugins the hooks of c run over.
ListOf(c) == IF skips[c] THEN <<>> ELSE list[Using(c)]

\* shouldRunPluginForRequestWorkspace: an instance tagged with the request's
\* workspace shadows the global instances of the same name.
ShouldRun(p, all, w) ==
  IF TagOf[p] = None
  THEN \A j \in 1..Len(all) :
         all[j] # p /\ NameOf[all[j]] = NameOf[p] => w = None \/ TagOf[all[j]] # w
  ELSE TagOf[p] = w

\* "Defensive: ensure count is within valid bounds"
RunFrom(n, all) == IF n > Len(all) THEN Len(all) ELSE n

\* tryRequest returns v: its verdict, and its pipeline goes back.
Leave(c, v) ==
  /\ val' = [val EXCEPT ![c] = v]
  /\ Goto(c, "decide")
  /\ ReleasePluginPipeline(mine[c])

-----------------------------------------------------------------------------
(* The attempt: tryRequest and tryStreamRequest.                           *)

\* handleRequest: validateRequest, then the primary provider.
Begin(c) ==
  /\ pc[c] = "new"
  /\ \/ Goto(c, "try") /\ UNCHANGED res
     \/ Goto(c, "returned") /\ res' = [res EXCEPT ![c].value = "err"]
  /\ UNCHANGED <<stream, skips, at, val, own, verdict, hookVars, workVars, streamVars, listVars,
                 poolVars, ctxVars, tryVars, metered, crash>>

\* getProviderQueue fails before any hook runs, or a pipeline is taken.
TryProvider(c) ==
  /\ pc[c] = "try"
  /\ \/ /\ A!Reject(<<c, at[c]>>)
        /\ val' = [val EXCEPT ![c] = "err"] /\ Goto(c, "decide")
        /\ UNCHANGED <<hookVars, poolVars>>
     \/ \E p \in free :
          /\ GetPluginPipeline(p)
          /\ mine' = [mine EXCEPT ![c] = p]
          /\ hook' = [hook EXCEPT ![c] = 1]
          /\ Goto(c, "pre")
          /\ UNCHANGED <<pres, posts, cut, count, request, val, tryVars>>
  /\ UNCHANGED <<stream, skips, at, own, verdict, res, workVars, streamVars, listVars,
                 ctxVars, metered, crash>>

\* evaluateGovernanceRequest adopts the workspace of the virtual key when the
\* context has none.
Stamp(c, p) ==
  LET all == ListOf(c)
  IN  \/ UNCHANGED <<ws, late>>
      \/ /\ p = Governance /\ ws[c] = None
         /\ \E w \in Workspaces :
              /\ ws' = [ws EXCEPT ![c] = w]
              /\ late' = [late EXCEPT ![c] = \E j \in 1..hook[c] :
                            ShouldRun(all[j], all, None) # ShouldRun(all[j], all, w)]

\* What a pre-hook may do: pass a request on, short-circuit with a response or an
\* error, or short-circuit with neither (an empty one, or a stream for a request
\* that is none): the pre-hooks end there and the request goes on.  The last hook
\* to run may also return nil; what a later plugin does with a nil request is its
\* own matter and left out.  Governance passes the request on or refuses it, and
\* may mark the context then.
PreHookOutcome(c, p) ==
  \/ /\ \E empty \in IF p = Governance THEN {FALSE} ELSE BOOLEAN :
          /\ cut' = [cut EXCEPT ![c] = empty]
          /\ \E ok \in IF p # Governance /\ (empty \/ hook[c] = Len(ListOf(c)))
                      THEN BOOLEAN ELSE {TRUE} :
               request' = [request EXCEPT ![c] = ok]
     /\ hook' = [hook EXCEPT ![c] = @ + 1]
     /\ UNCHANGED <<pc, val, count, rejected>>
  \/ \E v \in IF p = Governance THEN {"err"} ELSE {"resp", "err", "deny"} :
       /\ val' = [val EXCEPT ![c] = v]
       /\ count' = [count EXCEPT ![c] = hook[c]]
       /\ Goto(c, "post")
       /\ \/ UNCHANGED rejected
          \/ p = Governance /\ rejected' = [rejected EXCEPT ![c] = TRUE]
       /\ UNCHANGED <<hook, cut, request>>

\* One turn of RunLLMPreHooks.
PreHook(c) ==
  LET all == ListOf(c)
      p   == all[hook[c]]
  IN  /\ pc[c] = "pre" /\ ~cut[c] /\ hook[c] <= Len(all)
      /\ IF ShouldRun(p, all, ws[c])
         THEN /\ pres' = [pres EXCEPT ![c] = Append(@, p)]
              /\ Stamp(c, p)
              /\ PreHookOutcome(c, p)
         ELSE /\ hook' = [hook EXCEPT ![c] = @ + 1]
              /\ UNCHANGED <<pc, val, cut, count, request, pres, ws, late, rejected>>
      /\ UNCHANGED <<stream, skips, at, own, verdict, res, mine, posts, workVars, streamVars,
                     listVars, poolVars, mark, done, tryVars, metered, crash>>

\* A pre-hook short-circuits a stream with a stream (the semantic cache does):
\* the goroutine that feeds it keeps the pipeline the deferred release puts
\* back into the pool.
StreamShortCircuit(c) ==
  LET all == ListOf(c)
      p   == all[hook[c]]
  IN  /\ pc[c] = "pre" /\ ~cut[c] /\ hook[c] <= Len(all) /\ stream[c]
      /\ ShouldRun(p, all, ws[c]) /\ p # Governance
      /\ pres' = [pres EXCEPT ![c] = Append(@, p)]
      /\ count' = [count EXCEPT ![c] = hook[c]]
      /\ source' = [source EXCEPT ![c] = "cached"]
      /\ Leave(c, "resp")
      /\ A!Reject(<<c, at[c]>>)
      /\ UNCHANGED <<stream, skips, at, own, verdict, res, mine, hook, posts, cut, request,
                     workVars, chunks, listVars, ctxVars, metered, crash>>

\* The pre-hooks are through; "request after plugin hooks cannot be nil".
PreHooksDone(c) ==
  /\ pc[c] = "pre" /\ (cut[c] \/ hook[c] > Len(ListOf(c)))
  /\ IF request[c]
     THEN Goto(c, "submit") /\ UNCHANGED <<val, poolVars, tryVars>>
     ELSE Leave(c, "err") /\ A!Reject(<<c, at[c]>>)
  /\ UNCHANGED <<stream, skips, at, own, verdict, res, hookVars, workVars, streamVars, listVars,
                 ctxVars, metered, crash>>

\* The queue takes the message, and pluginCount is read; or it turns the
\* message away (shutting down, full, or the context ended meanwhile) with an
\* error of no type, and no post-hook runs.
Submit(c) ==
  /\ pc[c] = "submit"
  /\ \/ /\ wk' = [wk EXCEPT ![c] = "queued"]
        /\ count' = [count EXCEPT ![c] = Len(plugins)]
        /\ Goto(c, "wait")
        /\ UNCHANGED <<val, poolVars, tryVars>>
     \/ /\ A!Reject(<<c, at[c]>>)
        /\ Leave(c, "err")
        /\ UNCHANGED <<wk, count>>
  /\ UNCHANGED <<stream, skips, at, own, verdict, res, mine, hook, pres, posts, cut, request,
                 tries, answer, theirs, freed, streamVars, listVars, ctxVars, metered, crash>>

\* The answer arrives.  A stream is returned as it is: its post-hooks run chunk
\* by chunk.  Anything else goes through the post-hooks; for the error of a
\* stream the context is marked ("Marking final chunk") and the plugins are
\* counted only now.
TakeAnswer(c) ==
  LET n == IF stream[c] THEN Len(plugins) ELSE count[c]
  IN  /\ pc[c] = "wait" /\ answer[c] # None
      /\ A!Answer(<<c, at[c]>>)
      /\ IF stream[c] /\ answer[c] = "resp"
         THEN /\ source' = [source EXCEPT ![c] = "provider"]
              /\ Leave(c, "resp")
              /\ UNCHANGED <<own, hook, mark>>
         ELSE /\ val' = [val EXCEPT ![c] = answer[c]]
              /\ own' = [own EXCEPT ![c] = TRUE]
              /\ mark' = [mark EXCEPT ![c] = IF stream[c] THEN "stale" ELSE @]
              /\ hook' = [hook EXCEPT ![c] = RunFrom(n, ListOf(c))]
              /\ Goto(c, "post")
              /\ UNCHANGED <<source, poolVars>>
      /\ wk' = [wk EXCEPT ![c] = "none"]
      /\ answer' = [answer EXCEPT ![c] = None]
      /\ UNCHANGED <<stream, skips, at, verdict, res, mine, pres, posts, cut, count, request,
                     tries, theirs, freed, chunks, listVars, ws, rejected, done, late, metered,
                     crash>>

\* case <-ctx.Done(): tryStreamRequest has none.
WaitCancelled(c) ==
  /\ pc[c] = "wait" /\ done[c] /\ ~stream[c]
  /\ A!Abandon(<<c, at[c]>>)
  /\ Leave(c, "cancelled")
  /\ UNCHANGED <<stream, skips, at, own, verdict, res, hookVars, workVars, streamVars, listVars,
                 ctxVars, metered, crash>>

\* The usage a post-hook of governance charges: of a response, of a stream only
\* when the chunk looks like the last one.  A response, also one a plugin put
\* there, has the type of its request.
Chargeable(c) == val[c] = "resp" /\ (stream[c] => mark[c] # "none")

\* Faulty variant of Meter: every request waits for the mark of a last chunk.
MeterMarked(c, p) ==
  metered' = IF p = Governance /\ ~rejected[c] /\ val[c] = "resp" /\ mark[c] # "none"
             THEN [metered EXCEPT ![c] = @ + 1] ELSE metered

\* Faulty variant of Meter: every chunk is charged.
MeterChunks(c, p) ==
  metered' = IF p = Governance /\ ~rejected[c] /\ val[c] = "resp"
             THEN [metered EXCEPT ![c] = @ + 1] ELSE metered

\* Governance's post-hook charges the answer, unless the context is marked as
\* rejected; UpdateUsage passes over whatever is not a response.  A response that
\* a plugin made up may name no model and is passed over then.
Meter(c, p) ==
  IF p = Governance /\ ~rejected[c] /\ Chargeable(c)
  THEN \/ metered' = [metered EXCEPT ![c] = @ + 1]
       \/ ~own[c] /\ UNCHANGED metered
  ELSE UNCHANGED metered

\* One turn of RunPostLLMHooks.  The list is read again at every turn: on a
\* pipeline that somebody else took meanwhile it may have become shorter.  A
\* post-hook may recover from an error, invalidate a response or replace it;
\* governance leaves both alone.
PostHook(c) ==
  LET all == ListOf(c)
      p   == all[hook[c]]
  IN  /\ pc[c] \in {"post", "chunk"} /\ hook[c] > 0
      /\ IF hook[c] > Len(all)
         THEN /\ crash' = crash \cup {c}
              /\ UNCHANGED <<hook, posts, val, own, metered>>
         ELSE /\ hook' = [hook EXCEPT ![c] = @ - 1]
              /\ IF ShouldRun(p, all, ws[c])
                 THEN /\ posts' = [posts EXCEPT ![c] = Append(@, p)]
                      /\ Meter(c, p)
                      /\ \/ UNCHANGED <<val, own>>
                         \/ /\ p # Governance
                            /\ \E v \in {"resp", "err", "deny"} : val' = [val EXCEPT ![c] = v]
                            /\ own' = [own EXCEPT ![c] = FALSE]
                 ELSE UNCHANGED <<posts, val, own, metered>>
              /\ UNCHANGED crash
      /\ UNCHANGED <<stream, skips, pc, at, verdict, res, mine, pres, cut, count, request,
                     workVars, streamVars, listVars, poolVars, ctxVars, tryVars>>

\* The post-hooks of an answer or a short circuit are through.
PostHooksDone(c) ==
  /\ pc[c] = "post" /\ hook[c] = 0
  /\ Leave(c, val[c])
  /\ IF outcome[<<c, at[c]>>] = "open"
     THEN A!Reject(<<c, at[c]>>) ELSE UNCHANGED tryVars
  /\ UNCHANGED <<stream, skips, at, own, verdict, res, hookVars, workVars, streamVars, listVars,
                 ctxVars, metered, crash>>

-----------------------------------------------------------------------------
(* handleRequest and handleStreamRequest.                                  *)

\* Faulty variant of StopsHere: a cancelled request goes on.
StopsHereUncancelled(v) == v \in {"resp", "deny"}

\* Faulty variant of StopsHere: AllowFallbacks is not looked at.
StopsHereAllowing(v) == v \in {"resp", "cancelled"}

\* shouldTryFallbacks and shouldContinueWithFallbacks say no.
StopsHere(v) == v \in {"resp", "cancelled", "deny"}

\* Faulty variant of LastTarget: one fallback too many.
LastTargetBeyond(c, i) == i > Fallbacks[c] + 1

LastTarget(c, i) == i = Fallbacks[c] + 1

\* Return the verdict of target i; a stream goes on being fed.
Return(c, i, v) ==
  /\ res' = [res EXCEPT ![c] = [value |-> v, of |-> i]]
  /\ Goto(c, IF source[c] = "none" THEN "returned" ELSE "feed")
  /\ UNCHANGED at

\* "All providers failed, return the original error"
NextTarget(c, first) ==
  IF LastTarget(c, at[c])
  THEN Return(c, 1, first)
  ELSE at' = [at EXCEPT ![c] = @ + 1] /\ Goto(c, "fallback") /\ UNCHANGED res

\* The variables of tryRequest are gone; what feeds a stream keeps them.
Forget(c) ==
  IF source[c] = "none"
  THEN /\ val' = [val EXCEPT ![c] = None] /\ mine' = [mine EXCEPT ![c] = None]
       /\ hook' = [hook EXCEPT ![c] = 0] /\ count' = [count EXCEPT ![c] = 0]
       /\ pres' = [pres EXCEPT ![c] = <<>>] /\ posts' = [posts EXCEPT ![c] = <<>>]
       /\ own' = [own EXCEPT ![c] = FALSE] /\ cut' = [cut EXCEPT ![c] = FALSE]
       /\ request' = [request EXCEPT ![c] = TRUE]
       /\ edited' = [edited EXCEPT ![c] = FALSE]
       /\ late' = [late EXCEPT ![c] = FALSE]
       /\ metered' = [metered EXCEPT ![c] = 0]
  ELSE UNCHANGED <<val, own, hookVars, edited, late, metered>>

Decide(c) ==
  /\ pc[c] = "decide"
  /\ verdict' = [verdict EXCEPT ![c][at[c]] = val[c]]
  /\ IF StopsHere(val[c])
     THEN Return(c, at[c], val[c])
     ELSE NextTarget(c, verdict'[c][1])
  /\ Forget(c)
  /\ UNCHANGED <<stream, skips, workVars, streamVars, plugins, edits, poolVars,
                 ws, rejected, mark, done, tryVars, crash>>

\* prepareFallbackRequest: a fallback without configuration is passed over.
\* clearCtxForFallback forgets the chosen key and nothing else: the refusal of
\* governance and the end mark of a failed stream stay in the context.
Fallback(c) ==
  /\ pc[c] = "fallback"
  /\ \/ Goto(c, "try") /\ UNCHANGED <<at, res, tryVars>>
     \/ A!Reject(<<c, at[c]>>) /\ NextTarget(c, verdict[c][1])
  /\ UNCHANGED <<stream, skips, val, own, verdict, hookVars, workVars, streamVars, listVars,
                 poolVars, ctxVars, metered, crash>>

-----------------------------------------------------------------------------
(* The worker: requestWorker and executeRequestWithRetries.                *)

\* Faulty variant of Send: an error may be dropped.
SendDropsErrors(c, v) ==
  \/ answer' = [answer EXCEPT ![c] = v]
  \/ v # "resp" /\ UNCHANGED answer

\* The select that sends the result, the error or the stream; when the context
\* has ended it may choose not to.
Send(c, v) ==
  \/ answer' = [answer EXCEPT ![c] = v]
  \/ done[c] /\ UNCHANGED answer

\* The end of an attempt's service.  The pipeline of a failed stream is released
\* at once.
Serve(c, v) ==
  /\ wk' = [wk EXCEPT ![c] = "sent"] /\ tries' = [tries EXCEPT ![c] = 0]
  /\ Send(c, v)
  /\ IF v # "resp" /\ theirs[c] # None
     THEN ReleasePluginPipeline(theirs[c]) /\ theirs' = [theirs EXCEPT ![c] = None]
     ELSE UNCHANGED <<theirs, poolVars>>

\* The worker takes the message: no key, or it goes on, and for a stream takes
\* a pipeline.
Receive(c) ==
  /\ wk[c] = "queued"
  /\ \/ Serve(c, "err")
     \/ /\ wk' = [wk EXCEPT ![c] = "run"]
        /\ IF stream[c]
           THEN \E p \in free :
                  GetPluginPipeline(p) /\ theirs' = [theirs EXCEPT ![c] = p]
           ELSE UNCHANGED <<theirs, poolVars>>
        /\ UNCHANGED <<tries, answer>>
  /\ UNCHANGED <<callVars, hookVars, freed, streamVars, listVars, ctxVars, tryVars,
                 metered, crash>>

\* One turn of the retry loop.  An error worth a retry is tried again up to
\* MaxRetries times, also when the context has ended.
CallProvider(c) ==
  /\ wk[c] = "run"
  /\ IF called[<<c, at[c]>>] = 0 THEN A!Call(<<c, at[c]>>) ELSE UNCHANGED tryVars
  /\ \/ \E v \in {"resp", "err"} : Serve(c, v)
     \/ done[c] /\ Serve(c, "cancelled")
     \/ /\ tries[c] < MaxRetries /\ tries' = [tries EXCEPT ![c] = @ + 1]
        /\ UNCHANGED <<wk, answer, theirs, poolVars>>
  /\ UNCHANGED <<callVars, hookVars, freed, streamVars, listVars, ctxVars, metered, crash>>

-----------------------------------------------------------------------------
(* The goroutine that feeds a stream after the call has returned.          *)

\* The post-hooks of one chunk: the runner of a provider's stream counts the
\* plugins anew, the one of a cached stream uses preCount.  Whoever feeds the
\* stream sets the end mark before its last chunk, the only one that may be an
\* error (HandleStreamCancellation: a mark that is set already silences it).
BeginChunk(c) ==
  LET n == IF source[c] = "provider" THEN Len(plugins) ELSE count[c]
  IN  /\ pc[c] = "feed" /\ chunks[c] < MaxChunks /\ mark[c] # "last"
      /\ chunks' = [chunks EXCEPT ![c] = @ + 1]
      /\ posts' = [posts EXCEPT ![c] = <<>>]
      /\ \E last \in BOOLEAN :
           /\ mark' = [mark EXCEPT ![c] = IF last THEN "last" ELSE @]
           /\ \E v \in IF last THEN {"resp", "err"} ELSE {"resp"} :
                val' = [val EXCEPT ![c] = v]
      /\ own' = [own EXCEPT ![c] = source[c] = "provider"]
      /\ hook' = [hook EXCEPT ![c] =
                    IF skips[c] THEN 0 ELSE RunFrom(n, list[Feeding(c)])]
      /\ Goto(c, "chunk")
      /\ UNCHANGED <<stream, skips, at, verdict, res, mine, pres, cut, count, request, workVars,
                     source, listVars, poolVars, ws, rejected, done, late, tryVars, metered,
                     crash>>

\* Faulty variant of Finalizes: every chunk completes the span.
FinalizesEarly(c) == source[c] = "provider" /\ ~freed[c]

\* ProcessAndSendResponse completes the deferred span after a chunk when the mark
\* is set, once.
Finalizes(c) == source[c] = "provider" /\ ~freed[c] /\ mark[c] # "none"

\* A chunk is through.  Completing the span runs the finalizer, which releases the
\* worker's pipeline, also when the mark is an old one and more chunks come.  The
\* span is not completed when the context ended first or the request has no trace.
EndChunk(c) ==
  /\ pc[c] = "chunk" /\ hook[c] = 0
  /\ Goto(c, "feed")
  /\ \/ /\ Finalizes(c)
        /\ ReleasePluginPipeline(theirs[c])
        /\ freed' = [freed EXCEPT ![c] = TRUE]
     \/ UNCHANGED <<freed, poolVars>>
  /\ UNCHANGED <<stream, skips, at, val, own, verdict, res, hookVars, wk, tries, answer, theirs,
                 streamVars, listVars, ctxVars, tryVars, metered, crash>>

\* The stream is closed, with or without a last chunk.
EndStream(c) ==
  /\ pc[c] = "feed"
  /\ Goto(c, "returned")
  /\ UNCHANGED <<stream, skips, at, val, own, verdict, res, hookVars, workVars, streamVars,
                 listVars, poolVars, ctxVars, tryVars, metered, crash>>

-----------------------------------------------------------------------------
(* The administrator and the client.                                       *)

\* The compare-and-swap that ends each of the three operations.
StorePlugins(new) ==
  /\ edits < MaxEdits /\ new # plugins
  /\ plugins' = new /\ edits' = edits + 1
  /\ edited' = [c \in Calls |-> mine[c] # None]
  /\ UNCHANGED <<callVars, hookVars, workVars, streamVars, poolVars, ctxVars,
                 tryVars, metered, crash>>

\* The others stay, in their order.
RemovePlugin(name) ==
  LET others == {i \in 1..Len(plugins) : NameOf[plugins[i]] # name}
      n      == Cardinality(others)
  IN  \E f \in [1..n -> others] :
        /\ \A i, j \in 1..n : i < j => f[i] < f[j]
        /\ StorePlugins([i \in 1..n |-> plugins[f[i]]])

\* A new instance replaces the first one of its name; a new name is appended.
ReloadPlugin(p) ==
  LET same == {i \in 1..Len(plugins) : NameOf[plugins[i]] = NameOf[p]}
  IN  /\ \A i \in 1..Len(plugins) : plugins[i] # p
      /\ StorePlugins(IF same = {} THEN Append(plugins, p)
                      ELSE [plugins EXCEPT ![CHOOSE i \in same : \A j \in same : i <= j] = p])

\* A stable sort by the position of the name.
ReorderPlugins ==
  \E f \in [1..Len(plugins) -> 1..Len(plugins)] :
    /\ \A i, j \in 1..Len(plugins) : i # j => f[i] # f[j]
    /\ \A i, j \in 1..Len(plugins) :
         i < j /\ NameOf[plugins[f[i]]] = NameOf[plugins[f[j]]] => f[i] < f[j]
    /\ StorePlugins([i \in 1..Len(plugins) |-> plugins[f[i]]])

\* The other requests of the process take pooled pipelines and give them back.
\* It matters to a stream that is fed on one: whoever takes a pipeline gives it a
\* list of its own.
OtherRequest ==
  /\ \E c \in Calls :
       /\ pc[c] \in {"feed", "chunk"} /\ Feeding(c) \in free
       /\ list' = [list EXCEPT ![Feeding(c)] = plugins]
  /\ UNCHANGED <<callVars, hookVars, workVars, streamVars, listVars, free, ctxVars,
                 tryVars, metered, crash>>

CancelContext(c) ==
  /\ c \in Cancellable /\ ~done[c] /\ pc[c] \notin {"new", "returned"}
  /\ done' = [done EXCEPT ![c] = TRUE]
  /\ UNCHANGED <<callVars, hookVars, workVars, streamVars, listVars, poolVars, ws,
                 rejected, mark, late, tryVars, metered, crash>>

-----------------------------------------------------------------------------
Attempting(c) ==
  \/ TryProvider(c) \/ PreHook(c) \/ StreamShortCircuit(c) \/ PreHooksDone(c)
  \/ Submit(c) \/ TakeAnswer(c) \/ WaitCancelled(c) \/ PostHook(c) \/ PostHooksDone(c)

Caller(c) == Attempting(c) \/ Decide(c) \/ Fallback(c)

Worker(c) == Receive(c) \/ CallProvider(c)

Feeder(c) == BeginChunk(c) \/ EndChunk(c) \/ EndStream(c)

Edit ==
  \/ \E p \in Plugins : RemovePlugin(NameOf[p]) \/ ReloadPlugin(p)
  \/ ReorderPlugins

Next ==
  /\ crash = {}
  /\ \/ \E c \in Calls :
          Begin(c) \/ Caller(c) \/ Worker(c) \/ Feeder(c) \/ CancelContext(c)
     \/ Edit \/ OtherRequest

Spec == Init /\ [][Next]_vars

\* The goroutine of a call and the worker that serves it are scheduled.
FairSpec ==
  Spec /\ \A c \in Calls : WF_vars(crash = {} /\ Caller(c)) /\ WF_vars(crash = {} /\ Worker(c))

-----------------------------------------------------------------------------
(* Properties.                                                             *)

\* handleRequest "will try each fallback provider in order until one succeeds":
\* the call returns the first response, or the first error that forbids to go
\* on, or else the primary's error; nothing is tried after the one it returns.
ResultIsRight ==
  \A c \in Calls : pc[c] \in Returned /\ verdict[c][1] # None =>
    LET stops == {i \in Targets(c) : verdict[c][i] \in {"resp", "deny", "cancelled"}}
        first == CHOOSE i \in stops : \A j \in stops : i <= j
    IN  IF stops = {}
        THEN /\ res[c] = [value |-> verdict[c][1], of |-> 1]
             /\ \A i \in Targets(c) : outcome[<<c, i>>] # "open"
        ELSE /\ res[c] = [value |-> verdict[c][first], of |-> first]
             /\ \A i \in Targets(c) : i > first =>
                  outcome[<<c, i>>] = "open" /\ called[<<c, i>>] = 0

\* A target is sent upstream only after every earlier one is closed, and never
\* after one whose caller walked away (RequestCancelled ends the request): the
\* client's request is never with two providers at once.
OneProviderAtATime ==
  \A c \in Calls : \A i, j \in Targets(c) :
    i < j /\ called[<<c, j>>] > 0 => outcome[<<c, i>>] \in {"rejected", "answered"}

\* "for every PreLLMHook executed, the corresponding PostLLMHook will be called
\* in reverse order": so it is when post-hooks run at all, no plugin changed since
\* the attempt began and governance did not stamp a workspace that changes the
\* decision for a plugin before it.  Post-hooks of other plugins run, first, only
\* when a short circuit without content stopped the pre-hooks.
HooksPaired ==
  \A c \in Calls :
    pc[c] \in {"post", "chunk"} /\ hook[c] = 0 /\ ~edited[c] /\ ~late[c] =>
      LET more == Len(posts[c]) - Len(pres[c])
      IN  /\ more = 0 \/ (cut[c] /\ more > 0)
          /\ \A i \in 1..Len(pres[c]) : posts[c][more + i] = pres[c][Len(pres[c]) + 1 - i]

\* Whatever happens to the plugin list, tryRequest runs a post-hook at most once
\* and, unless a short circuit without content stopped the pre-hooks, only of a
\* plugin whose pre-hook ran in the same attempt.
PostHookNeedsPreHook ==
  \A c \in Calls : ~stream[c] /\ pc[c] = "post" /\ ~late[c] =>
    \A i \in 1..Len(posts[c]) :
      /\ cut[c] \/ \E k \in 1..Len(pres[c]) : pres[c][k] = posts[c][i]
      /\ \A j \in 1..Len(posts[c]) : posts[c][j] = posts[c][i] => j = i

\* A provider's response that reaches the client as no plugin's but the provider's
\* was charged by the governance plugin that admitted the attempt, unless plugins
\* changed meanwhile or an earlier attempt of the call was refused: the mark of
\* the refusal stays in the context.
AnswersAreMetered ==
  \A c \in Calls :
    /\ ~stream[c] /\ pc[c] = "decide" /\ own[c] /\ val[c] = "resp"
    /\ \E i \in 1..Len(pres[c]) : pres[c][i] = Governance
    /\ ~edited[c] /\ ~late[c] /\ ~rejected[c]
    => metered[c] > 0

\* An earlier attempt of the call was answered: for a stream, with an error.
AnsweredBefore(c) == \E i \in Targets(c) : i < at[c] /\ outcome[<<c, i>>] = "answered"

\* Governance charges an attempt at most once.  The exceptions are streams: one on
\* a pipeline that is back in the pool, whose list may change under the hooks, and
\* the stream of a fallback after a failed attempt, whose every chunk looks like
\* the last one.
ChargedOnce ==
  \A c \in Calls : metered[c] > 1 => source[c] = "cached" \/ AnsweredBefore(c)

\* The hooks run off the end of the plugin list only in the goroutine that feeds a
\* stream on a pipeline that is back in the pool: a cached stream, or the stream of
\* a fallback whose first chunk completed the span because of the mark that a
\* failed attempt left in the context.
PanicsOnlyOnReleasedPipeline ==
  \A c \in crash :
    \/ source[c] = "cached"
    \/ source[c] = "provider" /\ freed[c] /\ AnsweredBefore(c)

\* Every call returns.  The exception is a stream whose context ended: nobody
\* may answer it any more and tryStreamRequest does not listen.
EveryCallReturns ==
  \A c \in Calls :
    pc[c] = "try" ~> (pc[c] \in Returned \/ crash # {} \/ (stream[c] /\ done[c]))

=============================================================================
