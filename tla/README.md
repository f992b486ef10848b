# A TLA+ development of the DeepIntShield gateway

DeepIntShield is an AI gateway written in Go. A request for a model comes in through the HTTP
transport, passes the plugins (governance, guardrails, caching, logging), is queued for the
provider it names, is sent upstream with one of that provider's API keys, and falls back to other
providers when that fails. This directory holds specifications of the parts of the gateway whose
correctness depends on interleavings, failures and time, the configurations that model-check them
with TLC, and proofs checked by TLAPS. `PROJECT.json` is the machine-readable index: components,
runs, mutants, the map from definitions to source lines, findings, hazards and theorems.

Paths below are relative to `src/deepintshield_server/`.

## 1. Inventory

### The parts that are modelled

| Part | State it keeps | Operations | Why it is hard | What makes it correct |
|---|---|---|---|---|
| Provider queues, `core/deepintshield.go` | per provider: a channel with a `closing` flag and a `done` channel, a WaitGroup, workers, a write lock, a pool of `ChannelMessage` | `tryRequest`, `tryStreamRequest`, `requestWorker`, `getProviderQueue`, `prepareProvider`, `UpdateProvider`, `RemoveProvider`, `Shutdown` | producers find the queue under a lock but send to it without one; three operations close it; messages are pooled; contexts end at any time | no request is lost, run twice or answered with another's result; producers and operations return; nobody sends on a closed channel |
| Key health, `core/key_load_tracker.go` | per key: active calls, consecutive errors, circuit state, opening time, all atomics | `IsCircuitOpen`, `RecordSuccess`, `RecordError`, `IncrementActive`, `DecrementActive` | no lock: every atomic operation may interleave with every other worker's | counters are exact, circuits move in order, an open circuit ends, pins are honoured |
| Session stickiness, `selectKeyFromProviderForModel` | one KV entry per session | look up, refresh, delete stale, claim, re-read | each store call is atomic, the sequence is not; entries expire | one session uses one key while it can, and never an unusable one |
| Distributed lock, `framework/configstore/dlock.go`, `rdb.go` | a row per lock key; a local flag | `Lock`, `LockWithRetry`, `TryLock`, `Extend`, `IsHeld`, `Unlock`, cleanup | leases expire under their holder, replies are lost, processes die | running leases exclude each other; nobody touches a live row but its holder |
| Request flow, `core/deepintshield.go` | per call: the target being tried, the errors so far, a context shared by all attempts | `handleRequest`, `handleStreamRequest`, `tryRequest`, `tryStreamRequest`, `executeRequestWithRetries` | errors from plugins, queue, worker and provider decide alike whether the next provider is tried; contexts end between any two steps | the right result is returned; no two providers work on one request; every call returns |
| Plugin pipeline, `core/deepintshield.go` | a list of plugins behind an atomic pointer; pooled `PluginPipeline` objects that hold a copy of it | `RunLLMPreHooks`, `RunPostLLMHooks`, `removeLLMPlugin`, `reloadLLMPlugin`, `ReorderPlugins` | lists change under running requests; pipelines go back to the pool while streams use them; governance changes what the filter sees; marks of a failed attempt stay in the context of the next | post-hooks mirror pre-hooks; answers are charged, once; no index runs off a list |
| Governance counters, `plugins/governance` | budgets and rate limits in `sync.Map`s, a row of each in the database | `Check...`, `Update...UsageInMemory`, the reset worker, dumps, edits of a key, start-up resets | entries are loaded, copied and stored without a lock, by requests, the worker and edits; usage and reset time reach the database at different times | no overcounting, no unjustified refusal, memory and database agree in the end |

### How they interact

`tryRequest` (a producer) looks up the provider's queue, runs the plugin pre-hooks, takes a
`ChannelMessage` from a pool, sends it to the channel and waits on the message's own response and
error channels. A worker receives the message, asks `selectKeyFromProviderForModel` for a key (which
filters by circuit, honours pins, consults the KV store for a session), calls the provider with
retries, tells the `KeyLoadTracker` how it went, and answers through the message's channels.
`UpdateProvider` and `RemoveProvider` close the channel under the workers and the producers.
Around an attempt, `handleRequest` decides from its result whether to try the next provider, and the
plugin pipeline runs before and after it; the governance plugin checks its counters in the pre-hook
and charges them, in a goroutine of its own, after the post-hook. Instances of the gateway that
share a database coordinate start-up work (governance resets, pricing
synchronisation) with the distributed lock. The modules are separate because the shared state is:
the queue does not depend on which key is selected (any answer or a key error), the breaker does not
depend on how a worker got its request, and the session entry depends on the breaker only through
the set of keys left by the filter, which `SessionStickiness` leaves open. Two modules are composed:
`Attempt` says what one attempt promises, `ProviderQueue` is shown to implement it and `RequestFlow` is
built from its actions. `RequestFlow` knows of governance that it stamps the workspace, may refuse and
meters; what the counters then do is `Governance`.

### The parts that are not modelled

`PROJECT.json` lists each with its reason. In short: provider adapters, schemas, transports, log
and config stores, catalogs, the semantic cache, the guard runtime, the CLI and the UI are data
conversion, SQL or I/O around the core. They are most of the repository's lines (the provider
adapters, handlers and migrations alone are several times the size of what is modelled) and have
little state that outlives a request. What is left with state and concurrency of its own: the MCP
client manager (reconnection against removal), the maps of virtual keys, teams and customers in the
governance store, the guardrails plugin's speculative evaluation, and the async jobs. Replication of
the KV store is not modelled because nothing in the repository activates it: no code sets a delegate
or calls `SetRemote` or `DeleteRemote`.

Besides the hazards of `PROJECT.json`, these were met and left aside, because no state of the models
tells a right outcome from a wrong one or because nothing in the repository promises one: key errors
sent on a released message block the worker (`core/deepintshield.go` 5103, the model's hung worker);
of two concurrent updates the older configuration may be installed (3254); plugin `Cleanup` during
requests that still hold the instance (2920); every selection, not one probe, passes a half-open
circuit (`core/key_load_tracker.go` 140); lock holders that never extend their lease
(`plugins/governance/main.go` 190); concurrent checks that all pass before any is charged
(`store.go` 479); `Cleanup` of the tracker that flushes nothing (`tracker.go` 305, the model's `Stop`);
a virtual key stored back by the reset worker after it was deleted (`store.go` 3132); async jobs left
pending by a crash (`framework/logstore/asyncjob.go` 156).

## 2. Modules

| Module | Models | Run by | Proved in |
|---|---|---|---|
| `ProviderQueue` | the life of one provider's queue | `MCProviderQueue` | `ProviderQueueProofs`, `ProviderQueueMessageProofs` |
| `CircuitBreaker` | key health and the circuit filter | `MCCircuitBreaker` | `CircuitBreakerProofs` |
| `SessionStickiness` | concurrent key selections for one session | `MCSessionStickiness` | `SessionStickinessProofs` |
| `DistributedLock` | the lease lock over one database row | `MCDistributedLock` | `DistributedLockProofs` |
| `Attempt` | what one attempt promises to the flow around it | refined in `MCProviderQueue`, used in `MCRequestFlow` | the refinement: `ProviderQueueMessageProofs` |
| `RequestFlow` | calls with fallbacks, retries, plugins and the pipeline pool | `MCRequestFlow` | `RequestFlowProofs`, `RequestFlowHookProofs` |
| `Governance` | the usage counters of budgets and rate limits | `MCGovernance` | `GovernanceProofs` |

In every module the definitions named *Faulty variant of X* are not part of the specification: they
are the plausible bugs (a dropped guard, a missing reset, an off-by-one) that each property is shown
to catch, by replacing X with them.

### ProviderQueue

Queues are named by generation, 1, 2, ...: the n-th `ProviderQueue` object made for the provider.
Everything is keyed by provider, so one provider is enough. A request is one attempt (one call of
`tryRequest` or `tryStreamRequest`); `rpc[r]` follows its control through `getProviderQueue` (read
lock, then write lock), the pre-hooks, the two `isClosing` checks, the two selects and the final wait.
A worker is `worker[q][i]`: idle, busy with a message, called, hung on a nil channel, or exited.

What is abstracted, and what is not:
- `signalClosing` sets the flag and closes `done` in one step: a producer that sees the flag only
  would return the same error one statement earlier.
- The response, error and stream channels of a message are one slot per *owner*. A message that has
  gone back to the pool has no owner; a message that was reused has a new one, which is how an answer
  can reach the wrong request. `content[m]` is the request copied into the message; `release` does not
  clear it, nor does the model.
- A producer parked in the blocking select is woken by `close(done)` and is handed the free place by
  a receive, in the same step as that close or receive, as the Go runtime does. A producer that is
  about to evaluate its select sees every ready case, including a send to a closed channel.
- `Shutdown` takes no lock and interleaves with everything, including the transfer of
  `UpdateProvider`, which then can receive the nil message of a drained closed channel.
- An unrecovered panic ends the process: `crash` is set and nothing happens afterwards.
- The overflow goroutine of `UpdateProvider` cannot deliver (no worker serves the new queue before
  `UpdateProvider` has waited for it), so its send always times out; `UpdateOverflow` says so.

### CircuitBreaker

A step is one atomic operation. `IsCircuitOpen` is a load (`Filter`), a load of the opening time
(`Opened`) and a compare-and-swap (`Probe`); `RecordSuccess` is a store and a compare-and-swap;
`RecordError` is an add, two compare-and-swaps and the stores that follow them. `ErrorCount` saturates
at the threshold and the age of an opening at the cooldown, because the code only compares them with
these. The keys are those that support the model; there are at least two, since the filter does not
run for one.

### SessionStickiness

One entry with a remaining life. The store's operations are atomic under its mutex; an expired entry
is absent to every one of them. `usable[w]` is what the circuit filter left to selection `w`, any set
of at least two keys. `keySelector` may fail (`SelectorFails`); the request then ends with its error and
nothing is stored. `touched[w]` is a history variable: somebody else deleted or replaced the entry
since `w` began.

### DistributedLock

A holder is one `DistributedLock` object. Reading the clock, running a statement and getting its
reply are separate steps. A statement may fail without effect, or take effect and lose its reply.
`lease[h]`, a history variable, is the expiry `h` was last told of. Clocks are synchronised, which
the code assumes too (it writes and compares `time.Now().UTC()` of different machines).

### Attempt, and what ProviderQueue has to do with it

`Attempt` has two variables: how an attempt ended for its caller and whether it was sent upstream. An
attempt that was turned away is never sent; one that was answered is not sent any more; one that was
abandoned may still be sent, once. `RejectAll` turns several away in one step: `signalClosing` closes
`done`, which wakes every producer parked on the queue. `ProviderQueue!ImplementsAttempt` is the
refinement: `Outcome(r)`
maps the control state and the answer of a producer to the abstract outcome, `called` is the same
variable. It is checked for producers whose contexts live; with cancellation the pooled message may
be reused (finding 2), and the refinement fails for the same reason `AnswersAreOwn` does. The
theorem `QueueImplementsAttempt` is a little stronger than the run: streams may be cancelled, since
`tryStreamRequest` does not give its message back when its context ends.

### RequestFlow

A call `c` tries targets `1..Fallbacks[c] + 1`; `pc[c]` follows it through the attempt (`try`, `pre`,
`submit`, `wait`, `post`) and back to the decision. `wk[c]` is the worker that serves the attempt:
when a call leaves an attempt because its context ended, `WaitCancelled` leaves the worker running, as
in the code. A stream that was returned goes on in `feed` and `chunk`: the goroutine of the provider
uses the worker's pipeline (`theirs`), the goroutine of a cached stream the attempt's (`mine`), which
is back in the pool by then.

- A value is a response or one of three errors: one that lets fallbacks go on, one that does not, one
  of type RequestCancelled. That is all the flow looks at.
- Plugins other than governance may do in a hook whatever the interface allows: pass on, answer,
  refuse with or without permission to fall back, recover, invalidate, replace. A short circuit may
  also carry neither a response nor an error (an empty one, or a stream for a request that is none):
  `RunLLMPreHooks` stops, `tryRequest` finds nothing to return and sends the request to the provider,
  and the post-hooks of *all* plugins run. `cut` remembers it. Left out is only what a plugin does with
  a nil request an earlier one handed it.
- Governance is told apart because it stamps the workspace, marks the context when it refuses, and
  charges. `Meter` charges a response and nothing else: `UpdateUsage` returns when the request did not
  succeed, and success is `result != nil` (`plugins/governance/main.go` 1370). The post-hooks that run
  before governance's (guardrails' do: its order is higher) may have turned the provider's response
  into an error, which is then not charged. `metered[c]` counts the charges of an attempt. The requests
  of the model name a model, and so do the answers of providers; a response a plugin made up may not,
  and is passed over (1208). Requests without a model, ListModels for one, are never charged.
- `mark` is `StreamEndIndicator` in the context shared by all attempts of a call. Whoever feeds a stream
  sets it before the last chunk (`"last"`); that provider adapters set it for no other chunk is an
  assumption about code outside the model. `tryStreamRequest` sets it for the error of a failed stream
  (`"stale"`), and `clearCtxForFallback` does not remove it. The code cannot tell the two apart:
  `ProcessAndSendResponse` completes the deferred span after a chunk when the mark is set
  (`Finalizes`), and the finalizer releases the worker's pipeline (`freed`). With a stale mark that
  happens after the first chunk of a fallback's stream, and the later ones run on a pipeline that is
  back in the pool; governance takes each of them for the last one. A span that was completed, or a
  request without a trace, completes none.
- `PostHook` reads the list of the pipeline at every turn, as `p.llmPlugins[i]` does. `crash` stands for
  the panic of an index out of range; nothing happens afterwards.
- `OtherRequest` stands for all other traffic: it takes a pooled pipeline and gives it back, which
  replaces the pipeline's list by the current one.
- `removeLLMPlugin` keeps the other plugins in their order, which the model says with an
  order-preserving function from the new positions to the old ones. `reloadLLMPlugin` is given a new
  instance (the server's `ReloadPlugin` instantiates one each time), so no list ever holds the same
  instance twice; `FlowAssumption` says the same of the lists `Init` is given.
- `edited` and `late` are history variables: the plugin list changed during the attempt; the stamp of
  governance changed the filter's decision for a plugin already passed.

### Governance

An entry of a map holds one counter (a budget: cost) or two (a rate limit: tokens and requests), each
with its usage and the time of its last reset. A load and a store are separate steps, everywhere. The
constants `Checks` and `Updates` list the calls of a request and the entries each call visits, in
order: which provider, model, user, key, team and customer they belong to is data. `spent` is a history
variable, what was charged to a counter at time t or later. The worker's four parts (reset rate limits,
reset budgets, dump rate limits, dump budgets) end in a transaction that may fail. `Stop` covers a
crash and an orderly stop, which write the same: nothing. The start loads the rows and performs the
start-up resets (or another instance holds their lock and they are skipped). The reset worker runs from
the creation of the tracker on, before these resets and across them; the resets themselves are one
step. The maps keep their entries: an edit that takes a budget or a rate limit away from a virtual key
or from one of its provider configurations deletes the entry (`store.go` 2490-2492, 2509-2511,
2536-2560), which is not modelled; an update that loaded it before stores it back. A refusal is one by a
budget or a rate limit; the ones for a missing, inactive or expired key, a blocked model or provider
(`main.go` 1000-1074, `resolver.go`) do not depend on counters.

## 3. Runs

| Run | Shows | Bounds |
|---|---|---|
| `pq_safety` | `WaitGroupCountsWorkers`, `OneGeneration`, `NoLostRequest`, `ParkedNeverOnClosed`, `TypeOK` | 2 cancellable requests, 2 messages, 1 worker per generation, buffer 1, 3 generations, 2 operations, key and creation failures |
| `pq_live` | `CalledAtMostOnce`, `RejectedNeverCalled`, `AnswersAreOwn`, `NoStrandedMessage`, `ImplementsAttempt`, `EveryRequestReturns`, `OperationsReturn` | a request and a stream with live contexts, buffer 1, 2 generations, 1 operation and Shutdown, key failures |
| `pq_send_on_closed` | violation of `NoSendOnClosedChannel` | no cancellation, no failures |
| `pq_reuse` | violation of `AnswersAreOwn` | cancellable requests |
| `pq_stream` | violation of `EveryRequestReturns` | one cancellable stream |
| `circuit_breaker` | `ActiveCountsCalls`, `OpenIsStamped`, `CircuitMovesInOrder`, `OpenEnds`, `TypeOK` | 2 workers, 2 keys, threshold 2, cooldown 1 tick, one pinnable key |
| `circuit_pins` | violation of `PinBypassesFilter` | threshold 1 |
| `session_stickiness` | `StickyKeyIsStored`, `SelectedIsUsable`, `TypeOK` | 3 selections, 3 keys, TTL 2 |
| `distributed_lock` | `LeaseIsExclusive`, `LeaseIsCovered`, `LiveRowIsItsHolders`, `IsHeldIsTrue`, `TypeOK` | 2 holders, TTL 2, 1 retry, time up to 4, failing statements |
| `request_flow` | `ResultIsRight`, `OneProviderAtATime`, `HooksPaired`, `PostHookNeedsPreHook`, `AnswersAreMetered`, `ChargedOnce`, `PanicsOnlyOnReleasedPipeline`, `EveryCallReturns`, `TypeOK` | 1 call (stream or not, with plugins or without, with a workspace or not), 2 fallbacks, 1 retry, 2 plugins (governance, alone or after one of a workspace), 2 pipelines, 1 change of the list (removal, reload of a new name, reordering), 2 chunks |
| `governance` | `NeverOvercounted`, `RejectedOnlyWhenSpent`, `CountersSettle`, `TypeOK` | 2 requests, 1 rate limit and 1 budget, limit 1, durations 1 and 2, time up to 1, 2 attempts, 1 edit or stop |
| `governance_lost` | violation of `NoUsageIsLost` | the same without edits and stops, limit 2 |

Why these bounds are enough. Two requests and a buffer of one make every capacity case happen: room,
full, parked, dropped, overflow during a transfer; three generations and two operations put an
operation behind an operation, and a lazily created queue between them. `TypeOK` includes the
capacity of the channel. Two messages for two requests are what reuse needs, and a request never
waits for a message (`sync.Pool` allocates), so there are at least as many messages as requests. In
the breaker, two workers are what a race needs, threshold 2 distinguishes a first error from the one
that trips, and two keys the filter's cases (none, some or all open). Three selections are the
deleter, the claimer and the loser of the claim. For the lock, time reaches twice the TTL, so a
lease can expire under its holder and the next one be granted, extended and expire as well.
In the flow, two fallbacks distinguish the first from the last and a skipped from a tried one; calls do
not share state but for the pool and the plugin list, and `OtherRequest` does to these what any number
of other calls would; two plugins are what order, the workspace filter and a list that grows or shrinks
by one need (shadowing of a global instance by a workspace's own, and a reload that replaces one, take
a third; the theorems cover them); two pipelines are the attempt's and its stream's; two chunks are one
after the chunk that completed the span, which takes the fallback's stream off the list it ran over,
and the second charge. In governance, two requests are what a lost
update needs, one clock tick makes the token and cost counters expire and not the request counter of
the same entry (durations 1 and 2), and limit 1 makes a refusal possible after one charge.

`CHECK_DEADLOCK FALSE` appears where the system really may stop: in `ProviderQueue` every request may
have returned, or the process crashed; in `DistributedLock` every process may be dead at the end of
time; in `RequestFlow` the call may have returned or the process have crashed.

Fairness. `FairSpec` of `ProviderQueue` has weak fairness for each producer, each worker, the
operation under way and a `Shutdown` under way: goroutines the Go scheduler runs, blocked only on
the modelled conditions. An upstream call ends because the HTTP client has a timeout. Nothing obliges
an operator to call an operation, or a context to end. `CircuitBreaker` has weak fairness for the
clock and for each worker, including that it begins
another request: `OpenEnds` says nothing about a provider nobody uses, since a circuit leaves the open
state only when a selection looks at it.
`RequestFlow` has weak fairness for the goroutine of each call and for its worker: hooks return, the
provider call has a timeout and the number of retries is finite. The stream of an ended context is
excepted in `EveryCallReturns`, because of finding 3. `Governance` has weak fairness for requests and
edits under way, for the worker (the ticker fires) and for the start of a stopped process, and strong
fairness for each dump: a transaction may fail, but not every one for ever.

### Disagreements between code and comments

1. **Send on a closed channel** (`pq_send_on_closed`). A producer checks `isClosing`, then an
   operation signals and closes the queue, then the producer evaluates its select: both the send and
   `done` are ready, and the send panics. The comments at `core/deepintshield.go` 91-93 and 4453 say
   the pattern prevents this.
2. **Pooled message reuse** (`pq_reuse`). A context that ends while the answer is awaited releases the
   message although the queue or a worker refers to it; the next request reuses the object and
   receives the first one's result. The comment at 6088 says values are cleared "to avoid leaking
   between requests".
3. **A stream that never returns** (`pq_stream`). The worker drops a stream whose context is done; the
   final select of `tryStreamRequest` does not listen to the context, though the worker's comment says
   the select is there "to prevent deadlock".
4. **Pins and the circuit filter** (`circuit_pins`). The comment at 6437 says pins bypass the filter;
   they are looked up in what the filter left.
5. **Lost usage** (`governance_lost`). Two charges that overlap between `Load` and `Store` of the same
   entry: one of them disappears. The comments call the update atomic (`tracker.go` 138, `store.go`
   1203). `NeverOvercounted` shows that the error only goes in this direction: it bounds the counters
   from above, so charges that a reset or an edit erases are not its matter either.

Six more have no run of their own; they are the exceptions in the properties of `request_flow`, and
the model reaches each:
- `core/schemas/plugin.go` 188 says that for every pre-hook executed the post-hook will be called. An
  attempt that the queue turns away, or that is cancelled while it waits, returns without post-hooks,
  and a plugin list that shrank meanwhile shortens the post-hooks (`HooksPaired` is about attempts
  whose post-hooks run and whose plugins did not change).
- `core/deepintshield.go` 249-252 and 5798-5802 say the workspace in the context is stable, so that the
  post-hook loop agrees with the pre-hook loop. It is stamped by governance's pre-hook; a workspace
  plugin that stands before governance is skipped on the way in and run on the way out (`late`).
- The mark of a refusal by governance stays in the context. When a fallback is then admitted, it is
  served and not charged (`rejected` in `AnswersAreMetered`).
- 4652 says a runner is created because the pipeline is put back into the pool; the runner still uses
  that pipeline, and indexes past the list when a shorter one was put into it meanwhile (`source` in
  `PanicsOnlyOnReleasedPipeline` and `ChargedOnce`).
- 5176 says the pipeline of a stream is released "not before streaming completes". After a failed
  attempt the end mark is set already and the first chunk of the fallback's stream releases it
  (`AnsweredBefore` in `PanicsOnlyOnReleasedPipeline` and `ChargedOnce`).
- `core/schemas/plugin_native.go` 19-25 says a short circuit has a response, a stream or an error. One
  that has none of those the attempt can use does not stop the request but stops the pre-hooks, and the
  post-hooks of plugins that were never asked run (`cut` in `HooksPaired` and `PostHookNeedsPreHook`).

`AnswersAreOwn` and `EveryRequestReturns` hold when no context ends (`pq_live`), and are violated
when one may (`pq_reuse`, `pq_stream`): cancellation is exactly what breaks them.

## 4. Proofs

All theorems hold for every value of the constants under the assumptions named in the modules
(`ConstantsAssumption`, in `Governance` `GovernanceAssumption` and `NoEntryAssumption`, in
`RequestFlow` `FlowAssumption`): finite sets of workers and keys, positive capacities, thresholds and
TTLs, and model values distinct from the sets they are added to.

`ProviderQueueProofs`: `TypeCorrect`, `WaitGroupsAreExact`, `GenerationsDoNotOverlap`. The last two
come from one inductive invariant, `LifeInv`. `WaitGroupCountsWorkers` alone is not inductive,
because a worker's `Done` goes to the WaitGroup stored *at exit*. What makes it right is that the only
generation that can have live workers is the stored one (`StoredGeneration`), and that the stored
WaitGroup is only replaced after a `Wait` has shown it empty, by whoever holds the lock (`LockInv`,
`PhaseInv`: which phases of an operation may hold the lock, and what `registered` and `wgStored` are in
each).

`ProviderQueueMessageProofs` is about the messages. Four inductive invariants, each on top of the
previous ones:
- `QueueInv`: a channel is closed only after its `done` was (`SignalledInv`), and nobody is parked on a
  queue that was signalled (`ParkedInv`). `ParkedProducersAreSafe` follows.
- `MessageInv`: a producer that took a message from the pool owns it and its content (`OwnInv`), every
  message that is under way carries a request (`CarryInv`), and `NoLostRequest`, which is inductive
  with them. `NoRequestIsLost` needs no hypothesis: cancellation, failing creation and reuse included.
- `FlightInv`: a message that is anywhere (a channel, a worker, the overflow goroutine) has a waiting
  owner (`AwaitedInv`), is in one place only (`OnePlaceInv`), belongs to a request not called before
  (`UncalledInv`), and the numbers of calls fit the producers' states (`CallInv`). From it
  `AnswersAreTheirOwn`, `NobodyIsCalledTwice`, `RejectedAreNotCalled` and the refinement
  `QueueImplementsAttempt`. Their hypothesis is `Cancellable \subseteq Streams`: a `tryRequest` whose
  context ends while it waits gives back a message that is still queued (finding 2). Without it each
  of them is false: TLC finds a counterexample with two cancellable requests (the run `pq_reuse` keeps
  the one to `AnswersAreOwn`).
- `DrainInv`: the generations that are neither registered nor being replaced are drained
  (`GenerationInv`), what an operation in each phase has replaced and closed (`OperationInv`), and a
  worker leaves its range loop only over a drained queue (`ExitedInv`). `NoMessageIsStranded` follows
  for providers with at least one worker whose creation succeeds; a generation without workers has
  nobody to drain it, and TLC finds a stranded message when creation may fail.

The refinement proof maps `Init` to `Attempt!Init` and goes through the actions: most stutter, the ones
that end a producer's wait map to `Answer`, `Abandon` or `RejectAll`, the worker's call to `Call`,
which is enabled because the message's owner is still waiting and was not called.

`CircuitBreakerProofs`: `ActiveIsExact`, `TypeCorrect`, `OpenGetsStamped`, `CircuitsMoveInOrder`.
`ShapeInv` says a worker past selection has a key and the breaker's values are in range;
`ActiveCountsCalls` is inductive relative to it, by the cardinality of the set of calling workers
growing and shrinking by one. The bounds of `active` in `TypeOK` follow from that count: it cannot be
proved from the types alone.

`DistributedLockProofs`: `TypeCorrect`, `LeasesAreCovered`, `LeasesExclude`, `LiveRowsBelong`,
`IsHeldTellsTheTruth`. Exclusion follows from `LeaseIsCovered`: a running lease is backed by the
holder's own row with at least that expiry. An extension whose reply was lost may make the row outlive
the lease, never the reverse, because expiries are computed from a clock that does not go back.
`IsHeldIsTrue` needs `SeenIsCurrent`: the row read by `IsHeld` cannot be changed by anyone before it
expires, since its holder is busy comparing.

`SessionStickinessProofs`: `TypeCorrect`, `SelectionsAreUsable`, `StickyKeysAreStored`. `TypeOK` is not
inductive by itself: that an entry with life left is never `None` depends on a refresh having a key,
which is part of `ChosenIsUsable` (a selection past its lookup holds one of its own keys). The two are
proved inductive together. Stickiness adds `StickyInv`: an undisturbed selection has an open store, the
key it looked up or stored is the entry, and when it lost the claim there is an entry to re-read.

`GovernanceProofs`: `TypeCorrect`, `CountersAreHonest` (`NeverOvercounted`), `RefusalsAreDue`
(`RejectedOnlyWhenSpent`). `NeverOvercounted` speaks of the maps, but what gets into a map is a copy
somebody loaded earlier. The inductive invariant says the same of every copy that may still be stored
or compared (`Honest`: in the map, loaded by a request, by the worker, by an edit of the key) and the
weaker `HonestRow` of rows and of the copies the worker will persist, whose reset time may be older
than their usage. Copies stay honest because the history only grows and the clock does not go back
(`Later`); zeroing keeps them so, and an addition is made to the copy and to the history in one step.
`ControlOK` says that a request has loaded what it is about to compare or store. A refusal is due
because a counter that has not expired was reset after `WindowStart`, and the history is larger the
earlier it starts. The proofs assume what the code's callers provide: a call of a `Check` or `Update`
function visits at least one entry (a call without entries does nothing and is left out of `Checks`
and `Updates`). The lost updates of disagreement 5 are not excluded by any of this: the theorems bound
the counters from above only.

`RequestFlowProofs` holds for any number of calls, fallbacks, plugins, pipelines and retries, from
`FlowAssumption` alone:
- `BaseInv` is `TypeOK` with what each control state implies: which pipelines and values a call has in
  hand (`InHand`) and what the worker that serves it has (`InService`). `TypeCorrect`.
- `TargetInv` relates `at`, the verdicts and the outcomes: the targets before the current one failed and
  are closed, the ones after it are untouched (`Passed`), the current attempt is open exactly where the
  code may still end it (`Current`), and what a returned call returned (`Settled`). `ResultsAreRight`
  and `ProvidersTakeTurns` follow; the first uses that a nonempty set of naturals has a least element.
- `PoolInv`: a pipeline that was taken and not given back is out of the pool and has one user
  (`PipelinesAreNotShared`). It is what keeps the list of a running attempt as it was: only somebody who
  takes a pipeline replaces its list. It says nothing of a pipeline that was given back and is still
  used, by a cached stream or by a stream whose finalizer ran early.
- `MarkInv`: a stale mark comes from an attempt that was answered with an error, a finalizer ran only
  with a mark set, and a stream that goes on after it is a fallback's after such an attempt (`Marked`).
- `RangeInv` adds that the next hook is within the list, wherever the pipeline was not given back.
  `PanicsNeedReleasedPipeline` follows from it and `MarkInv`.
- `ListInv`: no list holds an instance twice, through all edits, and the lists of an attempt that saw no
  edit are the current one (`Fresh`).

`RequestFlowHookProofs` adds `HookInv`. `HooksPaired` speaks of the end of the post-hooks; what holds all
along is that the pre-hooks that ran are those among the first n plugins that the workspace filter
admits, in order (`Ran`, with a function from the sequence of pre-hooks to positions in the list), and
that the post-hooks so far have undone the last of them, down to the position of the next hook
(`Undone`). The facts about `Ran` and `Undone` are lemmas about sequences alone (`RanOne`, `RanSkip`,
`RanStamp`, `UndoStart`, `UndoOne`, `UndoSkip`, `UndoEnd`): no induction over the list is needed, since
each turn of the loops is a step. An edit may make the post-hooks start too early in the list, never
too late, which is why `PostHooksHaveTheirPreHook` needs no exception for edits and `PreHooksArePaired`
does. After a short circuit without content the post-hooks begin with those of plugins that were not
asked; `Undone` counts them (its parameter `e`, zero otherwise). That no post-hook runs twice is a fact
about positions in the list and holds also then (`Above`: the post-hooks so far are of plugins beyond
the next hook, in reverse). `AnswersAreAccountedFor` carries along that governance's pre-hook is either
still to be undone or its charge made. `AttemptsAreChargedOnce` rests on `ChargeInv`: as long as neither
a cached stream nor an answered earlier attempt is involved, a charge is made by a post-hook of
governance in the answer's run, or in the run of the chunk that carries the mark; before that run
nothing was charged, within it at most once because `Above` lists governance once, and no chunk follows
the marked one.

Only model-checked: liveness (`EveryRequestReturns`, `OperationsReturn`, `OpenEnds`, `EveryCallReturns`,
`CountersSettle`) is outside what the prover handles. Every invariant and every action property of a
passing run, and the refinement, is a theorem; `CalledAtMostOnce`, `RejectedNeverCalled`,
`AnswersAreOwn`, `NoStrandedMessage` and `ImplementsAttempt` under the hypotheses named above.

## 5. Plan

Done: the provider queue, the breaker, stickiness, the lock, governance counters, the request flow
with its plugin pipeline, the refinement of `Attempt`, and the proofs listed in section 4. Next, in
order:
1. Failing creation in `ProviderQueue`: what still holds of a queue that was registered without workers,
   a weaker form of `NoStrandedMessage` that needs no hypothesis.
2. Extensions: clock skew in `DistributedLock`, the configuration an update installs in
   `ProviderQueue`, the MCP client manager, the maps of keys and teams in `Governance`.
