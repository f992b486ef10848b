---------------------------- MODULE ProviderQueue ----------------------------
(***************************************************************************)
(* The request path of one provider in core/deepintshield.go: the          *)
(* ProviderQueue a producer (tryRequest, tryStreamRequest) sends its       *)
(* ChannelMessage to, the workers that drain it, the WaitGroup that counts *)
(* them, the pool the messages come from, and the three operations that    *)
(* close a queue: RemoveProvider, UpdateProvider and Shutdown.             *)
(*                                                                         *)
(* A queue is named by its generation: the n-th ProviderQueue created for  *)
(* this provider is n.  Everything here is per provider key (the mutex,    *)
(* the queue, the WaitGroup), so one provider is the whole story.          *)
(*                                                                         *)
(* A request here is one attempt, one entry of tryRequest: the retries     *)
(* inside the upstream call and the fallbacks around the attempt are not   *)
(* part of this module.                                                    *)
(***************************************************************************)
EXTENDS Integers, Sequences, FiniteSets

CONSTANTS
  Requests,      \* calls of tryRequest / tryStreamRequest
  Streams,       \* the ones that are tryStreamRequest calls
  Cancellable,   \* the ones whose context may be cancelled or time out
  Msgs,          \* ChannelMessage objects of the sync.Pool
  Slots,         \* Concurrency: the workers of one generation
  BufferSize,    \* capacity of a queue channel
  MaxQueues,     \* bound: queues created over the provider's life
  MaxOps,        \* bound: RemoveProvider and UpdateProvider calls
  CreateMayFail, \* may createBaseProvider return an error?
  KeyMayFail,    \* may key selection return an error?
  None           \* no request, no message; also the nil *ChannelMessage

ASSUME ConstantsAssumption ==
  /\ IsFiniteSet(Slots)
  /\ Streams \subseteq Requests /\ Cancellable \subseteq Requests
  /\ BufferSize \in Nat \ {0}
  /\ MaxQueues \in Nat \ {0}
  /\ MaxOps \in Nat
  /\ CreateMayFail \in BOOLEAN /\ KeyMayFail \in BOOLEAN
  /\ None \notin Requests /\ None \notin Msgs
  /\ "free" \notin Requests /\ "admin" \notin Requests

VARIABLES
  registered, \* the queue in requestQueues, 0 when there is no entry
  created,    \* how many queues were created
  queue,      \* queue[q]: the channel's buffer
  closing,    \* closing[q]: the closing flag is set and done is closed
  closed,     \* closed[q]: the channel is closed
  worker,     \* worker[q][i]: control state of worker i of queue q
  wmsg,       \* wmsg[q][i]: the message it holds
  wjob,       \* wjob[q][i]: the request whose upstream result it holds
  wgStored,   \* the WaitGroup in waitGroups, by generation, 0 when absent
  wg,         \* wg[q]: counter of the WaitGroup made for generation q
  instances,  \* instances of this provider in the providers slice
  mutex,      \* holder of the provider's write lock
  rpc,        \* rpc[r]: control state of the producer
  pq,         \* pq[r]: the queue getProviderQueue returned to it
  msg,        \* msg[r]: its ChannelMessage
  owner,      \* owner[m]: the request whose channels m carries, None in the pool
  content,    \* content[m]: the request copied into m last (never cleared)
  resp,       \* resp[r]: the request whose result is in r's channels
  ctxDone,    \* ctxDone[r]: its context is done
  calls,      \* calls[r]: upstream calls made for r, counted up to 2
  apc, aold, aheld, ops, \* the RemoveProvider/UpdateProvider call under way
  spc, sq,    \* Shutdown
  crash       \* an unrecovered panic ended the process

reqVars   == <<rpc, pq, msg, resp, ctxDone>>
poolVars  == <<owner, content>>
chanVars  == <<queue, closing, closed>>
workVars  == <<worker, wmsg, wjob, calls>>
regVars   == <<registered, created, wgStored, wg, instances, mutex>>
adminVars == <<apc, aold, aheld, ops>>
shutVars  == <<spc, sq>>

vars == <<reqVars, poolVars, chanVars, workVars, regVars, adminVars, shutVars, crash>>

Queues == 1..MaxQueues

\* Control states of a producer that has returned to its caller.
Rejected == {"shutdown", "queueCancelled", "dropped"}
Finished == Rejected \cup {"answered", "cancelled", "noProvider", "shortCircuit"}

Live == {"idle", "busy", "called", "hung"}

LiveSlots(q) == {i \in Slots : worker[q][i] \in Live}

RegistryType ==
  /\ registered \in 0..MaxQueues /\ created \in 0..MaxQueues
  /\ wgStored \in 0..MaxQueues /\ wg \in [Queues -> Int]
  /\ instances \in Nat
  /\ mutex \in Requests \cup {"free", "admin"}

ChannelType ==
  /\ queue \in [Queues -> Seq(Msgs \cup {None})]
  /\ \A q \in Queues : Len(queue[q]) <= BufferSize
  /\ closing \in [Queues -> BOOLEAN] /\ closed \in [Queues -> BOOLEAN]

WorkerType ==
  /\ worker \in [Queues -> [Slots -> Live \cup {"none", "exited"}]]
  /\ wmsg \in [Queues -> [Slots -> Msgs \cup {None}]]
  /\ \A q \in Queues, i \in Slots :
       worker[q][i] \in {"busy", "called"} => wmsg[q][i] # None
  /\ wjob \in [Queues -> [Slots -> Requests \cup {None}]]
  /\ calls \in [Requests -> 0..2]

RequestType ==
  /\ rpc \in [Requests -> Finished \cup {"start", "lock", "create", "prehook",
                "check", "select", "recheck", "select2", "blocked", "waiting"}]
  /\ pq \in [Requests -> 0..MaxQueues]
  /\ msg \in [Requests -> Msgs \cup {None}]
  /\ resp \in [Requests -> Requests \cup {None}]
  /\ ctxDone \in [Requests -> BOOLEAN]

PoolType ==
  /\ owner \in [Msgs -> Requests \cup {None}]
  /\ content \in [Msgs -> Requests \cup {None}]

ControlType ==
  /\ apc \in {"idle", "removeSignal", "removeClose", "removeWait", "prepare",
              "updSignal", "updTransfer", "updOverflow", "updClose", "updWait",
              "updCreate"}
  /\ apc \in {"removeSignal", "removeClose", "updSignal", "updTransfer",
              "updOverflow", "updClose"} => aold # 0
  /\ aold \in 0..MaxQueues /\ aheld \in Msgs \cup {None} /\ ops \in 0..MaxOps
  /\ spc \in {"running", "close", "wait", "done"} /\ sq \in 0..MaxQueues
  /\ crash \in {"none", "sendOnClosed", "nilMessage"}

TypeOK ==
  /\ RegistryType /\ ChannelType /\ WorkerType
  /\ RequestType /\ PoolType /\ ControlType

-----------------------------------------------------------------------------
(* Init has prepared the provider, or skipped it (no configuration yet).   *)

Init ==
  /\ registered \in {0, 1}
  /\ created = registered /\ wgStored = registered /\ instances = registered
  /\ queue = [q \in Queues |-> <<>>]
  /\ closing = [q \in Queues |-> FALSE] /\ closed = [q \in Queues |-> FALSE]
  /\ worker = [q \in Queues |-> [i \in Slots |->
                 IF q = registered THEN "idle" ELSE "none"]]
  /\ wmsg = [q \in Queues |-> [i \in Slots |-> None]]
  /\ wjob = [q \in Queues |-> [i \in Slots |-> None]]
  /\ wg = [q \in Queues |-> IF q = registered THEN Cardinality(Slots) ELSE 0]
  /\ mutex = "free"
  /\ rpc = [r \in Requests |-> "start"]
  /\ pq = [r \in Requests |-> 0]
  /\ msg = [r \in Requests |-> None]
  /\ owner = [m \in Msgs |-> None] /\ content = [m \in Msgs |-> None]
  /\ resp = [r \in Requests |-> None]
  /\ ctxDone = [r \in Requests |-> FALSE]
  /\ calls = [r \in Requests |-> 0]
  /\ apc = "idle" /\ aold = 0 /\ aheld = None /\ ops = 0
  /\ spc = "running" /\ sq = 0
  /\ crash = "none"

-----------------------------------------------------------------------------
(* The steps several operations share.                                     *)

\* Faulty variant of HasRoom: the capacity of the channel is not respected.
HasRoomAlways(q) == TRUE

HasRoom(q) == Len(queue[q]) < BufferSize

Goto(r, pc) == rpc' = [rpc EXCEPT ![r] = pc]

\* The producers of S return to their callers.  releaseChannelMessage puts the
\* channels and the message back into the pools; the request copied into the
\* message stays there.
Leave(S, how) ==
  /\ rpc' = [r \in Requests |-> IF r \in S THEN how ELSE rpc[r]]
  /\ pq' = [r \in Requests |-> IF r \in S THEN 0 ELSE pq[r]]
  /\ msg' = [r \in Requests |-> IF r \in S THEN None ELSE msg[r]]
  /\ owner' = [m \in Msgs |-> IF owner[m] \in S THEN None ELSE owner[m]]

\* The result for request j is sent to the channels message m carries now.
\* A second result finds the first still there: it is left in the other
\* channel, which the next getChannelMessage drains, or times out.
PutAnswer(m, j) ==
  resp' = IF owner[m] # None /\ resp[owner[m]] = None
          THEN [resp EXCEPT ![owner[m]] = j]
          ELSE resp

\* close(done) resolves the select of every producer parked on queue q.
Parked(q) == {r \in Requests : rpc[r] = "blocked" /\ pq[r] = q}

\* Faulty variant of SignalClosing: nobody is told.
SignalClosingSilent(q) == UNCHANGED <<closing, rpc, pq, msg, owner>>

SignalClosing(q) ==
  /\ closing' = [closing EXCEPT ![q] = TRUE]
  /\ Leave(Parked(q), "shutdown")

CloseQueue(q) == closed' = [closed EXCEPT ![q] = TRUE]

\* prepareProvider up to createBaseProvider: a new queue and a new WaitGroup.
PrepareProvider ==
  /\ created < MaxQueues
  /\ created' = created + 1
  /\ registered' = created + 1 /\ wgStored' = created + 1

\* Faulty variant of StartWorkers: the workers are not counted.
StartWorkersUncounted(q) ==
  worker' = [worker EXCEPT ![q] = [i \in Slots |-> "idle"]] /\ UNCHANGED wg

\* Concurrency times: currentWaitGroup.Add(1); go requestWorker(...)
StartWorkers(q) ==
  /\ worker' = [worker EXCEPT ![q] = [i \in Slots |-> "idle"]]
  /\ wg' = [wg EXCEPT ![q] = @ + Cardinality(Slots)]

\* Faulty variant of DeferredDone: the worker never says it is done.
DeferredDoneMissing == UNCHANGED wg

\* The deferred Done goes to the WaitGroup waitGroups holds at that moment.
DeferredDone ==
  wg' = IF wgStored = 0 THEN wg ELSE [wg EXCEPT ![wgStored] = @ - 1]

\* Faulty variant of WaitReturns: nobody waits for the workers.
WaitReturnsAtOnce(g) == TRUE

\* waitGroup.Wait() on the WaitGroup of generation g, when there is one.
WaitReturns(g) == g # 0 => wg[g] = 0

\* Faulty variant of Unlock: the provider stays locked.
UnlockMissing == UNCHANGED mutex

Unlock == mutex' = "free"

-----------------------------------------------------------------------------
(* Producers: tryRequest and tryStreamRequest.                             *)

\* getProviderQueue under the read lock.
GetProviderQueue(r) ==
  /\ rpc[r] = "start" /\ mutex = "free"
  /\ IF registered # 0
     THEN pq' = [pq EXCEPT ![r] = registered] /\ Goto(r, "prehook")
     ELSE pq' = pq /\ Goto(r, "lock")
  /\ UNCHANGED <<msg, resp, ctxDone, poolVars, chanVars, workVars, regVars,
                 adminVars, shutVars, crash>>

\* getProviderQueue under the write lock: somebody else created the queue, the
\* account has no configuration, or this call creates it.
GetProviderQueueLocked(r) ==
  /\ rpc[r] = "lock" /\ mutex = "free"
  /\ \/ /\ registered # 0
        /\ pq' = [pq EXCEPT ![r] = registered] /\ Goto(r, "prehook")
        /\ UNCHANGED <<msg, owner, regVars>>
     \/ /\ registered = 0
        /\ Leave({r}, "noProvider")
        /\ UNCHANGED regVars
     \/ /\ registered = 0
        /\ PrepareProvider
        /\ mutex' = r /\ Goto(r, "create")
        /\ UNCHANGED <<pq, msg, owner, wg, instances>>
  /\ UNCHANGED <<resp, ctxDone, content, chanVars, workVars, adminVars,
                 shutVars, crash>>

\* The rest of prepareProvider: on an error of createBaseProvider the queue
\* and the WaitGroup stay registered, with no worker.
CreateProvider(r) ==
  /\ rpc[r] = "create"
  /\ Unlock
  /\ \/ /\ StartWorkers(registered)
        /\ instances' = instances + 1
        /\ pq' = [pq EXCEPT ![r] = registered] /\ Goto(r, "prehook")
        /\ UNCHANGED <<msg, owner>>
     \/ /\ CreateMayFail
        /\ Leave({r}, "noProvider")
        /\ UNCHANGED <<worker, wg, instances>>
  /\ UNCHANGED <<registered, created, wgStored, resp, ctxDone, content, chanVars,
                 wmsg, wjob, calls, adminVars, shutVars, crash>>

\* The pre-hooks ran.  One of them answers the request itself, or a message is
\* taken from the pool: sync.Pool may return any pooled object.
PreHooks(r) ==
  /\ rpc[r] = "prehook"
  /\ \/ /\ Leave({r}, "shortCircuit")
        /\ UNCHANGED content
     \/ \E m \in Msgs :
          /\ owner[m] = None
          /\ owner' = [owner EXCEPT ![m] = r]
          /\ content' = [content EXCEPT ![m] = r]
          /\ msg' = [msg EXCEPT ![r] = m]
          /\ Goto(r, "check")
          /\ UNCHANGED pq
  /\ UNCHANGED <<resp, ctxDone, chanVars, workVars, regVars, adminVars,
                 shutVars, crash>>

\* if pq.isClosing(), before the first select and before the second one
IsClosing(r) ==
  /\ \/ /\ rpc[r] \in {"check", "recheck"} /\ closing[pq[r]]
        /\ Leave({r}, "shutdown")
     \/ /\ rpc[r] = "check" /\ ~closing[pq[r]]
        /\ Goto(r, "select") /\ UNCHANGED <<pq, msg, owner>>
     \/ /\ rpc[r] = "recheck" /\ ~closing[pq[r]]
        /\ Goto(r, "select2") /\ UNCHANGED <<pq, msg, owner>>
  /\ UNCHANGED <<resp, ctxDone, content, chanVars, workVars, regVars,
                 adminVars, shutVars, crash>>

\* case pq.queue <- msg: ready when there is room.
SelectSend(r) ==
  /\ rpc[r] \in {"select", "select2"}
  /\ ~closed[pq[r]] /\ HasRoom(pq[r])
  /\ queue' = [queue EXCEPT ![pq[r]] = Append(@, msg[r])]
  /\ Goto(r, "waiting")
  /\ UNCHANGED <<pq, msg, resp, ctxDone, poolVars, closing, closed, workVars,
                 regVars, adminVars, shutVars, crash>>

\* The same case is ready, and panics, when the channel is closed: select
\* takes any ready case, and the receive from done is only one of them.
SelectSendOnClosed(r) ==
  /\ rpc[r] \in {"select", "select2"} /\ closed[pq[r]]
  /\ crash' = "sendOnClosed"
  /\ UNCHANGED <<reqVars, poolVars, chanVars, workVars, regVars, adminVars,
                 shutVars>>

\* Faulty variant of ListensOnDone: so does the wait for the answer.
ListensOnDoneThroughout == {"select", "select2", "waiting"}

\* Where a producer about to select listens on done; a parked one has been woken.
ListensOnDone == {"select", "select2"}

\* case <-pq.done and case <-ctx.Done()
SelectGiveUp(r) ==
  /\ \/ /\ rpc[r] \in ListensOnDone /\ closing[pq[r]]
        /\ Leave({r}, "shutdown")
     \/ /\ rpc[r] \in {"select", "select2", "blocked"} /\ ctxDone[r]
        /\ Leave({r}, "queueCancelled")
  /\ UNCHANGED <<resp, ctxDone, content, chanVars, workVars, regVars,
                 adminVars, shutVars, crash>>

\* No case is ready.  The first select has a default (dropExcessRequests can
\* be changed at any time, so either branch); the second one parks.
SelectFull(r) ==
  /\ rpc[r] \in {"select", "select2"}
  /\ ~closed[pq[r]] /\ ~closing[pq[r]] /\ ~ctxDone[r]
  /\ ~HasRoom(pq[r])
  /\ \/ rpc[r] = "select" /\ Leave({r}, "dropped")
     \/ rpc[r] = "select" /\ Goto(r, "recheck") /\ UNCHANGED <<pq, msg, owner>>
     \/ rpc[r] = "select2" /\ Goto(r, "blocked") /\ UNCHANGED <<pq, msg, owner>>
  /\ UNCHANGED <<resp, ctxDone, content, chanVars, workVars, regVars,
                 adminVars, shutVars, crash>>

\* case result = <-msg.Response, and <-msg.Err
TakeAnswer(r) ==
  /\ rpc[r] = "waiting" /\ resp[r] # None
  /\ resp' = [resp EXCEPT ![r] = None]
  /\ Leave({r}, "answered")
  /\ UNCHANGED <<ctxDone, content, chanVars, workVars, regVars,
                 adminVars, shutVars, crash>>

\* case <-ctx.Done(): the message goes back to the pool although the queue or
\* a worker still holds it.  tryStreamRequest has no such case.
WaitCancelled(r) ==
  /\ rpc[r] = "waiting" /\ ctxDone[r] /\ r \notin Streams
  /\ resp' = [resp EXCEPT ![r] = None]
  /\ Leave({r}, "cancelled")
  /\ UNCHANGED <<ctxDone, content, chanVars, workVars, regVars,
                 adminVars, shutVars, crash>>

\* The caller goes away or its deadline passes.
CancelContext(r) ==
  /\ r \in Cancellable /\ ~ctxDone[r] /\ rpc[r] \notin Finished
  /\ ctxDone' = [ctxDone EXCEPT ![r] = TRUE]
  /\ UNCHANGED <<rpc, pq, msg, resp, poolVars, chanVars, workVars, regVars,
                 adminVars, shutVars, crash>>

-----------------------------------------------------------------------------
(* Workers: requestWorker.                                                 *)

\* for req := range pq.queue: the head leaves the buffer and, when producers
\* are parked on the full channel, one of them is handed the free place.
Receive(q, i) ==
  /\ worker[q][i] = "idle" /\ queue[q] # <<>>
  /\ IF Head(queue[q]) = None
     THEN /\ crash' = "nilMessage"
          /\ UNCHANGED <<queue, rpc, worker, wmsg>>
     ELSE /\ \/ /\ Parked(q) = {}
                /\ queue' = [queue EXCEPT ![q] = Tail(@)] /\ UNCHANGED rpc
             \/ \E r \in Parked(q) :
                /\ queue' = [queue EXCEPT ![q] = Append(Tail(@), msg[r])]
                /\ Goto(r, "waiting")
          /\ worker' = [worker EXCEPT ![q][i] = "busy"]
          /\ wmsg' = [wmsg EXCEPT ![q][i] = Head(queue[q])]
          /\ UNCHANGED crash
  /\ UNCHANGED <<pq, msg, resp, ctxDone, poolVars, closing, closed, wjob, calls,
                 regVars, adminVars, shutVars>>

\* Faulty variant of KeyError: the worker does not continue with the next message.
KeyErrorNoContinue(q, i) ==
  /\ KeyMayFail /\ worker[q][i] = "busy" /\ owner[wmsg[q][i]] # None
  /\ resp[owner[wmsg[q][i]]] = None
  /\ PutAnswer(wmsg[q][i], content[wmsg[q][i]])
  /\ UNCHANGED <<rpc, pq, msg, ctxDone, poolVars, chanVars, workVars,
                 regVars, adminVars, shutVars, crash>>

\* No key: req.Err <- ... without a select.  On a released message Err is nil
\* and the send blocks for ever.
KeyError(q, i) ==
  /\ KeyMayFail /\ worker[q][i] = "busy"
  /\ worker' = [worker EXCEPT ![q][i] =
                  IF owner[wmsg[q][i]] = None THEN "hung" ELSE "idle"]
  /\ wmsg' = [wmsg EXCEPT ![q][i] = None]
  /\ PutAnswer(wmsg[q][i], content[wmsg[q][i]])
  /\ UNCHANGED <<rpc, pq, msg, ctxDone, poolVars, chanVars, wjob, calls,
                 regVars, adminVars, shutVars, crash>>

\* executeRequestWithRetries on the request the message holds now.
Call(q, i) ==
  LET j == content[wmsg[q][i]]
  IN  /\ worker[q][i] = "busy"
      /\ worker' = [worker EXCEPT ![q][i] = "called"]
      /\ wjob' = [wjob EXCEPT ![q][i] = j]
      /\ calls' = [calls EXCEPT ![j] = IF @ = 2 THEN 2 ELSE @ + 1]
      /\ UNCHANGED <<reqVars, poolVars, chanVars, wmsg, regVars, adminVars,
                     shutVars, crash>>

\* The three-way select that sends the result, the error or the stream.
Deliver(q, i) ==
  LET m == wmsg[q][i]
  IN  /\ worker[q][i] = "called"
      /\ \/ owner[m] # None /\ PutAnswer(m, wjob[q][i])
         \/ ctxDone[content[m]] /\ UNCHANGED resp
         \/ owner[m] = None /\ UNCHANGED resp
      /\ worker' = [worker EXCEPT ![q][i] = "idle"]
      /\ wmsg' = [wmsg EXCEPT ![q][i] = None]
      /\ wjob' = [wjob EXCEPT ![q][i] = None]
      /\ UNCHANGED <<rpc, pq, msg, ctxDone, poolVars, chanVars, calls, regVars,
                     adminVars, shutVars, crash>>

\* Faulty variant of RangeEnds: the buffer is not drained.
RangeEndsAtClose(q) == closed[q]

\* A receive from the channel reports that it is closed.
RangeEnds(q) == queue[q] = <<>> /\ closed[q]

Exit(q, i) ==
  /\ worker[q][i] = "idle" /\ RangeEnds(q)
  /\ worker' = [worker EXCEPT ![q][i] = "exited"]
  /\ DeferredDone
  /\ UNCHANGED <<reqVars, poolVars, chanVars, wmsg, wjob, calls, registered,
                 created, wgStored, instances, mutex, adminVars, shutVars, crash>>

-----------------------------------------------------------------------------
(* RemoveProvider.  Both administrative operations hold the write lock     *)
(* from their first to their last step.                                    *)

BeginRemove ==
  /\ apc = "idle" /\ mutex = "free" /\ ops < MaxOps /\ registered # 0
  /\ mutex' = "admin" /\ ops' = ops + 1
  /\ aold' = registered /\ apc' = "removeSignal"
  /\ UNCHANGED <<registered, created, wgStored, wg, instances, reqVars, poolVars,
                 chanVars, workVars, aheld, shutVars, crash>>

RemoveSignal ==
  /\ apc = "removeSignal" /\ apc' = "removeClose"
  /\ SignalClosing(aold)
  /\ UNCHANGED <<resp, ctxDone, content, queue, closed, workVars, regVars,
                 aold, aheld, ops, shutVars, crash>>

RemoveClose ==
  /\ apc = "removeClose" /\ apc' = "removeWait"
  /\ CloseQueue(aold)
  /\ UNCHANGED <<reqVars, poolVars, queue, closing, workVars, regVars, aold, aheld,
                 ops, shutVars, crash>>

\* waitGroup.Wait() returns; the entries and the provider instance go away.
RemoveFinish ==
  /\ apc = "removeWait" /\ WaitReturns(wgStored)
  /\ apc' = "idle" /\ Unlock
  /\ registered' = 0 /\ wgStored' = 0 /\ instances' = 0 /\ aold' = 0
  /\ UNCHANGED <<created, wg, reqVars, poolVars, chanVars, workVars, aheld, ops,
                 shutVars, crash>>

-----------------------------------------------------------------------------
(* UpdateProvider.                                                         *)

\* No queue yet: prepareProvider.  Otherwise the new queue replaces the old one.
BeginUpdate ==
  /\ apc = "idle" /\ mutex = "free" /\ ops < MaxOps
  /\ mutex' = "admin" /\ ops' = ops + 1
  /\ IF registered = 0
     THEN PrepareProvider /\ apc' = "prepare" /\ UNCHANGED aold
     ELSE /\ created < MaxQueues
          /\ created' = created + 1 /\ registered' = created + 1
          /\ aold' = registered /\ apc' = "updSignal"
          /\ UNCHANGED wgStored
  /\ UNCHANGED <<wg, instances, reqVars, poolVars, chanVars, workVars, aheld,
                 shutVars, crash>>

UpdateSignal ==
  /\ apc = "updSignal" /\ apc' = "updTransfer"
  /\ SignalClosing(aold)
  /\ UNCHANGED <<resp, ctxDone, content, queue, closed, workVars, regVars,
                 aold, aheld, ops, shutVars, crash>>

\* Faulty variant of Rest: the message is copied, not taken.
RestCopies(src) == src

\* What a non-blocking receive leaves in the channel.
Rest(src) == IF src = <<>> THEN src ELSE Tail(src)

\* One turn of the transfer loop.  A receive from the closed and drained
\* channel (Shutdown closed it meanwhile) yields the nil message.
UpdateTransfer ==
  LET src  == queue[aold]
      m    == IF src = <<>> THEN None ELSE Head(src)
      new  == registered
  IN  /\ apc = "updTransfer"
      /\ IF src = <<>> /\ ~closed[aold]
         THEN apc' = "updClose" /\ UNCHANGED <<queue, aheld, crash>>
         ELSE \/ /\ closed[new]
                 /\ crash' = "sendOnClosed" /\ UNCHANGED <<queue, aheld, apc>>
              \/ /\ ~closed[new] /\ HasRoom(new)
                 /\ queue' = [[queue EXCEPT ![aold] = Rest(src)] EXCEPT ![new] = Append(@, m)]
                 /\ UNCHANGED <<aheld, apc, crash>>
              \/ /\ ~closed[new] /\ ~HasRoom(new)
                 /\ queue' = [queue EXCEPT ![aold] = Rest(src)]
                 /\ aheld' = m /\ apc' = "updOverflow" /\ UNCHANGED crash
      /\ UNCHANGED <<reqVars, poolVars, closing, closed, workVars, regVars, aold,
                     ops, shutVars>>

\* Faulty variant of FailOverflow: the goroutine gives up silently.
FailOverflowSilent(m) == UNCHANGED resp

\* m.Err <- "request failed during provider concurrency update"
FailOverflow(m) == PutAnswer(m, content[m])

\* The goroutine that carries the message the new queue had no room for.  No
\* worker serves the new queue yet, so its send cannot succeed: it times out
\* and answers with an error, or Shutdown closes the channel under it.
UpdateOverflow ==
  /\ apc = "updOverflow"
  /\ IF closed[registered]
     THEN crash' = "sendOnClosed" /\ UNCHANGED <<resp, apc, aheld>>
     ELSE IF aheld = None
     THEN crash' = "nilMessage" /\ UNCHANGED <<resp, apc, aheld>>
     ELSE /\ FailOverflow(aheld)
          /\ apc' = "updClose" /\ aheld' = None /\ UNCHANGED crash
  /\ UNCHANGED <<rpc, pq, msg, ctxDone, poolVars, chanVars, workVars, regVars,
                 aold, ops, shutVars>>

UpdateClose ==
  /\ apc = "updClose" /\ apc' = "updWait"
  /\ CloseQueue(aold)
  /\ UNCHANGED <<reqVars, poolVars, queue, closing, workVars, regVars, aold, aheld,
                 ops, shutVars, crash>>

\* waitGroup.Wait() returns and a new WaitGroup is stored.
UpdateWait ==
  /\ apc = "updWait" /\ WaitReturns(wgStored)
  /\ apc' = "updCreate" /\ wgStored' = registered
  /\ UNCHANGED <<registered, created, wg, instances, mutex, reqVars, poolVars,
                 chanVars, workVars, aold, aheld, ops, shutVars, crash>>

\* createBaseProvider: on success the instance is replaced (or appended, by
\* prepareProvider) and the workers start; an error returns at once.
UpdateCreate ==
  /\ apc \in {"updCreate", "prepare"}
  /\ apc' = "idle" /\ Unlock /\ aold' = 0
  /\ \/ /\ StartWorkers(registered)
        /\ instances' = IF apc = "prepare" THEN instances + 1 ELSE 1
     \/ /\ CreateMayFail
        /\ UNCHANGED <<worker, wg, instances>>
  /\ UNCHANGED <<registered, created, wgStored, reqVars, poolVars, chanVars, wmsg,
                 wjob, calls, aheld, ops, shutVars, crash>>

-----------------------------------------------------------------------------
(* Shutdown takes no provider lock.                                        *)

ShutdownSignal ==
  /\ spc = "running" /\ spc' = "close" /\ sq' = registered
  /\ IF registered = 0
     THEN UNCHANGED <<closing, rpc, pq, msg, owner>>
     ELSE SignalClosing(registered)
  /\ UNCHANGED <<resp, ctxDone, content, queue, closed, workVars, regVars,
                 adminVars, crash>>

\* closeQueue, then waitGroups.Range reads the WaitGroup
ShutdownClose ==
  /\ spc = "close" /\ spc' = "wait" /\ sq' = wgStored
  /\ IF sq = 0 THEN UNCHANGED closed ELSE CloseQueue(sq)
  /\ UNCHANGED <<reqVars, poolVars, queue, closing, workVars, regVars, adminVars,
                 crash>>

ShutdownDone ==
  /\ spc = "wait" /\ WaitReturns(sq)
  /\ spc' = "done"
  /\ UNCHANGED <<sq, reqVars, poolVars, chanVars, workVars, regVars, adminVars,
                 crash>>

-----------------------------------------------------------------------------
Producer(r) ==
  \/ GetProviderQueue(r) \/ GetProviderQueueLocked(r) \/ CreateProvider(r)
  \/ PreHooks(r) \/ IsClosing(r)
  \/ SelectSend(r) \/ SelectSendOnClosed(r) \/ SelectGiveUp(r) \/ SelectFull(r)
  \/ TakeAnswer(r) \/ WaitCancelled(r)

Work(q, i) ==
  Receive(q, i) \/ KeyError(q, i) \/ Call(q, i) \/ Deliver(q, i) \/ Exit(q, i)

\* The steps of an operation that has begun; beginning one is a choice.
AdminStep ==
  \/ RemoveSignal \/ RemoveClose \/ RemoveFinish
  \/ UpdateSignal \/ UpdateTransfer \/ UpdateOverflow \/ UpdateClose
  \/ UpdateWait \/ UpdateCreate

ShutdownStep == ShutdownClose \/ ShutdownDone

Next ==
  /\ crash = "none"
  /\ \/ \E r \in Requests : Producer(r) \/ CancelContext(r)
     \/ \E q \in Queues, i \in Slots : Work(q, i)
     \/ BeginRemove \/ BeginUpdate \/ AdminStep
     \/ ShutdownSignal \/ ShutdownStep

Spec == Init /\ [][Next]_vars

-----------------------------------------------------------------------------
\* The goroutines under way are scheduled; nothing makes an operator call
\* RemoveProvider, UpdateProvider or Shutdown, or a context end.
Step(A) == crash = "none" /\ A

Fairness ==
  /\ \A r \in Requests : WF_vars(Step(Producer(r)))
  /\ \A q \in Queues, i \in Slots : WF_vars(Step(Work(q, i)))
  /\ WF_vars(Step(AdminStep))
  /\ WF_vars(Step(ShutdownStep))

FairSpec == Spec /\ Fairness

-----------------------------------------------------------------------------
(* Properties.                                                             *)

\* The counter of a WaitGroup is the number of workers of its generation that
\* have not exited (currentWaitGroup.Add in prepareProvider and UpdateProvider,
\* the deferred Done of requestWorker), so a Wait that returns means they all
\* stopped and the counter never goes negative.
WaitGroupCountsWorkers ==
  \A q \in Queues : wg[q] = Cardinality(LiveSlots(q))

\* Workers of two generations never run at once: UpdateProvider waits for the
\* old ones before it starts the new ones, whatever Shutdown and lazily created
\* providers do meanwhile.
OneGeneration ==
  \A p, q \in Queues : LiveSlots(p) # {} /\ LiveSlots(q) # {} => p = q

\* A request tryRequest is waiting for is never forgotten: its answer is there,
\* or its message is in a queue, with a worker, or with the goroutine of
\* UpdateProvider that carries the overflow of the transfer.
HeldByWorker(m) ==
  \E q \in Queues, i \in Slots : worker[q][i] \in {"busy", "called"} /\ wmsg[q][i] = m

InQueue(m) == \E q \in Queues : \E n \in 1..Len(queue[q]) : queue[q][n] = m

NoLostRequest ==
  \A r \in Requests :
    rpc[r] = "waiting" /\ resp[r] = None /\ ~ctxDone[r] =>
      InQueue(msg[r]) \/ HeldByWorker(msg[r]) \/ aheld = msg[r]

\* A producer parked in the blocking select is never parked on a channel that
\* gets closed (that would panic): signalClosing always comes before closeQueue.
ParkedNeverOnClosed ==
  \A r \in Requests : rpc[r] = "blocked" => ~closed[pq[r]]

\* One attempt of a request makes at most one upstream call sequence, also when
\* UpdateProvider moves its message to another queue.
CalledAtMostOnce == \A r \in Requests : calls[r] <= 1

\* A request that was told the provider is shutting down, the queue is full or
\* the queueing was cancelled is not sent upstream: the caller falls back to
\* another provider.
RejectedNeverCalled == \A r \in Requests : rpc[r] \in Rejected => calls[r] = 0

\* The result put into a request's channels is that request's result
\* (getChannelMessage clears channels "to avoid leaking between requests").
AnswersAreOwn == \A r \in Requests : resp[r] \in {None, r}

\* When no operation is under way, a queue that is not registered any more has
\* been drained: RemoveProvider and UpdateProvider strand no message.
NoStrandedMessage ==
  mutex = "free" => \A q \in Queues : q # registered => queue[q] = <<>>

\* A producer never sends on a closed channel ("Producers must check the closing
\* flag or select on the done channel before sending").
NoSendOnClosedChannel == crash # "sendOnClosed"

\* Every call of tryRequest and tryStreamRequest returns.
EveryRequestReturns ==
  \A r \in Requests :
    rpc[r] # "start" ~> (rpc[r] \in Finished \/ crash # "none")

\* What a caller can see of an attempt is what Attempt allows: sent upstream at
\* most once, not after it was turned away and not after it was answered, also
\* when UpdateProvider moves its message.
Outcome(r) ==
  IF rpc[r] = "answered" THEN "answered"
  ELSE IF rpc[r] = "cancelled" THEN "abandoned"
  ELSE IF rpc[r] \in Finished THEN "rejected" ELSE "open"

Attempts == INSTANCE Attempt WITH
  Attempts <- Requests,
  outcome  <- [r \in Requests |-> Outcome(r)],
  called   <- calls

ImplementsAttempt == Attempts!Spec

\* RemoveProvider and UpdateProvider return, so the provider lock is given back
\* (the operation "will temporarily pause request processing").
OperationsReturn == apc # "idle" ~> (apc = "idle" \/ crash # "none")

=============================================================================
