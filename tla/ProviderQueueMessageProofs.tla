--------------------- MODULE ProviderQueueMessageProofs ---------------------
(***************************************************************************)
(* Proofs about the messages of ProviderQueue: where a request's           *)
(* ChannelMessage is, who waits for it and what its worker sends upstream, *)
(* for every number of requests, messages, workers and generations.  The   *)
(* last theorem is the refinement of Attempt.                              *)
(***************************************************************************)
EXTENDS ProviderQueueProofs

-----------------------------------------------------------------------------
(* Who is signalled before a channel is closed.                            *)

\* A producer that got a queue from getProviderQueue and has not returned.
HasQueue == {"prehook", "check", "select", "recheck", "select2", "blocked", "waiting"}

\* The one whose ChannelMessage is taken from the pool already.
HasMessage == HasQueue \ {"prehook"}

SignalledInv ==
  /\ \A q \in Queues : closed[q] => closing[q]
  /\ apc \in {"removeClose", "updTransfer", "updOverflow", "updClose"} => closing[aold]
  /\ spc = "close" /\ sq # 0 => closing[sq]

ParkedInv ==
  \A r \in Requests : /\ rpc[r] \in HasQueue => pq[r] \in Queues
                      /\ rpc[r] = "blocked" => ~closing[pq[r]]

QueueInv == SignalledInv /\ ParkedInv

-----------------------------------------------------------------------------
(* Where the messages are.                                                 *)

\* The messages in a channel buffer.
Elems(s) == {s[n] : n \in 1..Len(s)}

\* No message is in the buffer twice.
NoTwice(s) == \A a, b \in 1..Len(s) : s[a] = s[b] /\ s[a] # None => a = b

\* A message that is under way.
Placed(m) == InQueue(m) \/ HeldByWorker(m) \/ aheld = m

\* A producer with a message owns it, and the message carries its request.
OwnInv ==
  \A r \in Requests : rpc[r] \in HasMessage =>
    msg[r] \in Msgs /\ owner[msg[r]] = r /\ content[msg[r]] = r

\* A message under way carries a request.
CarryInv ==
  /\ \A m \in Msgs : Placed(m) => content[m] # None
  /\ \A q \in Queues, i \in Slots : worker[q][i] = "called" => wjob[q][i] # None
  /\ aheld # None => apc = "updOverflow"

MessageInv == OwnInv /\ CarryInv /\ NoLostRequest

-----------------------------------------------------------------------------
(* Only streams are cancelled.                                             *)

\* The owner of a message under way is waiting for its answer.
WaitedFor(m) ==
  /\ owner[m] # None /\ rpc[owner[m]] = "waiting"
  /\ msg[owner[m]] = m /\ resp[owner[m]] = None

AwaitedInv == \A m \in Msgs : Placed(m) => WaitedFor(m)

\* A message is in one place.
Holds(q, i, m) == worker[q][i] \in {"busy", "called"} /\ wmsg[q][i] = m

OnePlaceInv ==
  /\ \A q \in Queues : NoTwice(queue[q])
  /\ \A m \in Msgs, p, q \in Queues :
       m \in Elems(queue[p]) /\ m \in Elems(queue[q]) => p = q
  /\ \A m \in Msgs, p, q \in Queues, i, j \in Slots :
       Holds(p, i, m) /\ Holds(q, j, m) => p = q /\ i = j
  /\ \A m \in Msgs, p, q \in Queues, i \in Slots :
       m \in Elems(queue[p]) => ~Holds(q, i, m)
  /\ \A m \in Msgs, q \in Queues : aheld = m => m \notin Elems(queue[q])
  /\ \A m \in Msgs, q \in Queues, i \in Slots : aheld = m => ~Holds(q, i, m)

\* A message under way that no worker has sent upstream yet.
Unsent(m) ==
  \/ \E q \in Queues : m \in Elems(queue[q])
  \/ \E q \in Queues, i \in Slots : worker[q][i] = "busy" /\ Holds(q, i, m)
  \/ aheld = m

UncalledInv == \A m \in Msgs : Unsent(m) => calls[owner[m]] = 0

CallInv ==
  /\ \A q \in Queues, i \in Slots :
       worker[q][i] = "called" => wjob[q][i] = content[wmsg[q][i]]
  /\ \A r \in Requests :
       /\ ctxDone[r] => r \in Streams
       /\ resp[r] \in {None, r} /\ (resp[r] # None => rpc[r] = "waiting")
       /\ calls[r] <= 1
       /\ rpc[r] \notin {"waiting", "answered"} => calls[r] = 0

FlightInv == AwaitedInv /\ OnePlaceInv /\ UncalledInv /\ CallInv

-----------------------------------------------------------------------------
(* Generations that were drained.                                          *)

Drained(q) == closed[q] /\ queue[q] = <<>>

\* Somebody is about to start workers.
Creating == apc \in Starting \/ \E r \in Requests : rpc[r] = "create"

GenerationInv ==
  /\ registered <= created /\ aold <= created
  /\ \A r \in Requests : pq[r] <= created
  /\ \A q \in Queues : q > created => queue[q] = <<>>
  /\ \A q \in Queues : q <= created /\ q # registered /\ q # aold => Drained(q)

OperationInv ==
  /\ apc \in {"idle", "prepare"} => aold = 0 /\ wgStored = registered
  /\ apc \in {"removeSignal", "removeClose", "removeWait"} =>
       aold = registered /\ wgStored = registered /\ aold # 0
  /\ apc \in Updating => aold # registered /\ wgStored = aold /\ aold # 0
  /\ apc \in {"removeWait", "updWait"} => closed[aold]
  /\ apc = "updCreate" => aold # 0 /\ Drained(aold)

ExitedInv ==
  /\ \A q \in Queues, i \in Slots : worker[q][i] = "exited" => Drained(q)
  /\ ~Creating /\ wgStored # 0 => \A i \in Slots : worker[wgStored][i] # "none"

DrainInv == GenerationInv /\ OperationInv /\ ExitedInv

\* Nothing is closing and nobody is parked after Init.
LEMMA QueueInit == Init => QueueInv
  BY DEF Init, QueueInv, SignalledInv, ParkedInv, HasQueue

\* A step that closes or signals no channel.
LEMMA SignalledQuiet ==
  ASSUME SignalledInv, UNCHANGED <<closing, closed, aold, spc, sq>>,
         \/ apc' = apc
         \/ apc \in {"updTransfer", "updOverflow"} /\ apc' \in {"updOverflow", "updClose"}
  PROVE  SignalledInv'
  BY DEF SignalledInv

\* close(done) wakes everybody who is parked on the queue.
LEMMA SignalClosingKeeps ==
  ASSUME TypeOK, ParkedInv, NEW q \in Queues, SignalClosing(q)
  PROVE  /\ ParkedInv' /\ closing'[q]
         /\ \A p \in Queues : closing[p] => closing'[p]
  BY DEF TypeOK, ChannelType, RequestType, ParkedInv, SignalClosing, Leave, Parked, HasQueue

\* signalClosing comes before closeQueue on every path, so nobody stays parked
\* on a channel that is closed.
LEMMA QueueStep == TypeOK /\ LifeInv /\ QueueInv /\ [Next]_vars => QueueInv'
  <1> SUFFICES ASSUME TypeOK, LifeInv, QueueInv, [Next]_vars PROVE QueueInv'
    OBVIOUS
  <1> USE DEF reqVars, poolVars, chanVars, workVars, regVars, adminVars, shutVars, QueueInv
  <1>1. ASSUME NEW r \in Requests, GetProviderQueue(r) PROVE QueueInv'
    <2>1. SignalledInv'
      BY <1>1, SignalledQuiet DEF GetProviderQueue
    <2>2. ParkedInv'
      BY <1>1 DEF GetProviderQueue, Goto, TypeOK, RequestType, RegistryType, Queues, ParkedInv, HasQueue
    <2> QED BY <2>1, <2>2
  <1>2. ASSUME NEW r \in Requests, GetProviderQueueLocked(r) PROVE QueueInv'
    <2>1. SignalledInv'
      BY <1>2, SignalledQuiet DEF GetProviderQueueLocked
    <2>2. ParkedInv'
      BY <1>2 DEF GetProviderQueueLocked, Goto, Leave, TypeOK, RequestType, RegistryType, Queues, ParkedInv, HasQueue
    <2> QED BY <2>1, <2>2
  <1>3. ASSUME NEW r \in Requests, CreateProvider(r) PROVE QueueInv'
    <2>1. SignalledInv'
      BY <1>3, SignalledQuiet DEF CreateProvider
    <2>2. registered \in Queues
      BY <1>3 DEF CreateProvider, LifeInv, PhaseInv, Unstarted, TypeOK, RegistryType, Queues
    <2>3. ParkedInv'
      BY <1>3, <2>2 DEF CreateProvider, Goto, Leave, TypeOK, RequestType, ParkedInv, HasQueue
    <2> QED BY <2>1, <2>3
  <1>4. ASSUME NEW r \in Requests,
               \/ PreHooks(r) \/ IsClosing(r) \/ SelectGiveUp(r) \/ SelectFull(r)
               \/ TakeAnswer(r) \/ WaitCancelled(r) \/ SelectSend(r)
        PROVE QueueInv'
    <2>1. SignalledInv'
      BY <1>4, SignalledQuiet
         DEF PreHooks, IsClosing, SelectGiveUp, SelectFull, TakeAnswer, WaitCancelled, SelectSend
    <2>2. ParkedInv'
      <3>1. CASE PreHooks(r)
        BY <3>1 DEF PreHooks, Goto, Leave, TypeOK, RequestType, ParkedInv, HasQueue
      <3>2. CASE IsClosing(r)
        BY <3>2 DEF IsClosing, Goto, Leave, TypeOK, RequestType, ParkedInv, HasQueue
      <3>3. CASE SelectGiveUp(r) \/ TakeAnswer(r) \/ WaitCancelled(r)
        BY <3>3 DEF SelectGiveUp, TakeAnswer, WaitCancelled, Leave, TypeOK, RequestType, ParkedInv, HasQueue
      <3>4. CASE SelectFull(r)
        BY <3>4 DEF SelectFull, Goto, Leave, TypeOK, RequestType, ParkedInv, HasQueue
      <3>5. CASE SelectSend(r)
        BY <3>5 DEF SelectSend, Goto, TypeOK, RequestType, ParkedInv, HasQueue
      <3> QED BY <1>4, <3>1, <3>2, <3>3, <3>4, <3>5
    <2> QED BY <2>1, <2>2
  <1>5. ASSUME NEW r \in Requests, SelectSendOnClosed(r) \/ CancelContext(r) PROVE QueueInv'
    BY <1>5, SignalledQuiet DEF SelectSendOnClosed, CancelContext, ParkedInv
  <1>6. ASSUME NEW q \in Queues, NEW i \in Slots, Receive(q, i) PROVE QueueInv'
    <2>1. SignalledInv'
      BY <1>6, SignalledQuiet DEF Receive
    <2>2. ParkedInv'
      <3>1. UNCHANGED <<pq, closing>> /\ (UNCHANGED rpc \/ \E r \in Parked(q) : Goto(r, "waiting"))
        BY <1>6 DEF Receive
      <3> QED BY <3>1 DEF Parked, Goto, TypeOK, RequestType, ParkedInv, HasQueue
    <2> QED BY <2>1, <2>2
  <1>7. ASSUME NEW q \in Queues, NEW i \in Slots,
               KeyError(q, i) \/ Call(q, i) \/ Deliver(q, i) \/ Exit(q, i)
        PROVE QueueInv'
    <2>1. UNCHANGED <<closing, closed, aold, spc, sq, apc, rpc, pq>>
      BY <1>7 DEF KeyError, Call, Deliver, Exit
    <2> QED BY <2>1, SignalledQuiet DEF ParkedInv
  <1>8. CASE BeginRemove
    BY <1>8 DEF BeginRemove, SignalledInv, ParkedInv
  <1>9. CASE RemoveSignal
    <2>1. aold \in Queues
      BY <1>9 DEF RemoveSignal, TypeOK, ControlType, Queues
    <2>2. ParkedInv' /\ closing'[aold] /\ \A p \in Queues : closing[p] => closing'[p]
      BY <1>9, <2>1, SignalClosingKeeps DEF RemoveSignal
    <2>3. SignalledInv'
      BY <1>9, <2>2 DEF RemoveSignal, SignalledInv, TypeOK, ControlType, Queues
    <2> QED BY <2>2, <2>3
  <1>10. CASE UpdateSignal
    <2>1. aold \in Queues
      BY <1>10 DEF UpdateSignal, TypeOK, ControlType, Queues
    <2>2. ParkedInv' /\ closing'[aold] /\ \A p \in Queues : closing[p] => closing'[p]
      BY <1>10, <2>1, SignalClosingKeeps DEF UpdateSignal
    <2>3. SignalledInv'
      BY <1>10, <2>2 DEF UpdateSignal, SignalledInv, TypeOK, ControlType, Queues
    <2> QED BY <2>2, <2>3
  <1>11. CASE RemoveClose \/ UpdateClose
    <2>1. aold \in Queues /\ closing[aold]
      BY <1>11 DEF RemoveClose, UpdateClose, TypeOK, ControlType, Queues, SignalledInv
    <2>2. SignalledInv'
      BY <1>11, <2>1 DEF RemoveClose, UpdateClose, CloseQueue, SignalledInv, TypeOK, ChannelType
    <2> QED BY <1>11, <2>2 DEF RemoveClose, UpdateClose, ParkedInv
  <1>12. CASE RemoveFinish \/ UpdateWait \/ UpdateCreate \/ BeginUpdate
    <2>1. /\ apc' \in {"idle", "updCreate", "prepare", "updSignal"}
          /\ UNCHANGED <<closing, closed, spc, sq, rpc, pq>>
      BY <1>12 DEF RemoveFinish, UpdateWait, UpdateCreate, BeginUpdate
    <2> QED BY <2>1 DEF SignalledInv, ParkedInv
  <1>13. CASE UpdateTransfer \/ UpdateOverflow
    <2>1. /\ UNCHANGED <<closing, closed, aold, spc, sq, rpc, pq>>
          /\ \/ apc' = apc
             \/ apc \in {"updTransfer", "updOverflow"} /\ apc' \in {"updOverflow", "updClose"}
      BY <1>13 DEF UpdateTransfer, UpdateOverflow
    <2> QED BY <2>1, SignalledQuiet DEF ParkedInv
  <1>14. CASE ShutdownSignal
    <2>1. CASE registered = 0
      BY <1>14, <2>1 DEF ShutdownSignal, SignalledInv, ParkedInv
    <2>2. CASE registered # 0
      <3>1. registered \in Queues
        BY <2>2 DEF TypeOK, RegistryType, Queues
      <3>2. ParkedInv' /\ closing'[registered] /\ \A p \in Queues : closing[p] => closing'[p]
        BY <1>14, <2>2, <3>1, SignalClosingKeeps DEF ShutdownSignal
      <3>3. SignalledInv'
        BY <1>14, <2>2, <3>2 DEF ShutdownSignal, SignalledInv, TypeOK, ControlType, Queues
      <3> QED BY <3>2, <3>3
    <2> QED BY <2>1, <2>2
  <1>15. CASE ShutdownClose
    <2>1. SignalledInv'
      BY <1>15 DEF ShutdownClose, CloseQueue, SignalledInv, TypeOK, ChannelType, ControlType, Queues
    <2> QED BY <1>15, <2>1 DEF ShutdownClose, ParkedInv
  <1>16. CASE ShutdownDone \/ UNCHANGED vars
    BY <1>16 DEF ShutdownDone, vars, SignalledInv, ParkedInv
  <1> QED
    BY <1>1, <1>2, <1>3, <1>4, <1>5, <1>6, <1>7, <1>8, <1>9, <1>10, <1>11, <1>12, <1>13, <1>14, <1>15, <1>16
       DEF Next, Producer, Work, AdminStep, ShutdownStep

\* Done signals come before closes in every reachable state.
LEMMA QueueCorrect == Spec => []QueueInv
  BY TypeInit, TypeStep, LifeInit, LifeStep, QueueInit, QueueStep, PTL DEF Spec

\* A producer parked in tryRequest's blocking select is never left on a channel
\* that RemoveProvider, UpdateProvider or Shutdown has closed: each of them
\* signals done, which wakes the producer, before it closes the channel.
THEOREM ParkedProducersAreSafe == Spec => []ParkedNeverOnClosed
  <1>1. TypeOK /\ QueueInv => ParkedNeverOnClosed
    BY DEF QueueInv, SignalledInv, ParkedInv, ParkedNeverOnClosed, HasQueue
  <1> QED BY <1>1, QueueCorrect, TypeCorrect, PTL
-----------------------------------------------------------------------------
(* What the channel operations do to the messages.                         *)

\* A send adds its message to those of the buffer.
LEMMA ElemsAppend ==
  ASSUME NEW S, NEW s \in Seq(S), NEW e \in S
  PROVE  Elems(Append(s, e)) = Elems(s) \cup {e}
  <1>1. /\ Len(s) \in Nat /\ Len(Append(s, e)) = Len(s) + 1
        /\ \A n \in 1..Len(s) : Append(s, e)[n] = s[n]
        /\ Append(s, e)[Len(s) + 1] = e
    OBVIOUS
  <1>2. 1..(Len(s) + 1) = (1..Len(s)) \cup {Len(s) + 1}
    BY <1>1
  <1> QED BY <1>1, <1>2 DEF Elems

\* A receive takes the head away, and nothing else if no message is there twice.
LEMMA ElemsTail ==
  ASSUME NEW S, NEW s \in Seq(S), s # <<>>
  PROVE  Elems(s) = {Head(s)} \cup Elems(Tail(s))
  <1>1. /\ Len(s) \in Nat \ {0} /\ Len(Tail(s)) = Len(s) - 1 /\ Head(s) = s[1]
        /\ \A n \in 1..(Len(s) - 1) : Tail(s)[n] = s[n + 1]
    OBVIOUS
  <1>2. ASSUME NEW x \in Elems(s) PROVE x \in {Head(s)} \cup Elems(Tail(s))
    <2>1. PICK n \in 1..Len(s) : x = s[n]
      BY <1>2 DEF Elems
    <2>2. CASE n = 1
      BY <1>1, <2>1, <2>2
    <2>3. CASE n # 1
      <3>1. n - 1 \in 1..(Len(s) - 1) /\ (n - 1) + 1 = n
        BY <1>1, <2>1, <2>3
      <3>2. x = Tail(s)[n - 1]
        BY <1>1, <2>1, <3>1
      <3> QED BY <1>1, <3>1, <3>2 DEF Elems
    <2> QED BY <2>2, <2>3
  <1>3. ASSUME NEW x \in {Head(s)} \cup Elems(Tail(s)) PROVE x \in Elems(s)
    <2>1. CASE x = Head(s)
      <3>1. 1 \in 1..Len(s) /\ x = s[1]
        BY <1>1, <2>1
      <3> QED BY <3>1 DEF Elems
    <2>2. CASE x \in Elems(Tail(s))
      <3>1. PICK n \in 1..(Len(s) - 1) : x = Tail(s)[n]
        BY <1>1, <2>2 DEF Elems
      <3>2. n + 1 \in 1..Len(s) /\ x = s[n + 1]
        BY <1>1, <3>1
      <3> QED BY <3>2 DEF Elems
    <2> QED BY <1>3, <2>1, <2>2
  <1> QED BY <1>2, <1>3

\* Sending a message that is not in the buffer puts none there twice.
LEMMA NoTwiceAppend ==
  ASSUME NEW S, NEW s \in Seq(S), NEW e \in S, NoTwice(s), e = None \/ e \notin Elems(s)
  PROVE  NoTwice(Append(s, e))
  <1>1. /\ Len(s) \in Nat /\ Len(Append(s, e)) = Len(s) + 1
        /\ \A n \in 1..Len(s) : Append(s, e)[n] = s[n]
        /\ Append(s, e)[Len(s) + 1] = e
    OBVIOUS
  <1>2. \A n \in 1..(Len(s) + 1) : n \in 1..Len(s) \/ n = Len(s) + 1
    BY <1>1
  <1>3. \A n \in 1..Len(s) : s[n] \in Elems(s)
    BY DEF Elems
  <1> QED BY <1>1, <1>2, <1>3 DEF NoTwice

\* A receive from a buffer without duplicates takes the only copy of its head.
LEMMA NoTwiceTail ==
  ASSUME NEW S, NEW s \in Seq(S), s # <<>>, NoTwice(s)
  PROVE  /\ NoTwice(Tail(s))
         /\ Head(s) = None \/ Head(s) \notin Elems(Tail(s))
  <1>1. /\ Len(s) \in Nat \ {0} /\ Len(Tail(s)) = Len(s) - 1 /\ Head(s) = s[1]
        /\ \A n \in 1..(Len(s) - 1) : Tail(s)[n] = s[n + 1] /\ n + 1 \in 1..Len(s) /\ n + 1 # 1
        /\ 1 \in 1..Len(s)
    OBVIOUS
  <1>2. NoTwice(Tail(s))
    <2> SUFFICES ASSUME NEW a \in 1..(Len(s) - 1), NEW b \in 1..(Len(s) - 1),
                        Tail(s)[a] = Tail(s)[b], Tail(s)[a] # None
                 PROVE  a = b
      BY <1>1 DEF NoTwice
    <2>1. a + 1 = b + 1
      BY <1>1 DEF NoTwice
    <2> QED BY <2>1, <1>1
  <1>3. ASSUME Head(s) # None, Head(s) \in Elems(Tail(s)) PROVE FALSE
    <2>1. PICK n \in 1..(Len(s) - 1) : Head(s) = Tail(s)[n]
      BY <1>1, <1>3 DEF Elems
    <2> QED BY <1>1, <1>3, <2>1 DEF NoTwice
  <1> QED BY <1>2, <1>3

\* InQueue in terms of the buffers' messages.
LEMMA InQueueElems == \A m : InQueue(m) <=> \E q \in Queues : m \in Elems(queue[q])
  BY DEF InQueue, Elems

\* A step that leaves the channels and the workers alone moves no message.
LEMMA StillPlaced ==
  ASSUME UNCHANGED <<queue, worker, wmsg, aheld>>
  PROVE  \A m : (Placed(m)' <=> Placed(m)) /\ (InQueue(m)' <=> InQueue(m))
  BY DEF Placed, InQueue, HeldByWorker

\* A send puts one message into one channel.
LEMMA SendPlaces ==
  ASSUME TypeOK, NEW r \in Requests, pq[r] \in Queues, SelectSend(r)
  PROVE  /\ queue' \in [Queues -> Seq(Msgs \cup {None})]
         /\ \A m : \A q \in Queues : m \in Elems(queue'[q]) <=>
              m \in Elems(queue[q]) \/ (q = pq[r] /\ m = msg[r])
         /\ \A m : Placed(m)' <=> Placed(m) \/ m = msg[r]
  <1>1. /\ queue \in [Queues -> Seq(Msgs \cup {None})] /\ msg[r] \in Msgs \cup {None}
        /\ queue' = [queue EXCEPT ![pq[r]] = Append(@, msg[r])]
        /\ UNCHANGED <<worker, wmsg, aheld>>
    BY DEF TypeOK, ChannelType, RequestType, SelectSend, reqVars, workVars, adminVars
  <1>2. ASSUME NEW m, NEW q \in Queues
        PROVE  m \in Elems(queue'[q]) <=>
                 m \in Elems(queue[q]) \/ (q = pq[r] /\ m = msg[r])
    <2>1. queue[pq[r]] \in Seq(Msgs \cup {None})
      BY <1>1
    <2>2. Elems(Append(queue[pq[r]], msg[r])) = Elems(queue[pq[r]]) \cup {msg[r]}
      BY <1>1, <2>1, ElemsAppend
    <2> QED BY <1>1, <2>2
  <1>3. \A m : InQueue(m)' <=> \E q \in Queues : m \in Elems(queue'[q])
    BY DEF InQueue, Elems
  <1>4. \A m : InQueue(m)' <=> InQueue(m) \/ m = msg[r]
    BY <1>2, <1>3, InQueueElems
  <1>5. \A m : HeldByWorker(m)' <=> HeldByWorker(m)
    BY <1>1 DEF HeldByWorker
  <1>6. queue' \in [Queues -> Seq(Msgs \cup {None})]
    BY <1>1
  <1> QED BY <1>1, <1>2, <1>4, <1>5, <1>6 DEF Placed

\* The message of a producer that was parked until this step.
Handed(m) == \E r \in Requests : rpc[r] # "waiting" /\ rpc'[r] = "waiting" /\ m = msg[r]

\* A worker takes the head of its channel; a parked producer may get its place.
LEMMA ReceivePlaces ==
  ASSUME TypeOK, NEW q \in Queues, NEW i \in Slots, Receive(q, i), Head(queue[q]) # None
  PROVE  /\ \A m : \A p \in Queues : m \in Elems(queue'[p]) <=>
              IF p = q THEN m \in Elems(Tail(queue[q])) \/ Handed(m)
              ELSE m \in Elems(queue[p])
         /\ \A m : \A p \in Queues, j \in Slots : Holds(p, j, m)' <=>
              IF p = q /\ j = i THEN m = Head(queue[q]) ELSE Holds(p, j, m)
         /\ \A m : Placed(m)' <=> Placed(m) \/ Handed(m)
  <1>1. /\ queue \in [Queues -> Seq(Msgs \cup {None})]
        /\ msg \in [Requests -> Msgs \cup {None}]
        /\ worker \in [Queues -> [Slots -> Live \cup {"none", "exited"}]]
        /\ wmsg \in [Queues -> [Slots -> Msgs \cup {None}]]
        /\ queue[q] # <<>> /\ worker[q][i] = "idle"
        /\ worker' = [worker EXCEPT ![q][i] = "busy"]
        /\ wmsg' = [wmsg EXCEPT ![q][i] = Head(queue[q])]
        /\ UNCHANGED aheld
    BY DEF TypeOK, ChannelType, RequestType, WorkerType, Receive, adminVars
  <1> DEFINE t == Tail(queue[q])
  <1>2. t \in Seq(Msgs \cup {None}) /\ Elems(queue[q]) = {Head(queue[q])} \cup Elems(t)
    <2>1. queue[q] \in Seq(Msgs \cup {None})
      BY <1>1
    <2> QED BY <1>1, <2>1, ElemsTail
  <1>3. ASSUME NEW m, NEW p \in Queues
        PROVE  m \in Elems(queue'[p]) <=>
                 IF p = q THEN m \in Elems(t) \/ Handed(m) ELSE m \in Elems(queue[p])
    <2>1. CASE queue' = [queue EXCEPT ![q] = Tail(@)] /\ UNCHANGED rpc
      BY <1>1, <2>1 DEF Handed
    <2>2. ASSUME NEW r \in Parked(q), Goto(r, "waiting"),
                 queue' = [queue EXCEPT ![q] = Append(Tail(@), msg[r])]
          PROVE  m \in Elems(queue'[p]) <=>
                   IF p = q THEN m \in Elems(t) \/ Handed(m) ELSE m \in Elems(queue[p])
      <3>1. Elems(Append(t, msg[r])) = Elems(t) \cup {msg[r]}
        <4>1. msg[r] \in Msgs \cup {None}
          BY <1>1 DEF Parked
        <4> HIDE DEF t
        <4> QED BY <1>2, <4>1, ElemsAppend
      <3>2. Handed(m) <=> m = msg[r]
        BY <2>2 DEF Handed, Parked, Goto, TypeOK, RequestType
      <3> QED BY <1>1, <2>2, <3>1, <3>2
    <2> QED BY <2>1, <2>2 DEF Receive
  <1>4. \A m : \A p \in Queues, j \in Slots : Holds(p, j, m)' <=>
          IF p = q /\ j = i THEN m = Head(queue[q]) ELSE Holds(p, j, m)
    BY <1>1 DEF Holds
  <1>5. ASSUME NEW m PROVE HeldByWorker(m)' <=> HeldByWorker(m) \/ m = Head(queue[q])
    <2>1. ~Holds(q, i, m)
      BY <1>1 DEF Holds
    <2>2. HeldByWorker(m)' <=> \E p \in Queues, j \in Slots : Holds(p, j, m)'
      BY DEF HeldByWorker, Holds
    <2>3. HeldByWorker(m) <=> \E p \in Queues, j \in Slots : Holds(p, j, m)
      BY DEF HeldByWorker, Holds
    <2> QED BY <1>4, <2>1, <2>2, <2>3
  <1>6. ASSUME NEW m PROVE InQueue(m)' <=> \E p \in Queues : m \in Elems(queue'[p])
    BY DEF InQueue, Elems
  <1>7. ASSUME NEW m PROVE Placed(m)' <=> Placed(m) \/ Handed(m)
    <2> HIDE DEF t
    <2>1. InQueue(m)' => InQueue(m) \/ Handed(m)
      BY <1>2, <1>3, <1>6, InQueueElems
    <2>2. InQueue(m) => InQueue(m)' \/ m = Head(queue[q])
      BY <1>2, <1>3, <1>6, InQueueElems
    <2>3. Handed(m) => InQueue(m)'
      BY <1>3, <1>6
    <2>4. InQueue(Head(queue[q]))
      BY <1>2, InQueueElems
    <2> QED BY <1>1, <1>5, <2>1, <2>2, <2>3, <2>4 DEF Placed
  <1> QED BY <1>3, <1>4, <1>7

\* The worker that answers a message gives it up.
LEMMA ReleasePlaces ==
  ASSUME TypeOK, NEW q \in Queues, NEW i \in Slots, NEW pc, pc \notin {"busy", "called"},
         worker' = [worker EXCEPT ![q][i] = pc],
         wmsg' = [wmsg EXCEPT ![q][i] = None], UNCHANGED <<queue, aheld>>
  PROVE  /\ \A m : \A p \in Queues, j \in Slots : Holds(p, j, m)' <=>
              Holds(p, j, m) /\ ~(p = q /\ j = i)
         /\ \A m : (InQueue(m)' <=> InQueue(m)) /\ (Placed(m)' => Placed(m))
         /\ \A m : Placed(m) => Placed(m)' \/ Holds(q, i, m)
  <1>1. \A m : \A p \in Queues, j \in Slots : Holds(p, j, m)' <=>
              Holds(p, j, m) /\ ~(p = q /\ j = i)
    BY DEF Holds, TypeOK, WorkerType
  <1>2. \A m : InQueue(m)' <=> InQueue(m)
    BY DEF InQueue
  <1>3. \A m : (HeldByWorker(m)' <=> \E p \in Queues, j \in Slots : Holds(p, j, m)')
    BY DEF HeldByWorker, Holds
  <1>4. \A m : (HeldByWorker(m) <=> \E p \in Queues, j \in Slots : Holds(p, j, m))
    BY DEF HeldByWorker, Holds
  <1> QED BY <1>1, <1>2, <1>3, <1>4 DEF Placed

\* Sending upstream and exiting move no message.
LEMMA WorkPlaces ==
  ASSUME TypeOK, NEW q \in Queues, NEW i \in Slots, NEW pc,
         \/ worker[q][i] = "busy" /\ pc = "called"
         \/ worker[q][i] = "idle" /\ pc = "exited",
         worker' = [worker EXCEPT ![q][i] = pc], UNCHANGED <<wmsg, queue, aheld>>
  PROVE  /\ \A m : \A p \in Queues, j \in Slots : Holds(p, j, m)' <=> Holds(p, j, m)
         /\ \A m : (InQueue(m)' <=> InQueue(m)) /\ (Placed(m)' <=> Placed(m))
  <1>1. \A m : \A p \in Queues, j \in Slots : Holds(p, j, m)' <=> Holds(p, j, m)
    BY DEF Holds, TypeOK, WorkerType
  <1>2. \A m : InQueue(m)' <=> InQueue(m)
    BY DEF InQueue
  <1>3. \A m : (HeldByWorker(m)' <=> \E p \in Queues, j \in Slots : Holds(p, j, m)')
    BY DEF HeldByWorker, Holds
  <1>4. \A m : (HeldByWorker(m) <=> \E p \in Queues, j \in Slots : Holds(p, j, m))
    BY DEF HeldByWorker, Holds
  <1> QED BY <1>1, <1>2, <1>3, <1>4 DEF Placed

\* New workers replace none that holds a message.
LEMMA StartPlaces ==
  ASSUME TypeOK, Unstarted, StartWorkers(registered), UNCHANGED <<wmsg, queue, aheld>>
  PROVE  /\ \A m : \A p \in Queues, j \in Slots : Holds(p, j, m)' <=> Holds(p, j, m)
         /\ \A m : (InQueue(m)' <=> InQueue(m)) /\ (Placed(m)' <=> Placed(m))
         /\ \A p \in Queues, j \in Slots : worker'[p][j] \in {"busy", "called"} =>
              worker'[p][j] = worker[p][j]
  <1>1. \A j \in Slots : worker[registered][j] \notin {"busy", "called"}
    BY DEF Unstarted, LiveSlots, Live
  <1>2. \A p \in Queues, j \in Slots :
          worker'[p][j] = IF p = registered THEN "idle" ELSE worker[p][j]
    BY DEF StartWorkers, TypeOK, WorkerType
  <1>3. \A m : \A p \in Queues, j \in Slots : Holds(p, j, m)' <=> Holds(p, j, m)
    BY <1>1, <1>2 DEF Holds
  <1>4. \A m : InQueue(m)' <=> InQueue(m)
    BY DEF InQueue
  <1>5. \A m : (HeldByWorker(m)' <=> \E p \in Queues, j \in Slots : Holds(p, j, m)')
    BY DEF HeldByWorker, Holds
  <1>6. \A m : (HeldByWorker(m) <=> \E p \in Queues, j \in Slots : Holds(p, j, m))
    BY DEF HeldByWorker, Holds
  <1> QED BY <1>2, <1>3, <1>4, <1>5, <1>6 DEF Placed

\* The transfer moves the head of the old channel to the new one, or to the
\* goroutine that carries the overflow.
LEMMA TransferPlaces ==
  ASSUME TypeOK, registered \in Queues, aheld = None, UpdateTransfer
  PROVE  \A m \in Msgs : Placed(m)' <=> Placed(m)
  <1> DEFINE src == queue[aold]
             h   == IF src = <<>> THEN None ELSE Head(src)
  <1>1. /\ aold \in Queues /\ src \in Seq(Msgs \cup {None})
        /\ queue \in [Queues -> Seq(Msgs \cup {None})]
        /\ UNCHANGED <<worker, wmsg>>
    BY DEF TypeOK, ChannelType, ControlType, Queues, UpdateTransfer, workVars
  <1>2. h \in Msgs \cup {None} /\ Rest(src) \in Seq(Msgs \cup {None})
    BY <1>1 DEF Rest
  <1>3. \A m \in Msgs : m \in Elems(src) <=> m = h \/ m \in Elems(Rest(src))
    <2>1. CASE src = <<>>
      BY <2>1, ConstantsAssumption DEF Rest, Elems
    <2>2. CASE src # <<>>
      BY <1>1, <2>2, ElemsTail DEF Rest
    <2> QED BY <2>1, <2>2
  <1>4. \A m : HeldByWorker(m)' <=> HeldByWorker(m)
    BY <1>1 DEF HeldByWorker
  <1>5. \A m : InQueue(m)' <=> \E p \in Queues : m \in Elems(queue'[p])
    BY DEF InQueue, Elems
  <1>6. CASE UNCHANGED <<queue, aheld>>
    BY <1>1, <1>6, StillPlaced
  <1>7. CASE queue' = [queue EXCEPT ![aold] = Rest(src)] /\ aheld' = h
    <2>1. \A p \in Queues : queue'[p] = IF p = aold THEN Rest(src) ELSE queue[p]
      BY <1>1, <1>7
    <2>2. \A m \in Msgs : InQueue(m) \/ aheld = m <=> InQueue(m)' \/ aheld' = m
      <3> HIDE DEF h
      <3> QED BY <1>1, <1>3, <1>5, <1>7, <2>1, InQueueElems, ConstantsAssumption
    <2> QED BY <1>4, <2>2 DEF Placed
  <1>8. CASE /\ queue' = [[queue EXCEPT ![aold] = Rest(src)] EXCEPT ![registered] = Append(@, h)]
             /\ UNCHANGED aheld
    <2> DEFINE mid == [queue EXCEPT ![aold] = Rest(src)]
    <2>1. \A p \in Queues : mid[p] = IF p = aold THEN Rest(src) ELSE queue[p]
      BY <1>1
    <2>2. mid[registered] \in Seq(Msgs \cup {None})
      BY <1>1, <1>2, <2>1
    <2>3. mid \in [Queues -> Seq(Msgs \cup {None})]
      BY <1>1, <1>2
    <2>4. queue' = [mid EXCEPT ![registered] = Append(@, h)]
      BY <1>8
    <2> HIDE DEF mid, h
    <2>5. Elems(Append(mid[registered], h)) = Elems(mid[registered]) \cup {h}
      BY <1>2, <2>2, ElemsAppend
    <2>6. \A p \in Queues : Elems(queue'[p]) =
            IF p = registered THEN Elems(mid[p]) \cup {h} ELSE Elems(mid[p])
      BY <2>3, <2>4, <2>5
    <2>7. \A m \in Msgs : InQueue(m)' <=> (\E p \in Queues : m \in Elems(mid[p])) \/ m = h
      BY <1>5, <2>6
    <2>8. \A m \in Msgs : InQueue(m) <=> (\E p \in Queues : m \in Elems(mid[p])) \/ m = h
      BY <1>1, <1>3, <2>1, InQueueElems
    <2> QED BY <1>4, <1>8, <2>7, <2>8 DEF Placed
  <1> QED BY <1>6, <1>7, <1>8 DEF UpdateTransfer

\* The overflow goroutine gives up the message it carries.
LEMMA OverflowPlaces ==
  ASSUME UpdateOverflow
  PROVE  \A m \in Msgs : /\ Placed(m)' => Placed(m)
                         /\ Placed(m) => Placed(m)' \/ m = aheld
  <1>1. UNCHANGED <<queue, worker, wmsg>> /\ (UNCHANGED aheld \/ aheld' = None)
    BY DEF UpdateOverflow, chanVars, workVars
  <1> QED BY <1>1, ConstantsAssumption DEF Placed, InQueue, HeldByWorker
-----------------------------------------------------------------------------
(* No request is forgotten.                                                *)

\* No request is waiting and no message is under way after Init.
LEMMA MessageInit == Init => MessageInv
  <1> SUFFICES ASSUME Init PROVE MessageInv
    OBVIOUS
  <1>1. OwnInv /\ NoLostRequest
    BY DEF Init, OwnInv, NoLostRequest, HasMessage, HasQueue
  <1>2. \A m \in Msgs : ~Placed(m)
    BY ConstantsAssumption DEF Init, Placed, InQueue, HeldByWorker
  <1>3. CarryInv
    BY <1>2 DEF Init, CarryInv
  <1> QED BY <1>1, <1>3 DEF MessageInv

\* A step that keeps the messages of the waiting producers under way.
LEMMA Remember ==
  ASSUME \A r \in Requests : \A m :
           rpc'[r] = "waiting" /\ resp'[r] = None /\ ~ctxDone'[r] /\ msg'[r] = m => Placed(m)'
  PROVE  NoLostRequest'
  BY DEF NoLostRequest, Placed, InQueue, HeldByWorker

\* Producers that return to their callers take no message away from the others.
LEMMA LeaveKeeps ==
  ASSUME TypeOK, MessageInv, NEW S \in SUBSET Requests, NEW how \in Finished, Leave(S, how),
         UNCHANGED <<content, queue, worker, wmsg, wjob, aheld, ctxDone>>,
         apc' = apc \/ apc # "updOverflow",
         \A r \in Requests \ S : resp'[r] = resp[r]
  PROVE  MessageInv'
  <1>1. \A r \in Requests : \/ rpc'[r] \notin HasMessage
                            \/ r \notin S /\ rpc'[r] = rpc[r] /\ msg'[r] = msg[r]
    BY DEF Leave, TypeOK, RequestType, HasMessage, HasQueue, Finished, Rejected
  <1>2. \A m \in Msgs : owner[m] \notin S => owner'[m] = owner[m]
    BY DEF Leave
  <1>3. OwnInv'
    BY <1>1, <1>2 DEF MessageInv, OwnInv
  <1>4. CarryInv'
    BY StillPlaced DEF MessageInv, CarryInv
  <1>5. ASSUME NEW r \in Requests, rpc'[r] = "waiting", resp'[r] = None, ~ctxDone'[r]
        PROVE  Placed(msg[r]) /\ msg'[r] = msg[r]
    BY <1>1, <1>5 DEF MessageInv, NoLostRequest, Placed, HasMessage, HasQueue
  <1>6. NoLostRequest'
    BY <1>5, StillPlaced, Remember
  <1> QED BY <1>3, <1>4, <1>6 DEF MessageInv

\* A step that moves no message, takes none from the pool and answers nobody.
LEMMA QuietKeeps ==
  ASSUME MessageInv, UNCHANGED <<msg, owner, content, resp>>,
         \A m \in Msgs : Placed(m)' <=> Placed(m),
         \A q \in Queues, i \in Slots :
           worker'[q][i] = "called" => worker[q][i] = "called" /\ wjob'[q][i] = wjob[q][i],
         aheld' # None => apc' = "updOverflow",
         \A r \in Requests : /\ rpc'[r] \in HasMessage => rpc[r] \in HasMessage
                             /\ rpc'[r] = "waiting" => rpc[r] = "waiting"
                             /\ ctxDone[r] => ctxDone'[r]
  PROVE  MessageInv'
  <1>1. OwnInv'
    BY DEF MessageInv, OwnInv
  <1>2. CarryInv'
    BY DEF MessageInv, CarryInv
  <1>3. ASSUME NEW r \in Requests, rpc'[r] = "waiting", resp'[r] = None, ~ctxDone'[r]
        PROVE  Placed(msg[r]) /\ msg[r] \in Msgs
    BY <1>3 DEF MessageInv, NoLostRequest, Placed, OwnInv, HasMessage, HasQueue
  <1>4. NoLostRequest'
    BY <1>3, Remember
  <1> QED BY <1>1, <1>2, <1>4 DEF MessageInv

\* A step that answers the owner of message d and lets d go, or does neither.
LEMMA AnswerKeeps ==
  ASSUME TypeOK, MessageInv, NEW d \in Msgs, NEW j, j # None,
         \/ PutAnswer(d, j)
         \/ UNCHANGED resp /\ (owner[d] = None \/ ctxDone[content[d]]),
         UNCHANGED <<rpc, msg, owner, content, ctxDone>>,
         \A m \in Msgs : Placed(m)' => Placed(m),
         \A m \in Msgs : Placed(m) => Placed(m)' \/ m = d,
         \A q \in Queues, i \in Slots :
           worker'[q][i] = "called" => worker[q][i] = "called" /\ wjob'[q][i] = wjob[q][i],
         aheld' # None => apc' = "updOverflow"
  PROVE  MessageInv'
  <1>1. OwnInv'
    BY DEF MessageInv, OwnInv
  <1>2. CarryInv'
    BY DEF MessageInv, CarryInv
  <1>3. ASSUME NEW r \in Requests, rpc[r] = "waiting", resp'[r] = None, ~ctxDone[r]
        PROVE  Placed(msg[r])'
    <2>1. msg[r] \in Msgs /\ owner[msg[r]] = r /\ content[msg[r]] = r
      BY <1>3 DEF MessageInv, OwnInv, HasMessage, HasQueue
    <2>2. resp[r] = None /\ msg[r] # d
      BY <1>3, <2>1, ConstantsAssumption DEF PutAnswer, TypeOK, RequestType
    <2>3. Placed(msg[r])
      BY <1>3, <2>2 DEF MessageInv, NoLostRequest, Placed
    <2>4. \A m : m = msg[r] => Placed(m)'
      BY <2>1, <2>2, <2>3
    <2> QED BY <2>4 DEF Placed, InQueue, HeldByWorker
  <1>4. \A r \in Requests : \A m :
          rpc'[r] = "waiting" /\ resp'[r] = None /\ ~ctxDone'[r] /\ msg'[r] = m => Placed(m)'
    BY <1>3 DEF Placed, InQueue, HeldByWorker
  <1>5. NoLostRequest'
    BY <1>4, Remember
  <1> QED BY <1>1, <1>2, <1>5 DEF MessageInv

\* A producer with a message gets it into a channel and waits.
LEMMA SentKeeps ==
  ASSUME TypeOK, MessageInv, NEW r \in Requests, rpc[r] \in HasMessage, Goto(r, "waiting"),
         UNCHANGED <<msg, owner, content, resp, ctxDone, wjob, aheld, apc>>,
         \A m : Placed(m)' <=> Placed(m) \/ m = msg[r],
         \A q \in Queues, i \in Slots : worker'[q][i] = "called" => worker[q][i] = "called"
  PROVE  MessageInv'
  <1>1. OwnInv'
    BY DEF MessageInv, OwnInv, Goto, TypeOK, RequestType, HasMessage, HasQueue
  <1>2. content[msg[r]] # None
    BY ConstantsAssumption DEF MessageInv, OwnInv
  <1>3. CarryInv'
    BY <1>2 DEF MessageInv, CarryInv
  <1>4. \A p \in Requests : p # r => rpc'[p] = rpc[p]
    BY DEF Goto, TypeOK, RequestType
  <1>5. \A p \in Requests : \A m :
          rpc'[p] = "waiting" /\ resp'[p] = None /\ ~ctxDone'[p] /\ msg'[p] = m => Placed(m)'
    <2> SUFFICES ASSUME NEW p \in Requests, rpc'[p] = "waiting", resp[p] = None, ~ctxDone[p],
                        p # r
                 PROVE  Placed(msg[p])
      OBVIOUS
    <2> QED BY <1>4 DEF MessageInv, NoLostRequest, Placed
  <1>6. NoLostRequest'
    BY <1>5, Remember
  <1> QED BY <1>1, <1>3, <1>6 DEF MessageInv

\* Every step of every goroutine keeps every waiting request's message.
LEMMA MessageStep ==
  TypeOK /\ LifeInv /\ QueueInv /\ MessageInv /\ [Next]_vars => MessageInv'
  <1> SUFFICES ASSUME TypeOK, LifeInv, QueueInv, MessageInv, [Next]_vars PROVE MessageInv'
    OBVIOUS
  <1> USE DEF reqVars, poolVars, chanVars, workVars, regVars, adminVars, shutVars
  <1>0. aheld # None => apc = "updOverflow"
    BY DEF MessageInv, CarryInv
  <1>1. ASSUME NEW r \in Requests, GetProviderQueue(r) PROVE MessageInv'
    <2>1. \A p \in Requests : rpc'[p] \in HasMessage => rpc'[p] = rpc[p]
      BY <1>1 DEF GetProviderQueue, Goto, HasMessage, HasQueue, TypeOK, RequestType
    <2>2. UNCHANGED <<msg, owner, content, resp, queue, worker, wmsg, wjob, aheld, apc, ctxDone>>
      BY <1>1 DEF GetProviderQueue
    <2>3. \A m : Placed(m)' <=> Placed(m)
      BY <2>2, StillPlaced
    <2> QED BY <1>0, <2>1, <2>2, <2>3, QuietKeeps DEF HasMessage, HasQueue
  <1>2. ASSUME NEW r \in Requests, GetProviderQueueLocked(r) PROVE MessageInv'
    <2>1. /\ UNCHANGED <<content, resp, queue, worker, wmsg, wjob, aheld, apc, ctxDone>>
          /\ \/ Leave({r}, "noProvider")
             \/ /\ UNCHANGED <<msg, owner>>
                /\ Goto(r, "prehook") \/ Goto(r, "create")
      BY <1>2 DEF GetProviderQueueLocked
    <2>2. CASE Leave({r}, "noProvider")
      BY <2>1, <2>2, LeaveKeeps DEF Finished
    <2>3. CASE UNCHANGED <<msg, owner>> /\ (Goto(r, "prehook") \/ Goto(r, "create"))
      <3>1. \A p \in Requests : rpc'[p] \in HasMessage => rpc'[p] = rpc[p]
        BY <2>3 DEF Goto, HasMessage, HasQueue, TypeOK, RequestType
      <3>2. \A m : Placed(m)' <=> Placed(m)
        BY <2>1, StillPlaced
      <3> QED BY <1>0, <2>1, <2>3, <3>1, <3>2, QuietKeeps DEF HasMessage, HasQueue
    <2> QED BY <2>1, <2>2, <2>3
  <1>3. ASSUME NEW r \in Requests, CreateProvider(r) PROVE MessageInv'
    <2>1. /\ UNCHANGED <<content, resp, queue, wmsg, wjob, aheld, apc, ctxDone>> /\ Unstarted
          /\ \/ Leave({r}, "noProvider") /\ UNCHANGED worker
             \/ /\ UNCHANGED <<msg, owner>> /\ Goto(r, "prehook")
                /\ StartWorkers(registered)
      BY <1>3 DEF CreateProvider, LifeInv, PhaseInv
    <2>2. CASE Leave({r}, "noProvider") /\ UNCHANGED worker
      BY <2>1, <2>2, LeaveKeeps DEF Finished
    <2>3. CASE UNCHANGED <<msg, owner>> /\ Goto(r, "prehook") /\ StartWorkers(registered)
      <3>1. \A p \in Requests : rpc'[p] \in HasMessage => rpc'[p] = rpc[p]
        BY <2>3 DEF Goto, HasMessage, HasQueue, TypeOK, RequestType
      <3>2. /\ \A m : Placed(m)' <=> Placed(m)
            /\ \A q \in Queues, i \in Slots : worker'[q][i] = "called" => worker[q][i] = "called"
        BY <2>1, <2>3, StartPlaces
      <3> QED BY <1>0, <2>1, <2>3, <3>1, <3>2, QuietKeeps DEF HasMessage, HasQueue
    <2> QED BY <2>1, <2>2, <2>3
  <1>4. ASSUME NEW r \in Requests, PreHooks(r) PROVE MessageInv'
    <2>1. UNCHANGED <<resp, queue, worker, wmsg, wjob, aheld, apc, ctxDone>>
      BY <1>4 DEF PreHooks
    <2>2. CASE Leave({r}, "shortCircuit") /\ UNCHANGED content
      BY <2>1, <2>2, LeaveKeeps DEF Finished
    <2>3. ASSUME NEW m \in Msgs, owner[m] = None, owner' = [owner EXCEPT ![m] = r],
                 content' = [content EXCEPT ![m] = r], msg' = [msg EXCEPT ![r] = m],
                 Goto(r, "check")
          PROVE  MessageInv'
      <3>1. OwnInv'
        BY <2>3, ConstantsAssumption
           DEF MessageInv, OwnInv, Goto, HasMessage, HasQueue, TypeOK, RequestType, PoolType
      <3>2. CarryInv'
        BY <2>1, <2>3, StillPlaced, ConstantsAssumption
           DEF MessageInv, CarryInv, TypeOK, PoolType
      <3>3. ASSUME NEW p \in Requests, rpc'[p] = "waiting", resp'[p] = None, ~ctxDone'[p]
            PROVE  Placed(msg[p]) /\ msg'[p] = msg[p]
        BY <1>4, <2>1, <2>3, <3>3 DEF Goto, MessageInv, NoLostRequest, Placed, TypeOK, RequestType
      <3>4. NoLostRequest'
        BY <2>1, <3>3, StillPlaced, Remember
      <3> QED BY <3>1, <3>2, <3>4 DEF MessageInv
    <2> QED BY <1>4, <2>2, <2>3 DEF PreHooks
  <1>5. ASSUME NEW r \in Requests, IsClosing(r) \/ SelectGiveUp(r) \/ SelectFull(r)
        PROVE  MessageInv'
    <2>1. /\ UNCHANGED <<content, resp, queue, worker, wmsg, wjob, aheld, apc, ctxDone>>
          /\ \/ \E how \in Finished : Leave({r}, how)
             \/ /\ UNCHANGED <<msg, owner>> /\ rpc[r] \in HasMessage
                /\ \E pc \in {"select", "select2", "recheck", "blocked"} : Goto(r, pc)
      BY <1>5 DEF IsClosing, SelectGiveUp, SelectFull, Finished, Rejected, HasMessage, HasQueue
    <2>2. ASSUME NEW how \in Finished, Leave({r}, how) PROVE MessageInv'
      BY <2>1, <2>2, LeaveKeeps
    <2>3. ASSUME UNCHANGED <<msg, owner>>, rpc[r] \in HasMessage,
                 NEW pc \in {"select", "select2", "recheck", "blocked"}, Goto(r, pc)
          PROVE  MessageInv'
      <3>1. \A p \in Requests : /\ rpc'[p] \in HasMessage => rpc[p] \in HasMessage
                                /\ rpc'[p] = "waiting" => rpc[p] = "waiting"
        BY <2>3 DEF Goto, TypeOK, RequestType
      <3>2. \A m : Placed(m)' <=> Placed(m)
        BY <2>1, StillPlaced
      <3> QED BY <1>0, <2>1, <2>3, <3>1, <3>2, QuietKeeps
    <2> QED BY <2>1, <2>2, <2>3
  <1>6. ASSUME NEW r \in Requests, SelectSend(r) PROVE MessageInv'
    <2>1. /\ rpc[r] \in HasMessage /\ pq[r] \in Queues /\ Goto(r, "waiting")
          /\ UNCHANGED <<msg, owner, content, resp, ctxDone, worker, wjob, aheld, apc>>
      BY <1>6 DEF SelectSend, QueueInv, ParkedInv, HasMessage, HasQueue
    <2>2. \A m : Placed(m)' <=> Placed(m) \/ m = msg[r]
      BY <1>6, <2>1, SendPlaces
    <2> QED BY <2>1, <2>2, SentKeeps
  <1>7. ASSUME NEW r \in Requests, TakeAnswer(r) \/ WaitCancelled(r) PROVE MessageInv'
    <2>1. /\ UNCHANGED <<content, queue, worker, wmsg, wjob, aheld, apc, ctxDone>>
          /\ \E how \in Finished : Leave({r}, how)
          /\ \A p \in Requests \ {r} : resp'[p] = resp[p]
      BY <1>7 DEF TakeAnswer, WaitCancelled, Finished, TypeOK, RequestType
    <2> QED BY <2>1, LeaveKeeps
  <1>8. ASSUME NEW r \in Requests, SelectSendOnClosed(r) \/ CancelContext(r) PROVE MessageInv'
    <2>1. /\ UNCHANGED <<rpc, msg, owner, content, resp, queue, worker, wmsg, wjob, aheld, apc>>
          /\ \A p \in Requests : ctxDone[p] => ctxDone'[p]
      BY <1>8 DEF SelectSendOnClosed, CancelContext, TypeOK, RequestType
    <2>2. \A m : Placed(m)' <=> Placed(m)
      BY <2>1, StillPlaced
    <2> QED BY <1>0, <2>1, <2>2, QuietKeeps
  <1>9. ASSUME NEW q \in Queues, NEW i \in Slots, Receive(q, i) PROVE MessageInv'
    <2>1. UNCHANGED <<msg, owner, content, resp, ctxDone, wjob, aheld, apc>>
      BY <1>9 DEF Receive
    <2>2. CASE Head(queue[q]) = None
      <3>1. UNCHANGED <<rpc, queue, worker, wmsg>>
        BY <1>9, <2>2 DEF Receive
      <3>2. \A m : Placed(m)' <=> Placed(m)
        BY <2>1, <3>1, StillPlaced
      <3> QED BY <1>0, <2>1, <3>1, <3>2, QuietKeeps
    <2>3. CASE Head(queue[q]) # None
      <3>1. \A p \in Queues, j \in Slots : worker'[p][j] = "called" => worker[p][j] = "called"
        <4>1. worker' = [worker EXCEPT ![q][i] = "busy"]
          BY <1>9, <2>3 DEF Receive
        <4> QED BY <4>1 DEF TypeOK, WorkerType
      <3>2. CASE queue' = [queue EXCEPT ![q] = Tail(@)] /\ UNCHANGED rpc
        <4>1. \A m : ~Handed(m)
          BY <3>2 DEF Handed
        <4>2. \A m : Placed(m)' <=> Placed(m)
          BY <1>9, <2>3, <4>1, ReceivePlaces
        <4> QED BY <1>0, <2>1, <3>1, <3>2, <4>2, QuietKeeps
      <3>3. ASSUME NEW r \in Parked(q), Goto(r, "waiting"),
                   queue' = [queue EXCEPT ![q] = Append(Tail(@), msg[r])]
            PROVE  MessageInv'
        <4>1. r \in Requests /\ rpc[r] \in HasMessage
          BY DEF Parked, HasMessage, HasQueue
        <4>2. \A m : Handed(m) <=> m = msg[r]
          BY <3>3 DEF Handed, Parked, Goto, TypeOK, RequestType
        <4>3. \A m : Placed(m)' <=> Placed(m) \/ m = msg[r]
          BY <1>9, <2>3, <4>2, ReceivePlaces
        <4> QED BY <2>1, <3>1, <3>3, <4>1, <4>3, SentKeeps
      <3> QED BY <1>9, <2>3, <3>2, <3>3 DEF Receive
    <2> QED BY <2>2, <2>3
  <1>10. ASSUME NEW q \in Queues, NEW i \in Slots, KeyError(q, i) PROVE MessageInv'
    <2> DEFINE d == wmsg[q][i]
    <2>1. /\ d \in Msgs /\ Holds(q, i, d)
          /\ UNCHANGED <<rpc, msg, owner, content, ctxDone, queue, wjob, aheld, apc>>
          /\ PutAnswer(d, content[d]) /\ wmsg' = [wmsg EXCEPT ![q][i] = None]
      BY <1>10 DEF KeyError, Holds, TypeOK, WorkerType
    <2>2. PICK pc \in {"hung", "idle"} : worker' = [worker EXCEPT ![q][i] = pc]
      BY <1>10 DEF KeyError
    <2>3. content[d] # None
      BY <2>1 DEF MessageInv, CarryInv, Placed, HeldByWorker, Holds
    <2>4. /\ \A m : Placed(m)' => Placed(m)
          /\ \A m : Placed(m) => Placed(m)' \/ m = d
      <3>1. \A m : Holds(q, i, m) => m = d
        BY DEF Holds
      <3>2. pc \notin {"busy", "called"}
        BY <2>2
      <3> QED BY <2>1, <2>2, <3>1, <3>2, ReleasePlaces
    <2>5. \A p \in Queues, j \in Slots : worker'[p][j] = "called" => worker[p][j] = "called"
      BY <2>2 DEF TypeOK, WorkerType
    <2> HIDE DEF d
    <2> QED BY <1>0, <2>1, <2>3, <2>4, <2>5, AnswerKeeps
  <1>11. ASSUME NEW q \in Queues, NEW i \in Slots, Call(q, i) PROVE MessageInv'
    <2>1. /\ worker[q][i] = "busy" /\ worker' = [worker EXCEPT ![q][i] = "called"]
          /\ wjob' = [wjob EXCEPT ![q][i] = content[wmsg[q][i]]]
          /\ UNCHANGED <<rpc, msg, owner, content, ctxDone, resp, queue, wmsg, aheld, apc>>
      BY <1>11 DEF Call
    <2>2. wmsg[q][i] \in Msgs /\ Placed(wmsg[q][i])
      BY <2>1 DEF TypeOK, WorkerType, Placed, HeldByWorker
    <2>3. \A m : Placed(m)' <=> Placed(m)
      BY <2>1, WorkPlaces
    <2>4. CarryInv'
      <3>1. content[wmsg[q][i]] # None
        BY <2>2 DEF MessageInv, CarryInv
      <3>2. \A p \in Queues, j \in Slots : worker'[p][j] = "called" => wjob'[p][j] # None
        BY <2>1, <3>1 DEF MessageInv, CarryInv, TypeOK, WorkerType
      <3> QED BY <2>1, <2>3, <3>2 DEF MessageInv, CarryInv
    <2>5. OwnInv'
      BY <2>1 DEF MessageInv, OwnInv
    <2>6. ASSUME NEW r \in Requests, rpc'[r] = "waiting", resp'[r] = None, ~ctxDone'[r]
          PROVE  Placed(msg[r])
      BY <2>1, <2>6 DEF MessageInv, NoLostRequest, Placed
    <2>7. NoLostRequest'
      BY <2>1, <2>3, <2>6, Remember
    <2> QED BY <2>4, <2>5, <2>7 DEF MessageInv
  <1>12. ASSUME NEW q \in Queues, NEW i \in Slots, Deliver(q, i) PROVE MessageInv'
    <2> DEFINE d == wmsg[q][i]
    <2>1. /\ d \in Msgs /\ Holds(q, i, d) /\ wjob[q][i] # None
          /\ UNCHANGED <<rpc, msg, owner, content, ctxDone, queue, aheld, apc>>
          /\ wmsg' = [wmsg EXCEPT ![q][i] = None] /\ worker' = [worker EXCEPT ![q][i] = "idle"]
          /\ wjob' = [wjob EXCEPT ![q][i] = None]
      BY <1>12 DEF Deliver, Holds, TypeOK, WorkerType, MessageInv, CarryInv
    <2>2. \/ PutAnswer(d, wjob[q][i])
          \/ UNCHANGED resp /\ (owner[d] = None \/ ctxDone[content[d]])
      BY <1>12 DEF Deliver
    <2>3. /\ \A m : Placed(m)' => Placed(m)
          /\ \A m : Placed(m) => Placed(m)' \/ m = d
      <3>1. \A m : Holds(q, i, m) => m = d
        BY DEF Holds
      <3>2. PICK pc : pc \notin {"busy", "called"} /\ worker' = [worker EXCEPT ![q][i] = pc]
        BY <2>1
      <3> QED BY <2>1, <3>1, <3>2, ReleasePlaces
    <2>4. \A p \in Queues, j \in Slots :
            worker'[p][j] = "called" => worker[p][j] = "called" /\ wjob'[p][j] = wjob[p][j]
      BY <2>1 DEF TypeOK, WorkerType
    <2> HIDE DEF d
    <2> QED BY <1>0, <2>1, <2>2, <2>3, <2>4, AnswerKeeps
  <1>13. ASSUME NEW q \in Queues, NEW i \in Slots, Exit(q, i) PROVE MessageInv'
    <2>1. /\ worker[q][i] = "idle" /\ worker' = [worker EXCEPT ![q][i] = "exited"]
          /\ UNCHANGED <<rpc, msg, owner, content, ctxDone, resp, queue, wmsg, wjob, aheld, apc>>
      BY <1>13 DEF Exit
    <2>2. \A m : Placed(m)' <=> Placed(m)
      BY <2>1, WorkPlaces
    <2>3. \A p \in Queues, j \in Slots : worker'[p][j] = "called" => worker[p][j] = "called"
      BY <2>1 DEF TypeOK, WorkerType
    <2> QED BY <1>0, <2>1, <2>2, <2>3, QuietKeeps
  <1>14. CASE BeginRemove \/ RemoveClose \/ RemoveFinish \/ BeginUpdate \/ UpdateClose
              \/ UpdateWait \/ ShutdownClose \/ ShutdownDone \/ UNCHANGED vars
    <2>1. /\ UNCHANGED <<rpc, msg, owner, content, resp, ctxDone, queue, worker, wmsg, wjob, aheld>>
          /\ apc' = apc \/ apc # "updOverflow"
      BY <1>14 DEF BeginRemove, RemoveClose, RemoveFinish, BeginUpdate, UpdateClose, UpdateWait,
         ShutdownClose, ShutdownDone, vars
    <2>2. \A m : Placed(m)' <=> Placed(m)
      BY <2>1, StillPlaced
    <2> QED BY <1>0, <2>1, <2>2, QuietKeeps
  <1>15. CASE RemoveSignal \/ UpdateSignal \/ ShutdownSignal
    <2>1. /\ UNCHANGED <<content, resp, ctxDone, queue, worker, wmsg, wjob, aheld>>
          /\ apc' = apc \/ apc # "updOverflow"
          /\ (\E q : Leave(Parked(q), "shutdown")) \/ UNCHANGED <<rpc, msg, owner>>
      BY <1>15 DEF RemoveSignal, UpdateSignal, ShutdownSignal, SignalClosing
    <2>2. ASSUME NEW q, Leave(Parked(q), "shutdown") PROVE MessageInv'
      <3>1. Parked(q) \in SUBSET Requests /\ "shutdown" \in Finished
        BY DEF Parked, Finished, Rejected
      <3> QED BY <2>1, <2>2, <3>1, LeaveKeeps
    <2>3. CASE UNCHANGED <<rpc, msg, owner>>
      <3>1. \A m : Placed(m)' <=> Placed(m)
        BY <2>1, StillPlaced
      <3> QED BY <1>0, <2>1, <2>3, <3>1, QuietKeeps
    <2> QED BY <2>1, <2>2, <2>3
  <1>16. CASE UpdateTransfer
    <2>1. registered \in Queues
      BY <1>16 DEF UpdateTransfer, LifeInv, PhaseInv, Updating, TypeOK, RegistryType, Queues
    <2>2. /\ aheld = None /\ (aheld' # None => apc' = "updOverflow")
          /\ UNCHANGED <<rpc, msg, owner, content, resp, ctxDone, worker, wjob>>
      BY <1>0, <1>16 DEF UpdateTransfer
    <2>3. \A m \in Msgs : Placed(m)' <=> Placed(m)
      BY <1>16, <2>1, <2>2, TransferPlaces
    <2> QED BY <2>2, <2>3, QuietKeeps
  <1>17. CASE UpdateOverflow
    <2>1. UNCHANGED <<rpc, msg, owner, content, ctxDone, queue, worker, wmsg, wjob>>
      BY <1>17 DEF UpdateOverflow
    <2>2. CASE UNCHANGED <<resp, apc, aheld>>
      <3>1. \A m : Placed(m)' <=> Placed(m)
        BY <2>1, <2>2, StillPlaced
      <3> QED BY <1>0, <2>1, <2>2, <3>1, QuietKeeps
    <2>3. CASE aheld # None /\ aheld' = None /\ PutAnswer(aheld, content[aheld])
      <3>1. aheld \in Msgs /\ content[aheld] # None
        BY <2>3 DEF TypeOK, ControlType, MessageInv, CarryInv, Placed
      <3>2. \A m \in Msgs : /\ Placed(m)' => Placed(m)
                            /\ Placed(m) => Placed(m)' \/ m = aheld
        BY <1>17, OverflowPlaces
      <3> QED BY <2>1, <2>3, <3>1, <3>2, AnswerKeeps
    <2> QED BY <1>17, <2>2, <2>3 DEF UpdateOverflow, FailOverflow
  <1>18. CASE UpdateCreate
    <2>1. /\ Unstarted /\ aheld = None
          /\ UNCHANGED <<rpc, msg, owner, content, resp, ctxDone, queue, wmsg, wjob, aheld>>
          /\ StartWorkers(registered) \/ UNCHANGED worker
      BY <1>0, <1>18 DEF UpdateCreate, LifeInv, PhaseInv, Starting
    <2>2. /\ \A m : Placed(m)' <=> Placed(m)
          /\ \A p \in Queues, j \in Slots : worker'[p][j] = "called" => worker[p][j] = "called"
      BY <2>1, StartPlaces, StillPlaced
    <2> QED BY <2>1, <2>2, QuietKeeps
  <1> QED
    BY <1>1, <1>2, <1>3, <1>4, <1>5, <1>6, <1>7, <1>8, <1>9, <1>10, <1>11, <1>12, <1>13, <1>14, <1>15, <1>16, <1>17, <1>18
       DEF Next, Producer, Work, AdminStep, ShutdownStep

\* In every reachable state a waiting request's message is under way or answered.
LEMMA MessageCorrect == Spec => []MessageInv
  BY TypeInit, TypeStep, LifeInit, LifeStep, QueueInit, QueueStep, MessageInit, MessageStep,
     PTL DEF Spec

\* A request tryRequest is waiting for is never forgotten, whichever
\* interleaving of producers, workers, cancellations, updates, removals and
\* Shutdown moves its message.
THEOREM NoRequestIsLost == Spec => []NoLostRequest
  BY MessageCorrect, PTL DEF MessageInv
-----------------------------------------------------------------------------
(* Only streams are cancelled: one call, one answer.                       *)

\* The three places of a message: a channel, a worker, the overflow goroutine.
LEMMA PlacedMeans ==
  \A m : Placed(m) <=> \/ \E q \in Queues : m \in Elems(queue[q])
                       \/ \E q \in Queues, i \in Slots : Holds(q, i, m)
                       \/ aheld = m
  BY InQueueElems DEF Placed, HeldByWorker, Holds

\* Nothing is under way after Init.
LEMMA FlightInit == Init => FlightInv
  <1> SUFFICES ASSUME Init PROVE FlightInv
    OBVIOUS
  <1>1. /\ \A m, q : q \in Queues => m \notin Elems(queue[q])
        /\ \A q \in Queues : NoTwice(queue[q])
    BY DEF Init, Elems, NoTwice
  <1>2. \A m, q, i : q \in Queues /\ i \in Slots => ~Holds(q, i, m)
    BY DEF Init, Holds
  <1>3. \A m \in Msgs : aheld # m
    BY ConstantsAssumption DEF Init
  <1>4. \A m \in Msgs : ~Placed(m) /\ ~Unsent(m)
    BY <1>1, <1>2, <1>3, PlacedMeans DEF Unsent
  <1>5. OnePlaceInv
    BY <1>1, <1>2, <1>3 DEF OnePlaceInv
  <1>6. CallInv
    BY DEF Init, CallInv
  <1> QED BY <1>4, <1>5, <1>6 DEF FlightInv, AwaitedInv, UncalledInv

\* A step that leaves every message where it is and every waiting producer
\* waiting; producers that wait for nothing yet may go on or return.
LEMMA FlightQuiet ==
  ASSUME TypeOK, MessageInv, FlightInv, UNCHANGED <<queue, aheld, calls>>,
         \A r \in Requests : ctxDone'[r] => ctxDone[r] \/ r \in Streams,
         \A m : \A q \in Queues, i \in Slots : Holds(q, i, m)' <=> Holds(q, i, m),
         \A q \in Queues, i \in Slots :
           worker'[q][i] \in {"busy", "called"} =>
             worker'[q][i] = worker[q][i] /\ wjob'[q][i] = wjob[q][i] /\ wmsg'[q][i] = wmsg[q][i],
         \A r \in Requests :
           \/ rpc'[r] = rpc[r] /\ msg'[r] = msg[r] /\ resp'[r] = resp[r]
           \/ /\ rpc[r] # "waiting" /\ rpc'[r] \notin {"waiting", "answered"} /\ resp'[r] = None
              /\ rpc[r] # "answered"
           \/ rpc[r] = "waiting" /\ resp[r] # None /\ rpc'[r] = "answered" /\ resp'[r] = None,
         \A m \in Msgs :
           \/ owner'[m] = owner[m] /\ content'[m] = content[m]
           \/ owner[m] = None
           \/ owner[m] \in Requests /\ rpc'[owner[m]] # rpc[owner[m]] /\ content'[m] = content[m]
  PROVE  FlightInv'
  <1>1. /\ \A m : (\E q \in Queues, i \in Slots : Holds(q, i, m)') <=>
                    \E q \in Queues, i \in Slots : Holds(q, i, m)
        /\ \A q \in Queues : queue'[q] = queue[q]
    OBVIOUS
  <1>2. \A m : Placed(m)' => Placed(m)
    <2>1. \A m : HeldByWorker(m)' => \E q \in Queues, i \in Slots : Holds(q, i, m)'
      BY DEF HeldByWorker, Holds
    <2>2. \A m : InQueue(m)' => \E q \in Queues : m \in Elems(queue[q])
      BY DEF InQueue, Elems
    <2> QED BY <1>1, <2>1, <2>2, PlacedMeans DEF Placed
  <1>3. OnePlaceInv'
    BY <1>1 DEF FlightInv, OnePlaceInv
  <1>4. \A m \in Msgs : Placed(m) => /\ WaitedFor(m) /\ WaitedFor(m)'
                                     /\ owner'[m] = owner[m] /\ content'[m] = content[m]
    <2> SUFFICES ASSUME NEW m \in Msgs, Placed(m)
                 PROVE  /\ WaitedFor(m) /\ WaitedFor(m)'
                        /\ owner'[m] = owner[m] /\ content'[m] = content[m]
      OBVIOUS
    <2>1. WaitedFor(m) /\ owner[m] \in Requests
      BY DEF FlightInv, AwaitedInv, WaitedFor, TypeOK, PoolType
    <2>2. /\ rpc'[owner[m]] = rpc[owner[m]] /\ msg'[owner[m]] = msg[owner[m]]
          /\ resp'[owner[m]] = resp[owner[m]]
      BY <2>1 DEF WaitedFor
    <2> QED BY <2>1, <2>2 DEF WaitedFor
  <1>5. AwaitedInv'
    BY <1>2, <1>4 DEF AwaitedInv
  <1>6. \A m : Unsent(m)' => Unsent(m) /\ Placed(m)
    BY <1>1, PlacedMeans DEF Unsent
  <1>7. UncalledInv'
    BY <1>4, <1>6 DEF FlightInv, UncalledInv
  <1>8. CallInv'
    <2>1. ASSUME NEW q \in Queues, NEW i \in Slots, worker'[q][i] = "called"
          PROVE  wjob'[q][i] = content'[wmsg'[q][i]]
      <3>1. /\ worker[q][i] = "called" /\ wjob'[q][i] = wjob[q][i] /\ wmsg'[q][i] = wmsg[q][i]
            /\ wmsg[q][i] \in Msgs
        BY <2>1 DEF TypeOK, WorkerType
      <3>2. Placed(wmsg[q][i])
        BY <3>1 DEF Placed, HeldByWorker
      <3> QED BY <1>4, <3>1, <3>2 DEF FlightInv, CallInv
    <2>2. ASSUME NEW r \in Requests
          PROVE  /\ ctxDone'[r] => r \in Streams
                 /\ resp'[r] \in {None, r} /\ calls'[r] <= 1
                 /\ resp'[r] # None => rpc'[r] = "waiting"
                 /\ rpc'[r] \notin {"waiting", "answered"} => calls'[r] = 0
      BY DEF FlightInv, CallInv
    <2> QED BY <2>1, <2>2 DEF CallInv
  <1> QED BY <1>3, <1>5, <1>7, <1>8 DEF FlightInv

\* Producers that return, without an answer before they wait or with the answer
\* they found.
LEMMA FlightLeave ==
  ASSUME TypeOK, MessageInv, FlightInv, NEW S \in SUBSET Requests, NEW how \in Finished,
         Leave(S, how), UNCHANGED <<queue, worker, wmsg, wjob, aheld, calls, ctxDone, content>>,
         \A r \in S :
           \/ rpc[r] \notin Finished \cup {"waiting"} /\ how # "answered" /\ resp'[r] = None
           \/ rpc[r] = "waiting" /\ resp[r] # None /\ how = "answered" /\ resp'[r] = None,
         \A r \in Requests \ S : resp'[r] = resp[r]
  PROVE  FlightInv'
  <1>1. \A m : \A q \in Queues, i \in Slots : Holds(q, i, m)' <=> Holds(q, i, m)
    BY DEF Holds
  <1>2. \A r \in Requests :
           \/ rpc'[r] = rpc[r] /\ msg'[r] = msg[r] /\ resp'[r] = resp[r]
           \/ /\ rpc[r] # "waiting" /\ rpc'[r] \notin {"waiting", "answered"} /\ resp'[r] = None
              /\ rpc[r] # "answered"
           \/ rpc[r] = "waiting" /\ resp[r] # None /\ rpc'[r] = "answered" /\ resp'[r] = None
    BY DEF Leave, Finished, Rejected
  <1>3. \A r \in S : rpc'[r] # rpc[r]
    BY DEF Leave, Finished, Rejected
  <1>4. \A m \in Msgs :
           \/ owner'[m] = owner[m] /\ content'[m] = content[m]
           \/ owner[m] = None
           \/ owner[m] \in Requests /\ rpc'[owner[m]] # rpc[owner[m]] /\ content'[m] = content[m]
    BY <1>3 DEF Leave
  <1> QED BY <1>1, <1>2, <1>4, FlightQuiet

\* A producer goes on to its next step before it sends.
LEMMA FlightGoto ==
  ASSUME TypeOK, MessageInv, FlightInv, NEW r \in Requests, NEW pc, Goto(r, pc),
         pc \notin {"waiting", "answered"}, rpc[r] \notin {"waiting", "answered"},
         UNCHANGED <<msg, owner, content, resp, queue, aheld, calls, ctxDone, wjob, wmsg>>,
         \A m : \A q \in Queues, i \in Slots : Holds(q, i, m)' <=> Holds(q, i, m),
         \A q \in Queues, i \in Slots :
           worker'[q][i] \in {"busy", "called"} => worker'[q][i] = worker[q][i]
  PROVE  FlightInv'
  <1>1. resp[r] = None
    BY DEF FlightInv, CallInv
  <1>2. \A p \in Requests :
           \/ rpc'[p] = rpc[p] /\ msg'[p] = msg[p] /\ resp'[p] = resp[p]
           \/ /\ rpc[p] # "waiting" /\ rpc'[p] \notin {"waiting", "answered"} /\ resp'[p] = None
              /\ rpc[p] # "answered"
    BY <1>1 DEF Goto, TypeOK, RequestType
  <1> QED BY <1>2, FlightQuiet

\* Before it is sent a message is nowhere else, and its request is not called.
LEMMA NotYetPlaced ==
  ASSUME TypeOK, MessageInv, FlightInv, NEW r \in Requests, rpc[r] \in HasMessage \ {"waiting"}
  PROVE  /\ msg[r] \in Msgs /\ owner[msg[r]] = r /\ content[msg[r]] = r
         /\ ~Placed(msg[r]) /\ calls[r] = 0 /\ resp[r] = None
         /\ \A q \in Queues : msg[r] \notin Elems(queue[q])
         /\ \A q \in Queues, i \in Slots : ~Holds(q, i, msg[r])
         /\ aheld # msg[r]
  <1>1. msg[r] \in Msgs /\ owner[msg[r]] = r /\ content[msg[r]] = r
    BY DEF MessageInv, OwnInv
  <1>2. ~Placed(msg[r])
    BY <1>1 DEF FlightInv, AwaitedInv, WaitedFor
  <1>3. calls[r] = 0 /\ resp[r] = None
    BY DEF FlightInv, CallInv, HasMessage, HasQueue
  <1> QED BY <1>1, <1>2, <1>3, PlacedMeans

\* A producer's message enters a channel, once.
LEMMA FlightSend ==
  ASSUME TypeOK, QueueInv, MessageInv, FlightInv, NEW r \in Requests, SelectSend(r)
  PROVE  FlightInv'
  <1>1. /\ rpc[r] \in HasMessage \ {"waiting"} /\ pq[r] \in Queues
        /\ UNCHANGED <<msg, owner, content, resp, ctxDone, worker, wmsg, wjob, calls, aheld>>
        /\ queue' = [queue EXCEPT ![pq[r]] = Append(@, msg[r])]
        /\ \A p \in Requests : rpc'[p] = IF p = r THEN "waiting" ELSE rpc[p]
    BY DEF SelectSend, QueueInv, ParkedInv, HasMessage, HasQueue, Goto, TypeOK, RequestType,
       poolVars, workVars, adminVars
  <1>2. /\ msg[r] \in Msgs /\ owner[msg[r]] = r /\ content[msg[r]] = r
        /\ ~Placed(msg[r]) /\ calls[r] = 0 /\ resp[r] = None
        /\ \A q \in Queues : msg[r] \notin Elems(queue[q])
        /\ \A q \in Queues, i \in Slots : ~Holds(q, i, msg[r])
        /\ aheld # msg[r]
    BY <1>1, NotYetPlaced
  <1>3. /\ \A m : \A q \in Queues : m \in Elems(queue'[q]) <=>
             m \in Elems(queue[q]) \/ (q = pq[r] /\ m = msg[r])
        /\ \A m : Placed(m)' <=> Placed(m) \/ m = msg[r]
    BY <1>1, SendPlaces
  <1>4. \A m : \A q \in Queues, i \in Slots : Holds(q, i, m)' <=> Holds(q, i, m)
    BY <1>1 DEF Holds
  <1>5. \A q \in Queues : NoTwice(queue'[q])
    <2>1. /\ queue \in [Queues -> Seq(Msgs \cup {None})] /\ msg[r] \in Msgs \cup {None}
          /\ queue[pq[r]] \in Seq(Msgs \cup {None})
      BY <1>1 DEF TypeOK, ChannelType, RequestType
    <2>2. NoTwice(queue[pq[r]]) /\ msg[r] \notin Elems(queue[pq[r]])
      BY <1>1, <1>2 DEF FlightInv, OnePlaceInv
    <2>3. NoTwice(Append(queue[pq[r]], msg[r]))
      BY <2>1, <2>2, NoTwiceAppend
    <2> QED BY <1>1, <2>1, <2>3 DEF FlightInv, OnePlaceInv
  <1>6. OnePlaceInv'
    <2>1. \A m \in Msgs, p, q \in Queues :
            m \in Elems(queue'[p]) /\ m \in Elems(queue'[q]) => p = q
      BY <1>2, <1>3 DEF FlightInv, OnePlaceInv
    <2>2. \A m \in Msgs, p, q \in Queues, i \in Slots :
            m \in Elems(queue'[p]) => ~Holds(q, i, m)'
      BY <1>2, <1>3, <1>4 DEF FlightInv, OnePlaceInv
    <2>3. \A m \in Msgs, q \in Queues : aheld' = m => m \notin Elems(queue'[q])
      BY <1>1, <1>2, <1>3 DEF FlightInv, OnePlaceInv
    <2> QED BY <1>1, <1>4, <1>5, <2>1, <2>2, <2>3 DEF FlightInv, OnePlaceInv
  <1>7. AwaitedInv'
    <2> SUFFICES ASSUME NEW m \in Msgs, Placed(m) \/ m = msg[r] PROVE WaitedFor(m)'
      BY <1>3 DEF AwaitedInv
    <2>1. CASE m = msg[r]
      BY <1>1, <1>2, <2>1, ConstantsAssumption DEF WaitedFor
    <2>2. CASE Placed(m)
      <3>1. WaitedFor(m) /\ owner[m] \in Requests
        BY <2>2 DEF FlightInv, AwaitedInv, WaitedFor, TypeOK, PoolType
      <3> QED BY <1>1, <3>1 DEF WaitedFor
    <2> QED BY <2>1, <2>2
  <1>8. UncalledInv'
    <2>1. \A m : Unsent(m)' => Unsent(m) \/ m = msg[r]
      BY <1>1, <1>3, <1>4 DEF Unsent
    <2> QED BY <1>1, <1>2, <2>1 DEF FlightInv, UncalledInv
  <1>9. CallInv'
    BY <1>1, <1>2 DEF FlightInv, CallInv
  <1> QED BY <1>6, <1>7, <1>8, <1>9 DEF FlightInv

\* A message under way holds its owner's request, and its owner has no answer
\* yet: whoever answers it answers the owner.
LEMMA PlacedIsOwn ==
  ASSUME TypeOK, MessageInv, FlightInv, NEW m \in Msgs, Placed(m)
  PROVE  /\ WaitedFor(m) /\ owner[m] \in Requests /\ content[m] = owner[m]
         /\ \A j : PutAnswer(m, j) => resp' = [resp EXCEPT ![owner[m]] = j]
  <1>1. WaitedFor(m) /\ owner[m] \in Requests
    BY DEF FlightInv, AwaitedInv, WaitedFor, TypeOK, PoolType
  <1>2. content[m] = owner[m]
    BY <1>1 DEF WaitedFor, MessageInv, OwnInv, HasMessage, HasQueue
  <1> QED BY <1>1, <1>2 DEF PutAnswer, WaitedFor

\* A worker takes a message from its channel.
LEMMA FlightReceive ==
  ASSUME TypeOK, MessageInv, FlightInv, NEW q \in Queues, NEW i \in Slots, Receive(q, i),
         Head(queue[q]) # None
  PROVE  FlightInv'
  <1> DEFINE h == Head(queue[q])
             t == Tail(queue[q])
  <1>1. /\ worker' = [worker EXCEPT ![q][i] = "busy"] /\ wmsg' = [wmsg EXCEPT ![q][i] = h]
        /\ UNCHANGED <<msg, owner, content, resp, ctxDone, wjob, calls, aheld>>
        /\ worker \in [Queues -> [Slots -> Live \cup {"none", "exited"}]]
        /\ wmsg \in [Queues -> [Slots -> Msgs \cup {None}]]
        /\ queue \in [Queues -> Seq(Msgs \cup {None})]
    BY DEF Receive, poolVars, adminVars, TypeOK, WorkerType, ChannelType
  <1>2. /\ h \in Msgs /\ t \in Seq(Msgs \cup {None})
        /\ \A m : m \in Elems(queue[q]) <=> m = h \/ m \in Elems(t)
        /\ NoTwice(t) /\ h \notin Elems(t)
    <2>1. queue[q] \in Seq(Msgs \cup {None}) /\ queue[q] # <<>> /\ NoTwice(queue[q])
      BY DEF Receive, TypeOK, ChannelType, FlightInv, OnePlaceInv
    <2>2. h \in Msgs /\ t \in Seq(Msgs \cup {None})
      BY <2>1
    <2>3. Elems(queue[q]) = {h} \cup Elems(t)
      BY <2>1, ElemsTail
    <2>4. NoTwice(t) /\ h \notin Elems(t)
      BY <2>1, NoTwiceTail
    <2> QED BY <2>2, <2>3, <2>4
  <1>3. /\ \A m : \A p \in Queues : m \in Elems(queue'[p]) <=>
             IF p = q THEN m \in Elems(t) \/ Handed(m) ELSE m \in Elems(queue[p])
        /\ \A m : \A p \in Queues, j \in Slots : Holds(p, j, m)' <=>
             IF p = q /\ j = i THEN m = h ELSE Holds(p, j, m)
        /\ \A m : Placed(m)' <=> Placed(m) \/ Handed(m)
    BY ReceivePlaces
  <1>4. \A r \in Requests : rpc'[r] = rpc[r] \/ (r \in Parked(q) /\ rpc'[r] = "waiting")
    BY DEF Receive, Goto, TypeOK, RequestType
  <1>5. ASSUME NEW r \in Requests, rpc[r] # "waiting", rpc'[r] = "waiting"
        PROVE  /\ msg[r] \in Msgs /\ owner[msg[r]] = r /\ content[msg[r]] = r
               /\ ~Placed(msg[r]) /\ calls[r] = 0 /\ resp[r] = None
               /\ \A p \in Queues : msg[r] \notin Elems(queue[p])
               /\ \A p \in Queues, j \in Slots : ~Holds(p, j, msg[r])
               /\ aheld # msg[r]
    <2>1. rpc[r] \in HasMessage \ {"waiting"}
      BY <1>4, <1>5 DEF Parked, HasMessage, HasQueue
    <2> QED BY <2>1, NotYetPlaced
  <1>6. ASSUME NEW m, Handed(m)
        PROVE  /\ m \in Msgs /\ ~Placed(m) /\ m # h /\ aheld # m /\ calls[owner[m]] = 0
               /\ \A p \in Queues : m \notin Elems(queue[p])
               /\ \A p \in Queues, j \in Slots : ~Holds(p, j, m)
    BY <1>2, <1>5, <1>6 DEF Handed
  <1>7. \A p \in Queues : NoTwice(queue'[p])
    <2>1. CASE queue' = [queue EXCEPT ![q] = Tail(@)]
      BY <1>1, <1>2, <2>1 DEF FlightInv, OnePlaceInv
    <2>2. ASSUME NEW r \in Parked(q), Goto(r, "waiting"),
                 queue' = [queue EXCEPT ![q] = Append(Tail(@), msg[r])]
          PROVE  \A p \in Queues : NoTwice(queue'[p])
      <3>1. Handed(msg[r])
        BY <2>2 DEF Handed, Parked, Goto, TypeOK, RequestType
      <3>2. msg[r] \in Msgs \cup {None} /\ msg[r] \notin Elems(t)
        BY <1>2, <1>6, <3>1
      <3>3. NoTwice(Append(t, msg[r]))
        <4> HIDE DEF t
        <4> QED BY <1>2, <3>2, NoTwiceAppend
      <3> QED BY <1>1, <2>2, <3>3 DEF FlightInv, OnePlaceInv
    <2> QED BY <2>1, <2>2 DEF Receive
  <1> HIDE DEF h, t
  <1>8. OnePlaceInv'
    <2>1. \A m \in Msgs, p, s \in Queues :
            m \in Elems(queue'[p]) /\ m \in Elems(queue'[s]) => p = s
      BY <1>2, <1>3, <1>6 DEF FlightInv, OnePlaceInv
    <2>2. \A m \in Msgs, p, s \in Queues, j, k \in Slots :
            Holds(p, j, m)' /\ Holds(s, k, m)' => p = s /\ j = k
      BY <1>2, <1>3 DEF FlightInv, OnePlaceInv
    <2>3. \A m \in Msgs, p, s \in Queues, j \in Slots :
            m \in Elems(queue'[p]) => ~Holds(s, j, m)'
      BY <1>2, <1>3, <1>6 DEF FlightInv, OnePlaceInv
    <2>4. \A m \in Msgs, p \in Queues : aheld' = m => m \notin Elems(queue'[p])
      BY <1>1, <1>2, <1>3, <1>6 DEF FlightInv, OnePlaceInv
    <2>5. \A m \in Msgs, p \in Queues, j \in Slots : aheld' = m => ~Holds(p, j, m)'
      BY <1>1, <1>2, <1>3 DEF FlightInv, OnePlaceInv
    <2> QED BY <1>7, <2>1, <2>2, <2>3, <2>4, <2>5 DEF OnePlaceInv
  <1>9. AwaitedInv'
    <2> SUFFICES ASSUME NEW m \in Msgs, Placed(m) \/ Handed(m) PROVE WaitedFor(m)'
      BY <1>3 DEF AwaitedInv
    <2>1. CASE Handed(m)
      BY <1>1, <1>5, <2>1, ConstantsAssumption DEF WaitedFor, Handed
    <2>2. CASE Placed(m)
      <3>1. WaitedFor(m) /\ owner[m] \in Requests
        BY <2>2, PlacedIsOwn
      <3>2. rpc'[owner[m]] = "waiting"
        BY <1>4, <3>1 DEF WaitedFor
      <3> QED BY <1>1, <3>1, <3>2 DEF WaitedFor
    <2> QED BY <2>1, <2>2
  <1>10. UncalledInv'
    <2>1. \A m : Unsent(m)' => Unsent(m) \/ Handed(m)
      <3> SUFFICES ASSUME NEW m, Unsent(m)' PROVE Unsent(m) \/ Handed(m)
        OBVIOUS
      <3>1. CASE \E p \in Queues : m \in Elems(queue'[p])
        BY <1>2, <1>3, <3>1 DEF Unsent
      <3>2. ASSUME NEW p \in Queues, NEW j \in Slots, worker'[p][j] = "busy", Holds(p, j, m)'
            PROVE  Unsent(m)
        <4>1. CASE p = q /\ j = i
          BY <1>2, <1>3, <3>2, <4>1 DEF Unsent
        <4>2. CASE ~(p = q /\ j = i)
          BY <1>1, <1>3, <3>2, <4>2 DEF Unsent
        <4> QED BY <4>1, <4>2
      <3> QED BY <1>1, <3>1, <3>2 DEF Unsent
    <2> QED BY <1>1, <1>6, <2>1 DEF FlightInv, UncalledInv
  <1>11. CallInv'
    <2>1. \A p \in Queues, j \in Slots : worker'[p][j] = "called" =>
            worker[p][j] = "called" /\ wmsg'[p][j] = wmsg[p][j]
      BY <1>1
    <2>2. \A r \in Requests : /\ resp'[r] # None => rpc'[r] = "waiting"
                              /\ rpc'[r] \notin {"waiting", "answered"} => calls'[r] = 0
      BY <1>1, <1>4 DEF FlightInv, CallInv
    <2> QED BY <1>1, <2>1, <2>2 DEF FlightInv, CallInv
  <1> QED BY <1>8, <1>9, <1>10, <1>11 DEF FlightInv

\* A message leaves, with the answer for its owner or without.
LEMMA FlightRelease ==
  ASSUME TypeOK, MessageInv, FlightInv, NEW d \in Msgs, Placed(d),
         \A m \in Msgs : Placed(m)' => Placed(m) /\ m # d,
         \A m \in Msgs : Unsent(m)' => Unsent(m),
         OnePlaceInv', UNCHANGED <<rpc, msg, owner, content, ctxDone, calls>>,
         PutAnswer(d, owner[d]) \/ UNCHANGED resp,
         \A q \in Queues, i \in Slots : worker'[q][i] = "called" =>
           worker[q][i] = "called" /\ wjob'[q][i] = wjob[q][i] /\ wmsg'[q][i] = wmsg[q][i]
  PROVE  FlightInv'
  <1>1. /\ WaitedFor(d) /\ owner[d] \in Requests
        /\ resp' = [resp EXCEPT ![owner[d]] = owner[d]] \/ UNCHANGED resp
    BY PlacedIsOwn
  <1>2. \A r \in Requests : resp'[r] = resp[r] \/ (r = owner[d] /\ resp'[r] = r)
    BY <1>1 DEF TypeOK, RequestType
  <1>3. AwaitedInv'
    <2> SUFFICES ASSUME NEW m \in Msgs, Placed(m), m # d PROVE WaitedFor(m)'
      BY DEF AwaitedInv
    <2>1. WaitedFor(m) /\ owner[m] \in Requests
      BY PlacedIsOwn
    <2>2. owner[m] # owner[d]
      BY <1>1, <2>1 DEF WaitedFor
    <2> QED BY <1>2, <2>1, <2>2 DEF WaitedFor
  <1>4. UncalledInv'
    BY DEF FlightInv, UncalledInv
  <1>5. CallInv'
    BY <1>1, <1>2 DEF FlightInv, CallInv, WaitedFor
  <1> QED BY <1>3, <1>4, <1>5 DEF FlightInv

\* The request of a message a worker holds is sent upstream.
LEMMA FlightCall ==
  ASSUME TypeOK, MessageInv, FlightInv, NEW q \in Queues, NEW i \in Slots, Call(q, i)
  PROVE  FlightInv'
  <1> DEFINE d == wmsg[q][i]
  <1>1. /\ worker[q][i] = "busy" /\ worker' = [worker EXCEPT ![q][i] = "called"]
        /\ wjob' = [wjob EXCEPT ![q][i] = content[d]]
        /\ calls' = [calls EXCEPT ![content[d]] = IF @ = 2 THEN 2 ELSE @ + 1]
        /\ UNCHANGED <<rpc, msg, owner, content, ctxDone, resp, queue, wmsg, aheld>>
    BY DEF Call, reqVars, poolVars, chanVars, adminVars
  <1>2. d \in Msgs /\ Holds(q, i, d) /\ Placed(d) /\ Unsent(d)
    BY <1>1 DEF TypeOK, WorkerType, Holds, Placed, HeldByWorker, Unsent
  <1>3. WaitedFor(d) /\ owner[d] \in Requests /\ content[d] = owner[d] /\ calls[owner[d]] = 0
    BY <1>2, PlacedIsOwn DEF FlightInv, UncalledInv
  <1>4. \A r \in Requests : calls'[r] = IF r = owner[d] THEN 1 ELSE calls[r]
    BY <1>1, <1>3 DEF TypeOK, WorkerType
  <1>5. /\ \A m : \A p \in Queues, j \in Slots : Holds(p, j, m)' <=> Holds(p, j, m)
        /\ \A m : Placed(m)' <=> Placed(m)
    BY <1>1, WorkPlaces
  <1> HIDE DEF d
  <1>6. OnePlaceInv'
    BY <1>1, <1>5 DEF FlightInv, OnePlaceInv
  <1>7. AwaitedInv'
    BY <1>1, <1>5 DEF FlightInv, AwaitedInv, WaitedFor
  <1>8. UncalledInv'
    <2> SUFFICES ASSUME NEW m \in Msgs, Unsent(m)' PROVE calls'[owner[m]] = 0
      BY <1>1 DEF UncalledInv
    <2>1. Unsent(m) /\ m # d
      <3>1. CASE (\E p \in Queues : m \in Elems(queue[p])) \/ aheld = m
        BY <1>2, <3>1 DEF Unsent, FlightInv, OnePlaceInv
      <3>2. ASSUME NEW p \in Queues, NEW j \in Slots, worker'[p][j] = "busy", Holds(p, j, m)
            PROVE  Unsent(m) /\ m # d
        <4>1. ~(p = q /\ j = i) /\ worker[p][j] = "busy"
          BY <1>1, <3>2 DEF TypeOK, WorkerType
        <4> QED BY <1>2, <3>2, <4>1 DEF Unsent, FlightInv, OnePlaceInv
      <3> QED BY <1>1, <1>5, <3>1, <3>2 DEF Unsent
    <2>2. Placed(m)
      BY <2>1, PlacedMeans DEF Unsent
    <2>3. WaitedFor(m) /\ owner[m] \in Requests /\ owner[m] # owner[d]
      BY <1>3, <2>1, <2>2, PlacedIsOwn DEF WaitedFor
    <2> QED BY <1>4, <2>1, <2>3 DEF FlightInv, UncalledInv
  <1>9. CallInv'
    <2>1. \A p \in Queues, j \in Slots :
            worker'[p][j] = "called" => wjob'[p][j] = content'[wmsg'[p][j]]
      BY <1>1 DEF FlightInv, CallInv, TypeOK, WorkerType, d
    <2> QED BY <1>1, <1>3, <1>4, <2>1 DEF FlightInv, CallInv, WaitedFor
  <1> QED BY <1>6, <1>7, <1>8, <1>9 DEF FlightInv

\* UpdateProvider moves a message to the new channel or to the overflow.
LEMMA FlightTransfer ==
  ASSUME TypeOK, LifeInv, MessageInv, FlightInv, UpdateTransfer
  PROVE  FlightInv'
  <1> DEFINE src == queue[aold]
             h   == IF src = <<>> THEN None ELSE Head(src)
             mid == [queue EXCEPT ![aold] = Rest(src)]
  <1>1. /\ aold \in Queues /\ registered \in Queues /\ src \in Seq(Msgs \cup {None})
        /\ queue \in [Queues -> Seq(Msgs \cup {None})] /\ NoTwice(src)
        /\ UNCHANGED <<rpc, msg, owner, content, resp, ctxDone, worker, wmsg, wjob, calls>>
        /\ aheld = None
    BY DEF TypeOK, ChannelType, ControlType, RegistryType, Queues, UpdateTransfer, workVars,
       reqVars, poolVars, LifeInv, PhaseInv, Updating, MessageInv, CarryInv, FlightInv, OnePlaceInv
  <1>2. \A m : \A p \in Queues, j \in Slots : Holds(p, j, m)' <=> Holds(p, j, m)
    BY <1>1 DEF Holds
  <1>3. /\ h \in Msgs \cup {None} /\ Rest(src) \in Seq(Msgs \cup {None}) /\ NoTwice(Rest(src))
        /\ \A m \in Msgs : m \in Elems(src) <=> m = h \/ m \in Elems(Rest(src))
        /\ h # None => h \notin Elems(Rest(src))
    <2>1. CASE src = <<>>
      BY <1>1, <2>1, ConstantsAssumption DEF Rest, Elems
    <2>2. CASE src # <<>>
      <3>1. h = Head(src) /\ Rest(src) = Tail(src)
        BY <2>2 DEF Rest
      <3>2. Head(src) \in Msgs \cup {None} /\ Tail(src) \in Seq(Msgs \cup {None})
        BY <1>1, <2>2
      <3>3. Elems(src) = {Head(src)} \cup Elems(Tail(src))
        BY <1>1, <2>2, ElemsTail
      <3>4. /\ NoTwice(Tail(src))
            /\ Head(src) = None \/ Head(src) \notin Elems(Tail(src))
        BY <1>1, <2>2, NoTwiceTail
      <3> QED BY <3>1, <3>2, <3>3, <3>4
    <2> QED BY <2>1, <2>2
  <1>4. /\ mid \in [Queues -> Seq(Msgs \cup {None})]
        /\ \A m \in Msgs, p \in Queues : m \in Elems(queue[p]) <=>
             m \in Elems(mid[p]) \/ (p = aold /\ m = h)
        /\ \A m \in Msgs, p \in Queues : m \in Elems(mid[p]) => m # h
        /\ \A p \in Queues : NoTwice(mid[p])
    <2>1. mid \in [Queues -> Seq(Msgs \cup {None})]
      BY <1>1, <1>3
    <2>2. \A p \in Queues : mid[p] = IF p = aold THEN Rest(src) ELSE queue[p]
      BY <1>1
    <2>3. \A p \in Queues : NoTwice(mid[p])
      BY <1>3, <2>2 DEF FlightInv, OnePlaceInv
    <2> HIDE DEF mid, h
    <2>4. \A m \in Msgs, p \in Queues : m \in Elems(queue[p]) <=>
            m \in Elems(mid[p]) \/ (p = aold /\ m = h)
      BY <1>3, <2>2
    <2>5. ASSUME NEW m \in Msgs, NEW p \in Queues, m \in Elems(mid[p]), m = h PROVE FALSE
      <3>1. m \in Elems(queue[aold]) /\ m \in Elems(queue[p])
        BY <1>1, <2>4, <2>5
      <3>2. p = aold
        BY <1>1, <3>1 DEF FlightInv, OnePlaceInv
      <3> QED BY <1>3, <2>2, <2>5, <3>2, ConstantsAssumption
    <2> QED BY <2>1, <2>3, <2>4, <2>5
  <1>5. \/ UNCHANGED <<queue, aheld>>
        \/ queue' = mid /\ aheld' = h
        \/ queue' = [mid EXCEPT ![registered] = Append(@, h)] /\ UNCHANGED aheld
    BY DEF UpdateTransfer
  <1> HIDE DEF mid, h
  <1>6. OnePlaceInv' /\ \A m \in Msgs : Unsent(m)' => Unsent(m)
    <2>1. CASE UNCHANGED <<queue, aheld>>
      BY <1>1, <1>2, <2>1 DEF FlightInv, OnePlaceInv, Unsent
    <2>2. CASE queue' = mid /\ aheld' = h
      <3>1. OnePlaceInv'
        <4>1. /\ \A q \in Queues : NoTwice(queue'[q])
              /\ \A m \in Msgs, p, q \in Queues :
                   m \in Elems(queue'[p]) /\ m \in Elems(queue'[q]) => p = q
              /\ \A m \in Msgs, q \in Queues : aheld' = m => m \notin Elems(queue'[q])
          BY <1>4, <2>2 DEF FlightInv, OnePlaceInv
        <4>2. /\ \A m \in Msgs, p, q \in Queues, i \in Slots :
                   m \in Elems(queue'[p]) => ~Holds(q, i, m)'
              /\ \A m \in Msgs, q \in Queues, i \in Slots : aheld' = m => ~Holds(q, i, m)'
          BY <1>1, <1>2, <1>4, <2>2 DEF FlightInv, OnePlaceInv
        <4> QED BY <1>2, <4>1, <4>2 DEF FlightInv, OnePlaceInv
      <3>2. \A m \in Msgs : Unsent(m)' => Unsent(m)
        BY <1>1, <1>2, <1>4, <2>2 DEF Unsent
      <3> QED BY <3>1, <3>2
    <2>3. CASE queue' = [mid EXCEPT ![registered] = Append(@, h)] /\ UNCHANGED aheld
      <3>1. mid[registered] \in Seq(Msgs \cup {None}) /\ NoTwice(mid[registered])
        BY <1>1, <1>4
      <3>2. /\ Elems(Append(mid[registered], h)) = Elems(mid[registered]) \cup {h}
        BY <1>3, <3>1, ElemsAppend
      <3>3. NoTwice(Append(mid[registered], h))
        <4>1. h = None \/ h \notin Elems(mid[registered])
          BY <1>1, <1>3, <1>4
        <4> QED BY <1>3, <3>1, <4>1, NoTwiceAppend
      <3>4. \A m : \A p \in Queues : m \in Elems(queue'[p]) <=>
              m \in Elems(mid[p]) \/ (p = registered /\ m = h)
        BY <1>4, <2>3, <3>2
      <3>5. \A p \in Queues : NoTwice(queue'[p])
        BY <1>4, <2>3, <3>3
      <3>6. \A m \in Msgs, p \in Queues : m \in Elems(queue'[p]) =>
              \E s \in Queues : m \in Elems(queue[s])
        BY <1>1, <1>4, <3>4
      <3>7. \A m \in Msgs, p, q \in Queues :
              m \in Elems(queue'[p]) /\ m \in Elems(queue'[q]) => p = q
        BY <1>4, <3>4 DEF FlightInv, OnePlaceInv
      <3>8. OnePlaceInv'
        <4>1. \A m \in Msgs, p, q \in Queues, i \in Slots :
                m \in Elems(queue'[p]) => ~Holds(q, i, m)'
          BY <1>2, <3>6 DEF FlightInv, OnePlaceInv
        <4>2. \A m \in Msgs : aheld' # m
          BY <1>1, <2>3, ConstantsAssumption
        <4> QED BY <1>2, <3>5, <3>7, <4>1, <4>2 DEF FlightInv, OnePlaceInv
      <3>9. \A m \in Msgs : Unsent(m)' => Unsent(m)
        BY <1>1, <1>2, <2>3, <3>6 DEF Unsent
      <3> QED BY <3>8, <3>9
    <2> QED BY <1>5, <2>1, <2>2, <2>3
  <1>7. \A m \in Msgs : Placed(m)' <=> Placed(m)
    BY <1>1, TransferPlaces
  <1>8. AwaitedInv'
    BY <1>1, <1>7 DEF FlightInv, AwaitedInv, WaitedFor
  <1>9. UncalledInv'
    BY <1>1, <1>6 DEF FlightInv, UncalledInv
  <1>10. CallInv'
    BY <1>1 DEF FlightInv, CallInv
  <1> QED BY <1>6, <1>8, <1>9, <1>10 DEF FlightInv

\* A worker that answers the message it holds, d, gives it up.
LEMMA FlightAnswer ==
  ASSUME TypeOK, MessageInv, FlightInv, NEW q \in Queues, NEW i \in Slots,
         NEW d \in Msgs, Holds(q, i, d), NEW pc, pc \notin {"busy", "called"},
         worker' = [worker EXCEPT ![q][i] = pc], wmsg' = [wmsg EXCEPT ![q][i] = None],
         wjob' \in {wjob, [wjob EXCEPT ![q][i] = None]},
         UNCHANGED <<rpc, msg, owner, content, ctxDone, calls, queue, aheld>>,
         PutAnswer(d, owner[d]) \/ UNCHANGED resp
  PROVE  FlightInv'
  <1>1. /\ worker \in [Queues -> [Slots -> Live \cup {"none", "exited"}]]
        /\ wmsg \in [Queues -> [Slots -> Msgs \cup {None}]]
        /\ wjob \in [Queues -> [Slots -> Requests \cup {None}]]
    BY DEF TypeOK, WorkerType
  <1>2. /\ \A m : \A p \in Queues, j \in Slots : Holds(p, j, m)' <=>
             Holds(p, j, m) /\ ~(p = q /\ j = i)
        /\ \A m : (InQueue(m)' <=> InQueue(m)) /\ (Placed(m)' => Placed(m))
    BY ReleasePlaces
  <1>3. Placed(d) /\ ~InQueue(d) /\ aheld # d
    BY PlacedMeans, InQueueElems DEF FlightInv, OnePlaceInv
  <1>4. ~Placed(d)'
    <2>1. \A p \in Queues, j \in Slots : ~Holds(p, j, d)'
      BY <1>2 DEF FlightInv, OnePlaceInv
    <2>2. ~HeldByWorker(d)'
      BY <2>1 DEF HeldByWorker, Holds
    <2> QED BY <1>2, <1>3, <2>2 DEF Placed
  <1>5. OnePlaceInv'
    BY <1>2 DEF FlightInv, OnePlaceInv
  <1>6. \A p \in Queues, j \in Slots : worker'[p][j] \in {"busy", "called"} =>
          worker'[p][j] = worker[p][j] /\ wjob'[p][j] = wjob[p][j] /\ wmsg'[p][j] = wmsg[p][j]
    BY <1>1
  <1>7. \A m \in Msgs : Unsent(m)' => Unsent(m)
    BY <1>2, <1>6 DEF Unsent
  <1> QED BY <1>2, <1>3, <1>4, <1>5, <1>6, <1>7, FlightRelease

\* The overflow goroutine answers the message it carries.
LEMMA FlightOverflow ==
  ASSUME TypeOK, MessageInv, FlightInv, aheld # None, aheld' = None,
         UNCHANGED <<rpc, msg, owner, content, ctxDone, calls, queue, worker, wmsg, wjob>>,
         PutAnswer(aheld, content[aheld])
  PROVE  FlightInv'
  <1> SUFFICES ASSUME NEW d \in Msgs, d = aheld PROVE FlightInv'
    BY DEF TypeOK, ControlType
  <1>1. /\ \A m : \A p \in Queues, j \in Slots : Holds(p, j, m)' <=> Holds(p, j, m)
        /\ \A m : (InQueue(m)' <=> InQueue(m)) /\ (HeldByWorker(m)' <=> HeldByWorker(m))
    BY DEF Holds, InQueue, HeldByWorker
  <1>2. Placed(d) /\ ~InQueue(d) /\ ~HeldByWorker(d)
    <2>1. /\ \A q \in Queues, i \in Slots : ~Holds(q, i, d)
          /\ \A q \in Queues : d \notin Elems(queue[q])
      BY DEF FlightInv, OnePlaceInv
    <2> QED BY <2>1, InQueueElems DEF Placed, HeldByWorker, Holds
  <1>3. \A m \in Msgs : (Placed(m)' => Placed(m) /\ m # d) /\ (Unsent(m)' => Unsent(m))
    BY <1>1, <1>2, ConstantsAssumption DEF Placed, Unsent
  <1>4. OnePlaceInv'
    BY <1>1, ConstantsAssumption DEF FlightInv, OnePlaceInv
  <1>5. PutAnswer(d, owner[d])
    BY <1>2, PlacedIsOwn
  <1> QED BY <1>2, <1>3, <1>4, <1>5, FlightRelease

\* Every step of every goroutine keeps each message in one place with its owner
\* waiting, when the contexts that end are those of streams: tryStreamRequest does
\* not give its message back before it has an answer.
LEMMA FlightStep ==
  ASSUME Cancellable \subseteq Streams
  PROVE  TypeOK /\ LifeInv /\ QueueInv /\ MessageInv /\ FlightInv /\ [Next]_vars => FlightInv'
  <1> SUFFICES ASSUME TypeOK, LifeInv, QueueInv, MessageInv, FlightInv, [Next]_vars
               PROVE  FlightInv'
    OBVIOUS
  <1> USE DEF reqVars, poolVars, chanVars, workVars, regVars, adminVars, shutVars
  <1>0. \A r \in Requests : ctxDone[r] => r \in Streams
    BY DEF FlightInv, CallInv
  <1>00. ASSUME UNCHANGED <<worker, wmsg>>
         PROVE  \A m : \A q \in Queues, i \in Slots : Holds(q, i, m)' <=> Holds(q, i, m)
    BY <1>00 DEF Holds
  <1>1. ASSUME NEW r \in Requests, GetProviderQueue(r) PROVE FlightInv'
    <2>1. /\ UNCHANGED <<msg, owner, content, resp, queue, aheld, calls, ctxDone, wjob, wmsg, worker>>
          /\ rpc[r] \notin {"waiting", "answered"}
          /\ \E pc \in {"prehook", "lock"} : Goto(r, pc)
      BY <1>1 DEF GetProviderQueue
    <2> QED BY <1>00, <2>1, FlightGoto
  <1>2. ASSUME NEW r \in Requests, GetProviderQueueLocked(r) PROVE FlightInv'
    <2>1. /\ UNCHANGED <<content, resp, queue, aheld, calls, ctxDone, wjob, wmsg, worker>>
          /\ rpc[r] = "lock" /\ resp[r] = None
      BY <1>2 DEF GetProviderQueueLocked, FlightInv, CallInv
    <2>2. CASE Leave({r}, "noProvider")
      BY <2>1, <2>2, FlightLeave DEF Finished, Rejected
    <2>3. ASSUME NEW pc \in {"prehook", "create"}, Goto(r, pc), UNCHANGED <<msg, owner>>
          PROVE  FlightInv'
      BY <1>00, <2>1, <2>3, FlightGoto
    <2> QED BY <1>2, <2>2, <2>3 DEF GetProviderQueueLocked
  <1>3. ASSUME NEW r \in Requests, CreateProvider(r) PROVE FlightInv'
    <2>1. /\ UNCHANGED <<content, resp, queue, aheld, calls, ctxDone, wjob, wmsg>>
          /\ rpc[r] = "create" /\ resp[r] = None /\ Unstarted
      BY <1>3 DEF CreateProvider, FlightInv, CallInv, LifeInv, PhaseInv
    <2>2. CASE Leave({r}, "noProvider") /\ UNCHANGED worker
      BY <2>1, <2>2, FlightLeave DEF Finished, Rejected
    <2>3. CASE StartWorkers(registered) /\ Goto(r, "prehook") /\ UNCHANGED <<msg, owner>>
      <3>1. /\ \A m : \A q \in Queues, i \in Slots : Holds(q, i, m)' <=> Holds(q, i, m)
            /\ \A q \in Queues, i \in Slots :
                 worker'[q][i] \in {"busy", "called"} => worker'[q][i] = worker[q][i]
        BY <2>1, <2>3, StartPlaces
      <3>2. PICK pc : pc = "prehook"
        OBVIOUS
      <3> QED BY <2>1, <2>3, <3>1, <3>2, FlightGoto
    <2> QED BY <1>3, <2>2, <2>3 DEF CreateProvider
  <1>4. ASSUME NEW r \in Requests, PreHooks(r) PROVE FlightInv'
    <2>1. /\ UNCHANGED <<resp, queue, aheld, calls, ctxDone, wjob, wmsg, worker>>
          /\ rpc[r] = "prehook" /\ resp[r] = None
      BY <1>4 DEF PreHooks, FlightInv, CallInv
    <2>2. CASE Leave({r}, "shortCircuit") /\ UNCHANGED content
      BY <2>1, <2>2, FlightLeave DEF Finished, Rejected
    <2>3. ASSUME NEW m \in Msgs, owner[m] = None, owner' = [owner EXCEPT ![m] = r],
                 content' = [content EXCEPT ![m] = r], msg' = [msg EXCEPT ![r] = m],
                 Goto(r, "check")
          PROVE  FlightInv'
      <3>1. \A p \in Requests :
              \/ rpc'[p] = rpc[p] /\ msg'[p] = msg[p] /\ resp'[p] = resp[p]
              \/ /\ rpc[p] # "waiting" /\ rpc'[p] \notin {"waiting", "answered"}
                 /\ resp'[p] = None /\ rpc[p] # "answered"
        BY <2>1, <2>3 DEF Goto, TypeOK, RequestType
      <3>2. \A n \in Msgs : (owner'[n] = owner[n] /\ content'[n] = content[n]) \/ owner[n] = None
        BY <2>3 DEF TypeOK, PoolType
      <3> QED BY <1>00, <2>1, <3>1, <3>2, FlightQuiet
    <2> QED BY <1>4, <2>2, <2>3 DEF PreHooks
  <1>5. ASSUME NEW r \in Requests, IsClosing(r) \/ SelectGiveUp(r) \/ SelectFull(r)
        PROVE  FlightInv'
    <2>1. /\ UNCHANGED <<content, resp, queue, aheld, calls, ctxDone, wjob, wmsg, worker>>
          /\ rpc[r] \notin Finished \cup {"waiting"}
          /\ \/ \E how \in Rejected : Leave({r}, how)
             \/ /\ UNCHANGED <<msg, owner>>
                /\ \E pc \in {"select", "select2", "recheck", "blocked"} : Goto(r, pc)
      BY <1>5 DEF IsClosing, SelectGiveUp, SelectFull, Finished, Rejected, ListensOnDone
    <2>2. resp[r] = None
      BY <2>1 DEF FlightInv, CallInv
    <2>3. ASSUME NEW how \in Rejected, Leave({r}, how) PROVE FlightInv'
      <3>1. how \in Finished /\ how # "answered"
        BY DEF Finished, Rejected
      <3> QED BY <2>1, <2>2, <2>3, <3>1, FlightLeave
    <2>4. ASSUME UNCHANGED <<msg, owner>>, NEW pc \in {"select", "select2", "recheck", "blocked"},
                 Goto(r, pc)
          PROVE  FlightInv'
      BY <1>00, <2>1, <2>4, FlightGoto DEF Finished
    <2> QED BY <2>1, <2>3, <2>4
  <1>6. ASSUME NEW r \in Requests, SelectSend(r) PROVE FlightInv'
    BY <1>6, FlightSend
  <1>7. ASSUME NEW r \in Requests, TakeAnswer(r) PROVE FlightInv'
    <2>1. /\ UNCHANGED <<content, queue, aheld, calls, ctxDone, wjob, wmsg, worker>>
          /\ rpc[r] = "waiting" /\ resp[r] # None /\ Leave({r}, "answered")
          /\ resp'[r] = None /\ \A p \in Requests \ {r} : resp'[p] = resp[p]
      BY <1>7 DEF TakeAnswer, TypeOK, RequestType
    <2> QED BY <2>1, FlightLeave DEF Finished
  <1>8. ASSUME NEW r \in Requests, WaitCancelled(r) PROVE FlightInv'
    BY <1>0, <1>8 DEF WaitCancelled
  <1>9. ASSUME NEW q \in Queues, NEW i \in Slots, Receive(q, i), Head(queue[q]) # None
        PROVE  FlightInv'
    BY <1>9, FlightReceive
  <1>10. ASSUME NEW q \in Queues, NEW i \in Slots, KeyError(q, i) PROVE FlightInv'
    <2>1. PICK d \in Msgs : d = wmsg[q][i]
      BY <1>10 DEF KeyError, TypeOK, WorkerType
    <2>2. /\ Holds(q, i, d) /\ PutAnswer(d, content[d])
          /\ UNCHANGED <<rpc, msg, owner, content, ctxDone, calls, queue, aheld, wjob>>
          /\ wmsg' = [wmsg EXCEPT ![q][i] = None]
      BY <1>10, <2>1 DEF KeyError, Holds
    <2>3. PICK pc \in {"hung", "idle"} : worker' = [worker EXCEPT ![q][i] = pc]
      BY <1>10 DEF KeyError
    <2>4. PutAnswer(d, owner[d])
      BY <2>2, PlacedIsOwn, PlacedMeans
    <2>5. pc \notin {"busy", "called"}
      BY <2>3
    <2> QED BY <2>2, <2>3, <2>4, <2>5, FlightAnswer
  <1>11. ASSUME NEW q \in Queues, NEW i \in Slots, Call(q, i) PROVE FlightInv'
    BY <1>11, FlightCall
  <1>12. ASSUME NEW q \in Queues, NEW i \in Slots, Deliver(q, i) PROVE FlightInv'
    <2>1. PICK d \in Msgs : d = wmsg[q][i]
      BY <1>12 DEF Deliver, TypeOK, WorkerType
    <2>2. /\ Holds(q, i, d) /\ wjob[q][i] = content[d]
          /\ UNCHANGED <<rpc, msg, owner, content, ctxDone, calls, queue, aheld>>
          /\ wmsg' = [wmsg EXCEPT ![q][i] = None] /\ wjob' = [wjob EXCEPT ![q][i] = None]
      BY <1>12, <2>1 DEF Deliver, Holds, FlightInv, CallInv
    <2>3. PICK pc : pc \notin {"busy", "called"} /\ worker' = [worker EXCEPT ![q][i] = pc]
      BY <1>12 DEF Deliver
    <2>4. WaitedFor(d) /\ owner[d] \in Requests /\ content[d] = owner[d]
      BY <2>2, PlacedIsOwn, PlacedMeans
    <2>5. PutAnswer(d, owner[d]) \/ UNCHANGED resp
      BY <1>12, <2>1, <2>2, <2>4 DEF Deliver
    <2> QED BY <2>2, <2>3, <2>5, FlightAnswer
  <1>13. CASE UpdateTransfer
    BY <1>13, FlightTransfer
  <1>14. CASE UpdateOverflow /\ aheld' # aheld
    BY <1>14, FlightOverflow DEF UpdateOverflow, FailOverflow
  <1>15. CASE RemoveSignal \/ UpdateSignal \/ (ShutdownSignal /\ registered # 0)
    <2>1. /\ UNCHANGED <<content, resp, ctxDone, queue, worker, wmsg, wjob, aheld, calls>>
          /\ \E q : Leave(Parked(q), "shutdown")
      BY <1>15 DEF RemoveSignal, UpdateSignal, ShutdownSignal, SignalClosing
    <2>2. PICK q : Leave(Parked(q), "shutdown")
      BY <2>1
    <2>3. /\ Parked(q) \in SUBSET Requests /\ "shutdown" \in Finished
          /\ \A r \in Parked(q) : rpc[r] \notin Finished \cup {"waiting"} /\ resp[r] = None
      BY DEF Parked, Finished, Rejected, FlightInv, CallInv
    <2> QED BY <2>1, <2>2, <2>3, FlightLeave
  <1>16. ASSUME UNCHANGED <<rpc, msg, owner, content, resp, queue, aheld, calls, ctxDone, wjob, wmsg>>,
                \A m : \A q \in Queues, i \in Slots : Holds(q, i, m)' <=> Holds(q, i, m),
                \A q \in Queues, i \in Slots :
                  worker'[q][i] \in {"busy", "called"} => worker'[q][i] = worker[q][i]
         PROVE  FlightInv'
    BY <1>16, FlightQuiet
  <1>17. CASE UpdateCreate
    <2>1. /\ Unstarted
          /\ StartWorkers(registered) \/ UNCHANGED worker
          /\ UNCHANGED <<rpc, msg, owner, content, resp, queue, aheld, calls, ctxDone, wjob, wmsg>>
      BY <1>17 DEF UpdateCreate, LifeInv, PhaseInv, Starting
    <2> QED BY <1>00, <1>16, <2>1, StartPlaces
  <1>18. ASSUME NEW q \in Queues, NEW i \in Slots, Exit(q, i) PROVE FlightInv'
    <2>1. /\ UNCHANGED <<rpc, msg, owner, content, resp, queue, aheld, calls, ctxDone, wjob, wmsg>>
          /\ worker[q][i] = "idle" /\ worker' = [worker EXCEPT ![q][i] = "exited"]
      BY <1>18 DEF Exit
    <2>2. /\ \A m : \A p \in Queues, j \in Slots : Holds(p, j, m)' <=> Holds(p, j, m)
          /\ \A p \in Queues, j \in Slots :
               worker'[p][j] \in {"busy", "called"} => worker'[p][j] = worker[p][j]
      BY <2>1, WorkPlaces DEF TypeOK, WorkerType
    <2> QED BY <1>16, <2>1, <2>2
  <1>19. ASSUME UNCHANGED <<rpc, msg, owner, content, resp, queue, aheld, calls, ctxDone, wjob, wmsg,
                            worker>>
         PROVE  FlightInv'
    BY <1>00, <1>16, <1>19
  <1>20. CASE \/ BeginRemove \/ RemoveClose \/ RemoveFinish \/ BeginUpdate \/ UpdateClose
              \/ UpdateWait \/ ShutdownClose \/ ShutdownDone \/ UNCHANGED vars
              \/ (ShutdownSignal /\ registered = 0) \/ (UpdateOverflow /\ aheld' = aheld)
    BY <1>19, <1>20 DEF BeginRemove, RemoveClose, RemoveFinish, BeginUpdate, UpdateClose, UpdateWait,
       ShutdownClose, ShutdownDone, ShutdownSignal, UpdateOverflow, vars
  <1>21. ASSUME NEW r \in Requests, SelectSendOnClosed(r) PROVE FlightInv'
    BY <1>19, <1>21 DEF SelectSendOnClosed
  <1>22. ASSUME NEW q \in Queues, NEW i \in Slots, Receive(q, i), Head(queue[q]) = None
         PROVE  FlightInv'
    BY <1>19, <1>22 DEF Receive
  <1>23. ASSUME NEW r \in Requests, CancelContext(r) PROVE FlightInv'
    <2>1. /\ UNCHANGED <<rpc, msg, owner, content, resp, queue, aheld, calls, wjob, wmsg, worker>>
          /\ \A p \in Requests : ctxDone'[p] => ctxDone[p] \/ p \in Streams
      BY <1>23 DEF CancelContext, TypeOK, RequestType
    <2> QED BY <1>00, <2>1, FlightQuiet
  <1> QED
    BY <1>1, <1>2, <1>3, <1>4, <1>5, <1>6, <1>7, <1>8, <1>9, <1>10, <1>11, <1>12, <1>13, <1>14, <1>15, <1>17, <1>18, <1>20, <1>21, <1>22, <1>23
       DEF Next, Producer, Work, AdminStep, ShutdownStep

\* In every reachable state a message under way is in one place and awaited by
\* its owner, when only the contexts of streams end.
LEMMA FlightCorrect == ASSUME Cancellable \subseteq Streams PROVE Spec => []FlightInv
  BY TypeInit, TypeStep, LifeInit, LifeStep, QueueInit, QueueStep, MessageInit, MessageStep,
     FlightInit, FlightStep, PTL DEF Spec

\* What the worker puts into a request's channels is that request's result, when
\* only the contexts of streams end: tryRequest gives its message back to the
\* pool when its context ends, and then it is not (see the run pq_reuse).
THEOREM AnswersAreTheirOwn ==
  ASSUME Cancellable \subseteq Streams PROVE Spec => []AnswersAreOwn
  <1>1. FlightInv => AnswersAreOwn
    BY DEF FlightInv, CallInv, AnswersAreOwn
  <1> QED BY <1>1, FlightCorrect, PTL

\* executeRequestWithRetries runs at most once for a request, also when
\* UpdateProvider moves its message to the next generation's channel.
THEOREM NobodyIsCalledTwice ==
  ASSUME Cancellable \subseteq Streams PROVE Spec => []CalledAtMostOnce
  <1>1. FlightInv => CalledAtMostOnce
    BY DEF FlightInv, CallInv, CalledAtMostOnce
  <1> QED BY <1>1, FlightCorrect, PTL

\* A request tryRequest or tryStreamRequest turned away (no queue, closing, full,
\* cancelled before it was sent) is never sent upstream behind its caller's back.
THEOREM RejectedAreNotCalled ==
  ASSUME Cancellable \subseteq Streams PROVE Spec => []RejectedNeverCalled
  <1>1. FlightInv => RejectedNeverCalled
    BY DEF FlightInv, CallInv, RejectedNeverCalled, Rejected
  <1> QED BY <1>1, FlightCorrect, PTL
-----------------------------------------------------------------------------
(* Old generations are drained.                                            *)

\* There is one generation at most after Init, and it is the registered one.
LEMMA DrainInit == Init => DrainInv
  <1> SUFFICES ASSUME Init PROVE DrainInv
    OBVIOUS
  <1>1. GenerationInv
    BY ConstantsAssumption DEF Init, GenerationInv, Queues
  <1>2. OperationInv
    BY DEF Init, OperationInv, Updating
  <1>3. ExitedInv
    BY ConstantsAssumption DEF Init, ExitedInv, Queues
  <1> QED BY <1>1, <1>2, <1>3 DEF DrainInv

\* A channel that is closed and drained stays so: nobody sends on it.
LEMMA DrainedStays ==
  ASSUME \A q \in Queues : Drained(q) => queue'[q] = <<>>,
         \A q \in Queues : closed[q] => closed'[q]
  PROVE  \A q \in Queues : Drained(q) => Drained(q)'
  BY DEF Drained

\* A step that creates no queue and starts, stops or replaces no worker.
LEMMA DrainQuiet ==
  ASSUME TypeOK, DrainInv, UNCHANGED <<registered, created, wgStored, aold>>,
         \A q \in Queues : Drained(q) => queue'[q] = <<>>,
         \A q \in Queues : q > created => queue'[q] = queue[q],
         \A q \in Queues : closed[q] => closed'[q],
         \A q \in Queues, i \in Slots :
           worker'[q][i] \in {"none", "exited"} => worker'[q][i] = worker[q][i],
         \A r \in Requests : pq'[r] <= created,
         \A r \in Requests : rpc[r] = "create" => rpc'[r] = "create",
         \/ apc' = apc
         \/ apc = "removeSignal" /\ apc' = "removeClose"
         \/ apc = "removeClose" /\ apc' = "removeWait" /\ closed'[aold]
         \/ /\ apc \in Updating \ {"updWait"} /\ apc' \in Updating
            /\ apc' = "updWait" => closed'[aold]
  PROVE  DrainInv'
  <1>1. \A q \in Queues : Drained(q) => Drained(q)'
    BY DrainedStays
  <1>2. GenerationInv'
    BY <1>1 DEF DrainInv, GenerationInv
  <1>3. OperationInv'
    <2>1. aold # 0 => aold \in Queues
      BY DEF TypeOK, ControlType, Queues
    <2>2. CASE apc' = apc
      BY <1>1, <2>1, <2>2 DEF DrainInv, OperationInv, Updating
    <2>3. CASE apc = "removeSignal" /\ apc' = "removeClose"
      BY <2>3 DEF DrainInv, OperationInv, Updating
    <2>4. CASE apc = "removeClose" /\ apc' = "removeWait" /\ closed'[aold]
      BY <2>4 DEF DrainInv, OperationInv, Updating
    <2>5. CASE /\ apc \in Updating \ {"updWait"} /\ apc' \in Updating
               /\ apc' = "updWait" => closed'[aold]
      BY <2>5 DEF DrainInv, OperationInv, Updating
    <2> QED BY <2>2, <2>3, <2>4, <2>5
  <1>4. Creating => Creating'
    BY DEF Creating, Starting, Updating
  <1>5. ExitedInv'
    <2>1. \A q \in Queues, i \in Slots : worker'[q][i] = "exited" => Drained(q)'
      BY <1>1 DEF DrainInv, ExitedInv
    <2>2. ASSUME ~Creating', wgStored # 0, NEW i \in Slots PROVE worker'[wgStored][i] # "none"
      BY <1>4, <2>2 DEF DrainInv, ExitedInv, TypeOK, RegistryType, Queues
    <2> QED BY <2>1, <2>2 DEF ExitedInv
  <1> QED BY <1>2, <1>3, <1>5 DEF DrainInv

\* When a Wait returns the channel of that generation is drained: every worker
\* has left its range loop.
LEMMA WaitMeansDrained ==
  ASSUME Slots # {}, TypeOK, LifeInv, DrainInv, wgStored # 0, ~Creating, WaitReturns(wgStored)
  PROVE  Drained(wgStored)
  <1>1. wgStored \in Queues
    BY DEF TypeOK, RegistryType, Queues
  <1>2. PICK i \in Slots : TRUE
    OBVIOUS
  <1>3. LiveSlots(wgStored) = {}
    BY <1>1, WaitMeansNone
  <1>4. worker[wgStored][i] \in {"none", "exited"}
    BY <1>1, <1>3 DEF LiveSlots, TypeOK, WorkerType
  <1>5. worker[wgStored][i] = "exited"
    BY <1>4 DEF DrainInv, ExitedInv
  <1> QED BY <1>1, <1>5 DEF DrainInv, ExitedInv

\* Every step keeps the old generations drained, when creating a provider
\* does not fail and a generation has a worker.
LEMMA DrainStep ==
  ASSUME Slots # {}, CreateMayFail = FALSE
  PROVE  TypeOK /\ LifeInv /\ QueueInv /\ DrainInv /\ [Next]_vars => DrainInv'
  <1> SUFFICES ASSUME TypeOK, LifeInv, QueueInv, DrainInv, [Next]_vars PROVE DrainInv'
    OBVIOUS
  <1> USE DEF reqVars, poolVars, chanVars, workVars, regVars, adminVars, shutVars
  <1>0. /\ registered \in 0..MaxQueues /\ created \in 0..MaxQueues /\ aold \in 0..MaxQueues
        /\ registered <= created /\ \A r \in Requests : pq[r] <= created
    BY DEF TypeOK, RegistryType, ControlType, DrainInv, GenerationInv
  <1>1. ASSUME NEW r \in Requests, GetProviderQueue(r) PROVE DrainInv'
    <2>1. /\ UNCHANGED <<registered, created, wgStored, aold, apc, queue, closed, worker>>
          /\ \A p \in Requests : pq'[p] <= created
          /\ \A p \in Requests : rpc[p] = "create" => rpc'[p] = "create"
      BY <1>0, <1>1 DEF GetProviderQueue, Goto, TypeOK, RequestType
    <2> QED BY <2>1, DrainQuiet DEF Drained
  <1>2. ASSUME NEW r \in Requests, GetProviderQueueLocked(r) PROVE DrainInv'
    <2>1. CASE UNCHANGED regVars
      <3>1. /\ UNCHANGED <<registered, created, wgStored, aold, apc, queue, closed, worker>>
            /\ \A p \in Requests : pq'[p] <= created
            /\ \A p \in Requests : rpc[p] = "create" => rpc'[p] = "create"
        BY <1>0, <1>2, <2>1 DEF GetProviderQueueLocked, PrepareProvider, Goto, Leave, TypeOK, RequestType
      <3> QED BY <3>1, DrainQuiet DEF Drained
    <2>2. CASE registered = 0 /\ PrepareProvider /\ Goto(r, "create")
      <3>1. /\ created' = created + 1 /\ registered' = created + 1 /\ wgStored' = created + 1
            /\ UNCHANGED <<pq, aold, apc, queue, closed, worker>>
            /\ apc = "idle" /\ rpc'[r] = "create"
        BY <1>2, <2>2 DEF GetProviderQueueLocked, PrepareProvider, LifeInv, LockInv, Goto, TypeOK, RequestType
      <3>2. aold = 0 /\ wgStored = registered
        BY <3>1 DEF DrainInv, OperationInv
      <3>3. GenerationInv'
        BY <1>0, <2>2, <3>1, <3>2 DEF DrainInv, GenerationInv, Drained, Queues, TypeOK, RequestType
      <3>4. OperationInv'
        BY <3>1, <3>2 DEF OperationInv, Updating
      <3>5. ExitedInv'
        BY <3>1 DEF DrainInv, ExitedInv, Creating, Drained
      <3> QED BY <3>3, <3>4, <3>5 DEF DrainInv
    <2> QED BY <1>2, <2>1, <2>2 DEF GetProviderQueueLocked
  <1>3. ASSUME Unstarted, StartWorkers(registered), UNCHANGED <<registered, created, wgStored, queue, closed>>,
               apc' = "idle", aold' = 0, aold # 0 => Drained(aold),
               \A r \in Requests : rpc'[r] # "create" /\ pq'[r] <= created
        PROVE  DrainInv'
    <2>1. registered \in Queues /\ wgStored = registered
      BY <1>0, <1>3 DEF Unstarted, Queues
    <2>2. \A q \in Queues, i \in Slots :
            worker'[q][i] = IF q = registered THEN "idle" ELSE worker[q][i]
      BY <1>3, <2>1 DEF StartWorkers, TypeOK, WorkerType
    <2>3. GenerationInv'
      BY <1>0, <1>3 DEF DrainInv, GenerationInv, Drained, Queues
    <2>4. OperationInv'
      BY <1>3, <2>1 DEF OperationInv, Updating
    <2>5. ExitedInv'
      BY <1>3, <2>1, <2>2 DEF DrainInv, ExitedInv, Drained
    <2> QED BY <2>3, <2>4, <2>5 DEF DrainInv
  <1>4. ASSUME NEW r \in Requests, CreateProvider(r) PROVE DrainInv'
    <2>1. /\ rpc[r] = "create" /\ mutex = r /\ Unstarted /\ apc = "idle"
          /\ \A p \in Requests : rpc[p] = "create" => p = r
      BY <1>4, ConstantsAssumption DEF CreateProvider, LifeInv, LockInv, PhaseInv
    <2>2. /\ StartWorkers(registered) /\ Goto(r, "prehook")
          /\ pq' = [pq EXCEPT ![r] = registered]
          /\ UNCHANGED <<registered, created, wgStored, queue, closed, aold, apc>>
      BY <1>4 DEF CreateProvider
    <2>3. aold = 0
      BY <2>1 DEF DrainInv, OperationInv
    <2>4. \A p \in Requests : rpc'[p] # "create" /\ pq'[p] <= created
      BY <1>0, <2>1, <2>2 DEF Goto, TypeOK, RequestType
    <2> QED BY <1>3, <2>1, <2>2, <2>3, <2>4
  <1>5. ASSUME NEW r \in Requests,
               \/ PreHooks(r) \/ IsClosing(r) \/ SelectGiveUp(r) \/ SelectFull(r)
               \/ TakeAnswer(r) \/ WaitCancelled(r) \/ SelectSendOnClosed(r) \/ CancelContext(r)
        PROVE  DrainInv'
    <2>1. /\ UNCHANGED <<registered, created, wgStored, aold, apc, queue, closed, worker>>
          /\ \/ UNCHANGED <<rpc, pq>>
             \/ rpc[r] # "create" /\ \E how : Leave({r}, how)
             \/ rpc[r] # "create" /\ UNCHANGED pq /\ \E pc : Goto(r, pc)
      BY <1>5 DEF PreHooks, IsClosing, SelectGiveUp, SelectFull, TakeAnswer, WaitCancelled,
         SelectSendOnClosed, CancelContext, ListensOnDone
    <2>2. /\ \A p \in Requests : pq'[p] <= created
          /\ \A p \in Requests : rpc[p] = "create" => rpc'[p] = "create"
      BY <1>0, <2>1 DEF Leave, Goto, TypeOK, RequestType
    <2> QED BY <2>1, <2>2, DrainQuiet DEF Drained
  <1>6. ASSUME NEW r \in Requests, SelectSend(r) PROVE DrainInv'
    <2>1. /\ pq[r] \in Queues /\ pq[r] <= created /\ ~closed[pq[r]]
          /\ UNCHANGED <<registered, created, wgStored, aold, apc, closed, worker, pq>>
          /\ \A q \in Queues : q # pq[r] => queue'[q] = queue[q]
      BY <1>0, <1>6 DEF SelectSend, QueueInv, ParkedInv, HasQueue, TypeOK, ChannelType
    <2>2. \A p \in Requests : rpc[p] = "create" => rpc'[p] = "create"
      BY <1>6 DEF SelectSend, Goto, TypeOK, RequestType
    <2>3. \A q \in Queues : (Drained(q) => queue'[q] = <<>>) /\ (q > created => queue'[q] = queue[q])
      BY <1>0, <2>1 DEF Drained, Queues
    <2> QED BY <1>0, <2>1, <2>2, <2>3, DrainQuiet
  <1>7. ASSUME NEW q \in Queues, NEW i \in Slots, Receive(q, i) PROVE DrainInv'
    <2>1. /\ UNCHANGED <<registered, created, wgStored, aold, apc, closed, pq>>
          /\ \A p \in Queues : p # q => queue'[p] = queue[p]
          /\ queue[q] # <<>>
      BY <1>7 DEF Receive, TypeOK, ChannelType
    <2>2. ~(q > created) /\ ~Drained(q)
      BY <2>1 DEF DrainInv, GenerationInv, Drained
    <2>3. \A p \in Requests : rpc[p] = "create" => rpc'[p] = "create"
      BY <1>7 DEF Receive, Parked, Goto, TypeOK, RequestType
    <2>4. \A p \in Queues, j \in Slots :
            worker'[p][j] \in {"none", "exited"} => worker'[p][j] = worker[p][j]
      <3>1. UNCHANGED worker \/ worker' = [worker EXCEPT ![q][i] = "busy"]
        BY <1>7 DEF Receive
      <3> QED BY <3>1 DEF TypeOK, WorkerType
    <2>5. \A p \in Queues : (Drained(p) => queue'[p] = <<>>) /\ (p > created => queue'[p] = queue[p])
      BY <2>1, <2>2 DEF Drained
    <2> QED BY <1>0, <2>1, <2>3, <2>4, <2>5, DrainQuiet
  <1>8. ASSUME NEW q \in Queues, NEW i \in Slots, KeyError(q, i) \/ Call(q, i) \/ Deliver(q, i)
        PROVE  DrainInv'
    <2>1. /\ UNCHANGED <<registered, created, wgStored, aold, apc, closed, queue, pq, rpc>>
          /\ \E pc \in {"idle", "hung", "called"} : worker' = [worker EXCEPT ![q][i] = pc]
      BY <1>8 DEF KeyError, Call, Deliver
    <2>2. \A p \in Queues, j \in Slots :
            worker'[p][j] \in {"none", "exited"} => worker'[p][j] = worker[p][j]
      BY <2>1 DEF TypeOK, WorkerType
    <2> QED BY <1>0, <2>1, <2>2, DrainQuiet DEF Drained
  <1>9. ASSUME NEW q \in Queues, NEW i \in Slots, Exit(q, i) PROVE DrainInv'
    <2>1. /\ UNCHANGED <<registered, created, wgStored, aold, apc, closed, queue, pq, rpc>>
          /\ worker' = [worker EXCEPT ![q][i] = "exited"] /\ Drained(q)
      BY <1>9 DEF Exit, RangeEnds, Drained
    <2>2. \A p \in Queues, j \in Slots :
            worker'[p][j] = IF p = q /\ j = i THEN "exited" ELSE worker[p][j]
      BY <2>1 DEF TypeOK, WorkerType
    <2>3. GenerationInv' /\ OperationInv'
      BY <2>1 DEF DrainInv, GenerationInv, OperationInv, Drained
    <2>4. ExitedInv'
      <3>1. Creating' <=> Creating
        BY <2>1 DEF Creating
      <3>2. wgStored # 0 => wgStored \in Queues
        BY DEF TypeOK, RegistryType, Queues
      <3> QED BY <2>1, <2>2, <3>1, <3>2 DEF DrainInv, ExitedInv, Drained
    <2> QED BY <2>3, <2>4 DEF DrainInv
  <1>10. CASE BeginRemove
    <2>1. /\ apc = "idle" /\ registered # 0 /\ aold' = registered /\ apc' = "removeSignal"
          /\ UNCHANGED <<registered, created, wgStored, queue, closed, worker, pq, rpc>>
      BY <1>10 DEF BeginRemove
    <2>2. aold = 0 /\ wgStored = registered
      BY <2>1 DEF DrainInv, OperationInv
    <2>3. GenerationInv'
      BY <1>0, <2>1, <2>2 DEF DrainInv, GenerationInv, Drained, Queues
    <2>4. OperationInv'
      BY <2>1, <2>2 DEF OperationInv, Updating
    <2>5. Creating' <=> Creating
      BY <2>1 DEF Creating, Starting
    <2>6. ExitedInv'
      BY <2>1, <2>5 DEF DrainInv, ExitedInv, Drained
    <2> QED BY <2>3, <2>4, <2>6 DEF DrainInv
  <1>11. CASE RemoveSignal \/ UpdateSignal
    <2>1. /\ UNCHANGED <<registered, created, wgStored, aold, queue, closed, worker>>
          /\ \/ apc = "removeSignal" /\ apc' = "removeClose"
             \/ apc = "updSignal" /\ apc' = "updTransfer"
          /\ Leave(Parked(aold), "shutdown")
      BY <1>11 DEF RemoveSignal, UpdateSignal, SignalClosing
    <2>2. /\ \A p \in Requests : pq'[p] <= created
          /\ \A p \in Requests : rpc[p] = "create" => rpc'[p] = "create"
      BY <1>0, <2>1 DEF Leave, Parked, TypeOK, RequestType
    <2> QED BY <2>1, <2>2, DrainQuiet DEF Drained, Updating
  <1>12. CASE RemoveClose \/ UpdateClose
    <2>1. /\ UNCHANGED <<registered, created, wgStored, aold, queue, worker, pq, rpc>>
          /\ \/ apc = "removeClose" /\ apc' = "removeWait"
             \/ apc = "updClose" /\ apc' = "updWait"
          /\ CloseQueue(aold) /\ aold \in Queues
      BY <1>12 DEF RemoveClose, UpdateClose, TypeOK, ControlType, Queues
    <2>2. closed'[aold] /\ \A q \in Queues : closed[q] => closed'[q]
      BY <2>1 DEF CloseQueue, TypeOK, ChannelType
    <2> QED BY <1>0, <2>1, <2>2, DrainQuiet DEF Drained, Updating
  <1>13. CASE RemoveFinish
    <2>1. /\ apc = "removeWait" /\ WaitReturns(wgStored) /\ apc' = "idle"
          /\ registered' = 0 /\ wgStored' = 0 /\ aold' = 0
          /\ UNCHANGED <<created, queue, closed, worker, pq, rpc>>
      BY <1>13 DEF RemoveFinish
    <2>2. aold = registered /\ wgStored = registered /\ registered # 0
      BY <2>1 DEF DrainInv, OperationInv
    <2>3. ~Creating
      BY <2>1, ConstantsAssumption DEF Creating, Starting, LifeInv, LockInv
    <2>4. Drained(registered)
      BY <2>1, <2>2, <2>3, WaitMeansDrained
    <2>5. GenerationInv'
      BY <1>0, <2>1, <2>2, <2>4 DEF DrainInv, GenerationInv, Drained
    <2>6. OperationInv'
      BY <2>1 DEF OperationInv, Updating
    <2>7. ExitedInv'
      BY <2>1 DEF DrainInv, ExitedInv, Drained
    <2> QED BY <2>5, <2>6, <2>7 DEF DrainInv
  <1>14. CASE BeginUpdate
    <2>1. /\ apc = "idle" /\ created' = created + 1 /\ registered' = created + 1
          /\ UNCHANGED <<queue, closed, worker, pq, rpc>>
          /\ IF registered = 0 THEN wgStored' = created + 1 /\ apc' = "prepare" /\ aold' = aold
             ELSE wgStored' = wgStored /\ apc' = "updSignal" /\ aold' = registered
      BY <1>14 DEF BeginUpdate, PrepareProvider
    <2>2. aold = 0 /\ wgStored = registered
      BY <2>1 DEF DrainInv, OperationInv
    <2>3. GenerationInv'
      <3>1. \A r \in Requests : pq[r] \in 0..MaxQueues
        BY DEF TypeOK, RequestType
      <3> QED BY <1>0, <2>1, <2>2, <3>1 DEF DrainInv, GenerationInv, Drained, Queues
    <2>4. OperationInv'
      BY <1>0, <2>1, <2>2 DEF OperationInv, Updating
    <2>5. ExitedInv'
      <3>1. CASE registered = 0
        BY <2>1, <3>1 DEF DrainInv, ExitedInv, Creating, Starting, Drained
      <3>2. CASE registered # 0
        <4>1. Creating => Creating'
          BY <2>1 DEF Creating, Starting
        <4> QED BY <2>1, <3>2, <4>1 DEF DrainInv, ExitedInv, Drained
      <3> QED BY <3>1, <3>2
    <2> QED BY <2>3, <2>4, <2>5 DEF DrainInv
  <1>15. CASE UpdateTransfer
    <2>1. /\ UNCHANGED <<registered, created, wgStored, aold, closed, worker, pq, rpc>>
          /\ apc = "updTransfer" /\ apc' \in {"updTransfer", "updOverflow", "updClose"}
          /\ aold \in Queues /\ registered \in Queues
      BY <1>15 DEF UpdateTransfer, TypeOK, ControlType, Queues, LifeInv, PhaseInv, Updating, RegistryType
    <2>2. \A q \in Queues : q > created => q # aold /\ q # registered
      BY <1>0 DEF DrainInv, GenerationInv, Queues
    <2>3. \A q \in Queues : q # aold /\ q # registered => queue'[q] = queue[q]
      <3>1. \/ UNCHANGED queue
            \/ queue' = [queue EXCEPT ![aold] = Rest(queue[aold])]
            \/ \E m : queue' = [[queue EXCEPT ![aold] = Rest(queue[aold])]
                                  EXCEPT ![registered] = Append(@, m)]
        BY <1>15 DEF UpdateTransfer
      <3> QED BY <3>1 DEF TypeOK, ChannelType
    <2>4. aold # registered
      BY <2>1 DEF DrainInv, OperationInv, Updating
    <2>5. Drained(aold) => queue'[aold] = <<>>
      BY <1>15, <2>1, <2>4 DEF UpdateTransfer, Drained, Rest, TypeOK, ChannelType
    <2>6. Drained(registered) => queue'[registered] = <<>>
      BY <1>15, <2>1, <2>4 DEF UpdateTransfer, Drained, TypeOK, ChannelType
    <2>7. \A q \in Queues : (Drained(q) => queue'[q] = <<>>) /\ (q > created => queue'[q] = queue[q])
      BY <2>2, <2>3, <2>5, <2>6 DEF Drained
    <2> QED BY <1>0, <2>1, <2>7, DrainQuiet DEF Updating
  <1>16. CASE UpdateOverflow
    <2>1. /\ UNCHANGED <<registered, created, wgStored, aold, queue, closed, worker, pq, rpc>>
          /\ apc = "updOverflow" /\ apc' \in {"updOverflow", "updClose"}
      BY <1>16 DEF UpdateOverflow
    <2> QED BY <1>0, <2>1, DrainQuiet DEF Drained, Updating
  <1>17. CASE UpdateWait
    <2>1. /\ apc = "updWait" /\ WaitReturns(wgStored) /\ apc' = "updCreate"
          /\ wgStored' = registered
          /\ UNCHANGED <<registered, created, aold, queue, closed, worker, pq, rpc>>
      BY <1>17 DEF UpdateWait
    <2>2. aold # registered /\ wgStored = aold /\ aold # 0
      BY <2>1 DEF DrainInv, OperationInv, Updating
    <2>3. ~Creating
      BY <2>1, ConstantsAssumption DEF Creating, Starting, LifeInv, LockInv
    <2>4. Drained(aold)
      BY <2>1, <2>2, <2>3, WaitMeansDrained
    <2>5. GenerationInv'
      BY <2>1 DEF DrainInv, GenerationInv, Drained
    <2>6. OperationInv'
      BY <2>1, <2>2, <2>4 DEF OperationInv, Updating, Drained
    <2>7. ExitedInv'
      BY <2>1 DEF DrainInv, ExitedInv, Drained, Creating, Starting
    <2> QED BY <2>5, <2>6, <2>7 DEF DrainInv
  <1>18. CASE UpdateCreate
    <2>1. /\ StartWorkers(registered) /\ apc \in Starting /\ Unstarted /\ apc' = "idle" /\ aold' = 0
          /\ UNCHANGED <<registered, created, wgStored, queue, closed, pq, rpc>>
      BY <1>18 DEF UpdateCreate, LifeInv, PhaseInv, Starting
    <2>2. aold # 0 => Drained(aold)
      BY <2>1 DEF DrainInv, OperationInv, Starting
    <2>3. \A r \in Requests : rpc'[r] # "create" /\ pq'[r] <= created
      BY <1>0, <2>1, ConstantsAssumption DEF LifeInv, LockInv, Starting
    <2> QED BY <1>3, <2>1, <2>2, <2>3
  <1>19. CASE ShutdownSignal
    <2>1. /\ UNCHANGED <<registered, created, wgStored, aold, queue, closed, worker, apc>>
          /\ Leave(Parked(registered), "shutdown") \/ UNCHANGED <<rpc, pq>>
      BY <1>19 DEF ShutdownSignal, SignalClosing
    <2>2. /\ \A p \in Requests : pq'[p] <= created
          /\ \A p \in Requests : rpc[p] = "create" => rpc'[p] = "create"
      BY <1>0, <2>1 DEF Leave, Parked, TypeOK, RequestType
    <2> QED BY <2>1, <2>2, DrainQuiet DEF Drained
  <1>20. CASE ShutdownClose
    <2>1. /\ UNCHANGED <<registered, created, wgStored, aold, queue, worker, pq, rpc, apc>>
          /\ \A q \in Queues : closed[q] => closed'[q]
      BY <1>20 DEF ShutdownClose, CloseQueue, TypeOK, ChannelType
    <2> QED BY <1>0, <2>1, DrainQuiet DEF Drained
  <1>21. CASE ShutdownDone \/ UNCHANGED vars
    <2>1. UNCHANGED <<registered, created, wgStored, aold, queue, closed, worker, pq, rpc, apc>>
      BY <1>21 DEF ShutdownDone, vars
    <2> QED BY <1>0, <2>1, DrainQuiet DEF Drained
  <1> QED
    BY <1>1, <1>2, <1>4, <1>5, <1>6, <1>7, <1>8, <1>9, <1>10, <1>11, <1>12, <1>13, <1>14, <1>15, <1>16, <1>17, <1>18, <1>19, <1>20, <1>21
       DEF Next, Producer, Work, AdminStep, ShutdownStep

\* In every reachable state the generations that were replaced are drained.
LEMMA DrainCorrect ==
  ASSUME Slots # {}, CreateMayFail = FALSE PROVE Spec => []DrainInv
  BY TypeInit, TypeStep, LifeInit, LifeStep, QueueInit, QueueStep, DrainInit, DrainStep,
     PTL DEF Spec

\* Once UpdateProvider or RemoveProvider has released the provider's mutex no
\* message is left in the channel of an old generation.  A generation whose
\* createBaseProvider failed has no workers to drain it: hence the hypotheses.
THEOREM NoMessageIsStranded ==
  ASSUME Slots # {}, CreateMayFail = FALSE PROVE Spec => []NoStrandedMessage
  <1>1. TypeOK /\ LifeInv /\ DrainInv => NoStrandedMessage
    <2> SUFFICES ASSUME TypeOK, LifeInv, DrainInv, mutex = "free",
                        NEW q \in Queues, q # registered
                 PROVE  queue[q] = <<>>
      BY DEF NoStrandedMessage
    <2>1. aold = 0
      BY DEF LifeInv, LockInv, DrainInv, OperationInv
    <2>2. q > created \/ q <= created
      BY DEF Queues, TypeOK, RegistryType
    <2> QED BY <2>1, <2>2 DEF DrainInv, GenerationInv, Drained, Queues
  <1> QED BY <1>1, TypeCorrect, LifeCorrect, DrainCorrect, PTL
-----------------------------------------------------------------------------
(* The queue implements Attempt.                                           *)

\* No attempt has ended or been sent upstream after Init.
LEMMA AttemptInit == Init => Attempts!Init
  BY DEF Init, Attempts!Init, Outcome, Finished, Rejected

\* A step that calls nobody and ends no attempt.
LEMMA AttemptStutters ==
  ASSUME UNCHANGED calls, \A r \in Requests : Outcome(r)' = Outcome(r)
  PROVE  UNCHANGED Attempts!vars
  BY DEF Attempts!vars

\* Producers that are turned away before they were sent upstream.
LEMMA AttemptRejects ==
  ASSUME TypeOK, FlightInv, NEW S \in SUBSET Requests, NEW how, Leave(S, how), UNCHANGED calls,
         how \in Finished \ {"answered", "cancelled"},
         \A r \in S : rpc[r] \notin Finished \cup {"waiting"}
  PROVE  Attempts!Next
  <1>1. \A r \in Requests : Outcome(r)' = IF r \in S THEN "rejected" ELSE Outcome(r)
    BY DEF Outcome, Leave
  <1>2. \A r \in S : Outcome(r) = "open" /\ calls[r] = 0
    BY DEF Outcome, Finished, FlightInv, CallInv
  <1>3. Attempts!RejectAll(S)
    BY <1>1, <1>2 DEF Attempts!RejectAll
  <1> QED BY <1>3 DEF Attempts!Next

\* Every step of the queue ends attempts, sends one upstream or is invisible to
\* the callers, when only the contexts of streams end.
LEMMA AttemptStep ==
  ASSUME Cancellable \subseteq Streams
  PROVE  TypeOK /\ MessageInv /\ FlightInv /\ [Next]_vars => [Attempts!Next]_(Attempts!vars)
  <1> SUFFICES ASSUME TypeOK, MessageInv, FlightInv, [Next]_vars
               PROVE  [Attempts!Next]_(Attempts!vars)
    OBVIOUS
  <1> USE DEF reqVars, poolVars, chanVars, workVars, regVars, adminVars, shutVars
  <1>0. \A r \in Requests : ctxDone[r] => r \in Streams
    BY DEF FlightInv, CallInv
  <1>1. ASSUME UNCHANGED calls,
               \A r \in Requests : rpc'[r] = rpc[r] \/ (rpc[r] \notin Finished /\ rpc'[r] \notin Finished)
        PROVE  UNCHANGED Attempts!vars
    BY <1>1, AttemptStutters DEF Outcome, Finished
  <1>2. ASSUME NEW r \in Requests, NEW how \in Finished \ {"answered", "cancelled"},
               Leave({r}, how), UNCHANGED calls, rpc[r] \notin Finished \cup {"waiting"}
        PROVE  Attempts!Next
    BY <1>2, AttemptRejects
  <1>3. ASSUME NEW r \in Requests, NEW pc, Goto(r, pc), UNCHANGED calls,
               rpc[r] \notin Finished, pc \notin Finished
        PROVE  UNCHANGED Attempts!vars
    BY <1>1, <1>3 DEF Goto, TypeOK, RequestType
  <1>4. ASSUME NEW r \in Requests,
               \/ GetProviderQueue(r) \/ GetProviderQueueLocked(r) \/ CreateProvider(r)
               \/ PreHooks(r) \/ IsClosing(r) \/ SelectGiveUp(r) \/ SelectFull(r) \/ SelectSend(r)
        PROVE  [Attempts!Next]_(Attempts!vars)
    <2>1. /\ UNCHANGED calls /\ rpc[r] \notin Finished \cup {"waiting"}
          /\ \/ \E how \in Finished \ {"answered", "cancelled"} : Leave({r}, how)
             \/ \E pc : pc \notin Finished /\ Goto(r, pc)
      <3>1. CASE GetProviderQueue(r) \/ GetProviderQueueLocked(r) \/ CreateProvider(r) \/ PreHooks(r)
        BY <3>1 DEF GetProviderQueue, GetProviderQueueLocked, CreateProvider, PreHooks, Finished, Rejected
      <3>2. CASE IsClosing(r) \/ SelectGiveUp(r) \/ SelectFull(r) \/ SelectSend(r)
        BY <3>2 DEF IsClosing, SelectGiveUp, SelectFull, SelectSend, ListensOnDone, Finished, Rejected
      <3> QED BY <1>4, <3>1, <3>2
    <2> QED BY <1>2, <1>3, <2>1
  <1>5. ASSUME NEW r \in Requests, TakeAnswer(r) PROVE Attempts!Next
    <2>1. Leave({r}, "answered") /\ rpc[r] = "waiting" /\ UNCHANGED calls
      BY <1>5 DEF TakeAnswer
    <2>2. \A p \in Requests : Outcome(p)' = IF p = r THEN "answered" ELSE Outcome(p)
      BY <2>1 DEF Leave, Outcome
    <2>3. Outcome(r) = "open"
      BY <2>1 DEF Outcome, Finished, Rejected
    <2>4. Attempts!Answer(r)
      BY <2>1, <2>2, <2>3 DEF Attempts!Answer, Attempts!End
    <2> QED BY <2>4 DEF Attempts!Next
  <1>6. ASSUME NEW r \in Requests, WaitCancelled(r) PROVE FALSE
    BY <1>0, <1>6 DEF WaitCancelled
  <1>7. ASSUME NEW q \in Queues, NEW i \in Slots, Call(q, i) PROVE Attempts!Next
    <2>1. PICK d \in Msgs : d = wmsg[q][i]
      BY <1>7 DEF Call, TypeOK, WorkerType
    <2>2. Holds(q, i, d) /\ Unsent(d) /\ Placed(d)
      BY <1>7, <2>1 DEF Call, Holds, Unsent, Placed, HeldByWorker
    <2>3. WaitedFor(d) /\ owner[d] \in Requests /\ content[d] = owner[d] /\ calls[owner[d]] = 0
      BY <2>2, PlacedIsOwn DEF FlightInv, UncalledInv
    <2>4. calls' = [calls EXCEPT ![owner[d]] = 1] /\ UNCHANGED rpc
      BY <1>7, <2>1, <2>3 DEF Call, TypeOK, WorkerType
    <2>5. Outcome(owner[d]) = "open" /\ \A r \in Requests : Outcome(r)' = Outcome(r)
      BY <2>3, <2>4 DEF Outcome, WaitedFor, Finished, Rejected
    <2>6. Attempts!Call(owner[d])
      BY <2>3, <2>4, <2>5 DEF Attempts!Call
    <2> QED BY <2>3, <2>6 DEF Attempts!Next
  <1>8. ASSUME NEW q \in Queues, NEW i \in Slots, Receive(q, i) PROVE UNCHANGED Attempts!vars
    <2>1. UNCHANGED calls /\ (UNCHANGED rpc \/ \E r \in Parked(q) : Goto(r, "waiting"))
      BY <1>8 DEF Receive
    <2>2. CASE UNCHANGED rpc
      BY <1>1, <2>1, <2>2
    <2>3. ASSUME NEW r \in Parked(q), Goto(r, "waiting") PROVE UNCHANGED Attempts!vars
      <3>1. r \in Requests /\ rpc[r] \notin Finished /\ "waiting" \notin Finished
        BY DEF Parked, Finished, Rejected
      <3>2. PICK pc : pc = "waiting"
        OBVIOUS
      <3> QED BY <1>3, <2>1, <2>3, <3>1, <3>2
    <2> QED BY <2>1, <2>2, <2>3
  <1>9. CASE RemoveSignal \/ UpdateSignal \/ (ShutdownSignal /\ registered # 0)
    <2>1. UNCHANGED calls /\ \E q : Leave(Parked(q), "shutdown")
      BY <1>9 DEF RemoveSignal, UpdateSignal, ShutdownSignal, SignalClosing
    <2>2. PICK q : Leave(Parked(q), "shutdown")
      BY <2>1
    <2>3. /\ Parked(q) \in SUBSET Requests /\ "shutdown" \in Finished \ {"answered", "cancelled"}
          /\ \A r \in Parked(q) : rpc[r] \notin Finished \cup {"waiting"}
      BY DEF Parked, Finished, Rejected
    <2>4. PICK how : how = "shutdown"
      OBVIOUS
    <2> QED BY <2>1, <2>2, <2>3, <2>4, AttemptRejects
  <1>10. CASE \/ BeginRemove \/ RemoveClose \/ RemoveFinish \/ BeginUpdate \/ UpdateTransfer
              \/ UpdateOverflow \/ UpdateClose \/ UpdateWait \/ UpdateCreate \/ ShutdownClose
              \/ ShutdownDone \/ UNCHANGED vars \/ (ShutdownSignal /\ registered = 0)
    <2>1. UNCHANGED <<calls, rpc>>
      BY <1>10 DEF BeginRemove, RemoveClose, RemoveFinish, BeginUpdate, UpdateTransfer, UpdateOverflow,
         UpdateClose, UpdateWait, UpdateCreate, ShutdownClose, ShutdownDone, ShutdownSignal, vars
    <2> QED BY <1>1, <2>1
  <1>11. ASSUME NEW r \in Requests, SelectSendOnClosed(r) \/ CancelContext(r)
         PROVE  UNCHANGED Attempts!vars
    BY <1>1, <1>11 DEF SelectSendOnClosed, CancelContext
  <1>12. ASSUME NEW q \in Queues, NEW i \in Slots, KeyError(q, i) \/ Deliver(q, i) \/ Exit(q, i)
         PROVE UNCHANGED Attempts!vars
    BY <1>1, <1>12 DEF KeyError, Deliver, Exit
  <1> QED
    BY <1>4, <1>5, <1>6, <1>7, <1>8, <1>9, <1>10, <1>11, <1>12
       DEF Next, Producer, Work, AdminStep, ShutdownStep

\* The provider queue, its workers and its administration implement Attempt, the
\* promise RequestFlow is built on, when only the contexts of streams end
\* (tryRequest gives a message back that a worker still holds: run pq_reuse).
THEOREM QueueImplementsAttempt ==
  ASSUME Cancellable \subseteq Streams PROVE Spec => ImplementsAttempt
  BY TypeCorrect, MessageCorrect, FlightCorrect, AttemptInit, AttemptStep, PTL
     DEF Spec, ImplementsAttempt, Attempts!Spec

=============================================================================
