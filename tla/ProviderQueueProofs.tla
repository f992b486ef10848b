------------------------- MODULE ProviderQueueProofs -------------------------
(***************************************************************************)
(* Proofs about ProviderQueue, for every number of requests, messages,     *)
(* workers and queue generations.                                          *)
(***************************************************************************)
EXTENDS ProviderQueue, FiniteSetTheorems, TLAPS

\* The states Init leaves the gateway in have the types the code declares.
LEMMA TypeInit == Init => TypeOK
  BY ConstantsAssumption, FS_CardinalityType
     DEF Init, TypeOK, RegistryType, ChannelType, WorkerType, RequestType, PoolType,
         ControlType, Queues, Live, Finished, Rejected

\* Sending adds one element to a channel buffer, receiving takes its head.
LEMMA BufferOps ==
  ASSUME NEW S, NEW s \in Seq(S), NEW e \in S
  PROVE  /\ Append(s, e) \in Seq(S) /\ Len(Append(s, e)) = Len(s) + 1
         /\ s # <<>> => /\ Head(s) \in S
                        /\ Tail(s) \in Seq(S) /\ Len(Tail(s)) = Len(s) - 1
  OBVIOUS

\* Starting the workers of one generation keeps the types of all the others.
LEMMA StartWorkersType ==
  ASSUME TypeOK, NEW g, StartWorkers(g), UNCHANGED <<wmsg, wjob, calls>>
  PROVE  WorkerType'
  <1>1. worker' \in [Queues -> [Slots -> Live \cup {"none", "exited"}]]
    BY DEF TypeOK, WorkerType, StartWorkers, Live
  <1>2. ASSUME NEW q \in Queues, NEW i \in Slots, worker'[q][i] \in {"busy", "called"}
        PROVE  wmsg[q][i] # None
    <2>1. CASE q = g
      BY <1>2, <2>1 DEF TypeOK, WorkerType, StartWorkers
    <2>2. CASE q # g
      BY <1>2, <2>2 DEF TypeOK, WorkerType, StartWorkers
    <2> QED BY <2>1, <2>2
  <1> QED BY <1>1, <1>2 DEF TypeOK, WorkerType

\* Every step of every goroutine preserves the types.
LEMMA TypeStep == TypeOK /\ [Next]_vars => TypeOK'
  <1> SUFFICES ASSUME TypeOK, [Next]_vars PROVE TypeOK'
    OBVIOUS
  <1> USE ConstantsAssumption
      DEF TypeOK, Queues, reqVars, poolVars, chanVars, workVars, regVars, adminVars,
          shutVars
  <1>1. ASSUME NEW r \in Requests, GetProviderQueue(r) PROVE TypeOK'
    <2>1. RequestType'
      BY <1>1 DEF GetProviderQueue, Goto, Finished, Rejected, RegistryType, RequestType
    <2>2. RegistryType' /\ ChannelType' /\ WorkerType' /\ PoolType' /\ ControlType'
      BY <1>1 DEF GetProviderQueue, RegistryType, ChannelType, WorkerType, PoolType, ControlType, Goto
    <2> QED BY <2>1, <2>2
  <1>2. ASSUME NEW r \in Requests, GetProviderQueueLocked(r) PROVE TypeOK'
    <2>1. RequestType'
      BY <1>2 DEF GetProviderQueueLocked, Goto, Leave, PrepareProvider, Finished, Rejected, RegistryType, RequestType
    <2>2. PoolType'
      BY <1>2 DEF GetProviderQueueLocked, Goto, Leave, PrepareProvider, PoolType
    <2>3. RegistryType'
      BY <1>2 DEF GetProviderQueueLocked, Goto, Leave, PrepareProvider, RegistryType
    <2>4. ChannelType' /\ WorkerType' /\ ControlType'
      BY <1>2 DEF GetProviderQueueLocked, ChannelType, WorkerType, ControlType, Goto, Leave, PrepareProvider
    <2> QED BY <2>1, <2>2, <2>3, <2>4
  <1>3. ASSUME NEW r \in Requests, CreateProvider(r) PROVE TypeOK'
    <2>1. RequestType'
      <3>1. CASE pq' = [pq EXCEPT ![r] = registered] /\ Goto(r, "prehook") /\ msg' = msg
        BY <1>3, <3>1 DEF CreateProvider, Goto, RegistryType, RequestType
      <3>2. CASE Leave({r}, "noProvider")
        BY <1>3, <3>2 DEF CreateProvider, Leave, Finished, RequestType
      <3> QED BY <1>3, <3>1, <3>2 DEF CreateProvider
    <2>2. PoolType'
      BY <1>3 DEF CreateProvider, Goto, Leave, StartWorkers, Unlock, PoolType
    <2>3. RegistryType'
      BY FS_CardinalityType, <1>3 DEF CreateProvider, StartWorkers, Unlock, RegistryType
    <2>4. WorkerType'
      <3>1. CASE StartWorkers(registered)
        BY <1>3, <3>1, StartWorkersType DEF CreateProvider
      <3>2. CASE UNCHANGED worker
        BY <1>3, <3>2 DEF CreateProvider, WorkerType
      <3> QED BY <1>3, <3>1, <3>2 DEF CreateProvider
    <2>5. ChannelType' /\ ControlType'
      BY <1>3 DEF CreateProvider, ChannelType, ControlType, Goto, Leave, StartWorkers, Unlock
    <2> QED BY <2>1, <2>2, <2>3, <2>4, <2>5
  <1>4. ASSUME NEW r \in Requests, PreHooks(r) PROVE TypeOK'
    <2>1. RequestType'
      BY <1>4 DEF PreHooks, Goto, Leave, Finished, Rejected, RequestType
    <2>2. PoolType'
      BY <1>4 DEF PreHooks, Goto, Leave, PoolType
    <2>3. RegistryType' /\ ChannelType' /\ WorkerType' /\ ControlType'
      BY <1>4 DEF PreHooks, RegistryType, ChannelType, WorkerType, ControlType, Goto, Leave
    <2> QED BY <2>1, <2>2, <2>3
  <1>5. ASSUME NEW r \in Requests, IsClosing(r) PROVE TypeOK'
    <2>1. RequestType'
      BY <1>5 DEF IsClosing, Goto, Leave, Finished, Rejected, RequestType
    <2>2. PoolType'
      BY <1>5 DEF IsClosing, Goto, Leave, PoolType
    <2>3. RegistryType' /\ ChannelType' /\ WorkerType' /\ ControlType'
      BY <1>5 DEF IsClosing, RegistryType, ChannelType, WorkerType, ControlType, Goto, Leave
    <2> QED BY <2>1, <2>2, <2>3
  <1>6. ASSUME NEW r \in Requests, SelectSend(r) PROVE TypeOK'
    <2>1. RequestType'
      BY <1>6 DEF SelectSend, Goto, HasRoom, Finished, Rejected, RequestType
    <2>2. ChannelType'
      <3>1. msg[r] \in Msgs \cup {None} /\ pq[r] \in 0..MaxQueues
        BY DEF RequestType
      <3> DEFINE q == pq[r]
      <3>2. CASE q \in Queues
        <4>1. /\ Append(queue[q], msg[r]) \in Seq(Msgs \cup {None})
              /\ Len(Append(queue[q], msg[r])) <= BufferSize
          BY <1>6, <3>1, <3>2, BufferOps DEF SelectSend, HasRoom, ChannelType
        <4> QED BY <1>6, <3>2, <4>1 DEF SelectSend, ChannelType
      <3>3. CASE q \notin Queues
        BY <1>6, <3>3 DEF SelectSend, ChannelType
      <3> QED BY <3>2, <3>3
    <2>3. RegistryType' /\ WorkerType' /\ PoolType' /\ ControlType'
      BY <1>6 DEF SelectSend, RegistryType, WorkerType, PoolType, ControlType, Goto, HasRoom
    <2> QED BY <2>1, <2>2, <2>3
  <1>7. ASSUME NEW r \in Requests, SelectSendOnClosed(r) PROVE TypeOK'
    <2>1. ControlType'
      BY <1>7 DEF SelectSendOnClosed, RegistryType, ControlType
    <2>2. RegistryType' /\ ChannelType' /\ WorkerType' /\ RequestType' /\ PoolType'
      BY <1>7 DEF SelectSendOnClosed, RegistryType, ChannelType, WorkerType, RequestType, PoolType
    <2> QED BY <2>1, <2>2
  <1>8. ASSUME NEW r \in Requests, SelectGiveUp(r) PROVE TypeOK'
    <2>1. RequestType'
      BY <1>8 DEF SelectGiveUp, Leave, ListensOnDone, Finished, Rejected, RequestType
    <2>2. PoolType'
      BY <1>8 DEF SelectGiveUp, Leave, ListensOnDone, PoolType
    <2>3. RegistryType' /\ ChannelType' /\ WorkerType' /\ ControlType'
      BY <1>8 DEF SelectGiveUp, RegistryType, ChannelType, WorkerType, ControlType, Leave, ListensOnDone
    <2> QED BY <2>1, <2>2, <2>3
  <1>9. ASSUME NEW r \in Requests, SelectFull(r) PROVE TypeOK'
    <2>1. RequestType'
      BY <1>9 DEF SelectFull, Goto, Leave, HasRoom, Finished, Rejected, RequestType
    <2>2. PoolType'
      BY <1>9 DEF SelectFull, Goto, Leave, HasRoom, PoolType
    <2>3. RegistryType' /\ ChannelType' /\ WorkerType' /\ ControlType'
      BY <1>9 DEF SelectFull, RegistryType, ChannelType, WorkerType, ControlType, Goto, Leave, HasRoom
    <2> QED BY <2>1, <2>2, <2>3
  <1>10. ASSUME NEW r \in Requests, TakeAnswer(r) PROVE TypeOK'
    <2>1. RequestType'
      BY <1>10 DEF TakeAnswer, Leave, Finished, Rejected, RequestType
    <2>2. PoolType'
      BY <1>10 DEF TakeAnswer, Leave, PoolType
    <2>3. RegistryType' /\ ChannelType' /\ WorkerType' /\ ControlType'
      BY <1>10 DEF TakeAnswer, RegistryType, ChannelType, WorkerType, ControlType, Leave
    <2> QED BY <2>1, <2>2, <2>3
  <1>11. ASSUME NEW r \in Requests, WaitCancelled(r) PROVE TypeOK'
    <2>1. RequestType'
      BY <1>11 DEF WaitCancelled, Leave, Finished, Rejected, RequestType
    <2>2. PoolType'
      BY <1>11 DEF WaitCancelled, Leave, PoolType
    <2>3. RegistryType' /\ ChannelType' /\ WorkerType' /\ ControlType'
      BY <1>11 DEF WaitCancelled, RegistryType, ChannelType, WorkerType, ControlType, Leave
    <2> QED BY <2>1, <2>2, <2>3
  <1>12. ASSUME NEW r \in Requests, CancelContext(r) PROVE TypeOK'
    <2>1. RequestType'
      BY <1>12 DEF CancelContext, Finished, Rejected, RequestType
    <2>2. RegistryType' /\ ChannelType' /\ WorkerType' /\ PoolType' /\ ControlType'
      BY <1>12 DEF CancelContext, RegistryType, ChannelType, WorkerType, PoolType, ControlType
    <2> QED BY <2>1, <2>2
  <1>13. ASSUME NEW q \in Queues, NEW i \in Slots, Receive(q, i) PROVE TypeOK'
    <2>1. ChannelType'
      <3>1. CASE Head(queue[q]) = None
        BY <1>13, <3>1 DEF Receive, ChannelType
      <3>2. CASE queue' = [queue EXCEPT ![q] = Tail(@)]
        <4>1. Tail(queue[q]) \in Seq(Msgs \cup {None}) /\ Len(Tail(queue[q])) <= BufferSize
          BY <1>13 DEF Receive, ChannelType
        <4> QED BY <1>13, <3>2, <4>1 DEF Receive, ChannelType
      <3>3. ASSUME NEW r \in Requests,
                   queue' = [queue EXCEPT ![q] = Append(Tail(@), msg[r])]
            PROVE  ChannelType'
        <4>1. msg[r] \in Msgs \cup {None}
          BY DEF RequestType
        <4>2. /\ Append(Tail(queue[q]), msg[r]) \in Seq(Msgs \cup {None})
              /\ Len(Append(Tail(queue[q]), msg[r])) <= BufferSize
          <5>1. /\ Tail(queue[q]) \in Seq(Msgs \cup {None})
                /\ Len(Tail(queue[q])) = Len(queue[q]) - 1
            BY <1>13 DEF Receive, ChannelType
          <5> QED BY <5>1, <4>1, BufferOps DEF ChannelType
        <4> QED BY <1>13, <3>3, <4>2 DEF Receive, ChannelType
      <3> QED BY <1>13, <3>1, <3>2, <3>3 DEF Receive, Parked
    <2>2. RequestType'
      BY <1>13 DEF Receive, Goto, Parked, Finished, Rejected, WorkerType, ChannelType, RequestType
    <2>3. WorkerType'
      <3>1. CASE Head(queue[q]) = None
        BY <1>13, <3>1 DEF Receive, WorkerType
      <3>2. CASE Head(queue[q]) # None
        <4>1. Head(queue[q]) \in Msgs \cup {None}
          BY <1>13 DEF Receive, ChannelType
        <4>2. /\ worker' = [worker EXCEPT ![q][i] = "busy"]
              /\ wmsg' = [wmsg EXCEPT ![q][i] = Head(queue[q])]
              /\ UNCHANGED <<wjob, calls>>
          BY <1>13, <3>2 DEF Receive
        <4> QED BY <3>2, <4>1, <4>2 DEF WorkerType, Live
      <3> QED BY <3>1, <3>2
    <2>4. ControlType'
      BY <1>13 DEF Receive, Goto, Parked, WorkerType, RequestType, Finished, Rejected, ChannelType, RegistryType, ControlType
    <2>5. RegistryType' /\ PoolType'
      BY <1>13 DEF Receive, RegistryType, PoolType, Goto, Parked
    <2> QED BY <2>1, <2>2, <2>3, <2>4, <2>5
  <1>14. ASSUME NEW q \in Queues, NEW i \in Slots, KeyError(q, i) PROVE TypeOK'
    <2>1. WorkerType'
      BY <1>14 DEF KeyError, PutAnswer, Live, WorkerType
    <2>2. RequestType'
      BY <1>14 DEF KeyError, PutAnswer, WorkerType, PoolType, Finished, Rejected, RequestType
    <2>3. RegistryType' /\ ChannelType' /\ PoolType' /\ ControlType'
      BY <1>14 DEF KeyError, RegistryType, ChannelType, PoolType, ControlType, PutAnswer
    <2> QED BY <2>1, <2>2, <2>3
  <1>15. ASSUME NEW q \in Queues, NEW i \in Slots, Call(q, i) PROVE TypeOK'
    <2>1. WorkerType'
      <3> DEFINE j == content[wmsg[q][i]]
      <3>1. j \in Requests \cup {None} /\ wmsg[q][i] # None
        BY <1>15 DEF Call, PoolType, WorkerType
      <3>2. calls' \in [Requests -> 0..2]
        <4>1. CASE j \in Requests
          <5>1. calls[j] \in 0..2
            BY <4>1 DEF WorkerType
          <5>2. (IF calls[j] = 2 THEN 2 ELSE calls[j] + 1) \in 0..2
            BY <5>1
          <5> QED BY <1>15, <4>1, <5>2 DEF Call, WorkerType
        <4>2. CASE j \notin Requests
          BY <1>15, <4>2 DEF Call, WorkerType
        <4> QED BY <4>1, <4>2
      <3>3. wjob' \in [Queues -> [Slots -> Requests \cup {None}]]
        BY <1>15, <3>1 DEF Call, WorkerType
      <3>4. /\ worker' = [worker EXCEPT ![q][i] = "called"]
            /\ UNCHANGED wmsg
        BY <1>15 DEF Call
      <3> QED BY <3>1, <3>2, <3>3, <3>4 DEF WorkerType, Live
    <2>2. RegistryType' /\ ChannelType' /\ RequestType' /\ PoolType' /\ ControlType'
      BY <1>15 DEF Call, RegistryType, ChannelType, RequestType, PoolType, ControlType
    <2> QED BY <2>1, <2>2
  <1>16. ASSUME NEW q \in Queues, NEW i \in Slots, Deliver(q, i) PROVE TypeOK'
    <2>1. WorkerType'
      BY <1>16 DEF Deliver, PutAnswer, Live, WorkerType
    <2>2. RequestType'
      <3>1. resp' \in [Requests -> Requests \cup {None}]
        BY <1>16 DEF Deliver, PutAnswer, WorkerType, RequestType
      <3> QED BY <1>16, <3>1 DEF Deliver, RequestType
    <2>3. RegistryType' /\ ChannelType' /\ PoolType' /\ ControlType'
      BY <1>16 DEF Deliver, RegistryType, ChannelType, PoolType, ControlType, PutAnswer
    <2> QED BY <2>1, <2>2, <2>3
  <1>17. ASSUME NEW q \in Queues, NEW i \in Slots, Exit(q, i) PROVE TypeOK'
    <2>1. WorkerType'
      BY <1>17 DEF Exit, DeferredDone, RangeEnds, Live, WorkerType
    <2>2. RegistryType'
      BY <1>17 DEF Exit, DeferredDone, RangeEnds, RegistryType
    <2>3. ChannelType' /\ RequestType' /\ PoolType' /\ ControlType'
      BY <1>17 DEF Exit, ChannelType, RequestType, PoolType, ControlType, DeferredDone, RangeEnds
    <2> QED BY <2>1, <2>2, <2>3
  <1>18. CASE BeginRemove
    <2>1. RegistryType'
      BY <1>18 DEF BeginRemove, RegistryType
    <2>2. ControlType'
      BY <1>18 DEF BeginRemove, RegistryType, ControlType
    <2>3. ChannelType' /\ WorkerType' /\ RequestType' /\ PoolType'
      BY <1>18 DEF BeginRemove, ChannelType, WorkerType, RequestType, PoolType
    <2> QED BY <2>1, <2>2, <2>3
  <1>19. CASE RemoveSignal
    <2>1. ChannelType'
      BY <1>19 DEF RemoveSignal, SignalClosing, Leave, ChannelType
    <2>2. RequestType'
      BY <1>19 DEF RemoveSignal, SignalClosing, Leave, Finished, Rejected, RequestType
    <2>3. PoolType'
      BY <1>19 DEF RemoveSignal, SignalClosing, Leave, PoolType
    <2>4. ControlType'
      BY <1>19 DEF RemoveSignal, SignalClosing, Leave, RegistryType, ControlType
    <2>5. RegistryType' /\ WorkerType'
      BY <1>19 DEF RemoveSignal, RegistryType, WorkerType, SignalClosing, Leave
    <2> QED BY <2>1, <2>2, <2>3, <2>4, <2>5
  <1>20. CASE RemoveClose
    <2>1. ChannelType'
      BY <1>20 DEF RemoveClose, CloseQueue, ChannelType
    <2>2. ControlType'
      BY <1>20 DEF RemoveClose, CloseQueue, RegistryType, ControlType
    <2>3. RegistryType' /\ WorkerType' /\ RequestType' /\ PoolType'
      BY <1>20 DEF RemoveClose, RegistryType, WorkerType, RequestType, PoolType, CloseQueue
    <2> QED BY <2>1, <2>2, <2>3
  <1>21. CASE RemoveFinish
    <2>1. RegistryType'
      BY <1>21 DEF RemoveFinish, Unlock, RegistryType
    <2>2. ControlType'
      BY <1>21 DEF RemoveFinish, Unlock, RegistryType, ControlType
    <2>3. ChannelType' /\ WorkerType' /\ RequestType' /\ PoolType'
      BY <1>21 DEF RemoveFinish, ChannelType, WorkerType, RequestType, PoolType, Unlock
    <2> QED BY <2>1, <2>2, <2>3
  <1>22. CASE BeginUpdate
    <2>1. RegistryType'
      BY <1>22 DEF BeginUpdate, PrepareProvider, RegistryType
    <2>2. ControlType'
      BY <1>22 DEF BeginUpdate, PrepareProvider, RegistryType, ControlType
    <2>3. ChannelType' /\ WorkerType' /\ RequestType' /\ PoolType'
      BY <1>22 DEF BeginUpdate, ChannelType, WorkerType, RequestType, PoolType, PrepareProvider
    <2> QED BY <2>1, <2>2, <2>3
  <1>23. CASE UpdateSignal
    <2>1. ChannelType'
      BY <1>23 DEF UpdateSignal, SignalClosing, Leave, ChannelType
    <2>2. RequestType'
      BY <1>23 DEF UpdateSignal, SignalClosing, Leave, Finished, Rejected, RequestType
    <2>3. PoolType'
      BY <1>23 DEF UpdateSignal, SignalClosing, Leave, PoolType
    <2>4. ControlType'
      BY <1>23 DEF UpdateSignal, SignalClosing, Leave, RegistryType, ControlType
    <2>5. RegistryType' /\ WorkerType'
      BY <1>23 DEF UpdateSignal, RegistryType, WorkerType, SignalClosing, Leave
    <2> QED BY <2>1, <2>2, <2>3, <2>4, <2>5
  <1>24. CASE UpdateTransfer
    <2> DEFINE src == queue[aold]
               m   == IF src = <<>> THEN None ELSE Head(src)
    <2>0. /\ aold \in Queues /\ m \in Msgs \cup {None}
          /\ Rest(src) \in Seq(Msgs \cup {None}) /\ Len(Rest(src)) <= BufferSize
      <3>1. aold \in Queues
        BY <1>24 DEF UpdateTransfer, ControlType
      <3>2. src \in Seq(Msgs \cup {None}) /\ Len(src) <= BufferSize
        BY <3>1 DEF ChannelType
      <3> QED BY <3>1, <3>2 DEF Rest
    <2>1. ChannelType'
      <3>1. CASE UNCHANGED queue
        BY <1>24, <3>1 DEF UpdateTransfer, ChannelType
      <3>2. CASE queue' = [queue EXCEPT ![aold] = Rest(src)]
        BY <1>24, <2>0, <3>2 DEF UpdateTransfer, ChannelType
      <3>3. CASE /\ HasRoom(registered)
                 /\ queue' = [[queue EXCEPT ![aold] = Rest(src)]
                               EXCEPT ![registered] = Append(@, m)]
        <4> DEFINE moved == [queue EXCEPT ![aold] = Rest(src)]
        <4>1. /\ moved \in [Queues -> Seq(Msgs \cup {None})]
              /\ \A q \in Queues : Len(moved[q]) <= BufferSize
          BY <2>0 DEF ChannelType
        <4>2. registered \in Queues => Len(moved[registered]) < BufferSize
          BY <2>0, <3>3 DEF HasRoom, ChannelType, Rest
        <4>3. registered \in Queues =>
                /\ Append(moved[registered], m) \in Seq(Msgs \cup {None})
                /\ Len(Append(moved[registered], m)) <= BufferSize
          BY <2>0, <4>1, <4>2, BufferOps
        <4>4. queue' = [moved EXCEPT ![registered] = Append(@, m)]
          BY <3>3
        <4> HIDE DEF moved
        <4>5. queue' \in [Queues -> Seq(Msgs \cup {None})]
          BY <4>1, <4>3, <4>4
        <4>6. \A q \in Queues : Len(queue'[q]) <= BufferSize
          BY <4>1, <4>3, <4>4
        <4> QED BY <1>24, <4>5, <4>6 DEF UpdateTransfer, ChannelType
      <3> QED BY <1>24, <3>1, <3>2, <3>3 DEF UpdateTransfer
    <2>2. ControlType'
      BY <1>24, <2>0 DEF UpdateTransfer, ControlType
    <2>3. RegistryType' /\ WorkerType' /\ RequestType' /\ PoolType'
      BY <1>24 DEF UpdateTransfer, RegistryType, WorkerType, RequestType, PoolType, HasRoom, Rest
    <2> QED BY <2>1, <2>2, <2>3
  <1>25. CASE UpdateOverflow
    <2>1. RequestType'
      BY <1>25 DEF UpdateOverflow, FailOverflow, PutAnswer, PoolType, ControlType, Finished, Rejected, RequestType
    <2>2. ControlType'
      BY <1>25 DEF UpdateOverflow, FailOverflow, PutAnswer, RegistryType, ControlType
    <2>3. RegistryType' /\ ChannelType' /\ WorkerType' /\ PoolType'
      BY <1>25 DEF UpdateOverflow, RegistryType, ChannelType, WorkerType, PoolType, FailOverflow, PutAnswer
    <2> QED BY <2>1, <2>2, <2>3
  <1>26. CASE UpdateClose
    <2>1. ChannelType'
      BY <1>26 DEF UpdateClose, CloseQueue, ChannelType
    <2>2. ControlType'
      BY <1>26 DEF UpdateClose, CloseQueue, RegistryType, ControlType
    <2>3. RegistryType' /\ WorkerType' /\ RequestType' /\ PoolType'
      BY <1>26 DEF UpdateClose, RegistryType, WorkerType, RequestType, PoolType, CloseQueue
    <2> QED BY <2>1, <2>2, <2>3
  <1>27. CASE UpdateWait
    <2>1. RegistryType'
      BY <1>27 DEF UpdateWait, RegistryType
    <2>2. ControlType'
      BY <1>27 DEF UpdateWait, RegistryType, ControlType
    <2>3. ChannelType' /\ WorkerType' /\ RequestType' /\ PoolType'
      BY <1>27 DEF UpdateWait, ChannelType, WorkerType, RequestType, PoolType
    <2> QED BY <2>1, <2>2, <2>3
  <1>28. CASE UpdateCreate
    <2>1. RegistryType'
      BY FS_CardinalityType, <1>28 DEF UpdateCreate, StartWorkers, Unlock, RegistryType
    <2>2. WorkerType'
      <3>1. CASE StartWorkers(registered)
        BY <1>28, <3>1, StartWorkersType DEF UpdateCreate
      <3>2. CASE UNCHANGED worker
        BY <1>28, <3>2 DEF UpdateCreate, WorkerType
      <3> QED BY <1>28, <3>1, <3>2 DEF UpdateCreate
    <2>3. ControlType'
      BY <1>28 DEF UpdateCreate, ControlType
    <2>4. ChannelType' /\ RequestType' /\ PoolType'
      BY <1>28 DEF UpdateCreate, ChannelType, RequestType, PoolType, StartWorkers, Unlock
    <2> QED BY <2>1, <2>2, <2>3, <2>4
  <1>29. CASE ShutdownSignal
    <2>1. ChannelType'
      BY <1>29 DEF ShutdownSignal, SignalClosing, Leave, ChannelType
    <2>2. RequestType'
      BY <1>29 DEF ShutdownSignal, SignalClosing, Leave, Finished, Rejected, RequestType
    <2>3. PoolType'
      BY <1>29 DEF ShutdownSignal, SignalClosing, Leave, PoolType
    <2>4. ControlType'
      BY <1>29 DEF ShutdownSignal, SignalClosing, Leave, RegistryType, ControlType
    <2>5. RegistryType' /\ WorkerType'
      BY <1>29 DEF ShutdownSignal, RegistryType, WorkerType, SignalClosing, Leave
    <2> QED BY <2>1, <2>2, <2>3, <2>4, <2>5
  <1>30. CASE ShutdownClose
    <2>1. ChannelType'
      BY <1>30 DEF ShutdownClose, CloseQueue, ChannelType
    <2>2. ControlType'
      BY <1>30 DEF ShutdownClose, CloseQueue, RegistryType, ControlType
    <2>3. RegistryType' /\ WorkerType' /\ RequestType' /\ PoolType'
      BY <1>30 DEF ShutdownClose, RegistryType, WorkerType, RequestType, PoolType, CloseQueue
    <2> QED BY <2>1, <2>2, <2>3
  <1>31. CASE ShutdownDone
    <2>1. ControlType'
      BY <1>31 DEF ShutdownDone, RegistryType, ControlType
    <2>2. RegistryType' /\ ChannelType' /\ WorkerType' /\ RequestType' /\ PoolType'
      BY <1>31 DEF ShutdownDone, RegistryType, ChannelType, WorkerType, RequestType, PoolType
    <2> QED BY <2>1, <2>2
  <1>32. CASE UNCHANGED vars
    BY <1>32 DEF vars, RegistryType, ChannelType, WorkerType, RequestType, PoolType,
         ControlType
  <1> QED
    BY <1>1, <1>2, <1>3, <1>4, <1>5, <1>6, <1>7, <1>8, <1>9, <1>10, <1>11, <1>12, <1>13, <1>14, <1>15, <1>16, <1>17, <1>18, <1>19, <1>20, <1>21, <1>22, <1>23, <1>24, <1>25, <1>26, <1>27, <1>28, <1>29, <1>30, <1>31, <1>32 DEF Next, Producer, Work, AdminStep, ShutdownStep

\* The gateway's state always has its declared types: in particular no channel
\* ever holds more than its capacity, and a busy worker holds a message.
THEOREM TypeCorrect == Spec => []TypeOK
  BY TypeInit, TypeStep, PTL DEF Spec

-----------------------------------------------------------------------------
(* Workers, WaitGroups and generations.                                    *)

Updating == {"updSignal", "updTransfer", "updOverflow", "updClose", "updWait"}

Starting == {"updCreate", "prepare"}

\* Somebody is about to start the workers of the registered queue.
Unstarted ==
  registered # 0 /\ wgStored = registered /\ LiveSlots(registered) = {}

\* The write lock protects the operation under way.
LockInv ==
  /\ apc # "idle" => mutex = "admin"
  /\ \A r \in Requests : rpc[r] = "create" => mutex = r

PhaseInv ==
  /\ registered = 0 => wgStored = 0
  /\ apc \in Updating => registered # 0
  /\ apc \in Starting => Unstarted
  /\ \A r \in Requests : rpc[r] = "create" => Unstarted

\* Only the generation whose WaitGroup is stored has live workers.
StoredGeneration == \A q \in Queues : LiveSlots(q) # {} => q = wgStored

LifeInv == LockInv /\ PhaseInv /\ StoredGeneration /\ WaitGroupCountsWorkers

\* The workers of a generation are finitely many, so they can be counted.
LEMMA LiveSlotsFinite ==
  \A q : IsFiniteSet(LiveSlots(q)) /\ Cardinality(LiveSlots(q)) \in Nat
  <1> SUFFICES ASSUME NEW q
               PROVE IsFiniteSet(LiveSlots(q)) /\ Cardinality(LiveSlots(q)) \in Nat
    OBVIOUS
  <1>1. LiveSlots(q) \subseteq Slots
    BY DEF LiveSlots
  <1> QED BY <1>1, ConstantsAssumption, FS_Subset, FS_CardinalityType

\* A Wait that returns found no live worker of the stored generation, so there
\* is no live worker at all.
LEMMA WaitMeansNone ==
  ASSUME TypeOK, LifeInv, WaitReturns(wgStored)
  PROVE  \A q \in Queues : LiveSlots(q) = {}
  <1> SUFFICES ASSUME NEW q \in Queues, LiveSlots(q) # {} PROVE FALSE
    OBVIOUS
  <1>1. q = wgStored /\ wgStored # 0
    BY DEF LifeInv, StoredGeneration, Queues
  <1>2. Cardinality(LiveSlots(q)) = 0
    BY <1>1 DEF LifeInv, WaitGroupCountsWorkers, WaitReturns
  <1> QED BY <1>2, LiveSlotsFinite, FS_EmptySet

\* Without an entry for the provider there is no live worker.
LEMMA UnregisteredMeansNone ==
  ASSUME TypeOK, LifeInv, registered = 0
  PROVE  \A q \in Queues : LiveSlots(q) = {}
  BY DEF LifeInv, PhaseInv, StoredGeneration, Queues

\* After Init the workers of the registered queue, if any, are all counted.
LEMMA LifeInit == Init => LifeInv
  <1> SUFFICES ASSUME Init PROVE LifeInv
    OBVIOUS
  <1>1. LockInv /\ PhaseInv
    BY DEF Init, LockInv, PhaseInv, Updating, Starting
  <1>2. \A q \in Queues : LiveSlots(q) = IF q = registered THEN Slots ELSE {}
    BY DEF Init, LiveSlots, Live
  <1>3. StoredGeneration
    BY <1>2 DEF Init, StoredGeneration
  <1>4. WaitGroupCountsWorkers
    BY <1>2, FS_EmptySet DEF Init, WaitGroupCountsWorkers
  <1> QED BY <1>1, <1>3, <1>4 DEF LifeInv

\* A step that starts or stops no worker, keeps the registry and does not bring
\* an operation to the point where it starts workers.
LEMMA QuietStep ==
  ASSUME LifeInv,
         UNCHANGED <<registered, wgStored, wg, mutex>>,
         \A q : LiveSlots(q)' = LiveSlots(q),
         \A r \in Requests : rpc'[r] = "create" => rpc[r] = "create",
         \/ apc' = apc
         \/ /\ apc # "idle" /\ apc' \notin Starting
            /\ apc' \in Updating => apc \in Updating
  PROVE  LifeInv'
  <1>1. LockInv'
    BY DEF LifeInv, LockInv
  <1>2. PhaseInv'
    BY DEF LifeInv, PhaseInv, Unstarted
  <1>3. StoredGeneration' /\ WaitGroupCountsWorkers'
    BY DEF LifeInv, StoredGeneration, WaitGroupCountsWorkers
  <1> QED BY <1>1, <1>2, <1>3 DEF LifeInv

\* The workers of the registered queue start, and the lock is released.
LEMMA StartStep ==
  ASSUME TypeOK, LifeInv, Unstarted, StartWorkers(registered), mutex' = "free",
         UNCHANGED <<registered, wgStored>>, apc' = "idle",
         \A r \in Requests : rpc'[r] # "create"
  PROVE  LifeInv'
  <1>1. LockInv' /\ PhaseInv'
    BY DEF LifeInv, LockInv, PhaseInv, Starting, Updating
  <1>2. registered \in Queues
    BY DEF Unstarted, TypeOK, RegistryType, Queues
  <1>3. ASSUME NEW q \in Queues
        PROVE  LiveSlots(q)' = IF q = registered THEN Slots ELSE LiveSlots(q)
    BY <1>2 DEF StartWorkers, LiveSlots, Live, TypeOK, WorkerType
  <1>4. StoredGeneration'
    BY <1>3 DEF LifeInv, StoredGeneration, Unstarted
  <1>5. WaitGroupCountsWorkers'
    <2> SUFFICES ASSUME NEW q \in Queues PROVE wg'[q] = Cardinality(LiveSlots(q)')
      BY DEF WaitGroupCountsWorkers
    <2>1. CASE q = registered
      <3>1. wg[q] = 0
        BY <2>1, FS_EmptySet DEF LifeInv, WaitGroupCountsWorkers, Unstarted
      <3>2. Cardinality(Slots) \in Nat
        BY ConstantsAssumption, FS_CardinalityType
      <3>3. wg'[q] = wg[q] + Cardinality(Slots)
        BY <1>2, <2>1 DEF StartWorkers, TypeOK, RegistryType
      <3> QED BY <3>1, <3>2, <3>3, <1>3, <2>1
    <2>2. CASE q # registered
      BY <1>3, <2>2 DEF StartWorkers, TypeOK, RegistryType, LifeInv, WaitGroupCountsWorkers
    <2> QED BY <2>1, <2>2
  <1> QED BY <1>1, <1>4, <1>5 DEF LifeInv

\* Every step of every goroutine keeps the WaitGroup accounting.
LEMMA LifeStep == TypeOK /\ LifeInv /\ [Next]_vars => LifeInv'
  <1> SUFFICES ASSUME TypeOK, LifeInv, [Next]_vars PROVE LifeInv'
    OBVIOUS
  <1> USE DEF reqVars, poolVars, chanVars, workVars, regVars, adminVars, shutVars
  <1>0. ASSUME UNCHANGED worker PROVE \A q : LiveSlots(q)' = LiveSlots(q)
    BY <1>0 DEF LiveSlots
  <1>1. ASSUME NEW r \in Requests, GetProviderQueue(r) PROVE LifeInv'
    BY <1>1, <1>0, QuietStep DEF GetProviderQueue, Goto, TypeOK, RequestType
  <1>2. ASSUME NEW r \in Requests, GetProviderQueueLocked(r) PROVE LifeInv'
    <2>1. CASE UNCHANGED regVars
      BY <1>2, <1>0, <2>1, QuietStep
         DEF GetProviderQueueLocked, PrepareProvider, Goto, Leave, TypeOK, RequestType,
             RegistryType
    <2>2. CASE registered = 0 /\ PrepareProvider /\ mutex' = r /\ Goto(r, "create")
      <3>1. \A q \in Queues : LiveSlots(q)' = {}
        BY <1>2, <1>0, <2>2, UnregisteredMeansNone DEF GetProviderQueueLocked
      <3>2. registered' \in Queues /\ wgStored' = registered'
        BY <2>2, ConstantsAssumption DEF PrepareProvider, TypeOK, RegistryType, Queues
      <3>3. mutex = "free" /\ UNCHANGED <<apc, wg>>
        BY <1>2, <2>2 DEF GetProviderQueueLocked
      <3>4. \A p \in Requests : rpc[p] # "create" /\ (rpc'[p] = "create" => p = r)
        BY <2>2, <3>3, ConstantsAssumption
           DEF LifeInv, LockInv, Goto, TypeOK, RequestType
      <3>5. LockInv'
        BY <2>2, <3>3, <3>4 DEF LifeInv, LockInv
      <3>6. PhaseInv'
        BY <3>1, <3>2, <3>3, <3>4 DEF LifeInv, LockInv, PhaseInv, Unstarted, Updating,
           Starting, Queues
      <3>7. StoredGeneration'
        BY <3>1 DEF StoredGeneration
      <3>8. WaitGroupCountsWorkers'
        BY <3>1, <3>3, <2>2, UnregisteredMeansNone DEF WaitGroupCountsWorkers, LifeInv
      <3> QED BY <3>5, <3>6, <3>7, <3>8 DEF LifeInv
    <2> QED BY <1>2, <2>1, <2>2 DEF GetProviderQueueLocked
  <1>3. ASSUME NEW r \in Requests, CreateProvider(r) PROVE LifeInv'
    <2>1. /\ rpc[r] = "create" /\ mutex = r /\ Unstarted /\ apc = "idle" /\ apc' = apc
          /\ \A p \in Requests : rpc[p] = "create" => p = r
      BY <1>3, ConstantsAssumption DEF CreateProvider, LifeInv, LockInv, PhaseInv
    <2>2. \A p \in Requests : rpc'[p] # "create"
      BY <1>3, <2>1 DEF CreateProvider, Goto, Leave, TypeOK, RequestType
    <2>3. CASE StartWorkers(registered)
      BY <1>3, <2>1, <2>2, <2>3, StartStep DEF CreateProvider, Unlock
    <2>4. CASE UNCHANGED <<worker, wg>>
      <3>1. \A q : LiveSlots(q)' = LiveSlots(q)
        BY <1>0, <2>4
      <3>2. LockInv' /\ PhaseInv'
        BY <1>3, <2>1, <2>2 DEF CreateProvider, LifeInv, LockInv, PhaseInv, Updating,
           Starting
      <3>3. StoredGeneration' /\ WaitGroupCountsWorkers'
        BY <1>3, <2>4, <3>1 DEF CreateProvider, LifeInv, StoredGeneration,
           WaitGroupCountsWorkers
      <3> QED BY <3>2, <3>3 DEF LifeInv
    <2> QED BY <1>3, <2>3, <2>4 DEF CreateProvider
  <1>4. ASSUME NEW r \in Requests, PreHooks(r) PROVE LifeInv'
    BY <1>4, <1>0, QuietStep DEF PreHooks, Goto, Leave, TypeOK, RequestType
  <1>5. ASSUME NEW r \in Requests, IsClosing(r) PROVE LifeInv'
    BY <1>5, <1>0, QuietStep DEF IsClosing, Goto, Leave, TypeOK, RequestType
  <1>6. ASSUME NEW r \in Requests, SelectSend(r) PROVE LifeInv'
    BY <1>6, <1>0, QuietStep DEF SelectSend, Goto, TypeOK, RequestType
  <1>7. ASSUME NEW r \in Requests, SelectSendOnClosed(r) PROVE LifeInv'
    BY <1>7, <1>0, QuietStep DEF SelectSendOnClosed, TypeOK, RequestType
  <1>8. ASSUME NEW r \in Requests, SelectGiveUp(r) PROVE LifeInv'
    BY <1>8, <1>0, QuietStep DEF SelectGiveUp, Leave, TypeOK, RequestType
  <1>9. ASSUME NEW r \in Requests, SelectFull(r) PROVE LifeInv'
    BY <1>9, <1>0, QuietStep DEF SelectFull, Goto, Leave, TypeOK, RequestType
  <1>10. ASSUME NEW r \in Requests, TakeAnswer(r) PROVE LifeInv'
    BY <1>10, <1>0, QuietStep DEF TakeAnswer, Leave, TypeOK, RequestType
  <1>11. ASSUME NEW r \in Requests, WaitCancelled(r) PROVE LifeInv'
    BY <1>11, <1>0, QuietStep DEF WaitCancelled, Leave, TypeOK, RequestType
  <1>12. ASSUME NEW r \in Requests, CancelContext(r) PROVE LifeInv'
    BY <1>12, <1>0, QuietStep DEF CancelContext, TypeOK, RequestType
  <1>13. ASSUME NEW q \in Queues, NEW i \in Slots, Receive(q, i) PROVE LifeInv'
    <2>1. \A p : LiveSlots(p)' = LiveSlots(p)
      <3>1. UNCHANGED worker \/ worker' = [worker EXCEPT ![q][i] = "busy"]
        BY <1>13 DEF Receive
      <3>2. worker[q][i] = "idle"
        BY <1>13 DEF Receive
      <3>3. CASE UNCHANGED worker
        BY <1>0, <3>3
      <3>4. CASE worker' = [worker EXCEPT ![q][i] = "busy"]
        BY <3>2, <3>4 DEF LiveSlots, Live, TypeOK, WorkerType
      <3> QED BY <3>1, <3>3, <3>4
    <2> QED BY <1>13, <2>1, QuietStep DEF Receive, Goto, TypeOK, RequestType
  <1>14. ASSUME NEW q \in Queues, NEW i \in Slots, KeyError(q, i) PROVE LifeInv'
    <2>1. \A p : LiveSlots(p)' = LiveSlots(p)
      BY <1>14 DEF KeyError, LiveSlots, Live, TypeOK, WorkerType
    <2> QED BY <1>14, <2>1, QuietStep DEF KeyError
  <1>15. ASSUME NEW q \in Queues, NEW i \in Slots, Call(q, i) PROVE LifeInv'
    <2>1. \A p : LiveSlots(p)' = LiveSlots(p)
      BY <1>15 DEF Call, LiveSlots, Live, TypeOK, WorkerType
    <2> QED BY <1>15, <2>1, QuietStep DEF Call
  <1>16. ASSUME NEW q \in Queues, NEW i \in Slots, Deliver(q, i) PROVE LifeInv'
    <2>1. \A p : LiveSlots(p)' = LiveSlots(p)
      BY <1>16 DEF Deliver, LiveSlots, Live, TypeOK, WorkerType
    <2> QED BY <1>16, <2>1, QuietStep DEF Deliver
  <1>17. ASSUME NEW q \in Queues, NEW i \in Slots, Exit(q, i) PROVE LifeInv'
    <2>1. i \in LiveSlots(q) /\ q = wgStored /\ wgStored # 0
      BY <1>17 DEF Exit, LiveSlots, Live, LifeInv, StoredGeneration, Queues
    <2>2. \A p \in Queues : LiveSlots(p)' = IF p = q THEN LiveSlots(q) \ {i} ELSE LiveSlots(p)
      BY <1>17 DEF Exit, LiveSlots, Live, TypeOK, WorkerType
    <2>3. Cardinality(LiveSlots(q) \ {i}) = Cardinality(LiveSlots(q)) - 1
      BY <2>1, LiveSlotsFinite, FS_RemoveElement
    <2>4. \A p \in Queues : wg'[p] = IF p = q THEN wg[q] - 1 ELSE wg[p]
      BY <1>17, <2>1 DEF Exit, DeferredDone, TypeOK, RegistryType
    <2>5. WaitGroupCountsWorkers'
      BY <2>2, <2>3, <2>4 DEF LifeInv, WaitGroupCountsWorkers
    <2>6. StoredGeneration'
      BY <1>17, <2>1, <2>2 DEF Exit, LifeInv, StoredGeneration
    <2>7. LockInv'
      BY <1>17 DEF Exit, LifeInv, LockInv
    <2>8. Unstarted => FALSE
      BY <2>1 DEF Unstarted
    <2>9. PhaseInv'
      BY <1>17, <2>8 DEF Exit, LifeInv, PhaseInv
    <2> QED BY <2>5, <2>6, <2>7, <2>9 DEF LifeInv
  <1>18. CASE BeginRemove
    <2>1. \A q : LiveSlots(q)' = LiveSlots(q)
      BY <1>18, <1>0 DEF BeginRemove
    <2>2. \A r \in Requests : rpc[r] # "create"
      BY <1>18, ConstantsAssumption DEF BeginRemove, LifeInv, LockInv
    <2>3. LockInv' /\ PhaseInv'
      BY <1>18, <2>2 DEF BeginRemove, LifeInv, LockInv, PhaseInv, Updating, Starting
    <2>4. StoredGeneration' /\ WaitGroupCountsWorkers'
      BY <1>18, <2>1 DEF BeginRemove, LifeInv, StoredGeneration, WaitGroupCountsWorkers
    <2> QED BY <2>3, <2>4 DEF LifeInv
  <1>19. CASE RemoveSignal
    BY <1>19, <1>0, QuietStep DEF RemoveSignal, SignalClosing, Leave, Updating, Starting
  <1>20. CASE RemoveClose
    BY <1>20, <1>0, QuietStep DEF RemoveClose, Updating, Starting
  <1>21. CASE RemoveFinish
    <2>1. \A q \in Queues : LiveSlots(q)' = {} /\ LiveSlots(q) = {}
      BY <1>21, <1>0, WaitMeansNone DEF RemoveFinish
    <2>2. \A r \in Requests : rpc[r] # "create"
      BY <1>21, ConstantsAssumption DEF RemoveFinish, LifeInv, LockInv
    <2>3. LockInv'
      BY <1>21, <2>2 DEF RemoveFinish, LifeInv, LockInv
    <2>4. PhaseInv'
      BY <1>21, <2>1, <2>2 DEF RemoveFinish, LifeInv, PhaseInv, Updating, Starting, Unstarted,
         TypeOK, RegistryType, Queues
    <2>5. StoredGeneration' /\ WaitGroupCountsWorkers'
      BY <1>21, <2>1 DEF RemoveFinish, LifeInv, StoredGeneration, WaitGroupCountsWorkers
    <2> QED BY <2>3, <2>4, <2>5 DEF LifeInv
  <1>22. CASE BeginUpdate
    <2>1. /\ mutex = "free" /\ mutex' = "admin" /\ apc = "idle"
          /\ UNCHANGED <<worker, wg, rpc>>
      BY <1>22 DEF BeginUpdate
    <2>2. \A q : LiveSlots(q)' = LiveSlots(q)
      BY <1>0, <2>1
    <2>3. \A r \in Requests : rpc[r] # "create"
      BY <2>1, ConstantsAssumption DEF LifeInv, LockInv
    <2>4. LockInv'
      BY <2>1, <2>3 DEF LifeInv, LockInv
    <2>5. WaitGroupCountsWorkers'
      BY <2>1, <2>2 DEF LifeInv, WaitGroupCountsWorkers
    <2>6. CASE registered = 0
      <3>1. \A q \in Queues : LiveSlots(q) = {}
        BY <2>6, UnregisteredMeansNone
      <3>2. registered' \in Queues /\ wgStored' = registered' /\ apc' = "prepare"
        BY <1>22, <2>6, ConstantsAssumption DEF BeginUpdate, PrepareProvider, TypeOK, RegistryType, Queues
      <3>3. StoredGeneration'
        BY <2>2, <3>1 DEF StoredGeneration
      <3>4. PhaseInv'
        BY <2>1, <2>2, <2>3, <3>1, <3>2 DEF PhaseInv, Updating, Starting, Unstarted, Queues
      <3> QED BY <2>4, <2>5, <3>3, <3>4 DEF LifeInv
    <2>7. CASE registered # 0
      <3>1. registered' # 0 /\ wgStored' = wgStored /\ apc' = "updSignal"
        BY <1>22, <2>7 DEF BeginUpdate, TypeOK, RegistryType
      <3>2. StoredGeneration'
        BY <2>2, <3>1 DEF LifeInv, StoredGeneration
      <3>3. PhaseInv'
        BY <2>1, <2>3, <3>1 DEF PhaseInv, Updating, Starting
      <3> QED BY <2>4, <2>5, <3>2, <3>3 DEF LifeInv
    <2> QED BY <2>6, <2>7
  <1>23. CASE UpdateSignal
    BY <1>23, <1>0, QuietStep DEF UpdateSignal, SignalClosing, Leave, Updating, Starting
  <1>24. CASE UpdateTransfer
    BY <1>24, <1>0, QuietStep DEF UpdateTransfer, Updating, Starting
  <1>25. CASE UpdateOverflow
    BY <1>25, <1>0, QuietStep DEF UpdateOverflow, Updating, Starting
  <1>26. CASE UpdateClose
    BY <1>26, <1>0, QuietStep DEF UpdateClose, Updating, Starting
  <1>27. CASE UpdateWait
    <2>1. \A q \in Queues : LiveSlots(q)' = {} /\ LiveSlots(q) = {}
      BY <1>27, <1>0, WaitMeansNone DEF UpdateWait
    <2>2. \A r \in Requests : rpc[r] # "create"
      BY <1>27, ConstantsAssumption DEF UpdateWait, LifeInv, LockInv
    <2>3. LockInv'
      BY <1>27, <2>2 DEF UpdateWait, LifeInv, LockInv
    <2>4. PhaseInv'
      BY <1>27, <2>1, <2>2 DEF UpdateWait, LifeInv, PhaseInv, Updating, Starting, Unstarted,
         TypeOK, RegistryType, Queues
    <2>5. StoredGeneration' /\ WaitGroupCountsWorkers'
      BY <1>27, <2>1 DEF UpdateWait, LifeInv, StoredGeneration, WaitGroupCountsWorkers
    <2> QED BY <2>3, <2>4, <2>5 DEF LifeInv
  <1>28. CASE UpdateCreate
    <2>1. /\ mutex = "admin" /\ Unstarted /\ UNCHANGED <<registered, wgStored, rpc>>
          /\ apc' = "idle" /\ mutex' = "free"
      BY <1>28 DEF UpdateCreate, Unlock, LifeInv, LockInv, PhaseInv, Starting
    <2>2. \A r \in Requests : rpc[r] # "create"
      BY <2>1, ConstantsAssumption DEF LifeInv, LockInv
    <2>3. CASE StartWorkers(registered)
      BY <2>1, <2>2, <2>3, StartStep
    <2>4. CASE UNCHANGED <<worker, wg>>
      <3>1. \A q : LiveSlots(q)' = LiveSlots(q)
        BY <1>0, <2>4
      <3>2. LockInv' /\ PhaseInv'
        BY <2>1, <2>2 DEF LifeInv, LockInv, PhaseInv, Updating, Starting
      <3>3. StoredGeneration' /\ WaitGroupCountsWorkers'
        BY <2>1, <2>4, <3>1 DEF LifeInv, StoredGeneration, WaitGroupCountsWorkers
      <3> QED BY <3>2, <3>3 DEF LifeInv
    <2> QED BY <1>28, <2>3, <2>4 DEF UpdateCreate
  <1>29. CASE ShutdownSignal
    BY <1>29, <1>0, QuietStep DEF ShutdownSignal, SignalClosing, Leave, Updating, Starting
  <1>30. CASE ShutdownClose
    BY <1>30, <1>0, QuietStep DEF ShutdownClose, Updating, Starting
  <1>31. CASE ShutdownDone
    BY <1>31, <1>0, QuietStep DEF ShutdownDone, Updating, Starting
  <1>32. CASE UNCHANGED vars
    BY <1>32, <1>0, QuietStep DEF vars
  <1> QED
    BY <1>1, <1>2, <1>3, <1>4, <1>5, <1>6, <1>7, <1>8, <1>9, <1>10, <1>11, <1>12, <1>13, <1>14, <1>15, <1>16, <1>17, <1>18, <1>19, <1>20, <1>21, <1>22, <1>23, <1>24, <1>25, <1>26, <1>27, <1>28, <1>29, <1>30, <1>31, <1>32
       DEF Next, Producer, Work, AdminStep, ShutdownStep

\* The WaitGroup accounting holds in every behaviour.
LEMMA LifeCorrect == Spec => []LifeInv
  BY TypeInit, TypeStep, LifeInit, LifeStep, PTL DEF Spec

\* Every WaitGroup counts exactly the workers of its generation that have not
\* exited, for any concurrency and any interleaving of RemoveProvider,
\* UpdateProvider, Shutdown and lazily created providers.
THEOREM WaitGroupsAreExact == Spec => []WaitGroupCountsWorkers
  BY LifeCorrect, PTL DEF LifeInv

\* UpdateProvider never lets the workers of two generations run at once.
THEOREM GenerationsDoNotOverlap == Spec => []OneGeneration
  <1>1. LifeInv => OneGeneration
    BY DEF LifeInv, StoredGeneration, OneGeneration
  <1> QED BY <1>1, LifeCorrect, PTL

=============================================================================
