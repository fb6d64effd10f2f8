---------------------------- MODULE ServerProofs -----------------------------
(* What Server promises, for any streams, sockets, queues and numbers of      *)
(* tickets, events, turns and calls.                                          *)
EXTENDS Server, SequenceTheorems, TLAPS

Tokens == [type : {"cost_update", "done", "error"}, turn : 1 .. MaxTurns]

Handling == {"receiving", "preempting", "closing", "relayCancelled", "adapterCancelled"}

\* A ticket that has let somebody in has left the store.
OneConnection == \A t \in Tickets : redeemed[t] <= 1 /\ (tickets[t] # "gone" => redeemed[t] = 0)

\* Who has the session handles it, or is about to give it back.
OwnerIsThere == owner # NoSocket => sock[owner] \in Handling \cup {"unregistering"}

\* The relay is over before its session can be anybody else's, and it is over only
\* with nothing left to record.
RelayEndsFirst ==
  /\ owner = NoSocket => relay = "off"
  /\ \A w \in Sockets : sock[w] = "adapterCancelled" => relay = "off"
  /\ \A w \in Sockets : sock[w] = "unregistering" /\ owner = w => relay = "off"
  /\ relay = "off" => turnCost = 0

\* Nothing streams before the first message.
StreamingHasTurn == adapter = "streaming" => turn # 0

TicketInv == TicketsTypeOK /\ OneConnection
ChatInv   == /\ ChatTypeOK /\ OwnerIsThere /\ RelayEndsFirst /\ StreamingHasTurn
             /\ ChatIsItsOwners /\ CostIsKept

-----------------------------------------------------------------------------
LEMMA TicketStep ==
  ASSUME TicketInv, NEW t \in Tickets, Mint(t) \/ Expire(t) \/ Redeem(t) \/ Refuse(t)
  PROVE  TicketInv'
  BY DEF TicketInv, TicketsTypeOK, OneConnection, Mint, Expire, Redeem, Refuse, Pop, TicketStates

LEMMA LaunchType == ASSUME StreamTypeOK, Launch PROVE StreamTypeOK'
<1>1. launches' \in 0 .. MaxLaunches  BY StreamAssumption DEF StreamTypeOK, Launch
<1>2. worker' \in {"announcing", "quiet", "raising"}  BY StreamAssumption DEF Launch
<1> QED  BY <1>1, <1>2
    DEF StreamTypeOK, Verdicts, Launch, workerRest, lookVars, loopVars, queueVars

LEMMA Published ==
  ASSUME StreamTypeOK, NEW kind \in {"progress", "completion"}, PublishSync(kind)
  PROVE  /\ events' \in Nat /\ pending' \in Seq(Items) /\ Len(pending') <= 1 /\ cursor' \in Nat
         /\ UNCHANGED <<overlooked, loopVars, queueVars, dropped>>
<1>1. Event(kind) \in Items  BY DEF StreamTypeOK, Event, Items
<1>2. <<Event(kind)>> \in Seq(Items) /\ Len(<<Event(kind)>>) = 1  BY <1>1
<1>3. (pending' = pending /\ cursor' = cursor) \/ (pending' = <<Event(kind)>> /\ cursor' = 1)
  BY DEF PublishSync
<1>4. events \in Nat /\ pending \in Seq(Items) /\ Len(pending) <= 1 /\ cursor \in Nat
  BY DEF StreamTypeOK
<1>5. events' = events + 1 /\ UNCHANGED <<overlooked, loopVars, queueVars, dropped>>
  BY DEF PublishSync
<1>6. events' \in Nat  BY <1>4, <1>5
<1>7. pending' \in Seq(Items) /\ Len(pending') <= 1 /\ cursor' \in Nat
  <2>1. CASE pending' = pending /\ cursor' = cursor  BY <1>4, <2>1
  <2>2. CASE pending' = <<Event(kind)>> /\ cursor' = 1  BY <1>2, <2>2
  <2> QED  BY <1>3, <2>1, <2>2
<1> QED  BY <1>5, <1>6, <1>7

LEMMA ProgressType == ASSUME StreamTypeOK, Progress PROVE StreamTypeOK'
<1>1. PublishSync("progress") /\ UNCHANGED workerVars  BY DEF Progress
<1> QED  BY <1>1, Published DEF StreamTypeOK, Verdicts, workerVars, loopVars, queueVars

LEMMA AnnounceType == ASSUME StreamTypeOK, Announce PROVE StreamTypeOK'
<1>1. PICK kind \in {"progress", "completion"} : PublishSync(kind)  BY DEF Announce
<1>2. verdict' \in Verdicts \cup {"NONE"} /\ worker' = "announced" /\ UNCHANGED <<run, launches>>
  BY DEF Announce
<1> QED  BY <1>1, <1>2, Published DEF StreamTypeOK, Verdicts, loopVars, queueVars

LEMMA HandOverType == ASSUME StreamTypeOK, HandOver PROVE StreamTypeOK'
<1>1. Head(pending) \in Items
  BY EmptySeq, HeadTailProperties DEF StreamTypeOK, HandOver
<1>2. scheduled' \in Seq(Items)  BY <1>1 DEF StreamTypeOK, HandOver
<1>3. pending' \in Seq(Items) /\ Len(pending') <= 1 /\ cursor' \in Nat /\ overlooked' \subseteq Streams
  BY DEF HandOver
<1> QED  BY <1>2, <1>3 DEF StreamTypeOK, Verdicts, HandOver, lookRest, workerVars, queueVars

LEMMA LookOnType == ASSUME StreamTypeOK, LookOn PROVE StreamTypeOK'
<1>1. cursor' \in Nat  BY DEF StreamTypeOK, LookOn
<1> QED  BY <1>1 DEF StreamTypeOK, Verdicts, LookOn, lookRest, workerVars, queueVars

LEMMA GiveUpType == ASSUME StreamTypeOK, GiveUp PROVE StreamTypeOK'
<1>1. /\ pending' \in Seq(Items) /\ Len(pending') <= 1 /\ cursor' \in Nat
      /\ overlooked' \subseteq Streams /\ dropped' \subseteq Streams
  BY DEF StreamTypeOK, GiveUp
<1> QED  BY <1>1 DEF StreamTypeOK, Verdicts, GiveUp, lookRest, workerVars, queueVars

LEMMA EndQuietlyType == ASSUME StreamTypeOK, EndQuietly PROVE StreamTypeOK'
  BY DEF StreamTypeOK, Verdicts, EndQuietly, workerRest, lookVars, loopVars, queueVars

LEMMA FailRunType == ASSUME StreamTypeOK, FailRun PROVE StreamTypeOK'
  BY DEF StreamTypeOK, Verdicts, FailRun, workerRest, lookVars, loopVars, queueVars

LEMMA AnnounceFailureType == ASSUME StreamTypeOK, AnnounceFailure PROVE StreamTypeOK'
<1>1. PublishSync("progress") /\ worker' = "announced" /\ UNCHANGED <<run, verdict, launches>>
  BY DEF AnnounceFailure
<1> QED  BY <1>1, Published DEF StreamTypeOK, Verdicts, loopVars, queueVars

LEMMA CloseStreamsType == ASSUME StreamTypeOK, CloseStreams PROVE StreamTypeOK'
<1>1. worker' \in {"returned", "closing"} /\ cursor' \in Nat  BY DEF StreamTypeOK, CloseStreams
<1> QED  BY <1>1 DEF StreamTypeOK, Verdicts, CloseStreams, loopVars, queueVars

LEMMA CompleteSyncType == ASSUME StreamTypeOK, CompleteSync PROVE StreamTypeOK'
<1>1. EndOfStream \in Items  BY DEF EndOfStream, Items
<1>2. scheduled' \in Seq(Items) /\ cursor' \in Nat
  BY <1>1 DEF StreamTypeOK, CompleteSync
<1> QED  BY <1>2 DEF StreamTypeOK, Verdicts, CompleteSync, queueVars

LEMMA RunAgainType == ASSUME StreamTypeOK, RunAgain PROVE StreamTypeOK'
<1>1. launches' \in 0 .. MaxLaunches  BY StreamAssumption DEF StreamTypeOK, RunAgain
<1> QED  BY <1>1 DEF StreamTypeOK, Verdicts, RunAgain, workerRest, lookVars, loopVars, queueVars

LEMMA RecordType == ASSUME StreamTypeOK, Record PROVE StreamTypeOK'
  BY DEF StreamTypeOK, Verdicts, Record, workerRest, lookVars, loopVars, queueVars

LEMMA RunPublishType == ASSUME StreamTypeOK, RunPublish PROVE StreamTypeOK'
  BY StreamAssumption DEF StreamTypeOK, Verdicts, Items, RunPublish, Full, workerVars, lookVars

LEMMA RunCompleteType == ASSUME StreamTypeOK, RunComplete PROVE StreamTypeOK'
  BY DEF StreamTypeOK, Verdicts, Items, RunComplete, workerVars, lookVars

LEMMA PutSentinelType == ASSUME StreamTypeOK, PutSentinel PROVE StreamTypeOK'
  BY StreamAssumption DEF StreamTypeOK, Verdicts, Items, PutSentinel, Full, workerVars, lookVars,
         EndOfStream

LEMMA RegisterType == ASSUME StreamTypeOK, NEW s \in Streams, Register(s) PROVE StreamTypeOK'
  BY StreamAssumption DEF StreamTypeOK, Verdicts, Items, Register, workerVars

LEMMA CheckActiveType == ASSUME StreamTypeOK, NEW s \in Streams, CheckActive(s) PROVE StreamTypeOK'
  BY DEF StreamTypeOK, Verdicts, Items, CheckActive, streamVarsButAt, workerVars, lookVars,
         loopVars

LEMMA CheckLatestType == ASSUME StreamTypeOK, NEW s \in Streams, CheckLatest(s) PROVE StreamTypeOK'
  BY DEF StreamTypeOK, Verdicts, Items, CheckLatest, streamVarsButAt, workerVars, lookVars,
         loopVars

LEMMA TakeType == ASSUME StreamTypeOK, NEW s \in Streams, Take(s) PROVE StreamTypeOK'
<1>1. queue[s] \in Seq(Items) /\ queue[s] # <<>>  BY DEF StreamTypeOK, Take
<1>2. /\ Head(queue[s]) \in Items /\ Tail(queue[s]) \in Seq(Items)
      /\ Len(Tail(queue[s])) = Len(queue[s]) - 1 /\ Len(queue[s]) \in Nat
  BY <1>1, HeadTailProperties, LenProperties
<1>3. queue' \in [Streams -> Seq(Items)]  BY <1>2 DEF StreamTypeOK, Take
<1>4. \A u \in Streams : Len(queue'[u]) <= queueMax'
  BY <1>2, StreamAssumption DEF StreamTypeOK, Take
<1>5. owed' \in [Streams -> Nat]  BY <1>2 DEF StreamTypeOK, Take, Items
<1> QED  BY <1>3, <1>4, <1>5 DEF StreamTypeOK, Take, workerVars, lookVars, loopVars

LEMMA DisconnectType == ASSUME StreamTypeOK, NEW s \in Streams, Disconnect(s) PROVE StreamTypeOK'
  BY DEF StreamTypeOK, Verdicts, Items, Disconnect, streamVarsButAt, workerVars, lookVars,
         loopVars

LEMMA UnsubscribeType == ASSUME StreamTypeOK, NEW s \in Streams, Unsubscribe(s) PROVE StreamTypeOK'
<1>1. PICK i \in DOMAIN subscribers : /\ subscribers' = RemoveAt(subscribers, i)
                                     /\ overlooked' = SteppedOver(i) \ {s}
  BY DEF Unsubscribe
<1>2. i \in 1 .. Len(subscribers) /\ Len(subscribers) \in Nat
  BY LenProperties DEF StreamTypeOK
<1>3. \A j \in 1 .. Len(subscribers) : subscribers[j] \in Streams
  BY ElementOfSeq DEF StreamTypeOK
<1>4. SubSeq(subscribers, 1, i - 1) \in Seq(Streams)
  <2>1. \A j \in 1 .. i - 1 : subscribers[j] \in Streams  BY <1>2, <1>3
  <2> QED  BY <1>2, <2>1, SubSeqProperties
<1>5. SubSeq(subscribers, i + 1, Len(subscribers)) \in Seq(Streams)
  <2>1. \A j \in i + 1 .. Len(subscribers) : subscribers[j] \in Streams  BY <1>2, <1>3
  <2> QED  BY <1>2, <2>1, SubSeqProperties
<1>6. subscribers' \in Seq(Streams)  BY <1>1, <1>4, <1>5, ConcatProperties DEF RemoveAt
<1>7. queue' \in [Streams -> Seq(Items)] /\ \A u \in Streams : Len(queue'[u]) <= queueMax'
  BY StreamAssumption DEF StreamTypeOK, Unsubscribe
<1>8. overlooked' \subseteq Streams
  BY <1>1, <1>2, <1>3 DEF StreamTypeOK, SteppedOver
<1>9. cursor' \in Nat  BY DEF StreamTypeOK, Unsubscribe
<1>10. dropped' \subseteq Streams /\ owed' \in [Streams -> Nat]  BY DEF StreamTypeOK, Unsubscribe
<1> QED  BY <1>6, <1>7, <1>8, <1>9, <1>10 DEF StreamTypeOK, Unsubscribe, workerVars

LEMMA EndSessionInv == ASSUME ChatInv, EndSession PROVE ChatInv'
<1>1. ChatTypeOK'
  BY ChatAssumption DEF ChatInv, StreamingHasTurn, ChatTypeOK, Busy, EndSession, costVars,
         rowVars, managerVars, taskVars
<1>2. OwnerIsThere' /\ RelayEndsFirst' /\ StreamingHasTurn'
  BY ChatAssumption DEF ChatInv, OwnerIsThere, RelayEndsFirst, StreamingHasTurn,
         ChatIsItsOwners, Handling, ChatTypeOK, Busy, EndSession, costVars, rowVars, managerVars,
         taskVars
<1>3. ChatIsItsOwners'
  BY ChatAssumption DEF ChatInv, ChatIsItsOwners, OwnerIsThere, ChatTypeOK, Busy,
         EndSession, costVars, rowVars, managerVars, taskVars
<1>4. CostIsKept'
  BY ChatAssumption DEF ChatInv, CostIsKept, RelayEndsFirst, ChatTypeOK, EndSession, costVars,
         rowVars, managerVars, taskVars
<1> QED  BY <1>1, <1>2, <1>3, <1>4 DEF ChatInv

LEMMA LateWriteInv == ASSUME ChatInv, LateWrite PROVE ChatInv'
<1>1. ChatTypeOK'
  BY ChatAssumption DEF ChatInv, StreamingHasTurn, ChatTypeOK, Busy, LateWrite, Written,
         managerVars, taskVars
<1>2. OwnerIsThere' /\ RelayEndsFirst' /\ StreamingHasTurn'
  BY ChatAssumption DEF ChatInv, OwnerIsThere, RelayEndsFirst, StreamingHasTurn,
         ChatIsItsOwners, Handling, ChatTypeOK, Busy, LateWrite, Written, managerVars, taskVars
<1>3. ChatIsItsOwners'
  BY ChatAssumption DEF ChatInv, ChatIsItsOwners, OwnerIsThere, ChatTypeOK, Busy,
         LateWrite, Written, managerVars, taskVars
<1>4. CostIsKept'
  BY ChatAssumption DEF ChatInv, CostIsKept, RelayEndsFirst, ChatTypeOK, LateWrite, Written,
         managerVars, taskVars
<1> QED  BY <1>1, <1>2, <1>3, <1>4 DEF ChatInv

LEMMA WriteAgainInv == ASSUME ChatInv, WriteAgain PROVE ChatInv'
<1>1. ChatTypeOK'
  BY ChatAssumption DEF ChatInv, StreamingHasTurn, ChatTypeOK, Busy, WriteAgain,
         managerVars, taskVars
<1>2. OwnerIsThere' /\ RelayEndsFirst' /\ StreamingHasTurn'
  BY ChatAssumption DEF ChatInv, OwnerIsThere, RelayEndsFirst, StreamingHasTurn,
         ChatIsItsOwners, Handling, ChatTypeOK, Busy, WriteAgain, managerVars, taskVars
<1>3. ChatIsItsOwners'
  BY ChatAssumption DEF ChatInv, ChatIsItsOwners, OwnerIsThere, ChatTypeOK, Busy,
         WriteAgain, managerVars, taskVars
<1>4. CostIsKept'
  <2>1. /\ seen \in Nat /\ recorded \in Nat /\ late \in Nat /\ turnCost \in Nat /\ lost \in Nat
        /\ again \in Nat /\ seen <= recorded + late + turnCost + lost
    BY DEF ChatInv, CostIsKept, ChatTypeOK
  <2>2. /\ recorded' = recorded \/ recorded' = recorded + again
        /\ UNCHANGED <<seen, late, turnCost, lost>>
    BY DEF WriteAgain, taskVars
  <2> QED  BY <2>1, <2>2 DEF CostIsKept
<1> QED  BY <1>1, <1>2, <1>3, <1>4 DEF ChatInv

LEMMA BillInv == ASSUME ChatInv, Bill PROVE ChatInv'
<1>1. ChatTypeOK'
  BY ChatAssumption DEF ChatInv, StreamingHasTurn, ChatTypeOK, Busy, Bill, Put,
         adapterRest, rowVars, costVars
<1>2. OwnerIsThere' /\ RelayEndsFirst' /\ StreamingHasTurn'
  BY ChatAssumption DEF ChatInv, OwnerIsThere, RelayEndsFirst, StreamingHasTurn,
         ChatIsItsOwners, Handling, ChatTypeOK, Busy, Bill, Put, adapterRest, rowVars, costVars
<1>3. ChatIsItsOwners'
  BY ChatAssumption DEF ChatInv, ChatIsItsOwners, OwnerIsThere, ChatTypeOK, Busy, Bill,
         Put, adapterRest, rowVars, costVars
<1>4. CostIsKept'
  BY ChatAssumption DEF ChatInv, CostIsKept, RelayEndsFirst, ChatTypeOK, Bill, Put,
         adapterRest, rowVars, costVars
<1> QED  BY <1>1, <1>2, <1>3, <1>4 DEF ChatInv

LEMMA FinishInv == ASSUME ChatInv, Finish PROVE ChatInv'
<1>1. ChatTypeOK'
  BY ChatAssumption DEF ChatInv, StreamingHasTurn, ChatTypeOK, Busy, Finish, Put,
         adapterRest, rowVars, costVars
<1>2. OwnerIsThere' /\ RelayEndsFirst' /\ StreamingHasTurn'
  BY ChatAssumption DEF ChatInv, OwnerIsThere, RelayEndsFirst, StreamingHasTurn,
         ChatIsItsOwners, Handling, ChatTypeOK, Busy, Finish, Put, adapterRest, rowVars, costVars
<1>3. ChatIsItsOwners'
  BY ChatAssumption DEF ChatInv, ChatIsItsOwners, OwnerIsThere, ChatTypeOK, Busy,
         Finish, Put, adapterRest, rowVars, costVars
<1>4. CostIsKept'
  BY ChatAssumption DEF ChatInv, CostIsKept, RelayEndsFirst, ChatTypeOK, Finish, Put,
         adapterRest, rowVars, costVars
<1> QED  BY <1>1, <1>2, <1>3, <1>4 DEF ChatInv

LEMMA StopInv == ASSUME ChatInv, Stop PROVE ChatInv'
<1>1. ChatTypeOK'
  BY ChatAssumption DEF ChatInv, StreamingHasTurn, ChatTypeOK, Busy, Stop, adapterRest,
         rowVars, costVars
<1>2. OwnerIsThere' /\ RelayEndsFirst' /\ StreamingHasTurn'
  BY ChatAssumption DEF ChatInv, OwnerIsThere, RelayEndsFirst, StreamingHasTurn,
         ChatIsItsOwners, Handling, ChatTypeOK, Busy, Stop, adapterRest, rowVars, costVars
<1>3. ChatIsItsOwners'
  BY ChatAssumption DEF ChatInv, ChatIsItsOwners, OwnerIsThere, ChatTypeOK, Busy, Stop,
         adapterRest, rowVars, costVars
<1>4. CostIsKept'
  BY ChatAssumption DEF ChatInv, CostIsKept, RelayEndsFirst, ChatTypeOK, Stop,
         adapterRest, rowVars, costVars
<1> QED  BY <1>1, <1>2, <1>3, <1>4 DEF ChatInv

LEMMA FailTurnInv == ASSUME ChatInv, FailTurn PROVE ChatInv'
<1>1. ChatTypeOK'
  BY ChatAssumption DEF ChatInv, StreamingHasTurn, ChatTypeOK, Busy, FailTurn, Put,
         adapterRest, rowVars, costVars
<1>2. OwnerIsThere' /\ RelayEndsFirst' /\ StreamingHasTurn'
  BY ChatAssumption DEF ChatInv, OwnerIsThere, RelayEndsFirst, StreamingHasTurn,
         ChatIsItsOwners, Handling, ChatTypeOK, Busy, FailTurn, Put, adapterRest,
         rowVars, costVars
<1>3. ChatIsItsOwners'
  BY ChatAssumption DEF ChatInv, ChatIsItsOwners, OwnerIsThere, ChatTypeOK, Busy,
         FailTurn, Put, adapterRest, rowVars, costVars
<1>4. CostIsKept'
  BY ChatAssumption DEF ChatInv, CostIsKept, RelayEndsFirst, ChatTypeOK, FailTurn, Put,
         adapterRest, rowVars, costVars
<1> QED  BY <1>1, <1>2, <1>3, <1>4 DEF ChatInv

LEMMA AdapterOverInv == ASSUME ChatInv, AdapterOver PROVE ChatInv'
<1>1. ChatTypeOK'
  BY ChatAssumption DEF ChatInv, StreamingHasTurn, ChatTypeOK, Busy, AdapterOver,
         adapterRest, rowVars, costVars
<1>2. OwnerIsThere' /\ RelayEndsFirst' /\ StreamingHasTurn'
  BY ChatAssumption DEF ChatInv, OwnerIsThere, RelayEndsFirst, StreamingHasTurn,
         ChatIsItsOwners, Handling, ChatTypeOK, Busy, AdapterOver, adapterRest, rowVars, costVars
<1>3. ChatIsItsOwners'
  BY ChatAssumption DEF ChatInv, ChatIsItsOwners, OwnerIsThere, ChatTypeOK, Busy,
         AdapterOver, adapterRest, rowVars, costVars
<1>4. CostIsKept'
  BY ChatAssumption DEF ChatInv, CostIsKept, RelayEndsFirst, ChatTypeOK, AdapterOver,
         adapterRest, rowVars, costVars
<1> QED  BY <1>1, <1>2, <1>3, <1>4 DEF ChatInv

LEMMA RelayTakeInv == ASSUME ChatInv, RelayTake PROVE ChatInv'
<1>1. ChatTypeOK'
  BY ChatAssumption DEF ChatInv, StreamingHasTurn, ChatTypeOK, Busy, RelayTake, costVars,
         relayRest
<1>2. OwnerIsThere' /\ RelayEndsFirst' /\ StreamingHasTurn'
  BY ChatAssumption DEF ChatInv, OwnerIsThere, RelayEndsFirst, StreamingHasTurn,
         ChatIsItsOwners, Handling, ChatTypeOK, Busy, RelayTake, costVars, relayRest
<1>3. ChatIsItsOwners'
  BY ChatAssumption DEF ChatInv, ChatIsItsOwners, OwnerIsThere, ChatTypeOK, Busy,
         RelayTake, costVars, relayRest
<1>4. CostIsKept'
  BY ChatAssumption DEF ChatInv, CostIsKept, RelayEndsFirst, ChatTypeOK, RelayTake, costVars,
         relayRest
<1> QED  BY <1>1, <1>2, <1>3, <1>4 DEF ChatInv

LEMMA WriteCostInv == ASSUME ChatInv, WriteCost PROVE ChatInv'
<1>1. ChatTypeOK'
  BY ChatAssumption DEF ChatInv, StreamingHasTurn, ChatTypeOK, Busy, WriteCost, Written,
         relayRest
<1>2. OwnerIsThere' /\ RelayEndsFirst' /\ StreamingHasTurn'
  BY ChatAssumption DEF ChatInv, OwnerIsThere, RelayEndsFirst, StreamingHasTurn,
         ChatIsItsOwners, Handling, ChatTypeOK, Busy, WriteCost, Written, relayRest
<1>3. ChatIsItsOwners'
  BY ChatAssumption DEF ChatInv, ChatIsItsOwners, OwnerIsThere, ChatTypeOK, Busy,
         WriteCost, Written, relayRest
<1>4. CostIsKept'
  BY ChatAssumption DEF ChatInv, CostIsKept, RelayEndsFirst, ChatTypeOK, WriteCost, Written,
         relayRest
<1> QED  BY <1>1, <1>2, <1>3, <1>4 DEF ChatInv

LEMMA SendInv == ASSUME ChatInv, Send PROVE ChatInv'
<1>1. ChatTypeOK'
  BY ChatAssumption DEF ChatInv, StreamingHasTurn, ChatTypeOK, Busy, Send, costVars, relayRest
<1>2. OwnerIsThere' /\ RelayEndsFirst' /\ StreamingHasTurn'
  BY ChatAssumption DEF ChatInv, OwnerIsThere, RelayEndsFirst, StreamingHasTurn,
         ChatIsItsOwners, Handling, ChatTypeOK, Busy, Send, costVars, relayRest
<1>3. ChatIsItsOwners'
  BY ChatAssumption DEF ChatInv, ChatIsItsOwners, OwnerIsThere, ChatTypeOK, Busy, Send, costVars,
         relayRest
<1>4. CostIsKept'
  BY ChatAssumption DEF ChatInv, CostIsKept, RelayEndsFirst, ChatTypeOK, Send, costVars, relayRest
<1> QED  BY <1>1, <1>2, <1>3, <1>4 DEF ChatInv

LEMMA SendFailsInv == ASSUME ChatInv, SendFails PROVE ChatInv'
<1>1. ChatTypeOK'
  BY ChatAssumption DEF ChatInv, StreamingHasTurn, ChatTypeOK, Busy, SendFails, costVars,
         LeaveRelay, relayRest
<1>2. OwnerIsThere' /\ RelayEndsFirst' /\ StreamingHasTurn'
  BY ChatAssumption DEF ChatInv, OwnerIsThere, RelayEndsFirst, StreamingHasTurn,
         ChatIsItsOwners, Handling, ChatTypeOK, Busy, SendFails, costVars, LeaveRelay, relayRest
<1>3. ChatIsItsOwners'
  BY ChatAssumption DEF ChatInv, ChatIsItsOwners, OwnerIsThere, ChatTypeOK, Busy,
         SendFails, costVars, LeaveRelay, relayRest
<1>4. CostIsKept'
  BY ChatAssumption DEF ChatInv, CostIsKept, RelayEndsFirst, ChatTypeOK, SendFails, costVars,
         LeaveRelay, relayRest
<1> QED  BY <1>1, <1>2, <1>3, <1>4 DEF ChatInv

LEMMA FlushInv == ASSUME ChatInv, Flush PROVE ChatInv'
<1>1. ChatTypeOK'
  BY ChatAssumption DEF ChatInv, StreamingHasTurn, ChatTypeOK, Busy, Flush, Written, relayRest
<1>2. OwnerIsThere' /\ RelayEndsFirst' /\ StreamingHasTurn'
  BY ChatAssumption DEF ChatInv, OwnerIsThere, RelayEndsFirst, StreamingHasTurn,
         ChatIsItsOwners, Handling, ChatTypeOK, Busy, Flush, Written, relayRest
<1>3. ChatIsItsOwners'
  BY ChatAssumption DEF ChatInv, ChatIsItsOwners, OwnerIsThere, ChatTypeOK, Busy, Flush, Written,
         relayRest
<1>4. CostIsKept'
  BY ChatAssumption DEF ChatInv, CostIsKept, RelayEndsFirst, ChatTypeOK, Flush, Written,
         relayRest
<1> QED  BY <1>1, <1>2, <1>3, <1>4 DEF ChatInv

LEMMA LookUpInv == ASSUME ChatInv, NEW w \in Sockets, LookUp(w) PROVE ChatInv'
<1>1. ChatTypeOK'
  BY ChatAssumption DEF ChatInv, StreamingHasTurn, ChatTypeOK, Busy, LookUp,
         chatVarsButSock, rowVars, costVars, managerVars, taskVars
<1>2. OwnerIsThere' /\ RelayEndsFirst' /\ StreamingHasTurn'
  BY ChatAssumption DEF ChatInv, OwnerIsThere, RelayEndsFirst, StreamingHasTurn,
         ChatIsItsOwners, Handling, ChatTypeOK, Busy, LookUp, chatVarsButSock, rowVars, costVars,
         managerVars, taskVars
<1>3. ChatIsItsOwners'
  BY ChatAssumption DEF ChatInv, ChatIsItsOwners, OwnerIsThere, ChatTypeOK, Busy,
         LookUp, chatVarsButSock, rowVars, costVars, managerVars, taskVars
<1>4. CostIsKept'
  BY ChatAssumption DEF ChatInv, CostIsKept, RelayEndsFirst, ChatTypeOK, LookUp,
         chatVarsButSock, rowVars, costVars, managerVars, taskVars
<1> QED  BY <1>1, <1>2, <1>3, <1>4 DEF ChatInv

LEMMA MarkActiveInv == ASSUME ChatInv, NEW w \in Sockets, MarkActive(w) PROVE ChatInv'
<1>1. ChatTypeOK'
  BY ChatAssumption DEF ChatInv, StreamingHasTurn, ChatTypeOK, Busy, MarkActive, costVars,
         managerVars, taskVars
<1>2. OwnerIsThere' /\ RelayEndsFirst' /\ StreamingHasTurn'
  BY ChatAssumption DEF ChatInv, OwnerIsThere, RelayEndsFirst, StreamingHasTurn,
         ChatIsItsOwners, Handling, ChatTypeOK, Busy, MarkActive, costVars, managerVars, taskVars
<1>3. ChatIsItsOwners'
  BY ChatAssumption DEF ChatInv, ChatIsItsOwners, OwnerIsThere, ChatTypeOK, Busy,
         MarkActive, costVars, managerVars, taskVars
<1>4. CostIsKept'
  BY ChatAssumption DEF ChatInv, CostIsKept, RelayEndsFirst, ChatTypeOK, MarkActive, costVars,
         managerVars, taskVars
<1> QED  BY <1>1, <1>2, <1>3, <1>4 DEF ChatInv

LEMMA RegisterSocketInv == ASSUME ChatInv, NEW w \in Sockets, RegisterSocket(w) PROVE ChatInv'
<1>1. ChatTypeOK'
  <2>0. tokens \in Seq(Tokens)  BY DEF ChatInv, ChatTypeOK, Tokens
  <2>1. tokens' \in Seq(Tokens)
    <3>1. tokens' = tokens \/ tokens' = <<>>  BY DEF RegisterSocket
    <3> QED  BY <2>0, <3>1, EmptySeq
  <2>2. owner' \in Sockets \cup {NoSocket} /\ interrupt' \in BOOLEAN
    BY DEF ChatInv, ChatTypeOK, RegisterSocket
  <2>3. /\ adapter' \in Busy \cup {"none"} /\ turnCost' \in Nat
        /\ relay' \in {"off", "waiting", "sending", "writing", "flushing"}
    BY DEF ChatInv, ChatTypeOK, RegisterSocket
  <2> QED  BY <2>1, <2>2, <2>3 DEF ChatInv, ChatTypeOK, RegisterSocket, rowVars, costVars, Tokens
<1>2. OwnerIsThere' /\ RelayEndsFirst' /\ StreamingHasTurn'
  BY ChatAssumption DEF ChatInv, OwnerIsThere, RelayEndsFirst, StreamingHasTurn,
         ChatIsItsOwners, Handling, ChatTypeOK, Busy, RegisterSocket, rowVars, costVars
<1>3. ChatIsItsOwners'
  BY ChatAssumption DEF ChatInv, ChatIsItsOwners, OwnerIsThere, ChatTypeOK, Busy,
         RegisterSocket, rowVars, costVars
<1>4. CostIsKept'
  BY ChatAssumption DEF ChatInv, CostIsKept, RelayEndsFirst, ChatTypeOK, RegisterSocket,
         rowVars, costVars
<1> QED  BY <1>1, <1>2, <1>3, <1>4 DEF ChatInv

LEMMA SignalInterruptInv == ASSUME ChatInv, NEW w \in Sockets, SignalInterrupt(w) PROVE ChatInv'
<1>1. ChatTypeOK'
  BY ChatAssumption DEF ChatInv, StreamingHasTurn, ChatTypeOK, Busy, SignalInterrupt,
         rowVars, costVars, taskVars
<1>2. OwnerIsThere' /\ RelayEndsFirst' /\ StreamingHasTurn'
  BY ChatAssumption DEF ChatInv, OwnerIsThere, RelayEndsFirst, StreamingHasTurn,
         ChatIsItsOwners, Handling, ChatTypeOK, Busy, SignalInterrupt, rowVars, costVars, taskVars
<1>3. ChatIsItsOwners'
  BY ChatAssumption DEF ChatInv, ChatIsItsOwners, OwnerIsThere, ChatTypeOK, Busy,
         SignalInterrupt, rowVars, costVars, taskVars
<1>4. CostIsKept'
  BY ChatAssumption DEF ChatInv, CostIsKept, RelayEndsFirst, ChatTypeOK,
         SignalInterrupt, rowVars, costVars, taskVars
<1> QED  BY <1>1, <1>2, <1>3, <1>4 DEF ChatInv

LEMMA PreemptInv == ASSUME ChatInv, NEW w \in Sockets, Preempt(w) PROVE ChatInv'
<1>1. ChatTypeOK'
  BY ChatAssumption DEF ChatInv, StreamingHasTurn, ChatTypeOK, Busy, Preempt, rowVars, costVars,
         managerVars
<1>2. OwnerIsThere' /\ RelayEndsFirst' /\ StreamingHasTurn'
  BY ChatAssumption DEF ChatInv, OwnerIsThere, RelayEndsFirst, StreamingHasTurn,
         ChatIsItsOwners, Handling, ChatTypeOK, Busy, Preempt, rowVars, costVars, managerVars
<1>3. ChatIsItsOwners'
  BY ChatAssumption DEF ChatInv, ChatIsItsOwners, OwnerIsThere, ChatTypeOK, Busy,
         Preempt, rowVars, costVars, managerVars
<1>4. CostIsKept'
  BY ChatAssumption DEF ChatInv, CostIsKept, RelayEndsFirst, ChatTypeOK, Preempt,
         rowVars, costVars, managerVars
<1> QED  BY <1>1, <1>2, <1>3, <1>4 DEF ChatInv

LEMMA NewTurnInv == ASSUME ChatInv, NEW w \in Sockets, NewTurn(w) PROVE ChatInv'
<1>1. ChatTypeOK'
  <2>1. tokens' \in Seq([type : {"cost_update", "done", "error"}, turn : 1 .. MaxTurns])
    BY DEF NewTurn
  <2>2. turn' \in 0 .. MaxTurns /\ calls' \in 0 .. MaxCalls
    BY ChatAssumption DEF ChatInv, ChatTypeOK, NewTurn
  <2> QED  BY <2>1, <2>2 DEF ChatInv, ChatTypeOK, NewTurn, Busy, rowVars, costVars
<1>2. OwnerIsThere' /\ RelayEndsFirst' /\ StreamingHasTurn'
  BY ChatAssumption DEF ChatInv, OwnerIsThere, RelayEndsFirst, StreamingHasTurn,
         ChatIsItsOwners, Handling, ChatTypeOK, Busy, NewTurn, rowVars, costVars
<1>3. ChatIsItsOwners'
  BY ChatAssumption DEF ChatInv, ChatIsItsOwners, OwnerIsThere, ChatTypeOK, Busy,
         NewTurn, rowVars, costVars
<1>4. CostIsKept'
  BY ChatAssumption DEF ChatInv, CostIsKept, RelayEndsFirst, ChatTypeOK, NewTurn,
         rowVars, costVars
<1> QED  BY <1>1, <1>2, <1>3, <1>4 DEF ChatInv

LEMMA HangupInv == ASSUME ChatInv, NEW w \in Sockets, Hangup(w) PROVE ChatInv'
<1>1. ChatTypeOK'
  BY ChatAssumption DEF ChatInv, StreamingHasTurn, ChatTypeOK, Busy, Hangup,
         chatVarsButSock, rowVars, costVars, managerVars, taskVars
<1>2. OwnerIsThere' /\ RelayEndsFirst' /\ StreamingHasTurn'
  BY ChatAssumption DEF ChatInv, OwnerIsThere, RelayEndsFirst, StreamingHasTurn,
         ChatIsItsOwners, Handling, ChatTypeOK, Busy, Hangup, chatVarsButSock, rowVars, costVars,
         managerVars, taskVars
<1>3. ChatIsItsOwners'
  BY ChatAssumption DEF ChatInv, ChatIsItsOwners, OwnerIsThere, ChatTypeOK, Busy,
         Hangup, chatVarsButSock, rowVars, costVars, managerVars, taskVars
<1>4. CostIsKept'
  BY ChatAssumption DEF ChatInv, CostIsKept, RelayEndsFirst, ChatTypeOK, Hangup,
         chatVarsButSock, rowVars, costVars, managerVars, taskVars
<1> QED  BY <1>1, <1>2, <1>3, <1>4 DEF ChatInv

LEMMA CancelRelayInv == ASSUME ChatInv, NEW w \in Sockets, CancelRelay(w) PROVE ChatInv'
<1>1. ChatTypeOK'
  BY ChatAssumption DEF ChatInv, StreamingHasTurn, ChatTypeOK, Busy, CancelRelay, costVars,
         LeaveRelay, managerVars
<1>2. OwnerIsThere' /\ RelayEndsFirst' /\ StreamingHasTurn'
  BY ChatAssumption DEF ChatInv, OwnerIsThere, RelayEndsFirst, StreamingHasTurn,
         ChatIsItsOwners, Handling, ChatTypeOK, Busy, CancelRelay, costVars, LeaveRelay,
         managerVars
<1>3. ChatIsItsOwners'
  BY ChatAssumption DEF ChatInv, ChatIsItsOwners, OwnerIsThere, ChatTypeOK, Busy,
         CancelRelay, costVars, LeaveRelay, managerVars
<1>4. CostIsKept'
  BY ChatAssumption DEF ChatInv, CostIsKept, RelayEndsFirst, ChatTypeOK, CancelRelay, costVars,
         LeaveRelay, managerVars
<1> QED  BY <1>1, <1>2, <1>3, <1>4 DEF ChatInv

LEMMA CancelAdapterInv == ASSUME ChatInv, NEW w \in Sockets, CancelAdapter(w) PROVE ChatInv'
<1>1. ChatTypeOK'
  BY ChatAssumption DEF ChatInv, StreamingHasTurn, ChatTypeOK, Busy, CancelAdapter,
         rowVars, costVars, managerVars
<1>2. OwnerIsThere' /\ RelayEndsFirst' /\ StreamingHasTurn'
  BY ChatAssumption DEF ChatInv, OwnerIsThere, RelayEndsFirst, StreamingHasTurn,
         ChatIsItsOwners, Handling, ChatTypeOK, Busy, CancelAdapter, rowVars, costVars,
         managerVars
<1>3. ChatIsItsOwners'
  BY ChatAssumption DEF ChatInv, ChatIsItsOwners, OwnerIsThere, ChatTypeOK, Busy,
         CancelAdapter, rowVars, costVars, managerVars
<1>4. CostIsKept'
  BY ChatAssumption DEF ChatInv, CostIsKept, RelayEndsFirst, ChatTypeOK, CancelAdapter,
         rowVars, costVars, managerVars
<1> QED  BY <1>1, <1>2, <1>3, <1>4 DEF ChatInv

LEMMA AdapterGoneInv == ASSUME ChatInv, NEW w \in Sockets, AdapterGone(w) PROVE ChatInv'
<1>1. ChatTypeOK'
  BY ChatAssumption DEF ChatInv, StreamingHasTurn, ChatTypeOK, Busy, AdapterGone,
         chatVarsButSock, rowVars, costVars, managerVars, taskVars
<1>2. OwnerIsThere' /\ RelayEndsFirst' /\ StreamingHasTurn'
  BY ChatAssumption DEF ChatInv, OwnerIsThere, RelayEndsFirst, StreamingHasTurn,
         ChatIsItsOwners, Handling, ChatTypeOK, Busy, AdapterGone, chatVarsButSock,
         rowVars, costVars, managerVars, taskVars
<1>3. ChatIsItsOwners'
  BY ChatAssumption DEF ChatInv, ChatIsItsOwners, OwnerIsThere, ChatTypeOK, Busy,
         AdapterGone, chatVarsButSock, rowVars, costVars, managerVars, taskVars
<1>4. CostIsKept'
  BY ChatAssumption DEF ChatInv, CostIsKept, RelayEndsFirst, ChatTypeOK, AdapterGone,
         chatVarsButSock, rowVars, costVars, managerVars, taskVars
<1> QED  BY <1>1, <1>2, <1>3, <1>4 DEF ChatInv

LEMMA UnregisterInv == ASSUME ChatInv, NEW w \in Sockets, Unregister(w) PROVE ChatInv'
<1>1. ChatTypeOK'
  <2>0. tokens \in Seq(Tokens)  BY DEF ChatInv, ChatTypeOK, Tokens
  <2>1. tokens' \in Seq(Tokens)
    <3>1. tokens' = tokens \/ tokens' = <<>>  BY DEF Unregister, managerVars
    <3> QED  BY <2>0, <3>1, EmptySeq
  <2>2. owner' \in Sockets \cup {NoSocket} /\ interrupt' \in BOOLEAN
    BY DEF ChatInv, ChatTypeOK, Unregister, managerVars
  <2> QED  BY <2>1, <2>2 DEF ChatInv, ChatTypeOK, Unregister, rowVars, costVars, taskVars, Tokens
<1>2. OwnerIsThere' /\ RelayEndsFirst' /\ StreamingHasTurn'
  BY ChatAssumption DEF ChatInv, OwnerIsThere, RelayEndsFirst, StreamingHasTurn,
         ChatIsItsOwners, Handling, ChatTypeOK, Busy, Unregister, rowVars, costVars, taskVars,
         managerVars
<1>3. ChatIsItsOwners'
  BY ChatAssumption DEF ChatInv, ChatIsItsOwners, OwnerIsThere, ChatTypeOK, Busy,
         Unregister, rowVars, costVars, taskVars, managerVars
<1>4. CostIsKept'
  BY ChatAssumption DEF ChatInv, CostIsKept, RelayEndsFirst, ChatTypeOK, Unregister,
         rowVars, costVars, taskVars, managerVars
<1> QED  BY <1>1, <1>2, <1>3, <1>4 DEF ChatInv

-----------------------------------------------------------------------------
LEMMA StreamInv == ASSUME StreamTypeOK, StreamNext PROVE StreamTypeOK'
<1>1. ASSUME NEW s \in Streams, StreamStep(s) PROVE StreamTypeOK'
  BY <1>1, RegisterType, CheckActiveType, CheckLatestType, TakeType, DisconnectType,
     UnsubscribeType DEF StreamStep
<1>2. CASE WorkerNext
  BY <1>2, LaunchType, ProgressType, AnnounceType, EndQuietlyType, FailRunType,
     HandOverType, LookOnType, GiveUpType, AnnounceFailureType, CloseStreamsType,
     CompleteSyncType, RunAgainType, RecordType DEF WorkerNext
<1>3. CASE LoopNext
  BY <1>3, RunPublishType, RunCompleteType, PutSentinelType DEF LoopNext
<1> QED  BY <1>1, <1>2, <1>3 DEF StreamNext

LEMMA ChatStep == ASSUME ChatInv, ChatNext PROVE ChatInv'
<1>1. ASSUME NEW w \in Sockets, SocketStep(w) PROVE ChatInv'
  BY <1>1, LookUpInv, MarkActiveInv, RegisterSocketInv, SignalInterruptInv, PreemptInv,
     NewTurnInv, HangupInv, CancelRelayInv, CancelAdapterInv, AdapterGoneInv, UnregisterInv
  DEF SocketStep, CloseStep
<1>2. CASE AdapterNext
  BY <1>2, BillInv, FinishInv, StopInv, FailTurnInv, AdapterOverInv DEF AdapterNext
<1>3. CASE RelayNext
  BY <1>3, RelayTakeInv, WriteCostInv, SendInv, SendFailsInv, FlushInv DEF RelayNext
<1> QED  BY <1>1, <1>2, <1>3, EndSessionInv, LateWriteInv, WriteAgainInv DEF ChatNext

LEMMA ConnectInv ==
  ASSUME TicketInv, StreamTypeOK, NEW s \in Streams, Connect(s)
  PROVE  TicketInv' /\ StreamTypeOK'
<1>1. TicketInv'  BY TicketStep DEF Connect
<1>2. StreamTypeOK'
  BY DEF StreamTypeOK, Connect, streamVarsButAt, workerVars, lookVars, loopVars
<1> QED  BY <1>1, <1>2

LEMMA DialInv ==
  ASSUME TicketInv, ChatInv, NEW w \in Sockets, Dial(w)
  PROVE  TicketInv' /\ ChatInv'
<1>1. TicketInv'  BY TicketStep DEF Dial
<1>2. ChatTypeOK'
  BY DEF ChatInv, ChatTypeOK, Dial, chatVarsButSock, rowVars, costVars, managerVars, taskVars
<1>3. OwnerIsThere' /\ RelayEndsFirst' /\ StreamingHasTurn'
  BY ChatAssumption
  DEF ChatInv, ChatTypeOK, OwnerIsThere, RelayEndsFirst, StreamingHasTurn, Handling, Dial,
      chatVarsButSock, rowVars, costVars, managerVars, taskVars
<1>4. ChatIsItsOwners' /\ CostIsKept'
  BY DEF ChatInv, ChatTypeOK, ChatIsItsOwners, CostIsKept, Dial,
         chatVarsButSock, rowVars, costVars, managerVars, taskVars
<1> QED  BY <1>1, <1>2, <1>3, <1>4 DEF ChatInv

-----------------------------------------------------------------------------
(* The events of the task on their way.                                       *)

\* An event that is still to be put into the queues has been published.
Announced == \A i \in DOMAIN Due : Due[i].kind # "end" => Due[i].n < events

\* A stream that watches is subscribed.
Present == \A s \in Streams : Watching(s) => s \in Range(subscribers)

\* What NothingSkipped says of one stream, of what is coming to it and of what it
\* is owed.
Steady(flow, n, live, total) ==
  \E old \in 0 .. Len(flow) :
    /\ Carries(flow, old, n)
    /\ (live /\ Ahead(flow) = DOMAIN flow) => Len(flow) - old = total - n

Served(s) == (s \notin dropped /\ Watching(s)) => Steady(Coming(s), owed[s], s \in active, events)

\* What makes it right to pass a stream by: it was overlooked, or it is not open, or
\* it registered after the event was published.
Passed(s) == s \in overlooked \/ ~Open(s) \/ owed[s] >= events

\* The look so far: if the list it goes through has been thrown away, all that are
\* subscribed now came later.
Looking ==
  pending # <<>> =>
    /\ Head(pending).kind # "end"
    /\ \A i \in DOMAIN subscribers : cursor = 0 \/ i < cursor => Passed(subscribers[i])

StreamOrder == Announced /\ Present /\ Looking /\ \A s \in Streams : Served(s)

\* Passed, of the state after a step.
PassedThen(s) ==
  s \in overlooked' \/ ~(s \in active' /\ (closing' # <<>> => s # Head(closing')))
    \/ owed'[s] >= events'

LEMMA LookingStep ==
  ASSUME pending' # <<>> =>
           /\ Head(pending').kind # "end"
           /\ \A i \in DOMAIN subscribers' :
                 cursor' = 0 \/ i < cursor' => PassedThen(subscribers'[i])
  PROVE  Looking'
BY DEF Looking, Passed, PassedThen, Open

LEMMA ServedIsNothingSkipped == (\A s \in Streams : Served(s)) => NothingSkipped
BY DEF Served, Steady, NothingSkipped

LEMMA EndIsItem == EndOfStream \in Items /\ EndOfStream.kind = "end"
BY DEF EndOfStream, Items

\* The flow up to its end, position by position.
LEMMA AheadProperties ==
  ASSUME NEW flow \in Seq(Items)
  PROVE  /\ Len(flow) \in Nat /\ DOMAIN flow = 1 .. Len(flow)
         /\ Ahead(flow) \subseteq 1 .. Len(flow)
         /\ \A i \in 1 .. Len(flow) : i \in Ahead(flow) <=> \A j \in 1 .. i : flow[j].kind # "end"
         /\ \A i \in 1 .. Len(flow) : flow[i].n \in Nat
<1>1. Len(flow) \in Nat /\ DOMAIN flow = 1 .. Len(flow) BY LenProperties
<1>2. \A i \in 1 .. Len(flow) : flow[i] \in Items BY ElementOfSeq
<1> QED BY <1>1, <1>2 DEF Ahead, Items

\* One item more at the end of a flow.
LEMMA SteadyAppend ==
  ASSUME NEW flow \in Seq(Items), NEW e \in Items, NEW n \in Nat, NEW live \in BOOLEAN,
         NEW total \in Nat, NEW more \in Nat, Steady(flow, n, live, total),
         \/ e.kind = "end"
         \/ live /\ e.n = total /\ more = total + 1
  PROVE  Steady(Append(flow, e), n, live, more)
<1> DEFINE c == Append(flow, e)
<1>1. /\ Len(flow) \in Nat /\ Ahead(flow) \subseteq 1 .. Len(flow) /\ DOMAIN flow = 1 .. Len(flow)
      /\ \A i \in 1 .. Len(flow) : i \in Ahead(flow) <=> \A j \in 1 .. i : flow[j].kind # "end"
  BY AheadProperties
<1>2. /\ c \in Seq(Items) /\ Len(c) = Len(flow) + 1 /\ c[Len(flow) + 1] = e
      /\ \A i \in 1 .. Len(flow) : c[i] = flow[i]
  BY AppendProperties
<1> HIDE DEF c
<1>3. /\ Ahead(c) \subseteq 1 .. Len(c) /\ DOMAIN c = 1 .. Len(c)
      /\ \A i \in 1 .. Len(c) : i \in Ahead(c) <=> \A j \in 1 .. i : c[j].kind # "end"
  BY <1>2, AheadProperties
<1>4. PICK old \in 0 .. Len(flow) :
        /\ Carries(flow, old, n)
        /\ (live /\ Ahead(flow) = DOMAIN flow) => Len(flow) - old = total - n
  BY DEF Steady
<1>5. \A i \in 1 .. Len(flow) : i \in Ahead(c) <=> i \in Ahead(flow)
  <2> SUFFICES ASSUME NEW i \in 1 .. Len(flow) PROVE i \in Ahead(c) <=> i \in Ahead(flow)
    OBVIOUS
  <2>1. i \in 1 .. Len(c) /\ 1 .. i \subseteq 1 .. Len(flow) BY <1>1, <1>2
  <2>2. i \in Ahead(c) <=> \A j \in 1 .. i : c[j].kind # "end" BY <1>3, <2>1
  <2>3. i \in Ahead(flow) <=> \A j \in 1 .. i : flow[j].kind # "end" BY <1>1
  <2>4. \A j \in 1 .. i : c[j] = flow[j] BY <1>2, <2>1
  <2> QED BY <2>2, <2>3, <2>4
<1>6. Len(flow) + 1 \in Ahead(c) => e.kind # "end" /\ Ahead(flow) = DOMAIN flow
  <2> SUFFICES ASSUME Len(flow) + 1 \in Ahead(c)
               PROVE  e.kind # "end" /\ Ahead(flow) = DOMAIN flow
    OBVIOUS
  <2>1. \A j \in 1 .. Len(flow) + 1 : c[j].kind # "end" BY <1>1, <1>2, <1>3
  <2>2. e.kind # "end" BY <1>1, <1>2, <2>1
  <2>3. \A j \in 1 .. Len(flow) : flow[j].kind # "end" BY <1>1, <1>2, <2>1
  <2>4. \A i \in 1 .. Len(flow) : i \in Ahead(flow) BY <1>1, <2>3
  <2> QED BY <1>1, <2>2, <2>4
<1>7. Carries(c, old, n)
  <2> SUFFICES ASSUME NEW i \in Ahead(c)
               PROVE  IF i <= old THEN c[i].n < n ELSE c[i].n = n + (i - old) - 1
    BY DEF Carries
  <2>1. CASE i \in 1 .. Len(flow) BY <1>2, <1>4, <1>5, <2>1 DEF Carries
  <2>2. CASE i = Len(flow) + 1
    <3>1. live /\ e.n = total /\ Ahead(flow) = DOMAIN flow BY <1>6, <2>2
    <3>2. Len(flow) - old = total - n BY <1>4, <3>1
    <3> QED BY <1>1, <1>2, <1>4, <2>2, <3>1, <3>2
  <2> QED BY <1>1, <1>2, <1>3, <2>1, <2>2
<1>8. (live /\ Ahead(c) = DOMAIN c) => Len(c) - old = more - n
  <2> SUFFICES ASSUME live, Ahead(c) = DOMAIN c PROVE Len(c) - old = more - n
    OBVIOUS
  <2>1. Len(flow) + 1 \in Ahead(c) BY <1>1, <1>2, <1>3
  <2>2. Len(flow) - old = total - n /\ more = total + 1 BY <1>4, <1>6, <2>1
  <2>3. Len(flow) \in Int /\ Len(c) = Len(flow) + 1 /\ old \in Int BY <1>1, <1>2
  <2> QED BY <2>2, <2>3
<1>9. old \in 0 .. Len(c) BY <1>1, <1>2
<1>10. Steady(c, n, live, more) BY <1>7, <1>8, <1>9 DEF Steady
<1> QED BY <1>10 DEF c

\* The last item of a flow is dropped: an old one.
LEMMA SteadyDrop ==
  ASSUME NEW flow \in Seq(Items), NEW e \in Items, NEW n \in Nat, NEW live,
         NEW total \in Nat, Steady(Append(flow, e), n, live, total), e.kind # "end", e.n < n
  PROVE  Steady(flow, n, live, total)
<1> DEFINE c == Append(flow, e)
<1>1. /\ Len(flow) \in Nat /\ Ahead(flow) \subseteq 1 .. Len(flow) /\ DOMAIN flow = 1 .. Len(flow)
      /\ \A i \in 1 .. Len(flow) : i \in Ahead(flow) <=> \A j \in 1 .. i : flow[j].kind # "end"
  BY AheadProperties
<1>2. /\ c \in Seq(Items) /\ Len(c) = Len(flow) + 1 /\ c[Len(flow) + 1] = e
      /\ \A i \in 1 .. Len(flow) : c[i] = flow[i]
  BY AppendProperties
<1> HIDE DEF c
<1>3. /\ Ahead(c) \subseteq 1 .. Len(c) /\ DOMAIN c = 1 .. Len(c)
      /\ \A i \in 1 .. Len(c) : i \in Ahead(c) <=> \A j \in 1 .. i : c[j].kind # "end"
  BY <1>2, AheadProperties
<1>4. PICK old \in 0 .. Len(c) :
        /\ Carries(c, old, n)
        /\ (live /\ Ahead(c) = DOMAIN c) => Len(c) - old = total - n
  BY DEF Steady, c
<1>5. \A i \in 1 .. Len(flow) : i \in Ahead(flow) => i \in Ahead(c)
  <2> SUFFICES ASSUME NEW i \in 1 .. Len(flow), i \in Ahead(flow) PROVE i \in Ahead(c)
    OBVIOUS
  <2>1. i \in 1 .. Len(c) /\ 1 .. i \subseteq 1 .. Len(flow) BY <1>1, <1>2
  <2>2. \A j \in 1 .. i : flow[j].kind # "end" BY <1>1
  <2>3. \A j \in 1 .. i : c[j] = flow[j] BY <1>2, <2>1
  <2> QED BY <1>3, <2>1, <2>2, <2>3
<1>6. Len(flow) + 1 \in Ahead(c) => old = Len(flow) + 1
  <2> SUFFICES ASSUME Len(flow) + 1 \in Ahead(c), ~(Len(flow) + 1 <= old) PROVE FALSE
    BY <1>1, <1>2
  <2>1. e.n = n + (Len(flow) + 1 - old) - 1 BY <1>2, <1>4 DEF Carries
  <2> QED BY <1>1, <1>2, <2>1
<1>7. Ahead(flow) = DOMAIN flow => Ahead(c) = DOMAIN c
  <2> SUFFICES ASSUME Ahead(flow) = DOMAIN flow PROVE Len(flow) + 1 \in Ahead(c)
    <3>1. ASSUME Ahead(flow) = DOMAIN flow, Len(flow) + 1 \in Ahead(c),
                 NEW i \in 1 .. Len(flow) + 1
          PROVE  i \in Ahead(c)
      <4>1. i = Len(flow) + 1 \/ i \in 1 .. Len(flow) BY <1>1
      <4> QED BY <1>1, <1>5, <3>1, <4>1
    <3>2. DOMAIN c = 1 .. Len(flow) + 1 BY <1>2, <1>3
    <3> QED BY <1>2, <1>3, <3>1, <3>2
  <2>1. \A j \in 1 .. Len(flow) : flow[j].kind # "end" BY <1>1
  <2>2. \A j \in 1 .. Len(flow) + 1 : c[j].kind # "end" BY <1>1, <1>2, <2>1
  <2> QED BY <1>1, <1>2, <1>3, <2>2
<1>8. PICK k \in 0 .. Len(flow) : (old <= Len(flow) /\ k = old) \/ (old = Len(flow) + 1 /\ k = Len(flow))
  <2>1. CASE old <= Len(flow)
    <3>1. old \in 0 .. Len(flow) BY <1>1, <1>2, <2>1
    <3> QED BY <2>1, <3>1
  <2>2. CASE old = Len(flow) + 1
    <3>1. Len(flow) \in 0 .. Len(flow) BY <1>1
    <3> QED BY <2>2, <3>1
  <2>3. old <= Len(flow) \/ old = Len(flow) + 1
    <3>1. old \in 0 .. Len(flow) + 1 BY <1>2
    <3> QED BY <1>1, <3>1
  <2> QED BY <2>1, <2>2, <2>3
<1>9. Carries(flow, k, n)
  <2> SUFFICES ASSUME NEW i \in Ahead(flow)
               PROVE  IF i <= k THEN flow[i].n < n ELSE flow[i].n = n + (i - k) - 1
    BY DEF Carries
  <2>1. i \in 1 .. Len(flow) /\ i \in Ahead(c) /\ c[i] = flow[i] BY <1>1, <1>2, <1>5
  <2>2. IF i <= old THEN c[i].n < n ELSE c[i].n = n + (i - old) - 1 BY <1>4, <2>1 DEF Carries
  <2>3. i <= old <=> i <= k BY <1>1, <1>8, <2>1
  <2>4. ~(i <= k) => k = old
    <3>1. i <= Len(flow) BY <1>1, <2>1
    <3> QED BY <1>8, <3>1
  <2> QED BY <2>1, <2>2, <2>3, <2>4
<1>10. (live /\ Ahead(flow) = DOMAIN flow) => Len(flow) - k = total - n
  <2> SUFFICES ASSUME live, Ahead(flow) = DOMAIN flow PROVE Len(flow) - k = total - n
    OBVIOUS
  <2>1. Len(c) - old = total - n /\ Len(flow) + 1 \in Ahead(c) BY <1>1, <1>2, <1>3, <1>4, <1>7
  <2>2. old = Len(flow) + 1 BY <1>6, <2>1
  <2>3. k = Len(flow)
    <3>1. ~(Len(flow) + 1 <= Len(flow)) BY <1>1
    <3> QED BY <1>8, <2>2, <3>1
  <2>4. Len(c) - old = 0 /\ Len(flow) - k = 0
    <3>1. Len(c) = Len(flow) + 1 BY <1>2
    <3> QED BY <1>1, <2>2, <2>3, <3>1
  <2> QED BY <2>1, <2>4
<1> QED BY <1>9, <1>10 DEF Steady

\* The first item of a flow is taken: a progress event.
LEMMA SteadyTail ==
  ASSUME NEW flow \in Seq(Items), flow # <<>>, NEW n \in Nat, NEW live, NEW total \in Nat,
         Steady(flow, n, live, total), Head(flow).kind # "end"
  PROVE  Steady(Tail(flow), IF Head(flow).n >= n THEN Head(flow).n + 1 ELSE n, live, total)
<1> DEFINE c == Tail(flow)
           m == IF Head(flow).n >= n THEN Head(flow).n + 1 ELSE n
<1>1. /\ Len(flow) \in Nat /\ Ahead(flow) \subseteq 1 .. Len(flow) /\ DOMAIN flow = 1 .. Len(flow)
      /\ \A i \in 1 .. Len(flow) : i \in Ahead(flow) <=> \A j \in 1 .. i : flow[j].kind # "end"
      /\ \A i \in 1 .. Len(flow) : flow[i].n \in Nat
  BY AheadProperties
<1>2. /\ c \in Seq(Items) /\ Len(c) = Len(flow) - 1 /\ Len(c) \in Nat
      /\ \A i \in 1 .. Len(c) : c[i] = flow[i + 1]
  BY HeadTailProperties, LenProperties
<1>3. Head(flow) = flow[1] /\ 1 \in 1 .. Len(flow) BY <1>1, <1>2
<1> HIDE DEF c
<1>4. /\ Ahead(c) \subseteq 1 .. Len(c) /\ DOMAIN c = 1 .. Len(c)
      /\ \A i \in 1 .. Len(c) : i \in Ahead(c) <=> \A j \in 1 .. i : c[j].kind # "end"
  BY <1>2, AheadProperties
<1>5. PICK old \in 0 .. Len(flow) :
        /\ Carries(flow, old, n)
        /\ (live /\ Ahead(flow) = DOMAIN flow) => Len(flow) - old = total - n
  BY DEF Steady
<1>6. 1 \in Ahead(flow) BY <1>1, <1>3
<1>7. \A i \in 1 .. Len(c) : i \in Ahead(c) <=> i + 1 \in Ahead(flow)
  <2> SUFFICES ASSUME NEW i \in 1 .. Len(c) PROVE i \in Ahead(c) <=> i + 1 \in Ahead(flow)
    OBVIOUS
  <2>1. i + 1 \in 1 .. Len(flow) BY <1>1, <1>2
  <2>2. ASSUME i \in Ahead(c) PROVE i + 1 \in Ahead(flow)
    <3>1. ASSUME NEW j \in 1 .. i + 1 PROVE flow[j].kind # "end"
      <4>1. CASE j = 1 BY <1>3, <4>1
      <4>2. CASE j # 1
        <5>1. j - 1 \in 1 .. i /\ j - 1 \in 1 .. Len(c) /\ (j - 1) + 1 = j BY <1>2, <4>2
        <5>2. c[j - 1] = flow[j] BY <1>2, <5>1
        <5> QED BY <1>4, <2>2, <5>1, <5>2
      <4> QED BY <4>1, <4>2
    <3> QED BY <1>1, <2>1, <3>1
  <2>3. ASSUME i + 1 \in Ahead(flow) PROVE i \in Ahead(c)
    <3>1. ASSUME NEW j \in 1 .. i PROVE c[j].kind # "end"
      <4>1. j + 1 \in 1 .. i + 1 /\ c[j] = flow[j + 1] BY <1>2
      <4> QED BY <1>1, <2>1, <2>3, <4>1
    <3> QED BY <1>4, <3>1
  <2> QED BY <2>2, <2>3
<1>8. Ahead(c) = DOMAIN c => Ahead(flow) = DOMAIN flow
  <2> SUFFICES ASSUME Ahead(c) = DOMAIN c, NEW i \in 1 .. Len(flow) PROVE i \in Ahead(flow)
    BY <1>1
  <2>1. CASE i = 1 BY <1>6, <2>1
  <2>2. CASE i # 1
    <3>1. i - 1 \in 1 .. Len(c) /\ (i - 1) + 1 = i BY <1>1, <1>2, <2>2
    <3> QED BY <1>4, <1>7, <3>1
  <2> QED BY <2>1, <2>2
<1>9. CASE old = 0
  <2>1. m = n + 1 BY <1>1, <1>3, <1>5, <1>6, <1>9 DEF Carries
  <2>2. Carries(c, 0, n + 1)
    <3> SUFFICES ASSUME NEW i \in Ahead(c) PROVE c[i].n = (n + 1) + (i - 0) - 1 /\ ~(i <= 0)
      BY DEF Carries
    <3>1. i \in 1 .. Len(c) /\ i + 1 \in Ahead(flow) BY <1>4, <1>7
    <3>2. flow[i + 1].n = n + ((i + 1) - 0) - 1 BY <1>5, <1>9, <3>1 DEF Carries
    <3> QED BY <1>2, <3>1, <3>2
  <2>3. (live /\ Ahead(c) = DOMAIN c) => Len(c) - 0 = total - (n + 1)
    BY <1>1, <1>2, <1>5, <1>8, <1>9
  <2>4. 0 \in 0 .. Len(c) BY <1>2
  <2> HIDE DEF m
  <2> QED BY <2>1, <2>2, <2>3, <2>4 DEF Steady, c, m
<1>10. CASE old # 0
  <2>1. m = n BY <1>1, <1>3, <1>5, <1>6, <1>10 DEF Carries
  <2>2. Carries(c, old - 1, n)
    <3> SUFFICES ASSUME NEW i \in Ahead(c)
                 PROVE  IF i <= old - 1 THEN c[i].n < n ELSE c[i].n = n + (i - (old - 1)) - 1
      BY DEF Carries
    <3>1. i \in 1 .. Len(c) /\ i + 1 \in Ahead(flow) /\ c[i] = flow[i + 1] BY <1>2, <1>4, <1>7
    <3>2. IF i + 1 <= old THEN flow[i + 1].n < n ELSE flow[i + 1].n = n + ((i + 1) - old) - 1
      BY <1>5, <3>1 DEF Carries
    <3> QED BY <1>1, <3>1, <3>2
  <2>3. (live /\ Ahead(c) = DOMAIN c) => Len(c) - (old - 1) = total - n
    BY <1>1, <1>2, <1>5, <1>8, <1>10
  <2>4. old - 1 \in 0 .. Len(c) BY <1>1, <1>2, <1>10
  <2> HIDE DEF m
  <2> QED BY <2>1, <2>2, <2>3, <2>4 DEF Steady, c, m
<1> QED BY <1>9, <1>10

\* Whatever follows an end does not matter.
LEMMA SteadyCut ==
  ASSUME NEW q \in Seq(Items), NEW r \in Seq(Items), r # <<>>, Head(r).kind = "end",
         NEW n \in Nat, NEW live, NEW total, NEW more, Steady(q \o r, n, live, total)
  PROVE  Steady(q \o <<EndOfStream>>, n, live, more)
<1> DEFINE c == q \o r
           d == q \o <<EndOfStream>>
<1>1. <<EndOfStream>> \in Seq(Items) /\ Len(<<EndOfStream>>) = 1 BY EndIsItem
<1>2. /\ Len(q) \in Nat /\ Len(r) \in Nat /\ 1 \in 1 .. Len(r) /\ r[1] = Head(r)
  BY LenProperties, EmptySeq
<1>3. /\ c \in Seq(Items) /\ Len(c) = Len(q) + Len(r)
      /\ \A i \in 1 .. Len(q) + Len(r) : c[i] = IF i <= Len(q) THEN q[i] ELSE r[i - Len(q)]
  BY ConcatProperties
<1>4. /\ d \in Seq(Items) /\ Len(d) = Len(q) + 1
      /\ \A i \in 1 .. Len(q) + 1 : d[i] = IF i <= Len(q) THEN q[i] ELSE <<EndOfStream>>[i - Len(q)]
  BY <1>1, ConcatProperties
<1> HIDE DEF c, d
<1>5. /\ Ahead(c) \subseteq 1 .. Len(c) /\ DOMAIN c = 1 .. Len(c)
      /\ \A i \in 1 .. Len(c) : i \in Ahead(c) <=> \A j \in 1 .. i : c[j].kind # "end"
  BY <1>3, AheadProperties
<1>6. /\ Ahead(d) \subseteq 1 .. Len(d) /\ DOMAIN d = 1 .. Len(d)
      /\ \A i \in 1 .. Len(d) : i \in Ahead(d) <=> \A j \in 1 .. i : d[j].kind # "end"
  BY <1>4, AheadProperties
<1>7. Len(q) + 1 \in 1 .. Len(d) /\ d[Len(q) + 1] = EndOfStream
  BY <1>2, <1>4
<1>8. Len(q) + 1 \notin Ahead(d) BY <1>2, <1>6, <1>7, EndIsItem
<1>9. \A i \in 1 .. Len(q) : i \in Ahead(d) <=> i \in Ahead(c)
  <2>1. \A j \in 1 .. Len(q) : c[j] = q[j] /\ d[j] = q[j] BY <1>2, <1>3, <1>4
  <2>2. \A i \in 1 .. Len(q) : i \in 1 .. Len(c) /\ i \in 1 .. Len(d) /\ 1 .. i \subseteq 1 .. Len(q)
    BY <1>2, <1>3, <1>4
  <2>3. \A i \in 1 .. Len(q) : \A j \in 1 .. i : c[j] = d[j] BY <2>1, <2>2
  <2>4. \A i \in 1 .. Len(q) : i \in Ahead(c) <=> \A j \in 1 .. i : c[j].kind # "end"
    BY <1>5, <2>2
  <2>5. \A i \in 1 .. Len(q) : i \in Ahead(d) <=> \A j \in 1 .. i : d[j].kind # "end"
    BY <1>6, <2>2
  <2> QED BY <2>3, <2>4, <2>5
<1>10. PICK old \in 0 .. Len(c) : Carries(c, old, n) BY DEF Steady, c
<1>11. PICK k \in 0 .. Len(q) : (old <= Len(q) /\ k = old) \/ (old > Len(q) /\ k = Len(q))
  <2>1. CASE old <= Len(q)
    <3>1. old \in 0 .. Len(q) BY <1>2, <1>3, <2>1
    <3> QED BY <2>1, <3>1
  <2>2. CASE old > Len(q)
    <3>1. Len(q) \in 0 .. Len(q) BY <1>2
    <3> QED BY <2>2, <3>1
  <2> QED BY <1>2, <1>3, <2>1, <2>2
<1>12. Carries(d, k, n)
  <2> SUFFICES ASSUME NEW i \in Ahead(d)
               PROVE  IF i <= k THEN d[i].n < n ELSE d[i].n = n + (i - k) - 1
    BY DEF Carries
  <2>1. i \in 1 .. Len(q)
    <3>1. i \in 1 .. Len(q) + 1 /\ i # Len(q) + 1 BY <1>4, <1>6, <1>8
    <3> QED BY <1>2, <3>1
  <2>2. i \in Ahead(c) BY <1>9, <2>1
  <2>3. d[i] = c[i]
    <3>1. i \in 1 .. Len(q) + 1 /\ i \in 1 .. Len(q) + Len(r) /\ i <= Len(q) BY <1>2, <2>1
    <3> QED BY <1>3, <1>4, <3>1
  <2>4. IF i <= old THEN c[i].n < n ELSE c[i].n = n + (i - old) - 1
    BY <1>10, <2>2 DEF Carries
  <2>5. i <= old <=> i <= k BY <1>2, <1>3, <1>11, <2>1
  <2>6. ~(i <= k) => k = old BY <1>2, <1>11, <2>1
  <2> QED BY <2>3, <2>4, <2>5, <2>6
<1>13. Ahead(d) # DOMAIN d BY <1>6, <1>7, <1>8
<1>14. k \in 0 .. Len(d) BY <1>2, <1>4
<1> QED BY <1>12, <1>13, <1>14 DEF Steady, d

\* A stream that registers is owed what comes after all that is scheduled.
LEMMA SteadyFresh ==
  ASSUME NEW flow \in Seq(Items), NEW total \in Nat, NEW live,
         \A i \in DOMAIN flow : flow[i].kind # "end" => flow[i].n < total
  PROVE  Steady(flow, total, live, total)
<1>1. /\ Len(flow) \in Nat /\ Ahead(flow) \subseteq 1 .. Len(flow) /\ DOMAIN flow = 1 .. Len(flow)
      /\ \A i \in 1 .. Len(flow) : i \in Ahead(flow) <=> \A j \in 1 .. i : flow[j].kind # "end"
  BY AheadProperties
<1>2. Carries(flow, Len(flow), total)
  <2> SUFFICES ASSUME NEW i \in Ahead(flow) PROVE i <= Len(flow) /\ flow[i].n < total
    BY DEF Carries
  <2>1. i \in 1 .. Len(flow) /\ i \in 1 .. i /\ i \in DOMAIN flow BY <1>1
  <2>2. flow[i].kind # "end" BY <1>1, <2>1
  <2> QED BY <1>1, <2>1, <2>2
<1>3. Len(flow) - Len(flow) = total - total /\ Len(flow) \in 0 .. Len(flow) BY <1>1
<1> QED BY <1>2, <1>3 DEF Steady

\* A stream that is told no more is not owed more.
LEMMA SteadyDead ==
  ASSUME NEW flow, NEW n, NEW live, NEW total, NEW more, Steady(flow, n, live, total)
  PROVE  Steady(flow, n, FALSE, more)
BY DEF Steady

LEMMA Joined ==
  ASSUME NEW q \in Seq(Items), NEW r \in Seq(Items), NEW e \in Items
  PROVE  /\ q \o Append(r, e) = Append(q \o r, e)
         /\ Append(q, e) = q \o <<e>>
         /\ q # <<>> => q \o r # <<>> /\ Head(q \o r) = Head(q) /\ Tail(q) \o r = Tail(q \o r)
         /\ r # <<>> => Append(q, Head(r)) \o Tail(r) = q \o r
         /\ q \o <<>> = q /\ <<>> \o q = q
<1>1. q \o Append(r, e) = Append(q \o r, e)
  <2>1. /\ Append(r, e) \in Seq(Items) /\ Len(Append(r, e)) = Len(r) + 1
        /\ \A i \in 1 .. Len(r) : Append(r, e)[i] = r[i]
        /\ Append(r, e)[Len(r) + 1] = e
    BY AppendProperties
  <2>2. r \in Seq(Items) /\ Append(r, e) = r \o <<e>> /\ <<e>> \in Seq(Items)
    BY AppendIsConcat
  <2>3. q \o r \in Seq(Items) BY ConcatProperties
  <2>4. Append(q \o r, e) = (q \o r) \o <<e>> BY <2>3, AppendIsConcat
  <2>5. (q \o r) \o <<e>> = q \o (r \o <<e>>) BY <2>2, ConcatAssociative
  <2> QED BY <2>2, <2>4, <2>5
<1>2. Append(q, e) = q \o <<e>> BY AppendIsConcat
<1>3. ASSUME q # <<>>
      PROVE  q \o r # <<>> /\ Head(q \o r) = Head(q) /\ Tail(q) \o r = Tail(q \o r)
  <2>1. /\ q \o r \in Seq(Items) /\ Len(q \o r) = Len(q) + Len(r)
        /\ \A i \in 1 .. Len(q) + Len(r) : (q \o r)[i] = IF i <= Len(q) THEN q[i] ELSE r[i - Len(q)]
    BY ConcatProperties
  <2>2. Len(q) \in Nat \ {0} /\ Len(r) \in Nat BY <1>3, EmptySeq, LenProperties
  <2>3. q \o r # <<>> BY <2>1, <2>2, EmptySeq
  <2>4. Head(q \o r) = Head(q) BY <2>1, <2>2
  <2>5. /\ Tail(q) \in Seq(Items) /\ Len(Tail(q)) = Len(q) - 1
        /\ \A i \in 1 .. Len(Tail(q)) : Tail(q)[i] = q[i + 1]
    BY <1>3, HeadTailProperties
  <2>6. /\ Tail(q \o r) \in Seq(Items) /\ Len(Tail(q \o r)) = Len(q \o r) - 1
        /\ \A i \in 1 .. Len(Tail(q \o r)) : Tail(q \o r)[i] = (q \o r)[i + 1]
    BY <2>1, <2>3, HeadTailProperties
  <2>7. /\ Tail(q) \o r \in Seq(Items) /\ Len(Tail(q) \o r) = Len(q) - 1 + Len(r)
        /\ \A i \in 1 .. Len(q) - 1 + Len(r) :
             (Tail(q) \o r)[i] = IF i <= Len(q) - 1 THEN Tail(q)[i] ELSE r[i - (Len(q) - 1)]
    BY <2>5, ConcatProperties
  <2>8. \A i \in 1 .. Len(q) - 1 + Len(r) : (Tail(q) \o r)[i] = Tail(q \o r)[i]
    <3> SUFFICES ASSUME NEW i \in 1 .. Len(q) - 1 + Len(r)
                 PROVE  (Tail(q) \o r)[i] = Tail(q \o r)[i]
      OBVIOUS
    <3>1. Tail(q \o r)[i] = (q \o r)[i + 1] BY <2>1, <2>2, <2>6
    <3>2. (q \o r)[i + 1] = IF i + 1 <= Len(q) THEN q[i + 1] ELSE r[i + 1 - Len(q)] BY <2>1, <2>2
    <3>3. CASE i <= Len(q) - 1 BY <2>2, <2>5, <2>7, <3>1, <3>2, <3>3
    <3>4. CASE i > Len(q) - 1
      <4>1. i + 1 - Len(q) = i - (Len(q) - 1) /\ ~(i + 1 <= Len(q)) /\ ~(i <= Len(q) - 1) BY <2>2, <3>4
      <4> QED BY <2>7, <3>1, <3>2, <4>1
    <3> QED BY <2>2, <3>3, <3>4
  <2>9. Len(Tail(q) \o r) = Len(Tail(q \o r)) BY <2>1, <2>2, <2>6, <2>7
  <2>10. Tail(q) \o r = Tail(q \o r) BY <2>6, <2>7, <2>8, <2>9, SeqEqual
  <2> QED BY <2>3, <2>4, <2>10
<1>4. ASSUME r # <<>> PROVE Append(q, Head(r)) \o Tail(r) = q \o r
  <2>1. Head(r) \in Items /\ Tail(r) \in Seq(Items) BY <1>4, HeadTailProperties
  <2>2. Append(q, Head(r)) = q \o <<Head(r)>> /\ <<Head(r)>> \in Seq(Items)
    BY <2>1, AppendIsConcat
  <2>3. (q \o <<Head(r)>>) \o Tail(r) = q \o (<<Head(r)>> \o Tail(r))
    BY <2>1, <2>2, ConcatAssociative
  <2>4. <<Head(r)>> \o Tail(r) = r BY <1>4
  <2> QED BY <2>2, <2>3, <2>4
<1>5. q \o <<>> = q /\ <<>> \o q = q BY ConcatEmptySeq
<1> QED BY <1>1, <1>2, <1>3, <1>4, <1>5

-----------------------------------------------------------------------------
LEMMA DueType ==
  ASSUME StreamTypeOK
  PROVE  /\ Due \in Seq(Items) /\ scheduled \in Seq(Items) /\ pending \in Seq(Items)
         /\ pending = <<>> => Due = scheduled
         /\ pending # <<>> => Head(pending) \in Items /\ pending = <<Head(pending)>>
<1>1. scheduled \in Seq(Items) /\ pending \in Seq(Items) /\ Len(pending) <= 1
  BY DEF StreamTypeOK
<1>2. Due \in Seq(Items) BY <1>1, ConcatProperties DEF Due
<1>3. ASSUME pending = <<>> PROVE Due = scheduled BY <1>1, <1>3, ConcatEmptySeq DEF Due
<1>4. ASSUME pending # <<>> PROVE Head(pending) \in Items /\ pending = <<Head(pending)>>
  <2>0. pending \in Seq(Items) /\ pending # <<>> /\ Head(pending) = pending[1]
    BY <1>1, <1>4 DEF Head
  <2>1. Len(pending) = 1 /\ Head(pending) = pending[1]
    <3>1. Len(pending) \in Nat BY <2>0, LenProperties
    <3>2. Len(pending) # 0 BY <2>0, EmptySeq
    <3>3. ASSUME NEW n \in Nat, n # 0, n <= 1 PROVE n = 1 BY <3>3
    <3>4. Len(pending) <= 1 BY <1>1
    <3>5. Len(pending) = 1 BY <3>1, <3>2, <3>3, <3>4, Zenon
    <3> QED BY <2>0, <3>5
  <2>2. pending[1] \in Items
    <3>1. 1 \in 1 .. Len(pending) BY <2>1
    <3> QED BY <2>0, <3>1, ElementOfSeq
  <2>3. <<pending[1]>> \in Seq(Items) /\ Len(<<pending[1]>>) = 1 /\ <<pending[1]>>[1] = pending[1]
    BY <2>2
  <2>4. \A i \in 1 .. 1 : pending[i] = <<pending[1]>>[i] BY <2>3
  <2>5. pending = <<pending[1]>> BY <1>1, <2>1, <2>3, <2>4, SeqEqual
  <2> QED BY <2>1, <2>2, <2>5
<1> QED BY <1>1, <1>2, <1>3, <1>4

LEMMA FlowType ==
  ASSUME StreamTypeOK, NEW s \in Streams
  PROVE  /\ queue[s] \in Seq(Items) /\ Due \in Seq(Items) /\ Coming(s) \in Seq(Items)
         /\ owed[s] \in Nat /\ events \in Nat
<1>1. queue[s] \in Seq(Items) /\ Due \in Seq(Items) /\ owed[s] \in Nat /\ events \in Nat
  BY DueType DEF StreamTypeOK
<1>2. <<EndOfStream>> \in Seq(Items) /\ <<>> \in Seq(Items) BY EndIsItem
<1> QED BY <1>1, <1>2, ConcatProperties DEF Coming

LEMMA FlowIs ==
  ASSUME NEW s
  PROVE  /\ s \notin active => Coming(s) = queue[s] \o <<>>
         /\ s \in active /\ s \in Range(closing) => Coming(s) = queue[s] \o <<EndOfStream>>
         /\ s \in active /\ s \notin Range(closing) => Coming(s) = queue[s] \o Due
BY Zenon DEF Coming

LEMMA FlowBecomes ==
  ASSUME NEW s
  PROVE  /\ s \notin active' => Coming(s)' = queue'[s] \o <<>>
         /\ s \in active' /\ s \in Range(closing') => Coming(s)' = queue'[s] \o <<EndOfStream>>
         /\ s \in active' /\ s \notin Range(closing') => Coming(s)' = queue'[s] \o Due'
BY Zenon DEF Coming

LEMMA ServedStep ==
  ASSUME NEW s, NEW flow, NEW n, NEW live, NEW total, Steady(flow, n, live, total),
         flow = Coming(s)', n = owed'[s], live = (s \in active'), total = events'
  PROVE  Served(s)'
BY DEF Served

LEMMA ServedLive ==
  ASSUME NEW s, NEW flow, NEW n, NEW total, Steady(flow, n, TRUE, total),
         flow = Coming(s)', n = owed'[s], s \in active', total = events'
  PROVE  Served(s)'
<1>1. Steady(flow, n, s \in active', total) BY DEF Steady
<1> QED BY <1>1, ServedStep

LEMMA ServedOver ==
  ASSUME NEW s, NEW flow, NEW n, NEW total, Steady(flow, n, FALSE, total),
         flow = Coming(s)', n = owed'[s], s \notin active', total = events'
  PROVE  Served(s)'
<1>1. Steady(flow, n, s \in active', total) BY DEF Steady
<1> QED BY <1>1, ServedStep

\* What does not touch a stream's flow keeps it served.
LEMMA ServedStays ==
  ASSUME NEW s, Served(s), Watching(s)' => Watching(s), s \in dropped => s \in dropped',
         queue'[s] = queue[s], owed'[s] = owed[s], s \in active' <=> s \in active,
         events' = events,
         s \in active => /\ s \in Range(closing') <=> s \in Range(closing)
                         /\ s \notin Range(closing) => Due' = Due
  PROVE  Served(s)'
<1>1. Coming(s)' = Coming(s) BY FlowIs, FlowBecomes
<1> QED BY <1>1 DEF Served

\* What changes nothing of what a look has to do with.
LEMMA LookingStays ==
  ASSUME Looking, UNCHANGED <<lookVars, events, subscribers, closing, active, owed>>
  PROVE  Looking'
BY DEF Looking, Passed, Open, lookVars

\* What publishes, takes, registers and closes nothing.
LEMMA Hush ==
  ASSUME StreamOrder, Looking', Due' = Due,
         UNCHANGED <<subscribers, closing, active, queue, owed, dropped, events>>,
         \A s \in Streams : Watching(s)' => Watching(s)
  PROVE  StreamOrder'
<1>1. Announced' BY DEF StreamOrder, Announced
<1>2. Present' BY DEF StreamOrder, Present
<1>3. \A s \in Streams : Served(s)' BY ServedStays DEF StreamOrder
<1> QED BY <1>1, <1>2, <1>3 DEF StreamOrder

LEMMA Quiet ==
  ASSUME StreamOrder,
         UNCHANGED <<lookVars, scheduled, subscribers, closing, active, queue, owed, dropped, events>>,
         \A s \in Streams : Watching(s)' => Watching(s)
  PROVE  StreamOrder'
<1>1. Looking' BY LookingStays DEF StreamOrder
<1>2. Due' = Due BY DEF Due, lookVars
<1> QED BY <1>1, <1>2, Hush

\* An event is published.
LEMMA PublishOrder ==
  ASSUME StreamTypeOK, StreamOrder, NEW kind \in {"progress", "completion"}, PublishSync(kind)
  PROVE  StreamOrder'
<1> DEFINE e == Event(kind)
<1>1. e \in Items /\ e.n = events /\ e.kind # "end" /\ events' = events + 1 /\ events \in Nat
  BY DEF PublishSync, Event, Items, StreamTypeOK
<1>0. UNCHANGED <<subscribers, closing, active, at, queue, owed, dropped, scheduled>>
  BY DEF PublishSync, loopVars, queueVars
<1> HIDE DEF e
<1>2. Due' = Append(Due, e) \/ (subscribers = <<>> /\ Due' = Due)
  <2>1. CASE subscribers = <<>> BY <1>0, <2>1 DEF PublishSync, Due
  <2>2. CASE subscribers # <<>>
    <3>1. pending' = <<e>> /\ Due = scheduled BY <2>2, DueType DEF PublishSync, e
    <3>2. Due' = scheduled \o <<e>> BY <1>0, <3>1 DEF Due
    <3> QED BY <1>1, <3>1, <3>2, DueType, AppendIsConcat
  <2> QED BY <2>1, <2>2
<1>3. /\ Due \in Seq(Items) /\ Len(Due) \in Nat /\ DOMAIN Due = 1 .. Len(Due)
      /\ \A i \in 1 .. Len(Due) : Due[i].n \in Nat
  BY DueType, AheadProperties
<1>4. Announced'
  <2>1. \A i \in 1 .. Len(Due) : Due[i].kind # "end" => Due[i].n < events + 1
    BY <1>1, <1>3 DEF StreamOrder, Announced
  <2>2. CASE Due' = Due BY <1>1, <1>3, <2>1, <2>2 DEF Announced
  <2>3. CASE Due' = Append(Due, e)
    <3>1. /\ Due' \in Seq(Items) /\ Len(Due') = Len(Due) + 1
          /\ \A i \in 1 .. Len(Due) : Due'[i] = Due[i]
          /\ Due'[Len(Due) + 1] = e
      BY <1>1, <1>3, <2>3, AppendProperties
    <3>2. DOMAIN Due' = 1 .. Len(Due) + 1 BY <3>1, LenProperties
    <3> SUFFICES ASSUME NEW i \in 1 .. Len(Due) + 1, Due'[i].kind # "end"
                 PROVE  Due'[i].n < events'
      BY <3>2 DEF Announced
    <3>3. CASE i \in 1 .. Len(Due) BY <1>1, <2>1, <3>1, <3>3
    <3>4. CASE i = Len(Due) + 1 BY <1>1, <3>1, <3>4
    <3> QED BY <1>3, <3>3, <3>4
  <2> QED BY <1>2, <2>2, <2>3
<1>5. Present' BY <1>0 DEF StreamOrder, Present, Watching
<1>6. ASSUME NEW s \in Streams PROVE Served(s)'
  <2> SUFFICES ASSUME s \notin dropped, Watching(s) PROVE Served(s)'
    BY <1>0 DEF Served, Watching
  <2>1. Steady(Coming(s), owed[s], s \in active, events) BY DEF StreamOrder, Served
  <2>2. /\ queue[s] \in Seq(Items) /\ Coming(s) \in Seq(Items) /\ owed[s] \in Nat
    BY FlowType
  <2>3. CASE s \notin active
    <3>1. Coming(s)' = Coming(s) BY <1>0, <2>3, FlowIs, FlowBecomes
    <3>2. Steady(Coming(s), owed[s], FALSE, events + 1) BY <2>1, SteadyDead
    <3> QED BY <1>0, <1>1, <2>3, <3>1, <3>2, ServedOver
  <2>4. CASE s \in active /\ s \in Range(closing)
    <3>1. Coming(s) = queue[s] \o <<EndOfStream>> /\ Coming(s)' = Coming(s)
      BY <1>0, <2>4, FlowIs, FlowBecomes
    <3>2. /\ <<EndOfStream>> \in Seq(Items) /\ <<EndOfStream>> # <<>>
          /\ Head(<<EndOfStream>>).kind = "end"
      BY EndIsItem
    <3>3. Steady(queue[s] \o <<EndOfStream>>, owed[s], TRUE, events)
      BY <2>1, <2>4, <3>1 DEF Steady
    <3>4. Steady(Coming(s), owed[s], TRUE, events + 1)
      BY <2>2, <3>1, <3>2, <3>3, SteadyCut
    <3> QED BY <1>0, <1>1, <2>4, <3>1, <3>4, ServedLive
  <2>5. CASE s \in active /\ s \notin Range(closing)
    <3>1. subscribers # <<>>
      <4>1. s \in Range(subscribers) BY DEF StreamOrder, Present
      <4> QED BY <4>1, EmptySeq DEF Range
    <3>2. Coming(s)' = queue[s] \o Append(Due, e) BY <1>0, <1>2, <2>5, <3>1, FlowBecomes
    <3>3. Coming(s) = queue[s] \o Due BY <2>5, FlowIs
    <3>4. Coming(s)' = Append(Coming(s), e)
      <4>1. queue[s] \o Append(Due, e) = Append(queue[s] \o Due, e)
        <5>1. queue[s] \in Seq(Items) /\ Due \in Seq(Items) /\ e \in Items BY <1>1, <1>3, <2>2
        <5> QED BY <5>1, Joined, ZenonT(60)
      <4> QED BY <3>2, <3>3, <4>1
    <3>5. Steady(Append(Coming(s), e), owed[s], TRUE, events + 1)
      <4>1. Steady(Coming(s), owed[s], TRUE, events) BY <2>1, <2>5 DEF Steady
      <4>2. e.n = events /\ events \in Nat /\ events + 1 \in Nat /\ e \in Items BY <1>1
      <4> QED BY <2>2, <4>1, <4>2, SteadyAppend
    <3> QED BY <1>0, <1>1, <2>5, <3>4, <3>5, ServedLive
  <2> QED BY <2>3, <2>4, <2>5
<1>7. Looking'
  <2>1. pending' = <<>> \/ (cursor' = 1 /\ pending' = <<e>>) BY DEF PublishSync, e
  <2>2. DOMAIN subscribers' = 1 .. Len(subscribers') BY <1>0, LenProperties DEF StreamTypeOK
  <2> QED BY <1>1, <2>1, <2>2 DEF Looking
<1> QED BY <1>4, <1>5, <1>6, <1>7 DEF StreamOrder

LEMMA CompleteSyncOrder == ASSUME StreamTypeOK, StreamOrder, CompleteSync PROVE StreamOrder'
<1>0. /\ UNCHANGED <<events, subscribers, closing, active, at, queue, owed, dropped>>
      /\ pending = <<>> /\ pending' = <<>>
      /\ scheduled' = scheduled \/ scheduled' = Append(scheduled, EndOfStream)
  BY DEF CompleteSync, queueVars
<1>1. UNCHANGED <<events, subscribers, closing, active, at, queue, owed, dropped>> /\ Looking'
  BY <1>0 DEF Looking
<1>2. CASE scheduled' = scheduled
  <2>1. Due' = Due BY <1>0, <1>2 DEF Due
  <2> QED BY <1>1, <2>1, Hush DEF Watching
<1>3. CASE scheduled' = Append(scheduled, EndOfStream)
  <2>0. Due' = Append(Due, EndOfStream)
    <3>1. Due = scheduled /\ scheduled \in Seq(Items) BY <1>0, DueType
    <3>2. Append(scheduled, EndOfStream) \in Seq(Items) BY <3>1, EndIsItem
    <3>3. Due' = scheduled' \o <<>> BY <1>0 DEF Due
    <3> QED BY <1>3, <3>1, <3>2, <3>3, ConcatEmptySeq
  <2>1. /\ Due \in Seq(Items) /\ Len(Due) \in Nat /\ DOMAIN Due = 1 .. Len(Due)
    BY DueType, AheadProperties
  <2>2. Announced'
    <3>1. /\ Due' \in Seq(Items) /\ Len(Due') = Len(Due) + 1
          /\ \A i \in 1 .. Len(Due) : Due'[i] = Due[i]
          /\ Due'[Len(Due) + 1] = EndOfStream
      BY <2>0, <2>1, EndIsItem, AppendProperties
    <3>2. DOMAIN Due' = 1 .. Len(Due) + 1 BY <3>1, LenProperties
    <3>3. \A i \in 1 .. Len(Due) + 1 : i \in 1 .. Len(Due) \/ i = Len(Due) + 1
      BY <2>1
    <3> QED BY <1>1, <2>1, <3>1, <3>2, <3>3, EndIsItem DEF StreamOrder, Announced
  <2>3. Present' BY <1>1 DEF StreamOrder, Present, Watching
  <2>4. ASSUME NEW s \in Streams PROVE Served(s)'
    <3>1. CASE s \in active /\ s \notin Range(closing) /\ s \notin dropped /\ Watching(s)
      <4>1. /\ Steady(Coming(s), owed[s], s \in active, events)
            /\ queue[s] \in Seq(Items) /\ Coming(s) \in Seq(Items) /\ owed[s] \in Nat /\ events \in Nat
        BY <3>1, FlowType DEF StreamOrder, Served
      <4>2. Coming(s)' = queue[s] \o Append(Due, EndOfStream) /\ Coming(s) = queue[s] \o Due
        BY <1>1, <2>0, <3>1, FlowIs, FlowBecomes
      <4>3. Coming(s)' = Append(Coming(s), EndOfStream)
        <5>1. queue[s] \o Append(Due, EndOfStream) = Append(queue[s] \o Due, EndOfStream)
          BY <2>1, <4>1, EndIsItem, Joined, ZenonT(60)
        <5> QED BY <4>2, <5>1
      <4>4. Steady(Append(Coming(s), EndOfStream), owed[s], TRUE, events)
        BY <3>1, <4>1, EndIsItem, SteadyAppend
      <4> QED BY <1>1, <3>1, <4>3, <4>4, ServedStep
    <3>2. CASE s \notin active \/ s \in Range(closing)
      BY <1>1, <3>2, ServedStays DEF StreamOrder, Watching
    <3>3. CASE s \in dropped \/ ~Watching(s) BY <1>1, <3>3 DEF Served, Watching
    <3> QED BY <3>1, <3>2, <3>3
  <2> QED BY <1>1, <2>2, <2>3, <2>4 DEF StreamOrder
<1> QED BY <1>0, <1>2, <1>3

\* The loop takes a coroutine off its list.
LEMMA DueTail ==
  ASSUME StreamTypeOK, scheduled # <<>>, scheduled' = Tail(scheduled), pending' = pending
  PROVE  Due # <<>> /\ Head(Due) = Head(scheduled) /\ Due' = Tail(Due)
<1>1. scheduled \in Seq(Items) /\ pending \in Seq(Items) BY DueType
<1>2. Due' = Tail(scheduled) \o pending BY DEF Due
<1> QED BY <1>1, <1>2, EndIsItem, Joined DEF Due

LEMMA ScheduledTail ==
  ASSUME StreamTypeOK, Announced, Due # <<>>, Due' = Tail(Due), events' = events
  PROVE  Announced'
<1>1. /\ Due \in Seq(Items) /\ Len(Due) \in Nat /\ DOMAIN Due = 1 .. Len(Due)
  BY DueType, AheadProperties
<1>2. /\ Due' \in Seq(Items) /\ Len(Due') = Len(Due) - 1
      /\ \A i \in 1 .. Len(Due') : Due'[i] = Due[i + 1]
  BY <1>1, HeadTailProperties
<1>3. DOMAIN Due' = 1 .. Len(Due) - 1 BY <1>2, LenProperties
<1>4. \A i \in 1 .. Len(Due) - 1 : i + 1 \in 1 .. Len(Due) BY <1>1
<1> QED BY <1>1, <1>2, <1>3, <1>4 DEF Announced

LEMMA RunPublishOrder == ASSUME StreamTypeOK, StreamOrder, RunPublish PROVE StreamOrder'
<1>1. /\ closing = <<>> /\ scheduled # <<>> /\ scheduled' = Tail(scheduled)
      /\ UNCHANGED <<events, lookVars, subscribers, closing, active, at, owed>>
  BY DEF RunPublish, LockFree
<1>0. Due # <<>> /\ Head(Due) = Head(scheduled) /\ Due' = Tail(Due) /\ Looking'
  BY <1>1, DueTail, LookingStays DEF StreamOrder, lookVars
<1>2. Announced' BY <1>0, <1>1, ScheduledTail DEF StreamOrder
<1>3. Present' BY <1>1 DEF StreamOrder, Present, Watching
<1>4. ASSUME NEW s \in Streams PROVE Served(s)'
  <2>1. s \in dropped => s \in dropped' BY DEF RunPublish
  <2>2. CASE s \notin active
    <3>1. queue'[s] = queue[s] BY <2>2 DEF RunPublish
    <3> QED BY <1>1, <2>1, <2>2, <3>1, ServedStays DEF StreamOrder, Watching
  <2>3. CASE s \in active /\ s \notin dropped' /\ Watching(s)
    <3>1. s \in Range(subscribers) /\ s \notin dropped BY <2>1, <2>3 DEF StreamOrder, Present
    <3>2. ~Full(s) BY <2>3, <3>1 DEF RunPublish
    <3>3. queue'[s] = Append(queue[s], Head(Due)) BY <1>0, <2>3, <3>1, <3>2 DEF RunPublish
    <3>4. s \notin Range(closing) /\ s \notin Range(closing') BY <1>1 DEF Range
    <3>5. /\ Coming(s) = queue[s] \o Due
          /\ Coming(s)' = Append(queue[s], Head(Due)) \o Tail(Due)
      BY <1>0, <1>1, <2>3, <3>3, <3>4, FlowIs, FlowBecomes
    <3>6. queue[s] \in Seq(Items) /\ Due \in Seq(Items) BY FlowType
    <3>7. Head(Due) \in Items BY <1>0, <3>6, HeadTailProperties
    <3>8. Coming(s)' = Coming(s) BY <1>0, <3>5, <3>6, <3>7, Joined
    <3>9. Steady(Coming(s), owed[s], s \in active, events)
      BY <2>3, <3>1 DEF StreamOrder, Served
    <3> QED BY <1>1, <3>8, <3>9, ServedStep
  <2>4. CASE s \in dropped' \/ ~Watching(s) BY <1>1, <2>4 DEF Served, Watching
  <2> QED BY <2>2, <2>3, <2>4
<1> QED BY <1>0, <1>2, <1>3, <1>4 DEF StreamOrder

LEMMA RunCompleteOrder == ASSUME StreamTypeOK, StreamOrder, RunComplete PROVE StreamOrder'
<1>1. /\ closing = <<>> /\ scheduled # <<>> /\ scheduled' = Tail(scheduled) /\ closing' = subscribers
      /\ UNCHANGED <<events, lookVars, subscribers, active, at, queue, owed, dropped>>
  BY DEF RunComplete, LockFree
<1>0. Due # <<>> /\ Head(Due) = Head(scheduled) /\ Due' = Tail(Due)
  BY <1>1, DueTail DEF lookVars
<1>5. Looking'
  <2>1. \A s : Open(s)' => Open(s) BY <1>1 DEF Open
  <2> QED BY <1>1, <2>1 DEF StreamOrder, Looking, Passed, lookVars
<1>2. Announced' BY <1>0, <1>1, ScheduledTail DEF StreamOrder
<1>3. Present' BY <1>1 DEF StreamOrder, Present, Watching
<1>4. ASSUME NEW s \in Streams PROVE Served(s)'
  <2>1. CASE s \notin active BY <1>1, <2>1, ServedStays DEF StreamOrder, Watching
  <2>2. CASE s \in active /\ s \notin dropped /\ Watching(s)
    <3>1. s \in Range(closing') /\ s \notin Range(closing)
      BY <1>1, <2>2 DEF StreamOrder, Present, Range
    <3>2. Coming(s) = queue[s] \o Due /\ Coming(s)' = queue[s] \o <<EndOfStream>>
      BY <1>1, <2>2, <3>1, FlowIs, FlowBecomes
    <3>3. Steady(Coming(s), owed[s], s \in active, events) BY <2>2 DEF StreamOrder, Served
    <3>4. /\ queue[s] \in Seq(Items) /\ Due \in Seq(Items) /\ owed[s] \in Nat
          /\ Head(Due).kind = "end"
      BY <1>0, FlowType DEF RunComplete
    <3>5. Steady(queue[s] \o <<EndOfStream>>, owed[s], s \in active, events)
      BY <1>0, <3>2, <3>3, <3>4, SteadyCut
    <3> QED BY <1>1, <3>2, <3>5, ServedStep
  <2>3. CASE s \in dropped \/ ~Watching(s) BY <1>1, <2>3 DEF Served, Watching
  <2> QED BY <2>1, <2>2, <2>3
<1> QED BY <1>2, <1>3, <1>4, <1>5 DEF StreamOrder

\* The members of a list without its first.
LEMMA TailMembers ==
  ASSUME NEW S, NEW list \in Seq(S), list # <<>>
  PROVE  Head(list) \in Range(list) /\ Range(list) = Range(Tail(list)) \cup {Head(list)}
<1>1. /\ Len(list) \in Nat \ {0} /\ DOMAIN list = 1 .. Len(list) /\ Head(list) = list[1]
  BY EmptySeq, LenProperties
<1>2. /\ Tail(list) \in Seq(S) /\ Len(Tail(list)) = Len(list) - 1
      /\ \A i \in 1 .. Len(Tail(list)) : Tail(list)[i] = list[i + 1]
  BY HeadTailProperties
<1>3. DOMAIN Tail(list) = 1 .. Len(list) - 1 BY <1>2, LenProperties
<1>4. 1 \in DOMAIN list BY <1>1
<1>5. \A i \in DOMAIN list : i = 1 \/ (i - 1 \in DOMAIN Tail(list) /\ Tail(list)[i - 1] = list[i])
  BY <1>1, <1>2, <1>3
<1>6. \A i \in DOMAIN Tail(list) : i + 1 \in DOMAIN list /\ Tail(list)[i] = list[i + 1]
  BY <1>1, <1>2, <1>3
<1> QED BY <1>1, <1>4, <1>5, <1>6 DEF Range

LEMMA PutSentinelOrder == ASSUME StreamTypeOK, StreamOrder, PutSentinel PROVE StreamOrder'
<1>0. PICK h : h = Head(closing) OBVIOUS
<1>1. /\ closing # <<>> /\ closing' = Tail(closing) /\ active' = active \ {h}
      /\ queue' = [queue EXCEPT ![h] = Append(@, EndOfStream)]
      /\ UNCHANGED <<events, lookVars, scheduled, subscribers, at, owed, dropped>>
  BY <1>0 DEF PutSentinel
<1>9. Due' = Due BY <1>1 DEF Due, lookVars
<1>10. Looking'
  <2>1. \A s : Open(s)' => Open(s) BY <1>0, <1>1 DEF Open
  <2> QED BY <1>1, <2>1 DEF StreamOrder, Looking, Passed, lookVars
<1>2. h \in Range(closing) /\ Range(closing) = Range(closing') \cup {h} /\ closing \in Seq(Streams)
  BY <1>0, <1>1, TailMembers DEF StreamTypeOK
<1>3. h \in Streams /\ queue \in [Streams -> Seq(Items)]
  BY <1>0, <1>1, <1>2, HeadTailProperties DEF StreamTypeOK
<1>4. queue'[h] = Append(queue[h], EndOfStream) /\ \A s \in Streams \ {h} : queue'[s] = queue[s]
  BY <1>1, <1>3
<1>5. Announced' BY <1>1, <1>9 DEF StreamOrder, Announced
<1>6. Present' BY <1>1 DEF StreamOrder, Present, Watching
<1>7. ASSUME NEW s \in Streams, s # h PROVE Served(s)'
  <2>1. s \in Range(closing') <=> s \in Range(closing) BY <1>2, <1>7
  <2> QED BY <1>1, <1>4, <1>7, <1>9, <2>1, ServedStays DEF StreamOrder, Watching
<1>8. Served(h)'
  <2> SUFFICES ASSUME h \notin dropped, Watching(h) PROVE Served(h)'
    BY <1>1 DEF Served, Watching
  <2>1. Steady(Coming(h), owed[h], h \in active, events) BY <1>3 DEF StreamOrder, Served
  <2>2. /\ queue[h] \in Seq(Items) /\ Coming(h) \in Seq(Items) /\ owed[h] \in Nat /\ events \in Nat
    BY <1>3, FlowType
  <2>3. h \notin active' BY <1>1
  <2>4. Append(queue[h], EndOfStream) \in Seq(Items) BY <2>2, EndIsItem, AppendProperties
  <2>5. Coming(h)' = Append(queue[h], EndOfStream)
    BY <1>4, <2>3, <2>4, FlowBecomes, ConcatEmptySeq
  <2>6. Steady(Append(queue[h], EndOfStream), owed[h], FALSE, events)
    <3>1. CASE h \in active
      <4>1. Coming(h) = Append(queue[h], EndOfStream)
        BY <1>2, <2>2, <3>1, FlowIs, EndIsItem, AppendIsConcat
      <4> QED BY <2>1, <4>1, SteadyDead
    <3>2. CASE h \notin active
      <4>1. Coming(h) = queue[h] BY <2>2, <3>2, FlowIs, ConcatEmptySeq
      <4>2. Steady(queue[h], owed[h], FALSE, events) BY <2>1, <4>1, SteadyDead
      <4> QED BY <2>2, <4>2, EndIsItem, SteadyAppend
    <3> QED BY <3>1, <3>2
  <2> QED BY <1>1, <2>3, <2>5, <2>6, ServedOver
<1> QED BY <1>5, <1>6, <1>7, <1>8, <1>10 DEF StreamOrder

\* The worker finds an open stream, and leaves the coroutine on the loop.
LEMMA HandOverOrder == ASSUME StreamTypeOK, StreamOrder, HandOver PROVE StreamOrder'
<1>1. /\ pending # <<>> /\ pending' = <<>> /\ scheduled' = Append(scheduled, Head(pending))
      /\ UNCHANGED <<events, subscribers, closing, active, at, queue, owed, dropped>>
  BY DEF HandOver, lookRest, queueVars
<1>2. /\ scheduled \in Seq(Items) /\ Head(pending) \in Items /\ pending = <<Head(pending)>>
      /\ Append(scheduled, Head(pending)) = scheduled \o <<Head(pending)>>
      /\ Append(scheduled, Head(pending)) \in Seq(Items)
  BY <1>1, DueType, AppendIsConcat
<1>3. Due' = Append(scheduled, Head(pending)) BY <1>1, <1>2, ConcatEmptySeq DEF Due
<1>4. Due' = Due BY <1>2, <1>3 DEF Due
<1>5. Looking' BY <1>1 DEF Looking
<1> QED BY <1>1, <1>4, <1>5, Hush DEF Watching

\* It passes a stream that is not open.
LEMMA LookOnOrder == ASSUME StreamTypeOK, StreamOrder, LookOn PROVE StreamOrder'
<1>1. /\ cursor' = cursor + 1 /\ cursor \in DOMAIN subscribers /\ ~Open(subscribers[cursor])
      /\ UNCHANGED <<pending, overlooked, scheduled, events, subscribers, closing, active, at,
                     queue, owed, dropped>>
  BY DEF LookOn, lookRest, queueVars
<1>2. Due' = Due BY <1>1 DEF Due
<1>3. DOMAIN subscribers = 1 .. Len(subscribers) /\ Len(subscribers) \in Nat
  BY LenProperties DEF StreamTypeOK
<1>4. \A s : Passed(s) => PassedThen(s) BY <1>1 DEF Passed, PassedThen, Open
<1>6. pending # <<>> => Head(pending).kind # "end" BY DEF StreamOrder, Looking
<1>5. Looking'
  <2> SUFFICES ASSUME NEW i \in DOMAIN subscribers, cursor' = 0 \/ i < cursor', pending # <<>>
               PROVE  Passed(subscribers[i])
    BY <1>1, <1>4, <1>6, LookingStep
  <2>0. cursor \in Nat BY DEF StreamTypeOK
  <2>1. CASE i = cursor BY <1>1, <2>1 DEF Passed
  <2>2. CASE i # cursor
    <3>1. i < cursor BY <1>1, <1>3, <2>0, <2>2
    <3> QED BY <3>1 DEF StreamOrder, Looking
  <2> QED BY <2>1, <2>2
<1> QED BY <1>1, <1>2, <1>5, Hush DEF Watching

\* It finds none, and drops the event: a stream that still was to be sent it has
\* been overlooked.
LEMMA GiveUpOrder == ASSUME StreamTypeOK, StreamOrder, GiveUp PROVE StreamOrder'
<1>1. /\ pending # <<>> /\ pending' = <<>> /\ cursor \notin DOMAIN subscribers
      /\ dropped' = dropped \cup (overlooked \cap active)
      /\ UNCHANGED <<scheduled, events, subscribers, closing, active, at, queue, owed>>
  BY DEF GiveUp, lookRest, queueVars
<1>2. PICK p \in Items : pending = <<p>> BY <1>1, DueType
<1>3. scheduled \in Seq(Items) /\ Due \in Seq(Items) BY DueType
<1>4. Due' = scheduled BY <1>1, <1>3, ConcatEmptySeq DEF Due
<1>5. Due = Append(scheduled, p) BY <1>2, <1>3, AppendIsConcat DEF Due
<1>6. /\ Len(Due) = Len(scheduled) + 1 /\ Due[Len(scheduled) + 1] = p
      /\ \A i \in 1 .. Len(scheduled) : Due[i] = scheduled[i]
      /\ Len(scheduled) \in Nat /\ DOMAIN scheduled = 1 .. Len(scheduled)
      /\ DOMAIN Due = 1 .. Len(scheduled) + 1
  BY <1>3, <1>5, AppendProperties, LenProperties
<1>7. p.kind # "end" => p.n < events BY <1>6 DEF StreamOrder, Announced
<1>8. Announced'
  <2>1. \A i \in 1 .. Len(scheduled) : i \in DOMAIN Due BY <1>6
  <2> QED BY <1>1, <1>4, <1>6, <2>1 DEF StreamOrder, Announced
<1>9. Present' BY <1>1 DEF StreamOrder, Present, Watching
<1>10. Looking' BY <1>1 DEF Looking
<1>11. ASSUME NEW s \in Streams PROVE Served(s)'
  <2>1. CASE s \notin active \/ s \in Range(closing)
    BY <1>1, <2>1, ServedStays DEF StreamOrder, Watching
  <2>2. CASE s \in active /\ s \notin Range(closing) /\ s \notin dropped' /\ Watching(s)
    <3>1. PICK i \in DOMAIN subscribers : subscribers[i] = s
      BY <2>2 DEF StreamOrder, Present, Range
    <3>2. cursor = 0 \/ i < cursor
      <4>1. DOMAIN subscribers = 1 .. Len(subscribers) /\ Len(subscribers) \in Nat /\ cursor \in Nat
        BY LenProperties DEF StreamTypeOK
      <4> QED BY <1>1, <3>1, <4>1
    <3>3. Open(s) /\ s \notin overlooked
      <4>1. closing # <<>> => Head(closing) \in Range(closing) BY TailMembers DEF StreamTypeOK
      <4> QED BY <1>1, <2>2, <4>1 DEF Open
    <3>4. owed[s] >= events BY <1>1, <3>1, <3>2, <3>3 DEF StreamOrder, Looking, Passed
    <3>5. /\ queue[s] \in Seq(Items) /\ owed[s] \in Nat /\ events \in Nat /\ p.n \in Nat
      BY FlowType DEF Items
    <3>6. Steady(Coming(s), owed[s], s \in active, events)
      BY <1>1, <2>2 DEF StreamOrder, Served
    <3>7. Coming(s) = Append(queue[s] \o scheduled, p) /\ queue[s] \o scheduled \in Seq(Items)
      <4>1. Coming(s) = queue[s] \o Append(scheduled, p) BY <1>5, <2>2, FlowIs
      <4>2. queue[s] \o Append(scheduled, p) = Append(queue[s] \o scheduled, p)
        BY <1>3, <3>5, Joined, ZenonT(60)
      <4> QED BY <1>3, <3>5, <4>1, <4>2, ConcatProperties
    <3>8. Coming(s)' = queue[s] \o scheduled BY <1>1, <1>4, <2>2, FlowBecomes
    <3>9. Steady(queue[s] \o scheduled, owed[s], s \in active, events)
      <4>1. p.kind # "end" BY <1>1, <1>2 DEF StreamOrder, Looking
      <4>2. p.n < owed[s] BY <1>7, <3>4, <3>5, <4>1
      <4> QED BY <3>5, <3>6, <3>7, <4>1, <4>2, SteadyDrop
    <3> QED BY <1>1, <3>8, <3>9, ServedStep
  <2>3. CASE s \in dropped' \/ ~Watching(s) BY <1>1, <2>3 DEF Served, Watching
  <2> QED BY <2>1, <2>2, <2>3
<1> QED BY <1>8, <1>9, <1>10, <1>11 DEF StreamOrder

LEMMA RegisterOrder ==
  ASSUME StreamTypeOK, StreamOrder, NEW u \in Streams, Register(u)
  PROVE  StreamOrder'
<1>1. /\ closing = <<>> /\ subscribers' = Append(subscribers, u) /\ active' = active \cup {u}
      /\ at' = [at EXCEPT ![u] = "registered"] /\ queue' = [queue EXCEPT ![u] = <<>>]
      /\ owed' = [owed EXCEPT ![u] = events] /\ dropped' = dropped \ {u}
      /\ overlooked' = overlooked \ {u}
      /\ UNCHANGED <<events, pending, cursor, scheduled, closing>>
  BY DEF Register, LockFree
<1>9. Due' = Due BY <1>1 DEF Due
<1>2. /\ at'[u] = "registered" /\ queue'[u] = <<>> /\ owed'[u] = events
      /\ \A s \in Streams \ {u} : at'[s] = at[s] /\ queue'[s] = queue[s] /\ owed'[s] = owed[s]
  BY <1>1 DEF StreamTypeOK
<1>3. Announced' BY <1>1, <1>9 DEF StreamOrder, Announced
<1>4. Present' /\ Looking'
  <2>1. subscribers \in Seq(Streams) /\ Len(subscribers) \in Nat
        /\ DOMAIN subscribers = 1 .. Len(subscribers)
    BY LenProperties DEF StreamTypeOK
  <2>2. /\ subscribers' \in Seq(Streams) /\ Len(subscribers') = Len(subscribers) + 1
        /\ \A i \in 1 .. Len(subscribers) : subscribers'[i] = subscribers[i]
        /\ subscribers'[Len(subscribers) + 1] = u
    BY <1>1, <2>1, AppendProperties
  <2>3. DOMAIN subscribers' = 1 .. Len(subscribers) + 1 BY <2>2, LenProperties
  <2>4. Len(subscribers) + 1 \in DOMAIN subscribers' /\ DOMAIN subscribers \subseteq DOMAIN subscribers'
    BY <2>1, <2>3
  <2>5. u \in Range(subscribers') /\ Range(subscribers) \subseteq Range(subscribers')
    BY <2>1, <2>2, <2>4 DEF Range
  <2>6. Present' BY <1>2, <2>5 DEF StreamOrder, Present, Watching
  <2>10. PassedThen(u) BY <1>1, <1>2 DEF PassedThen, StreamTypeOK
  <2>7. ASSUME NEW v \in Streams, Passed(v) PROVE PassedThen(v)
    BY <1>1, <1>2, <2>7, <2>10 DEF Passed, PassedThen, Open
  <2>8. ASSUME pending # <<>>, NEW k \in DOMAIN subscribers', cursor = 0 \/ k < cursor
        PROVE  PassedThen(subscribers'[k])
    <3>1. PassedThen(u) BY <2>10
    <3>2. CASE k = Len(subscribers) + 1 BY <2>2, <3>1, <3>2
    <3>3. CASE k # Len(subscribers) + 1
      <4>1. k \in 1 .. Len(subscribers) BY <2>1, <2>3, <3>3
      <4>2. subscribers[k] \in Streams BY <2>1, <4>1, ElementOfSeq
      <4>3. Passed(subscribers[k]) BY <2>1, <2>8, <4>1 DEF StreamOrder, Looking
      <4>4. PassedThen(subscribers[k]) BY <2>7, <4>2, <4>3
      <4> QED BY <2>2, <4>1, <4>4
    <3> QED BY <3>2, <3>3
  <2>11. pending # <<>> => Head(pending).kind # "end" BY DEF StreamOrder, Looking
  <2>9. Looking' BY <1>1, <2>8, <2>11, LookingStep
  <2> QED BY <2>6, <2>9
<1>5. ASSUME NEW s \in Streams, s # u PROVE Served(s)'
  BY <1>1, <1>2, <1>5, <1>9, ServedStays DEF StreamOrder, Watching
<1>6. Served(u)'
  <2>1. Due \in Seq(Items) /\ events \in Nat BY DueType DEF StreamTypeOK
  <2>2. u \in active' /\ u \notin Range(closing') BY <1>1 DEF Range
  <2>3. Coming(u)' = Due BY <1>1, <1>2, <1>9, <2>1, <2>2, FlowBecomes, ConcatEmptySeq
  <2>4. Steady(Due, events, TRUE, events)
    BY <2>1, SteadyFresh DEF StreamOrder, Announced
  <2> QED BY <1>1, <1>2, <2>2, <2>3, <2>4, ServedStep
<1> QED BY <1>3, <1>4, <1>5, <1>6 DEF StreamOrder

LEMMA TakeOrder ==
  ASSUME StreamTypeOK, StreamOrder, NEW u \in Streams, Take(u)
  PROVE  StreamOrder'
<1>0. PICK item : item = Head(queue[u]) OBVIOUS
<1>1. /\ at[u] = "open" /\ queue[u] # <<>> /\ queue' = [queue EXCEPT ![u] = Tail(@)]
      /\ owed' = [owed EXCEPT ![u] = IF item.kind # "end" /\ item.n >= @ THEN item.n + 1 ELSE @]
      /\ at' = [at EXCEPT ![u] = IF item.kind = "progress" THEN "open" ELSE "leaving"]
      /\ UNCHANGED <<events, lookVars, scheduled, subscribers, closing, active, dropped>>
  BY <1>0 DEF Take, loopVars
<1>2. /\ at'[u] = (IF item.kind = "progress" THEN "open" ELSE "leaving") /\ queue'[u] = Tail(queue[u])
      /\ owed'[u] = IF item.kind # "end" /\ item.n >= owed[u] THEN item.n + 1 ELSE owed[u]
      /\ \A s \in Streams \ {u} : at'[s] = at[s] /\ queue'[s] = queue[s] /\ owed'[s] = owed[s]
  BY <1>1 DEF StreamTypeOK
<1>7. Due' = Due BY <1>1 DEF Due, lookVars
<1>8. Looking'
  <2>1. item \in Items
    <3>1. queue[u] \in Seq(Items) BY FlowType
    <3> QED BY <1>0, <1>1, <3>1, HeadTailProperties
  <2>2. item.n \in Nat /\ events \in Nat /\ owed \in [Streams -> Nat] BY <2>1 DEF Items, StreamTypeOK
  <2>3. \A v \in Streams : owed[v] >= events => owed'[v] >= events' BY <1>1, <1>2, <2>2
  <2>4. \A v \in Streams : Passed(v) => PassedThen(v)
    BY <1>1, <2>3 DEF Passed, PassedThen, Open, lookVars
  <2>5. \A k \in DOMAIN subscribers : subscribers[k] \in Streams
    BY ElementOfSeq, LenProperties DEF StreamTypeOK
  <2> QED BY <1>1, <2>4, <2>5, LookingStep DEF StreamOrder, Looking, lookVars
<1>3. Announced' BY <1>1, <1>7 DEF StreamOrder, Announced
<1>4. Present' BY <1>1, <1>2 DEF StreamOrder, Present, Watching
<1>5. ASSUME NEW s \in Streams, s # u PROVE Served(s)'
  BY <1>1, <1>2, <1>5, <1>7, ServedStays DEF StreamOrder, Watching
<1>6. Served(u)'
  <2>1. CASE item.kind = "progress" /\ u \notin dropped
    <3>1. Steady(Coming(u), owed[u], u \in active, events)
      BY <1>1, <2>1 DEF StreamOrder, Served, Watching
    <3>2. /\ queue[u] \in Seq(Items) /\ Due \in Seq(Items) /\ Coming(u) \in Seq(Items)
          /\ owed[u] \in Nat /\ events \in Nat
      BY FlowType
    <3>3. PICK r \in Seq(Items) : Coming(u) = queue[u] \o r /\ Coming(u)' = Tail(queue[u]) \o r
      <4>1. CASE u \notin active
        <5>1. Coming(u) = queue[u] \o <<>> /\ Coming(u)' = Tail(queue[u]) \o <<>>
          BY <1>1, <1>2, <4>1, FlowIs, FlowBecomes, ZenonT(60)
        <5>2. <<>> \in Seq(Items) BY EmptySeq
        <5> QED BY <5>1, <5>2
      <4>2. CASE u \in active /\ u \in Range(closing)
        <5>1. Coming(u) = queue[u] \o <<EndOfStream>> /\ Coming(u)' = Tail(queue[u]) \o <<EndOfStream>>
          BY <1>1, <1>2, <4>2, FlowIs, FlowBecomes, ZenonT(60)
        <5>2. <<EndOfStream>> \in Seq(Items) BY EndIsItem
        <5> QED BY <5>1, <5>2
      <4>3. CASE u \in active /\ u \notin Range(closing)
        <5>1. Coming(u) = queue[u] \o Due /\ Coming(u)' = Tail(queue[u]) \o Due
          BY <1>1, <1>2, <1>7, <4>3, FlowIs, FlowBecomes, ZenonT(60)
        <5> QED BY <3>2, <5>1
      <4> QED BY <4>1, <4>2, <4>3
    <3>4. Coming(u) # <<>> /\ Head(Coming(u)) = item /\ Coming(u)' = Tail(Coming(u))
      <4>1. item \in Items BY <1>0, <1>1, <3>2, HeadTailProperties
      <4>2. /\ queue[u] \o r # <<>> /\ Head(queue[u] \o r) = Head(queue[u])
            /\ Tail(queue[u]) \o r = Tail(queue[u] \o r)
        BY <1>1, <3>2, <4>1, Joined
      <4> QED BY <1>0, <3>3, <4>2
    <3>5. Steady(Tail(Coming(u)), IF item.n >= owed[u] THEN item.n + 1 ELSE owed[u], u \in active, events)
      BY <2>1, <3>1, <3>2, <3>4, SteadyTail
    <3>6. owed'[u] = IF item.n >= owed[u] THEN item.n + 1 ELSE owed[u] BY <1>2, <2>1
    <3> QED BY <1>1, <3>4, <3>5, <3>6, ServedStep
  <2>2. CASE item.kind # "progress" \/ u \in dropped BY <1>1, <1>2, <2>2 DEF Served, Watching
  <2> QED BY <2>1, <2>2
<1> QED BY <1>3, <1>4, <1>5, <1>6, <1>8 DEF StreamOrder

LEMMA UnsubscribeOrder ==
  ASSUME StreamTypeOK, StreamOrder, NEW u \in Streams, Unsubscribe(u)
  PROVE  StreamOrder'
<1>1. /\ closing = <<>> /\ active' = active \ {u} /\ at' = [at EXCEPT ![u] = "away"]
      /\ queue' = [queue EXCEPT ![u] = <<>>] /\ owed' = [owed EXCEPT ![u] = 0]
      /\ dropped' = dropped \ {u} /\ cursor' = IF Len(subscribers) = 1 THEN 0 ELSE cursor
      /\ UNCHANGED <<events, pending, scheduled, closing>>
  BY DEF Unsubscribe, LockFree
<1>2. PICK i \in DOMAIN subscribers :
        /\ subscribers[i] = u /\ subscribers' = RemoveAt(subscribers, i)
        /\ overlooked' = SteppedOver(i) \ {u}
  BY DEF Unsubscribe
<1>9. Due' = Due BY <1>1 DEF Due
<1>3. /\ at'[u] = "away"
      /\ \A s \in Streams \ {u} : at'[s] = at[s] /\ queue'[s] = queue[s] /\ owed'[s] = owed[s]
  BY <1>1 DEF StreamTypeOK
<1>4. Announced' BY <1>1, <1>9 DEF StreamOrder, Announced
<1>5. /\ \A s \in Range(subscribers) \ {u} : s \in Range(subscribers')
      /\ Looking'
  <2>1. /\ subscribers \in Seq(Streams) /\ Len(subscribers) \in Nat
        /\ DOMAIN subscribers = 1 .. Len(subscribers) /\ i \in 1 .. Len(subscribers)
    BY <1>2, LenProperties DEF StreamTypeOK
  <2> DEFINE a == SubSeq(subscribers, 1, i - 1)
             b == SubSeq(subscribers, i + 1, Len(subscribers))
  <2>2. \A j \in 1 .. Len(subscribers) : subscribers[j] \in Streams BY <2>1, ElementOfSeq
  <2>3. a \in Seq(Streams) /\ Len(a) = i - 1 /\ \A j \in 1 .. i - 1 : a[j] = subscribers[j]
    <3>1. \A j \in 1 .. i - 1 : subscribers[j] \in Streams BY <2>1, <2>2
    <3> QED BY <2>1, <3>1, SubSeqProperties
  <2>4. /\ b \in Seq(Streams) /\ Len(b) = Len(subscribers) - i
        /\ \A j \in 1 .. Len(subscribers) - i : b[j] = subscribers[i + j]
    <3>1. \A j \in i + 1 .. Len(subscribers) : subscribers[j] \in Streams BY <2>1, <2>2
    <3> QED BY <2>1, <3>1, SubSeqProperties
  <2> HIDE DEF a, b
  <2>5. /\ a \o b \in Seq(Streams) /\ Len(a \o b) = Len(subscribers) - 1
        /\ \A j \in 1 .. Len(subscribers) - 1 : (a \o b)[j] = IF j <= i - 1 THEN a[j] ELSE b[j - (i - 1)]
    <3>1. /\ a \o b \in Seq(Streams) /\ Len(a \o b) = Len(a) + Len(b)
          /\ \A j \in 1 .. Len(a) + Len(b) : (a \o b)[j] = IF j <= Len(a) THEN a[j] ELSE b[j - Len(a)]
      BY <2>3, <2>4, ConcatProperties
    <3>2. Len(a) + Len(b) = Len(subscribers) - 1 /\ Len(a) = i - 1 BY <2>1, <2>3, <2>4
    <3> QED BY <3>1, <3>2
  <2>6. subscribers' = a \o b BY <1>2 DEF RemoveAt, a, b
  <2>7. DOMAIN subscribers' = 1 .. Len(subscribers) - 1 BY <2>5, <2>6, LenProperties
  <2>8. ASSUME NEW j \in 1 .. Len(subscribers), subscribers[j] # u
        PROVE  \E k \in DOMAIN subscribers' : subscribers'[k] = subscribers[j]
    <3>1. j # i BY <1>2, <2>8
    <3>2. CASE j < i
      <4>1. j \in 1 .. i - 1 /\ j \in 1 .. Len(subscribers) - 1 /\ j <= i - 1 BY <2>1, <3>2
      <4>2. a[j] = subscribers[j] BY <2>3, <4>1
      <4>3. (a \o b)[j] = a[j] BY <2>5, <4>1
      <4> QED BY <2>6, <2>7, <4>1, <4>2, <4>3
    <3>3. CASE j > i
      <4>1. /\ j - 1 \in 1 .. Len(subscribers) - 1 /\ ~(j - 1 <= i - 1)
            /\ (j - 1) - (i - 1) = j - i /\ j - i \in 1 .. Len(subscribers) - i /\ i + (j - i) = j
        BY <2>1, <3>3
      <4>2. b[j - i] = subscribers[i + (j - i)] BY <2>4, <4>1
      <4>3. (a \o b)[j - 1] = b[(j - 1) - (i - 1)] BY <2>5, <4>1
      <4> QED BY <2>6, <2>7, <4>1, <4>2, <4>3
    <3> QED BY <2>1, <3>1, <3>2, <3>3
  <2>9. \A k \in DOMAIN subscribers' :
          /\ k < i => k \in DOMAIN subscribers /\ subscribers'[k] = subscribers[k]
          /\ k >= i => k + 1 \in DOMAIN subscribers /\ subscribers'[k] = subscribers[k + 1]
    <3> SUFFICES ASSUME NEW k \in 1 .. Len(subscribers) - 1
                 PROVE  /\ k < i => k \in DOMAIN subscribers /\ subscribers'[k] = subscribers[k]
                        /\ k >= i => k + 1 \in DOMAIN subscribers /\ subscribers'[k] = subscribers[k + 1]
      BY <2>7
    <3>1. CASE k < i
      <4>1. k \in 1 .. i - 1 /\ k <= i - 1 /\ k \in DOMAIN subscribers BY <2>1, <3>1
      <4> QED BY <2>1, <2>3, <2>5, <2>6, <3>1, <4>1
    <3>2. CASE k >= i
      <4>1. /\ ~(k <= i - 1) /\ k - (i - 1) \in 1 .. Len(subscribers) - i
            /\ i + (k - (i - 1)) = k + 1 /\ k + 1 \in DOMAIN subscribers
        BY <2>1, <3>2
      <4>2. b[k - (i - 1)] = subscribers[i + (k - (i - 1))] BY <2>4, <4>1
      <4>3. (a \o b)[k] = b[k - (i - 1)] BY <2>5, <4>1
      <4>4. ~(k < i) BY <2>1, <3>2
      <4> QED BY <2>6, <4>1, <4>2, <4>3, <4>4
    <3> QED BY <2>1, <3>1, <3>2
  <2>10. ASSUME NEW v \in Streams, Passed(v) \/ v \in SteppedOver(i)
         PROVE  PassedThen(v)
    <3>1. CASE v = u BY <1>1, <3>1 DEF PassedThen
    <3>2. CASE v # u
      <4>1. owed'[v] = owed[v] /\ (v \in active' <=> v \in active) BY <1>1, <3>2 DEF StreamTypeOK
      <4>2. v \in overlooked => v \in overlooked' BY <1>2, <3>2 DEF SteppedOver
      <4>3. v \in SteppedOver(i) => v \in overlooked' BY <1>2, <3>2
      <4> QED BY <1>1, <2>10, <4>1, <4>2, <4>3 DEF Passed, PassedThen, Open
    <3> QED BY <3>1, <3>2
  <2>11. ASSUME pending # <<>>, NEW k \in DOMAIN subscribers', cursor' = 0 \/ k < cursor'
         PROVE  PassedThen(subscribers'[k])
    <3>1. Len(subscribers) # 1 /\ cursor' = cursor /\ k \in Nat /\ cursor \in Nat
      <4>1. cursor \in Nat BY DEF StreamTypeOK
      <4>2. k \in 1 .. Len(subscribers) - 1 BY <2>7, <2>11
      <4>3. Len(subscribers) # 1 /\ k \in Nat BY <2>1, <4>2
      <4> QED BY <1>1, <4>1, <4>3
    <3>2. CASE k < i
      <4>1. k \in DOMAIN subscribers /\ subscribers'[k] = subscribers[k] BY <2>9, <3>2
      <4>2. Passed(subscribers[k]) BY <2>11, <3>1, <4>1 DEF StreamOrder, Looking
      <4> QED BY <2>1, <2>2, <2>10, <4>1, <4>2
    <3>3. CASE k >= i
      <4>1. k + 1 \in DOMAIN subscribers /\ subscribers'[k] = subscribers[k + 1] BY <2>9, <3>3
      <4>2. CASE cursor = 0 \/ k + 1 < cursor
        <5>1. Passed(subscribers[k + 1]) BY <2>11, <4>1, <4>2 DEF StreamOrder, Looking
        <5> QED BY <2>1, <2>2, <2>10, <4>1, <5>1
      <4>3. CASE k + 1 = cursor
        <5>1. i < k + 1 BY <2>1, <3>1, <3>3
        <5>2. subscribers[k + 1] \in SteppedOver(i) BY <2>11, <4>1, <4>3, <5>1 DEF SteppedOver
        <5> QED BY <2>1, <2>2, <2>10, <4>1, <5>2
      <4> QED BY <2>11, <3>1, <4>2, <4>3
    <3> QED BY <2>1, <3>1, <3>2, <3>3
  <2>13. pending # <<>> => Head(pending).kind # "end" BY DEF StreamOrder, Looking
  <2>12. Looking' BY <1>1, <2>11, <2>13, LookingStep
  <2>14. \A j \in DOMAIN subscribers : subscribers[j] # u =>
           \E k \in DOMAIN subscribers' : subscribers'[k] = subscribers[j]
    BY <2>1, <2>8
  <2> QED BY <2>12, <2>14 DEF Range
<1>6. Present' BY <1>3, <1>5 DEF StreamOrder, Present, Watching
<1>7. ASSUME NEW s \in Streams, s # u PROVE Served(s)'
  BY <1>1, <1>3, <1>7, <1>9, ServedStays DEF StreamOrder, Watching
<1>8. Served(u)' BY <1>3 DEF Served, Watching
<1> QED BY <1>4, <1>5, <1>6, <1>7, <1>8 DEF StreamOrder

LEMMA StreamOrderStep == ASSUME StreamTypeOK, StreamOrder, StreamNext PROVE StreamOrder'
<1>1. CASE Launch \/ EndQuietly \/ FailRun \/ RunAgain \/ Record
  <2>1. UNCHANGED <<lookVars, scheduled, subscribers, closing, active, queue, owed, dropped,
                    events, at>>
    BY <1>1 DEF Launch, EndQuietly, FailRun, RunAgain, Record, workerRest, loopVars, queueVars
  <2> QED BY <2>1, Quiet DEF Watching
<1>2. CASE Progress \/ Announce \/ AnnounceFailure
  <2>1. \E kind \in {"progress", "completion"} : PublishSync(kind)
    BY <1>2 DEF Progress, Announce, AnnounceFailure
  <2> QED BY <2>1, PublishOrder
<1>3. CASE CloseStreams
  <2>1. /\ UNCHANGED <<scheduled, pending, subscribers, closing, active, queue, owed, dropped,
                       events, at>>
        /\ pending = <<>>
    BY <1>3 DEF CloseStreams, loopVars, queueVars
  <2>2. Looking' /\ Due' = Due BY <2>1 DEF Looking, Due
  <2> QED BY <2>1, <2>2, Hush DEF Watching
<1>4. ASSUME NEW s \in Streams, CheckActive(s) \/ CheckLatest(s) \/ Disconnect(s)
      PROVE  StreamOrder'
  <2>1. UNCHANGED <<lookVars, scheduled, subscribers, closing, active, queue, owed, dropped, events>>
    BY <1>4 DEF CheckActive, CheckLatest, Disconnect, streamVarsButAt, loopVars
  <2>2. Watching(s) /\ \A u \in Streams \ {s} : at'[u] = at[u]
    BY <1>4 DEF CheckActive, CheckLatest, Disconnect, Watching, StreamTypeOK
  <2> QED BY <2>1, <2>2, Quiet DEF Watching
<1> QED BY <1>1, <1>2, <1>3, <1>4, HandOverOrder, LookOnOrder, GiveUpOrder, CompleteSyncOrder,
      RunPublishOrder, RunCompleteOrder, PutSentinelOrder,
      RegisterOrder, TakeOrder, UnsubscribeOrder DEF StreamNext, WorkerNext, LoopNext, StreamStep

LEMMA ConnectOrder ==
  ASSUME StreamTypeOK, StreamOrder, NEW s \in Streams, Connect(s)
  PROVE  StreamOrder'
<1>1. UNCHANGED <<lookVars, scheduled, subscribers, closing, active, queue, owed, dropped, events>>
  BY DEF Connect, streamVarsButAt, loopVars
<1>2. at'[s] = "connected" /\ \A u \in Streams \ {s} : at'[u] = at[u]
  BY DEF Connect, StreamTypeOK
<1> QED BY <1>1, <1>2, Quiet DEF Watching

-----------------------------------------------------------------------------
IInv == TicketInv /\ StreamTypeOK /\ StreamOrder /\ ChatInv

LEMMA InitInv == Init => IInv
<1> SUFFICES ASSUME Init PROVE IInv  OBVIOUS
<1>1. TicketInv
  BY DEF Init, TicketInv, TicketsTypeOK, TicketStates, OneConnection
<1>2. StreamTypeOK
  BY StreamAssumption DEF Init, StreamInit, StreamTypeOK
<1>3. ChatTypeOK
  <2>1. tokens \in Seq(Tokens)  BY DEF Init, ChatInit
  <2>2. tokens \in Seq([type : {"cost_update", "done", "error"}, turn : 1 .. MaxTurns])
    BY <2>1 DEF Tokens
  <2>3. /\ turn \in 0 .. MaxTurns /\ calls \in 0 .. MaxCalls
        /\ recorded \in Nat /\ late \in Nat /\ again \in Nat /\ lost \in Nat
        /\ turnCost \in Nat /\ seen \in Nat
    BY ChatAssumption DEF Init, ChatInit
  <2> QED  BY <2>2, <2>3 DEF Init, ChatInit, ChatTypeOK, Busy
<1>4. ChatInv
  BY <1>3, ChatAssumption
  DEF Init, ChatInit, ChatInv, OwnerIsThere, RelayEndsFirst, StreamingHasTurn,
      ChatIsItsOwners, CostIsKept
<1>5. StreamOrder
  <2>1. scheduled = <<>> /\ pending = <<>> /\ at = [s \in Streams |-> "away"]
    BY DEF Init, StreamInit
  <2>2. Due = <<>>  BY <1>2, <2>1, DueType
  <2>3. DOMAIN Due = 1 .. 0  BY <2>2, EmptySeq, LenProperties
  <2>4. Announced /\ Looking  BY <2>1, <2>3 DEF Announced, Looking
  <2>5. \A s \in Streams : ~Watching(s)  BY <2>1 DEF Watching
  <2> QED  BY <2>4, <2>5 DEF StreamOrder, Present, Served
<1> QED  BY <1>1, <1>2, <1>4, <1>5 DEF IInv

LEMMA Untouched ==
  /\ TicketInv /\ UNCHANGED ticketVars => TicketInv'
  /\ StreamTypeOK /\ UNCHANGED streamVars => StreamTypeOK'
  /\ StreamOrder /\ UNCHANGED streamVars => StreamOrder'
  /\ ChatInv /\ UNCHANGED chatVars => ChatInv'
<1>1. ASSUME TicketInv, UNCHANGED ticketVars PROVE TicketInv'
  BY <1>1 DEF TicketInv, TicketsTypeOK, OneConnection, ticketVars
<1>2. ASSUME StreamTypeOK, UNCHANGED streamVars PROVE StreamTypeOK'
  BY <1>2 DEF StreamTypeOK, streamVars, streamVarsButAt, workerVars, lookVars, loopVars
<1>3. ASSUME ChatInv, UNCHANGED chatVars PROVE ChatInv'
  BY <1>3 DEF ChatInv, ChatTypeOK, OwnerIsThere, RelayEndsFirst, StreamingHasTurn, ChatIsItsOwners,
              CostIsKept, chatVars, chatVarsButSock, rowVars, costVars, managerVars, taskVars
<1>4. ASSUME StreamOrder, UNCHANGED streamVars PROVE StreamOrder'
  <2>1. UNCHANGED <<lookVars, scheduled, subscribers, closing, active, queue, owed, dropped,
                    events, at>>
    BY <1>4 DEF streamVars, streamVarsButAt, loopVars
  <2> QED  BY <1>4, <2>1, Quiet DEF Watching
<1> QED  BY <1>1, <1>2, <1>3, <1>4

LEMMA Inductive == Spec => []IInv
<1>1. IInv /\ [Next]_vars => IInv'
  <2> SUFFICES ASSUME IInv, [Next]_vars PROVE IInv'  OBVIOUS
  <2>1. CASE TicketNext
    <3>1. TicketInv'  BY <2>1, TicketStep DEF TicketNext, IInv
    <3> QED  BY <2>1, <3>1, Untouched DEF TicketNext, IInv
  <2>2. CASE StreamService
    BY <2>2, ConnectInv, ConnectOrder, StreamInv, StreamOrderStep, Untouched DEF StreamService, IInv
  <2>3. CASE ChatService
    BY <2>3, DialInv, ChatStep, Untouched DEF ChatService, IInv
  <2>4. CASE UNCHANGED vars
    BY <2>4, Untouched DEF vars, IInv
  <2> QED  BY <2>1, <2>2, <2>3, <2>4 DEF Next
<1> QED  BY <1>1, InitInv, PTL DEF Spec

\* Every queue stays within its capacity, and a ticket lets one connection in at
\* most, however many are minted, expire and are shown at once.
THEOREM TypeCorrect == Spec => []TypeOK
<1>1. IInv => TypeOK  BY DEF IInv, TicketInv, OneConnection, ChatInv, TypeOK
<1> QED  BY <1>1, Inductive, PTL

\* From the moment a socket is registered until its tasks are gone the session is
\* its own, and its queue holds nothing of an earlier turn.
THEOREM ChatIsItsOwnersAlways == Spec => []ChatIsItsOwners
<1>1. IInv => ChatIsItsOwners  BY DEF IInv, ChatInv
<1> QED  BY <1>1, Inductive, PTL

\* A cost the relay has taken is lost only with a write that the database refuses or
\* that is never begun, wherever a new message, a failed send or a closed socket
\* catches the relay, for any sockets and any number of turns and calls.
THEOREM CostIsKeptAlways == Spec => []CostIsKept
<1>1. IInv => CostIsKept  BY DEF IInv, ChatInv
<1> QED  BY <1>1, Inductive, PTL

\* A client that watches misses nothing but what a full queue costs it, or a look that
\* stepped over it because an older stream left in the middle of it: what is in its
\* queue and what the loop will still put there are else the events it has not been
\* sent, each once and in order, up to the end of the stream, for any number of
\* streams, of any capacity, and of runs and events.
THEOREM NothingSkippedAlways == Spec => []NothingSkipped
<1>1. IInv => NothingSkipped  BY ServedIsNothingSkipped DEF IInv, StreamOrder
<1> QED  BY <1>1, Inductive, PTL
=============================================================================
