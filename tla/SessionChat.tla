----------------------------- MODULE SessionChat -----------------------------
(* One interactive session and the WebSockets that want to chat in it: the    *)
(* receive loop, the relay task and the adapter task of the socket that has   *)
(* the session, the manager that says which one that is, and the session's    *)
(* row (ui/routers/session_chat_ws.py, ui/shared.py,                          *)
(* platform_store/repositories/interactive_sessions.py).                      *)
EXTENDS StreamTickets, SequencesExt

CONSTANTS
  Sockets,        \* the WebSockets clients open
  NoSocket,       \* nobody has the session
  MaxTurns,       \* bound: how many messages are sent
  MaxCalls        \* bound: how many API calls with a cost a turn makes

ASSUME ChatAssumption ==
  /\ NoSocket \notin Sockets
  /\ MaxTurns \in Nat /\ MaxCalls \in Nat

VARIABLES
  session,      \* the state in the session's row
  recorded,     \* the cost in the session's row
  owner,        \* the manager's connection of the session, or NoSocket
  interrupt,    \* the manager's event: the turn is to stop
  tokens,       \* the manager's queue of the adapter's events
  sock,         \* socket -> where its handler is
  turn,         \* how many turns were started
  calls,        \* how many calls the turn has been billed for
  adapter,      \* the adapter task of the socket that has the session
  relay,        \* the relay task of the socket that has the session
  turnCost,     \* the cost the relay has seen and not recorded
  late,         \* cost that only a thread nobody waits for can still record
  again,        \* cost such a thread may record although the relay will, too
  seen,         \* the cost the relay ever took from the queue (history)
  lost          \* cost whose write failed, or was never begun (history)

costVars    == <<recorded, late, again, lost>>
rowVars     == <<session, costVars>>
managerVars == <<owner, interrupt, tokens>>
taskVars    == <<turn, calls, adapter, relay, turnCost, seen>>
chatVarsButSock == <<rowVars, managerVars, taskVars>>
chatVars    == <<chatVarsButSock, sock>>

Busy == {"streaming", "persisting", "cancelled"}

-----------------------------------------------------------------------------
(* The way in. The row is read, and written, in a thread: the other sockets   *)
(* and the REST API go on in between.                                         *)

Dial(w) ==
  /\ sock[w] = "away"
  /\ \E t \in Tickets : Redeem(t)
  /\ sock' = [sock EXCEPT ![w] = "admitted"]
  /\ UNCHANGED chatVarsButSock

LookUp(w) ==
  /\ sock[w] = "admitted"
  /\ sock' = [sock EXCEPT ![w] = IF session = "ended" THEN "away" ELSE "accepted"]
  /\ UNCHANGED chatVarsButSock

MarkActive(w) ==
  /\ sock[w] = "accepted"
  /\ session' = "active"
  /\ sock' = [sock EXCEPT ![w] = "marked"]
  /\ UNCHANGED <<costVars, managerVars, taskVars>>

\* register refuses a second socket; otherwise the handler gets a queue and
\* starts its relay.
RegisterSocket(w) ==
  /\ sock[w] = "marked"
  /\ IF owner # NoSocket
     THEN /\ sock' = [sock EXCEPT ![w] = "unregistering"]
          /\ UNCHANGED <<owner, interrupt, tokens, adapter, relay, turnCost>>
     ELSE /\ owner' = w /\ interrupt' = FALSE /\ tokens' = <<>>
          /\ sock' = [sock EXCEPT ![w] = "receiving"]
          /\ adapter' = "none" /\ relay' = "waiting" /\ turnCost' = 0
  /\ UNCHANGED <<rowVars, turn, calls, seen>>

\* DELETE /sessions/{id}: nobody tells the sockets.
EndSession ==
  /\ session = "active"
  /\ session' = "ended"
  /\ UNCHANGED <<costVars, managerVars, taskVars, sock>>

-----------------------------------------------------------------------------
(* The receive loop.                                                          *)

SignalInterrupt(w) ==
  /\ sock[w] = "receiving"
  /\ owner # NoSocket
  /\ interrupt' = TRUE
  /\ UNCHANGED <<rowVars, owner, tokens, taskVars, sock>>

\* A message, while an adapter is still at work: it is cancelled and waited for.
Preempt(w) ==
  /\ sock[w] = "receiving"
  /\ turn < MaxTurns
  /\ adapter \in Busy
  /\ adapter' = "cancelled"
  /\ sock' = [sock EXCEPT ![w] = "preempting"]
  /\ UNCHANGED <<rowVars, managerVars, turn, calls, relay, turnCost, seen>>

\* The interrupt is reset, what is left of the last turn is thrown away, and the
\* adapter of the new turn starts.
NewTurn(w) ==
  /\ sock[w] \in {"receiving", "preempting"}
  /\ turn < MaxTurns
  /\ adapter \notin Busy
  /\ interrupt' = FALSE
  /\ tokens' = <<>>
  /\ turn' = turn + 1 /\ calls' = 0
  /\ adapter' = "streaming"
  /\ sock' = [sock EXCEPT ![w] = "receiving"]
  /\ UNCHANGED <<rowVars, owner, relay, turnCost, seen>>

-----------------------------------------------------------------------------
(* The adapter task: the costs of the calls of a turn, then the end of it;    *)
(* an interrupt may cost the turn its "done", an error does.                  *)

Put(type) == tokens' = Append(tokens, [type |-> type, turn |-> turn])

adapterRest == <<rowVars, owner, interrupt, turn, relay, turnCost, seen, sock>>

Bill ==
  /\ adapter = "streaming"
  /\ calls < MaxCalls
  /\ calls' = calls + 1
  /\ Put("cost_update")
  /\ UNCHANGED <<adapter, adapterRest>>

Finish ==
  /\ adapter = "streaming"
  /\ Put("done")
  /\ adapter' = "persisting"
  /\ UNCHANGED <<calls, adapterRest>>

Stop ==
  /\ adapter = "streaming" /\ interrupt
  /\ adapter' = "persisting"
  /\ UNCHANGED <<calls, tokens, adapterRest>>

FailTurn ==
  /\ adapter = "streaming"
  /\ Put("error")
  /\ adapter' = "none"
  /\ UNCHANGED <<calls, adapterRest>>

\* The turn is in the history, or the cancellation has reached the task.
AdapterOver ==
  /\ adapter \in {"persisting", "cancelled"}
  /\ adapter' = "none"
  /\ UNCHANGED <<calls, tokens, adapterRest>>

-----------------------------------------------------------------------------
(* The relay task. It adds up the costs it takes and writes them to the row   *)
(* before it passes the "done" on, in a thread it waits for.                  *)

relayRest == <<session, owner, interrupt, turn, calls, adapter, sock>>

RelayTake ==
  /\ relay = "waiting"
  /\ tokens # <<>>
  /\ tokens' = Tail(tokens)
  /\ LET type == Head(tokens).type IN
       /\ IF type = "cost_update"
          THEN turnCost' = turnCost + 1 /\ seen' = seen + 1
          ELSE UNCHANGED <<turnCost, seen>>
       /\ relay' = IF type = "done" /\ turnCost # 0 THEN "writing" ELSE "sending"
  /\ UNCHANGED <<costVars, relayRest>>

\* update_cost adds to the row, or the database refuses: that is logged, and the
\* cost is forgotten all the same.
Written(cost) ==
  \/ recorded' = recorded + cost /\ UNCHANGED lost
  \/ lost' = lost + cost /\ UNCHANGED recorded

WriteCost ==
  /\ relay = "writing"
  /\ Written(turnCost)
  /\ turnCost' = 0
  /\ relay' = "sending"
  /\ UNCHANGED <<late, again, tokens, seen, relayRest>>

Send ==
  /\ relay = "sending"
  /\ relay' = "waiting"
  /\ UNCHANGED <<costVars, tokens, turnCost, seen, relayRest>>

\* Mutant: there is no finally.
LeaveRelay_NoFlush == relay' = "off"

\* However the relay leaves its loop, its finally writes what it has not
\* recorded.
LeaveRelay == relay' = IF turnCost # 0 THEN "flushing" ELSE "off"

\* The client cannot be sent to any more.
SendFails ==
  /\ relay = "sending"
  /\ LeaveRelay
  /\ UNCHANGED <<costVars, tokens, turnCost, seen, relayRest>>

Flush ==
  /\ relay = "flushing"
  /\ Written(turnCost)
  /\ turnCost' = 0
  /\ relay' = "off"
  /\ UNCHANGED <<late, again, tokens, seen, relayRest>>

\* A thread that was writing when the relay was cancelled writes nevertheless,
\* or fails to.
LateWrite ==
  /\ late # 0
  /\ Written(late)
  /\ late' = 0
  /\ UNCHANGED <<session, again, managerVars, taskVars, sock>>

WriteAgain ==
  /\ again # 0
  /\ recorded' \in {recorded, recorded + again}
  /\ again' = 0
  /\ UNCHANGED <<session, late, lost, managerVars, taskVars, sock>>

-----------------------------------------------------------------------------
(* The way out: the handler's finally.                                        *)

Hangup(w) ==
  /\ sock[w] = "receiving"
  /\ sock' = [sock EXCEPT ![w] = "closing"]
  /\ UNCHANGED chatVarsButSock

\* The relay is cancelled wherever it is. A write it waits for goes on without it
\* if a thread has begun it, and is never begun if none has; the cost of a "done"
\* is still the relay's then, and its finally writes it (again).
CancelRelay(w) ==
  /\ sock[w] = "closing"
  /\ \/ /\ relay \in {"waiting", "sending"} /\ LeaveRelay
        /\ UNCHANGED <<costVars, turnCost>>
     \/ /\ relay = "writing" /\ LeaveRelay
        /\ again' \in {again, again + turnCost}
        /\ UNCHANGED <<recorded, late, lost, turnCost>>
     \/ /\ relay = "flushing" /\ relay' = "off"
        /\ \/ late' = late + turnCost /\ UNCHANGED lost
           \/ lost' = lost + turnCost /\ UNCHANGED late
        /\ turnCost' = 0
        /\ UNCHANGED <<recorded, again>>
     \/ relay = "off" /\ UNCHANGED <<costVars, turnCost, relay>>
  /\ sock' = [sock EXCEPT ![w] = "relayCancelled"]
  /\ UNCHANGED <<session, managerVars, turn, calls, adapter, seen>>

\* Mutant: the adapter is waited for and not cancelled.
CancelAdapter_Waits(w) ==
  /\ sock[w] = "relayCancelled"
  /\ relay = "off"
  /\ sock' = [sock EXCEPT ![w] = "adapterCancelled"]
  /\ UNCHANGED <<rowVars, managerVars, taskVars>>

CancelAdapter(w) ==
  /\ sock[w] = "relayCancelled"
  /\ relay = "off"
  /\ adapter' = IF adapter \in Busy THEN "cancelled" ELSE adapter
  /\ sock' = [sock EXCEPT ![w] = "adapterCancelled"]
  /\ UNCHANGED <<rowVars, managerVars, turn, calls, relay, turnCost, seen>>

AdapterGone(w) ==
  /\ sock[w] = "adapterCancelled"
  /\ adapter \notin Busy
  /\ sock' = [sock EXCEPT ![w] = "unregistering"]
  /\ UNCHANGED chatVarsButSock

\* Mutant: unregister forgets the session whoever has it.
Unregister_Anybody(w) ==
  /\ sock[w] = "unregistering"
  /\ owner' = NoSocket /\ interrupt' = FALSE /\ tokens' = <<>>
  /\ sock' = [sock EXCEPT ![w] = "away"]
  /\ UNCHANGED <<rowVars, taskVars>>

\* unregister leaves a connection that is not this one alone.
Unregister(w) ==
  /\ sock[w] = "unregistering"
  /\ IF owner = w
     THEN owner' = NoSocket /\ interrupt' = FALSE /\ tokens' = <<>>
     ELSE UNCHANGED managerVars
  /\ sock' = [sock EXCEPT ![w] = "away"]
  /\ UNCHANGED <<rowVars, taskVars>>

-----------------------------------------------------------------------------
AdapterNext == Bill \/ Finish \/ Stop \/ FailTurn \/ AdapterOver
RelayNext   == RelayTake \/ WriteCost \/ Send \/ SendFails \/ Flush

CloseStep(w) == CancelRelay(w) \/ CancelAdapter(w) \/ AdapterGone(w) \/ Unregister(w)

SocketStep(w) ==
  \/ LookUp(w) \/ MarkActive(w) \/ RegisterSocket(w)
  \/ SignalInterrupt(w) \/ Preempt(w) \/ NewTurn(w)
  \/ Hangup(w) \/ CloseStep(w)

\* Everything of the chat that touches no ticket.
ChatNext ==
  \/ EndSession \/ LateWrite \/ WriteAgain \/ AdapterNext \/ RelayNext
  \/ \E w \in Sockets : SocketStep(w)

ChatInit ==
  /\ session = "active" /\ recorded = 0
  /\ late = 0 /\ again = 0 /\ lost = 0
  /\ owner = NoSocket /\ interrupt = FALSE /\ tokens = <<>>
  /\ sock = [w \in Sockets |-> "away"]
  /\ turn = 0 /\ calls = 0 /\ adapter = "none"
  /\ relay = "off" /\ turnCost = 0 /\ seen = 0

\* The loop runs what is ready to run, and a write in a thread returns.
ChatFairness ==
  /\ WF_chatVars(AdapterOver)
  /\ WF_chatVars(Flush)
  /\ \A w \in Sockets : WF_chatVars(CloseStep(w))

-----------------------------------------------------------------------------
ChatTypeOK ==
  /\ session \in {"active", "ended"} /\ recorded \in Nat
  /\ late \in Nat /\ again \in Nat /\ lost \in Nat
  /\ owner \in Sockets \cup {NoSocket} /\ interrupt \in BOOLEAN
  /\ tokens \in Seq([type : {"cost_update", "done", "error"}, turn : 1 .. MaxTurns])
  /\ sock \in [Sockets -> {"away", "admitted", "accepted", "marked", "receiving",
                           "preempting", "closing", "relayCancelled", "adapterCancelled",
                           "unregistering"}]
  /\ turn \in 0 .. MaxTurns /\ calls \in 0 .. MaxCalls
  /\ adapter \in Busy \cup {"none"}
  /\ relay \in {"off", "waiting", "sending", "writing", "flushing"}
  /\ turnCost \in Nat /\ seen \in Nat

\* A socket has the session from the moment it is registered until its tasks are
\* gone: no other socket's coming or going takes its interrupt and its queue away
\* (ui/shared.py register and unregister, #759), and the queue holds nothing of
\* an earlier turn (ui/routers/session_chat_ws.py, "Reset interrupt and drain
\* stale queue items").
ChatIsItsOwners ==
  /\ \A w \in Sockets :
       sock[w] \in {"receiving", "preempting", "closing", "relayCancelled", "adapterCancelled"}
         => owner = w
  /\ \A i \in DOMAIN tokens : tokens[i].turn = turn

\* A cost the relay has taken from the queue is lost only with a write that the
\* database refuses or that is never begun, wherever a new message, a failed send
\* or a closed socket catches the relay: else it is in the row, on its way there,
\* or still with the relay (ui/routers/session_chat_ws.py _relay, "Flush any cost
\* accumulated during a cancelled/aborted turn").
CostIsKept == seen <= recorded + late + turnCost + lost

\* A client that has gone frees its session: the handler gets through its finally,
\* whatever its relay and its adapter were doing.
SessionIsFreed ==
  (owner # NoSocket /\ sock[owner] = "closing") ~> owner = NoSocket
=============================================================================
