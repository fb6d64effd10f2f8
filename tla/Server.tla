------------------------------- MODULE Server --------------------------------
(* What the server process does for a browser beside answering requests: it   *)
(* streams a task's events, or chats in a session. The two share the tickets  *)
(* that let a connection in and nothing else, so a behaviour has one of them. *)
EXTENDS TaskStream, SessionChat

VARIABLE service

vars == <<service, ticketVars, streamVars, chatVars>>

Init ==
  /\ service \in {"stream", "chat"}
  /\ tickets = [t \in Tickets |-> "unminted"]
  /\ redeemed = [t \in Tickets |-> 0]
  /\ StreamInit /\ ChatInit

TicketNext ==
  /\ \E t \in Tickets : Mint(t) \/ Expire(t) \/ Refuse(t)
  /\ UNCHANGED <<service, streamVars, chatVars>>

StreamService ==
  /\ service = "stream"
  /\ \/ \E s \in Streams : Connect(s)
     \/ StreamNext /\ UNCHANGED ticketVars
  /\ UNCHANGED <<service, chatVars>>

ChatService ==
  /\ service = "chat"
  /\ \/ \E w \in Sockets : Dial(w)
     \/ ChatNext /\ UNCHANGED ticketVars
  /\ UNCHANGED <<service, streamVars>>

Next == TicketNext \/ StreamService \/ ChatService

Spec == Init /\ [][Next]_vars

FairSpec == Spec /\ StreamFairness /\ ChatFairness

\* A ticket lets one connection in at most (auth/stream_tickets.py redeem_ticket).
TypeOK ==
  /\ TicketsTypeOK /\ StreamTypeOK /\ ChatTypeOK
  /\ \A t \in Tickets : redeemed[t] <= 1
=============================================================================
