---------------------------- MODULE StreamTickets ----------------------------
(* The tickets a client exchanges its credentials for before it opens a       *)
(* stream or a WebSocket (auth/stream_tickets.py): held in memory by one      *)
(* server process, good for a minute and for one connection.                  *)
EXTENDS Naturals

CONSTANT MaxTickets      \* bound: how many tickets are minted

ASSUME TicketsAssumption == MaxTickets \in Nat

VARIABLES
  tickets,     \* ticket -> what the store knows of it, and whose it is
  redeemed     \* ticket -> how many connections it has let in (history)

ticketVars == <<tickets, redeemed>>

Tickets == 1 .. MaxTickets

\* A ticket minted while authentication was off names nobody.
TicketStates == {"unminted", "users", "nobodys", "gone"}

Mint(t) ==
  /\ tickets[t] = "unminted" /\ \A u \in 1 .. t - 1 : tickets[u] # "unminted"
  /\ \E whose \in {"users", "nobodys"} : tickets' = [tickets EXCEPT ![t] = whose]
  /\ UNCHANGED redeemed

\* Its time to live passes: whatever is asked of the store next sweeps it.
Expire(t) ==
  /\ tickets[t] \in {"users", "nobodys"}
  /\ tickets' = [tickets EXCEPT ![t] = "gone"]
  /\ UNCHANGED redeemed

\* Mutant: the ticket is looked up and left in the store.
Pop_Kept(t) == UNCHANGED tickets

\* The ticket leaves the store with the first connection that shows it, which
\* is let in if there is a user to let in.
Pop(t) == tickets' = [tickets EXCEPT ![t] = "gone"]

Redeem(t) ==
  /\ tickets[t] = "users"
  /\ Pop(t)
  /\ redeemed' = [redeemed EXCEPT ![t] = @ + 1]

Refuse(t) ==
  /\ tickets[t] = "nobodys"
  /\ Pop(t)
  /\ UNCHANGED redeemed

TicketsTypeOK ==
  /\ tickets \in [Tickets -> TicketStates]
  /\ redeemed \in [Tickets -> Nat]
=============================================================================
