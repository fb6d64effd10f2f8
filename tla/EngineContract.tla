--------------------------- MODULE EngineContract ---------------------------
(* What execute_agent owes the run it executes, whichever engine it picks:    *)
(*   - an execution has at most one question open, and none when it completes *)
(*     or when a human is not needed after all: the supervisor may answer it; *)
(*   - while one is open, it can only end blocked or failed;                  *)
(*   - an outcome stands until the next execution begins.                     *)
(* EngineRun implements it.                                                   *)
CONSTANT Questions

VARIABLES phase,   \* "idle", "working", or how the last execution ended
          asked    \* the questions of the execution that are open

contractVars == <<phase, asked>>

Init == phase = "idle" /\ asked = {}

Begin ==
  /\ phase \in {"idle", "failed", "blocked"}
  /\ phase' = "working"
  /\ asked' = {}

\* The question that also ends the execution, or that comes before its end.
Ask ==
  /\ phase = "working"
  /\ asked = {}
  /\ \E q \in Questions : asked' = {q}
  /\ phase' \in {"working", "blocked"}

\* The supervisor answers in the human's place.
Answer ==
  /\ phase = "working"
  /\ asked # {} /\ asked' = {}
  /\ UNCHANGED phase

Complete ==
  /\ phase = "working"
  /\ asked = {}
  /\ phase' = "completed"
  /\ UNCHANGED asked

Stop ==
  /\ phase = "working"
  /\ phase' \in {"failed", "blocked"}
  /\ UNCHANGED asked

Next == Begin \/ Ask \/ Answer \/ Complete \/ Stop

Spec == Init /\ [][Next]_contractVars
=============================================================================
