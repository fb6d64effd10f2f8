--------------------------- MODULE TaskLifecycle ---------------------------
(* What the tasks table promises to everything that watches it, with no       *)
(* mention of runs, processes or transactions:                                *)
(*   - a task only ever moves along the edges of the state machine;           *)
(*   - each arrival at DONE buys at most one close of the linked GitHub issue.*)
(* TaskRuns implements it.                                                    *)
EXTENDS TaskStatus, Integers

CONSTANT Tasks

VARIABLES status,     \* the status of each task
          unclosed    \* arrivals at DONE whose issue close is still to be sent

lifecycleVars == <<status, unclosed>>

Init ==
  /\ status \in [Tasks -> {"BACKLOG", "READY"}]
  /\ unclosed = [t \in Tasks |-> 0]

Move(t, s) ==
  /\ CanTransition(status[t], s)
  /\ status' = [status EXCEPT ![t] = s]
  /\ unclosed' = [unclosed EXCEPT ![t] = IF s = "DONE" THEN @ + 1 ELSE @]

\* The close is sent, or the process that owed it is gone.
Close(t) ==
  /\ unclosed[t] > 0
  /\ unclosed' = [unclosed EXCEPT ![t] = @ - 1]
  /\ UNCHANGED status

Next == \E t \in Tasks : Close(t) \/ \E s \in Statuses : Move(t, s)

Spec == Init /\ [][Next]_lifecycleVars
=============================================================================
