----------------------------- MODULE TaskStatus -----------------------------
(* The task state machine of core/state_machine.py and the aggregation that   *)
(* core/task_tree.py computes over it. Pure operators: the modules that keep  *)
(* task rows extend this one.                                                 *)
EXTENDS Naturals, Sequences

Statuses == {"BACKLOG", "READY", "IN_PROGRESS", "BLOCKED", "FAILED", "DONE", "MERGED"}

Finished == {"DONE", "MERGED"}

\* ALLOWED_TRANSITIONS: the statuses one legal step leads to.
AllowedTransitions ==
  [ BACKLOG     |-> {"READY"},
    READY       |-> {"IN_PROGRESS", "BACKLOG"},
    IN_PROGRESS |-> {"BLOCKED", "DONE", "READY", "FAILED"},
    BLOCKED     |-> {"IN_PROGRESS", "READY"},
    FAILED      |-> {"READY", "IN_PROGRESS"},
    DONE        |-> {"READY", "MERGED"},
    MERGED      |-> {} ]

CanTransition(current, target) == target \in AllowedTransitions[current]

\* Every legal walk of exactly n steps, as the sequence of statuses it visits.
Walks[n \in 0..6] ==
  IF n = 0 THEN { <<s>> : s \in Statuses }
  ELSE UNION { { Append(w, s) : s \in AllowedTransitions[w[Len(w)]] } : w \in Walks[n - 1] }

WalksBetween(current, target, n) ==
  { w \in Walks[n] : w[1] = current /\ w[Len(w)] = target }

\* transition_path: the shortest legal route (it is unique for every pair),
\* without the status it starts from; empty when there is nothing to walk or no
\* legal way to walk it.
TransitionPath ==
  [ current, target \in Statuses |->
      LET hops == { n \in 1..6 : WalksBetween(current, target, n) # {} }
          fewest == CHOOSE n \in hops : \A m \in hops : n <= m
      IN  IF current = target \/ hops = {} THEN <<>>
          ELSE Tail(CHOOSE w \in WalksBetween(current, target, fewest) : TRUE) ]

\* _rolled_up_status: the status of a composite whose children have exactly the
\* statuses of the non-empty set cs, in the code's order of precedence.
RolledUpStatus(cs) ==
  IF cs \subseteq Finished THEN "DONE"
  ELSE IF "FAILED" \in cs THEN "FAILED"
  ELSE IF "IN_PROGRESS" \in cs THEN "IN_PROGRESS"
  ELSE IF "BLOCKED" \in cs THEN "BLOCKED"
  ELSE IF cs \cap Finished # {} THEN "IN_PROGRESS"
  ELSE IF "READY" \in cs THEN "READY"
  ELSE "BACKLOG"
=============================================================================
