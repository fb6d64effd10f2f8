----------------------------- MODULE EngineState -----------------------------
(* What the agent engines have in common: one execution of one task by        *)
(* runtime.execute_agent, the tracker that decides when gate failures go to a *)
(* human (core/fix_tracker.py), and the questions the execution raised.       *)
(*                                                                            *)
(* A blocker is its question: blockers.create returns the OPEN blocker with   *)
(* the same question when there is one, so raising it again adds nothing.     *)
EXTENDS Integers, FiniteSets, FiniteSetsExt

CONSTANTS Errors,            \* gate errors, as FixAttemptTracker normalizes them
          MaxSameError,      \* MAX_SAME_ERROR_ATTEMPTS
          MaxTotalFailures,  \* MAX_TOTAL_FAILURES
          Caps               \* max_cost_usd values; 0 stands for no cap

ASSUME ErrorsAssumption == IsFiniteSet(Errors) /\ Errors # {}
ASSUME ThresholdsAssumption == MaxSameError \in Nat \ {0} /\ MaxTotalFailures \in Nat \ {0}
ASSUME CapsAssumption == Caps \subseteq Nat

VARIABLES pc,        \* where the execution is
          engine,    \* which engine runs it
          attempt,   \* verification rounds so far
          failures,  \* FixAttemptTracker._error_counts
          tree,      \* what the gates said of the tree as it is now
          declared,  \* the agent said it was done
          asked,     \* the OPEN blockers this execution raised
          question,  \* AgentResult.blocker_question
          result,    \* AgentResult.status
          cap,       \* the spend cap of the task (core/cost_tracker.py)
          priced,    \* the model has known pricing
          charged,   \* calls in the token_usage table
          prior,     \* what that table said was spent before
          records    \* the LLM calls this agent recorded, while there is a cap

engineVars == <<pc, engine, attempt, failures, tree, declared, asked, question, result>>

NoQuestion == "nothing"
Questions == {"stall", "cost", "budget", "agent", "escalation", "exhausted", "aborted"}
Results == {"none", "completed", "failed", "blocked"}
Engines == {"react", "plan", "delegated"}

NoFailures == [e \in Errors |-> 0]

TotalFailures(f) == MapThenSumSet(LAMBDA e : f[e], Errors)

\* should_escalate, as its callers use it: they pass no file.
ShouldEscalate(f, e) == f[e] >= MaxSameError \/ TotalFailures(f) >= MaxTotalFailures

\* Mutant: each failure starts the table afresh.
RecordFailure_Fresh(f, e) == [x \in {e} |-> 1]

\* record_outcome(FAILED).
RecordFailure(f, e) == [f EXCEPT ![e] = @ + 1]

\* cap_message, after n recorded calls: at the cap, or unable to measure. Spend is
\* counted in calls.
OverCapAt(n) == cap > 0 /\ IF priced THEN prior + n >= cap ELSE n > 0
OverCap == OverCapAt(records)

\* record_response, of so many answered calls.
Bill(calls) == records' = IF cap > 0 THEN records + calls ELSE records
=============================================================================
