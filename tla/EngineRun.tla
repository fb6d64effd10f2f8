------------------------------ MODULE EngineRun ------------------------------
(* One task handed to runtime.execute_agent, several times over: the engine   *)
(* is resolved, runs, and its result becomes the outcome of the run. What the *)
(* outcome does to the run and the task is TaskRuns.                          *)
EXTENDS ReactAgent, DelegatedAgent, PlanAgent

CONSTANT MaxExecutions   \* bound: how often the task is executed

ASSUME ExecutionsAssumption == MaxExecutions \in Nat \ {0}

VARIABLE executions

vars == <<engineVars, reactVars, childVars, planVars, executions>>

StallActions == {"blocker", "retry", "fail"}

Init ==
  /\ pc = "idle" /\ engine = "react" /\ result = "none"
  /\ attempt = 0 /\ failures = NoFailures
  /\ tree = "unchecked" /\ declared = FALSE /\ asked = {} /\ question = NoQuestion
  /\ cap \in Caps /\ priced \in BOOLEAN /\ (cap = 0 => priced)
  /\ prior = 0 /\ records = 0 /\ charged = 0 /\ spent = 0 /\ slip = FALSE
  /\ iterations = 0 /\ repeats = 0 /\ turn = 0
  /\ stallAction = "blocker" /\ stalls = 0
  /\ monitor = "off" /\ quiet = FALSE /\ stalled = FALSE
  /\ step = 0 /\ streak = 0 /\ vstreak = 0 /\ tries = 0
  /\ stage = "first" /\ kept = NoQuestion
  /\ strict = FALSE /\ guarded = FALSE /\ changed = FALSE /\ executions = 0

\* execute_agent is entered, with whichever engine the command named; the human
\* answered what the last execution asked.
Begin ==
  /\ pc = "idle" \/ (pc = "done" /\ result # "completed")
  /\ executions < MaxExecutions
  /\ executions' = executions + 1
  /\ engine' \in Engines
  /\ pc' = CASE engine' = "react" -> "start"
            [] engine' = "plan"  -> "prepare"
            [] OTHER             -> "delegate"
  /\ attempt' = 0 /\ failures' = NoFailures
  /\ tree' = "unchecked" /\ declared' = FALSE
  /\ asked' = {} /\ question' = NoQuestion /\ result' = "none"
  /\ stallAction' \in IF engine' = "react" THEN StallActions ELSE {"blocker"}
  /\ stalls' = 0
  /\ strict' \in IF engine' = "delegated" THEN BOOLEAN ELSE {FALSE}
  /\ guarded' = FALSE /\ changed' = FALSE
  /\ UNCHANGED <<money, watch, loop, planVars>>

\* The result becomes the outcome: a question in it becomes a blocker, the one
\* the adapter created already if there is one. The engine and its tracker go.
Conclude ==
  /\ pc = "conclude"
  /\ pc' = "done"
  /\ \/ /\ result = "blocked" /\ question # NoQuestion
        /\ \/ asked' = asked \cup {question} /\ UNCHANGED result
           \/ UNCHANGED asked /\ result' = "failed"
     \/ ~(result = "blocked" /\ question # NoQuestion) /\ UNCHANGED <<asked, result>>
  /\ attempt' = 0 /\ failures' = NoFailures
  /\ UNCHANGED <<engine, tree, declared, question>>
  /\ UNCHANGED <<reactVars, childVars, planVars, executions>>

ReactNext == engine = "react" /\ ReactStep /\ UNCHANGED <<childVars, planVars, executions>>
DelegatedNext == engine = "delegated" /\ DelegatedStep /\ UNCHANGED <<reactVars, planVars, executions>>
PlanNext == /\ engine = "plan" /\ PlanStep
            /\ UNCHANGED <<spent, slip, watch, loop, stallAction, stalls, childVars, executions>>
WatchdogNext == Watchdog /\ UNCHANGED <<childVars, planVars, executions>>

Next == Begin \/ ReactNext \/ DelegatedNext \/ PlanNext \/ WatchdogNext \/ Conclude

Spec == Init /\ [][Next]_vars

\* The agent's own steps are taken: calls, tools, gates and children return or
\* time out. Nothing is asked of the watchdog, the clock or the operator.
FairSpec ==
  /\ Spec
  /\ WF_vars(ReactNext) /\ WF_vars(DelegatedNext) /\ WF_vars(PlanNext) /\ WF_vars(Conclude)

-----------------------------------------------------------------------------
Labels == {"idle", "conclude", "done"} \cup ReactLabels \cup DelegatedLabels \cup PlanLabels

\* Every variable has the shape the code gives it.
TypeOK ==
  /\ pc \in Labels /\ engine \in Engines /\ result \in Results
  /\ attempt \in Nat /\ failures \in [Errors -> Nat]
  /\ tree \in {"unchecked", "green", "red"} /\ declared \in BOOLEAN
  /\ asked \subseteq Questions /\ question \in Questions \cup {NoQuestion}
  /\ cap \in Caps /\ priced \in BOOLEAN /\ slip \in BOOLEAN
  /\ prior \in Nat /\ records \in Nat /\ charged \in Nat /\ spent \in Nat
  /\ iterations \in Nat /\ repeats \in Nat /\ turn \in Nat /\ stalls \in Nat
  /\ stallAction \in StallActions
  /\ monitor \in {"off", "watching", "decided", "spent"}
  /\ quiet \in BOOLEAN /\ stalled \in BOOLEAN
  /\ strict \in BOOLEAN /\ guarded \in BOOLEAN /\ changed \in BOOLEAN
  /\ step \in 0..PlanSteps /\ streak \in Nat /\ vstreak \in Nat /\ tries \in Nat
  /\ stage \in Stages /\ kept \in Questions \cup {NoQuestion}
  /\ executions \in 0..MaxExecutions

\* A run that completes had its gates pass on the tree as the last write left it,
\* and was declared finished by its agent; if that was a child of which file
\* changes are required, in a repository where git can tell, git showed some
\* after the child's last run. Neither a stuck loop, a quick fix nor, where the
\* guard applies, a clean exit alone is taken for success. (What the plan engine
\* declares is PlanIsFinished; a Codex child, and any outside git, needs to have
\* changed nothing.)
CompletedIsVerified ==
  result = "completed" => /\ tree = "green"
                          /\ engine # "plan" => declared
                          /\ engine = "delegated" /\ guarded => changed

\* A built-in run that failed left no question behind: whatever raised one is
\* among the _BLOCKED_REASONS.
FailedAsksNothing == engine = "react" /\ result = "failed" => asked = {}

\* Over all its executions, stall retries and correction loops a task makes no
\* more calls of the built-in engine than its cap allows, as long as the
\* accounting has not slipped; and no agent of it makes a second call of a model
\* whose price is not known. (The plan engine's calls are not in the table.)
SpendWithinCap ==
  cap > 0 => IF priced THEN slip \/ spent <= cap ELSE engine = "react" => records <= 1

\* Every execution ends: no combination of stalls, retries, quick fixes and
\* correction rounds goes on for ever.
ExecutionEnds == (pc # "idle") ~> (pc = "done")

\* What execute_agent promises its run.
Contract == INSTANCE EngineContract
              WITH phase <- IF pc = "idle" THEN "idle" ELSE IF pc = "done" THEN result ELSE "working",
                   asked <- asked

ContractSpec == Contract!Spec

\* As _create_blocker_from_failure has it ("let the agent continue with self-
\* correction", "mark as needing retry"): a question that turns out to need no
\* human puts the step back to the agent, so that a plan engine's run completes
\* only with its plan gone through. (No run checks it, for it is false: the agent
\* goes on to the final verification instead.)
PlanIsFinished == engine = "plan" /\ result = "completed" => declared
=============================================================================
