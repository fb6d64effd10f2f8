------------------------------ MODULE PlanAgent ------------------------------
(* The plan engine: core/agent.py inside the supervisor's second chances of   *)
(* BuiltinPlanAdapter (core/adapters/builtin.py). A plan's steps are executed *)
(* one after the other, each with its corrections; then the gates run, with   *)
(* repairs in between. Every model call is counted, while there is a cap.     *)
EXTENDS EngineState

CONSTANTS PlanSteps,             \* steps of a plan
          MaxStreak,             \* MAX_CONSECUTIVE_FAILURES
          MaxVerificationStreak, \* MAX_CONSECUTIVE_VERIFICATION_FAILURES
          MaxCorrections,        \* MAX_SELF_CORRECTION_ATTEMPTS
          MaxAttempts,           \* AgentState.max_attempts
          MaxFailedFixes         \* bound: fixes of one repair that fail

ASSUME PlanAssumption ==
  /\ {MaxStreak, MaxVerificationStreak, MaxCorrections, MaxAttempts} \subseteq Nat \ {0}
  /\ {PlanSteps, MaxFailedFixes} \subseteq Nat

VARIABLES step,     \* state.current_step
          streak,   \* consecutive_failures
          vstreak,  \* consecutive_verification_failures
          tries,    \* self_correction_attempts
          stage,    \* which of the adapter's agents runs
          kept      \* the question of the state a failing rerun leaves in place

counters == <<step, streak, vstreak, tries>>
planVars == <<counters, stage, kept>>

PlanLabels == {"prepare", "steps", "lint", "mend", "ask", "gate", "repair", "ended"}
Stages == {"first", "unblocked", "recovered"}
ErrorKinds == {"tactical", "technical", "human"}

\* The agent goes on at a label; what it says of itself changes as declared' does.
On(label) == pc' = label /\ UNCHANGED <<engine, attempt, failures, tree, asked, question, result>>
Go(label) == On(label) /\ UNCHANGED declared

\* The agent's run returns with a status.
Finish(r) ==
  /\ pc' = "ended" /\ result' = r
  /\ UNCHANGED <<engine, attempt, failures, tree, declared, asked, question>>

\* blockers.create, and the return that follows.
StopAsking(q) ==
  /\ pc' = "ended" /\ result' = "blocked" /\ question' = q /\ asked' = asked \cup {q}
  /\ UNCHANGED <<engine, attempt, failures, tree, declared>>

Unbilled == UNCHANGED <<cap, priced, charged, prior>>
NoMoney == UNCHANGED <<cap, priced, charged, prior, records>>

\* What an agent counted goes with it; a plan engine's calls reach no table.
ForgetAgent ==
  /\ step' = 0 /\ streak' = 0 /\ vstreak' = 0 /\ tries' = 0
  /\ prior' = 0 /\ records' = 0
  /\ UNCHANGED <<cap, priced, charged>>

Forget == ForgetAgent /\ stage' = "first" /\ kept' = NoQuestion

\* The adapter builds another agent.
FreshAgent(s) ==
  /\ pc' = "prepare" /\ stage' = s
  /\ attempt' = 0 /\ failures' = NoFailures /\ tree' = "unchecked" /\ declared' = FALSE
  /\ question' = NoQuestion /\ result' = "none"
  /\ ForgetAgent /\ UNCHANGED engine

-----------------------------------------------------------------------------
(* run and _execute_plan.                                                     *)

\* The table is read, as nothing when it cannot be; an OPEN blocker of the task
\* stops the run before it plans.
Prepare ==
  /\ pc = "prepare"
  /\ prior' \in IF cap > 0 THEN {charged, 0} ELSE {prior}
  /\ IF asked = {}
     THEN Go("steps")
     ELSE /\ pc' = "ended" /\ result' = "blocked" /\ question' \in asked
          /\ UNCHANGED <<engine, attempt, failures, tree, declared, asked>>
  /\ UNCHANGED <<cap, priced, charged, records, planVars>>

\* The plan is done: the final verification follows.
FinishPlan ==
  /\ pc = "steps" /\ step = PlanSteps
  /\ On("gate") /\ declared' = TRUE
  /\ NoMoney /\ UNCHANGED planVars

\* The cap stops the run, not the step.
StopAtCap ==
  /\ pc = "steps" /\ step < PlanSteps /\ OverCap
  /\ StopAsking("cost")
  /\ NoMoney /\ UNCHANGED planVars

\* A step succeeds, is skipped, leaves code the linter refuses, or fails; an
\* error that needs a human, or that names no file to fix, is asked about.
ExecuteStep ==
  /\ pc = "steps" /\ step < PlanSteps /\ ~OverCap
  /\ \E calls \in 0..1 : Bill(calls)
  /\ tries' = 0
  /\ \/ Go("steps") /\ step' = step + 1 /\ streak' \in {0, streak} /\ vstreak' \in {0, vstreak}
     \/ Go("lint") /\ streak' = 0 /\ UNCHANGED <<step, vstreak>>
     \/ (Go("mend") \/ Go("ask")) /\ streak' = streak + 1 /\ UNCHANGED <<step, vstreak>>
  /\ Unbilled /\ UNCHANGED <<stage, kept>>

\* One _attempt_self_correction: a call, and the step again with what it said,
\* which asks the cap once more.
Correct(succeeds) ==
  /\ tries < MaxCorrections /\ ~OverCap
  /\ tries' = tries + 1
  /\ \E calls \in 1..2 :
       /\ succeeds \/ calls = 2 => ~OverCapAt(records + 1)
       /\ Bill(calls)

\* The linter refused what a step wrote: it is corrected and linted again.
CorrectLint ==
  /\ pc = "lint"
  /\ \/ Correct(TRUE) /\ Go("steps") /\ step' = step + 1 /\ vstreak' = 0
     \/ Correct(FALSE) /\ Go("lint") /\ UNCHANGED <<step, vstreak>>
  /\ Unbilled /\ UNCHANGED <<streak, stage, kept>>

\* No correction took, or none could be made: the plan goes on with the broken
\* file until too many in a row are broken.
LeaveLint ==
  /\ pc = "lint"
  /\ vstreak' = vstreak + 1 /\ streak' = streak + 1
  /\ CASE vstreak' >= MaxVerificationStreak -> StopAsking("aborted") /\ UNCHANGED step
       [] vstreak' < MaxVerificationStreak /\ streak' >= MaxStreak -> Go("ask") /\ UNCHANGED step
       [] OTHER -> Go("steps") /\ step' = step + 1
  /\ NoMoney /\ UNCHANGED <<tries, stage, kept>>

\* A failed step is corrected; what the correction wrote may not lint.
CorrectStep ==
  /\ pc = "mend"
  /\ \/ Correct(TRUE) /\ Go("steps") /\ step' = step + 1 /\ streak' \in 0..1
     \/ Correct(FALSE) /\ Go("mend") /\ UNCHANGED <<step, streak>>
  /\ Unbilled /\ UNCHANGED <<vstreak, stage, kept>>

\* Or it is not: what the last error asks for, and how often it was tried,
\* decides. An attempt that could not be made counts.
LeaveStep ==
  /\ pc = "mend"
  /\ \E kind \in ErrorKinds :
       LET attempts == IF tries < MaxCorrections THEN tries + 1 ELSE tries
           asks == kind = "human" \/ (kind = "technical" /\ attempts >= MaxCorrections)
       IN  /\ kind = "human" => tries > 0
           /\ CASE asks                          -> Go("ask") /\ UNCHANGED step
                [] ~asks /\ streak >= MaxStreak  -> Finish("failed") /\ UNCHANGED step
                [] OTHER                         -> Go("steps") /\ step' = step + 1
  /\ NoMoney /\ UNCHANGED <<streak, vstreak, tries, stage, kept>>

\* _create_blocker_from_failure: a call words the question, whatever the cap.
\* When the wording says the matter is tactical or technical there is no
\* blocker, and run goes on to the final verification, the plan unfinished.
AskAboutStep ==
  /\ pc = "ask"
  /\ \E calls \in 0..1 : Bill(calls)
  /\ StopAsking("agent") \/ Go("gate")
  /\ Unbilled /\ UNCHANGED planVars

-----------------------------------------------------------------------------
(* _run_final_verification and _attempt_verification_fix.                     *)

\* The gates pass, fail, or raise.
RunGates ==
  /\ pc = "gate"
  /\ \/ /\ pc' = "ended" /\ result' = "completed" /\ tree' = "green"
        /\ UNCHANGED <<engine, attempt, failures, declared, asked, question>>
     \/ /\ attempt' = attempt + 1 /\ tree' = "red"
        /\ IF attempt' < MaxAttempts THEN pc' = "repair" /\ UNCHANGED result
                                     ELSE pc' = "ended" /\ result' = "failed"
        /\ UNCHANGED <<engine, failures, declared, asked, question>>
     \/ Finish("failed")
  /\ NoMoney /\ UNCHANGED planVars

\* What the fixes of one repair that did not take leave in the tracker.
FailedFixes ==
  {failures} \cup {[failures EXCEPT ![e] = @ + n] : e \in Errors, n \in 1..MaxFailedFixes}

\* A fix was applied: the gates run again.
Repair ==
  /\ pc = "repair"
  /\ pc' = "gate" /\ tree' = "unchecked" /\ failures' \in FailedFixes
  /\ \/ Bill(0)
     \/ (\E e \in Errors : ~ShouldEscalate(failures, e)) /\ Bill(1)
  /\ UNCHANGED <<engine, attempt, declared, asked, question, result>>
  /\ Unbilled /\ UNCHANGED planVars

\* None was: the run fails, and a question of the tracker stays open beside it.
RepairFails ==
  /\ pc = "repair"
  /\ pc' = "ended" /\ result' = "failed" /\ tree' = "unchecked"
  /\ \/ Bill(0) /\ UNCHANGED asked
     \/ /\ \E e \in Errors, f \in FailedFixes : ShouldEscalate(f, e)
        /\ Bill(0) /\ asked' = asked \cup {"escalation"}
     \/ /\ \E e \in Errors : ~ShouldEscalate(failures, e)
        /\ Bill(1) /\ UNCHANGED asked
  /\ UNCHANGED <<engine, attempt, failures, declared, question>>
  /\ Unbilled /\ UNCHANGED planVars

-----------------------------------------------------------------------------
(* BuiltinPlanAdapter.run.                                                    *)

\* An exception of run: the context, the planner, a blocker's insert. Of the
\* first agent it is the execution's; of a second one it is swallowed and the
\* state before stands.
PlanRaise ==
  /\ pc \in {"prepare", "steps", "lint", "ask"}
  /\ CASE stage = "first"     -> pc' = "done" /\ result' = "failed" /\ UNCHANGED question
       [] stage = "unblocked" -> pc' = "conclude" /\ result' = "blocked" /\ question' = kept
       [] OTHER               -> pc' = "conclude" /\ result' = "failed" /\ UNCHANGED question
  /\ Forget
  /\ UNCHANGED <<engine, attempt, failures, tree, declared, asked>>

\* SupervisorResolver.try_resolve_blocked_task holds the question to be tactical
\* and answers it itself.
Supervise ==
  /\ pc = "ended" /\ result = "blocked" /\ stage = "first"
  /\ asked' = {} /\ kept' = question
  /\ FreshAgent("unblocked")

\* The error matches a tactical pattern: the guidance is a blocker answered as
\* soon as it is created. A question left open stays so.
Recover ==
  /\ pc = "ended" /\ result = "failed" /\ stage # "recovered"
  /\ FreshAgent("recovered")
  /\ UNCHANGED <<asked, kept>>

MapState ==
  /\ pc = "ended"
  /\ pc' = "conclude"
  /\ Forget
  /\ UNCHANGED <<engine, attempt, failures, tree, declared, asked, question, result>>

PlanStep == Prepare \/ FinishPlan \/ StopAtCap \/ ExecuteStep \/ CorrectLint \/ LeaveLint
            \/ CorrectStep \/ LeaveStep \/ AskAboutStep \/ RunGates \/ Repair \/ RepairFails
            \/ PlanRaise \/ Supervise \/ Recover \/ MapState
=============================================================================
