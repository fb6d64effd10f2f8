----------------------------- MODULE ReactAgent -----------------------------
(* The built-in engine: core/react_agent.py inside the stall-retry loop of    *)
(* core/adapters/builtin.py, with the watchdog thread of core/stall_monitor.py*)
(* and the spend cap of core/cost_tracker.py.                                 *)
(*                                                                            *)
(* The agent and the watchdog are two threads: the watchdog measures under    *)
(* its lock and reports after releasing it.                                   *)
EXTENDS EngineState

CONSTANTS MaxIterations,           \* the adaptive budget
          MaxVerificationRetries,
          MaxFixTurns,
          MaxStallRetries          \* _MAX_STALL_RETRIES

ASSUME LimitsAssumption == /\ MaxIterations \in Nat \ {0}
                           /\ {MaxVerificationRetries, MaxFixTurns, MaxStallRetries} \subseteq Nat

VARIABLES spent,        \* calls the provider bills for the task, counted while
                        \* there is a cap and slip is FALSE
          slip,         \* the accounting failed once, silently
          iterations, repeats, turn,
          stallAction,  \* --stall-action
          stalls,       \* stall_attempt
          monitor,      \* the watchdog thread
          quiet,        \* nothing recorded activity for stall_timeout_s
          stalled       \* _stall_triggered

money == <<cap, priced, prior, records, charged, spent, slip>>
watch == <<monitor, quiet, stalled>>
loop == <<iterations, repeats, turn>>
reactVars == <<money, watch, loop, stallAction, stalls>>

ReactLabels == {"start", "loop", "call", "tools", "verify", "gates", "fix", "fixTools",
                "finally", "retry"}
\* The labels between _stall_monitor.start and stop.
Monitored == ReactLabels \ {"start", "retry"}

Goto(label) == pc' = label /\ UNCHANGED <<engine, attempt, failures, tree, declared, asked, question, result>>

\* run returns r through its finally block.
Return(r) ==
  /\ pc' = "finally" /\ result' = r
  /\ UNCHANGED <<engine, attempt, failures, tree, declared, asked, question>>

\* _create_text_blocker or _create_escalation_blocker, and the stop that
\* follows; when the insert fails the exception makes the run FAILED.
Block(q) ==
  /\ pc' = "finally"
  /\ \/ asked' = asked \cup {q} /\ result' = "blocked"
     \/ UNCHANGED asked /\ result' = "failed"
  /\ UNCHANGED <<engine, attempt, tree, declared, question>>

BlockNow(q) == Block(q) /\ UNCHANGED failures

-----------------------------------------------------------------------------
(* The beginning and the end of one ReactAgent.                               *)

\* load_prior_task_cost reads an unreadable table as no prior spend.
Start ==
  /\ pc = "start" /\ Goto("loop")
  /\ \/ prior' = charged /\ UNCHANGED slip
     \/ prior' = 0 /\ slip' = (slip \/ charged > 0)
  /\ monitor' = "watching"
  /\ UNCHANGED <<cap, priced, records, charged, spent, quiet, stalled, loop, stallAction, stalls>>

\* An exception: no such task, a provider error, a tool or gate runner that raises.
Raise ==
  /\ pc \in {"start", "call", "tools", "gates", "fix", "fixTools"}
  /\ Return("failed")
  /\ UNCHANGED reactVars

\* Mutant: StallDetectedError leaves without persisting what was spent.
Persist_NotOnStall ==
  /\ records' = 0
  /\ charged' = IF result = "none" THEN charged ELSE charged + records
  /\ UNCHANGED slip

\* _persist_token_usage swallows its failures.
Persist ==
  /\ records' = 0
  /\ \/ charged' = charged + records /\ UNCHANGED slip
     \/ UNCHANGED charged /\ slip' = (slip \/ records > 0)

\* The finally block: the watchdog is stopped and the usage persisted; a
\* StallDetectedError (no result yet) goes on to the adapter. What else the
\* agent knew goes with it.
Finally ==
  /\ pc = "finally"
  /\ Goto(IF result = "none" THEN "retry" ELSE "conclude")
  /\ Persist
  /\ prior' = 0 /\ iterations' = 0 /\ repeats' = 0 /\ turn' = 0
  /\ monitor' = "off" /\ quiet' = FALSE /\ stalled' = FALSE
  /\ UNCHANGED <<cap, priced, spent, stallAction, stalls>>

\* The adapter builds a new agent, with a new fix tracker, until its stall
\* retries run out.
Retry ==
  /\ pc = "retry"
  /\ IF stalls < MaxStallRetries
     THEN /\ pc' = "start" /\ stalls' = stalls + 1
          /\ attempt' = 0 /\ failures' = NoFailures
          /\ tree' = "unchecked" /\ declared' = FALSE
          /\ UNCHANGED <<engine, asked, question, result>>
     ELSE /\ pc' = "conclude" /\ result' = "failed"
          /\ UNCHANGED <<stalls, engine, attempt, failures, tree, declared, asked, question>>
  /\ UNCHANGED <<money, watch, loop, stallAction>>

-----------------------------------------------------------------------------
(* _react_loop.                                                               *)

\* The head of the while loop.
Iterate ==
  /\ pc = "loop"
  /\ CASE iterations >= MaxIterations           -> BlockNow("budget")
       [] iterations < MaxIterations /\ stalled ->
            CASE stallAction = "retry" -> Goto("finally")
              [] stallAction = "fail"  -> Return("failed")
              [] OTHER                 -> BlockNow("stall")
       [] OTHER                                 -> IF OverCap THEN BlockNow("cost") ELSE Goto("call")
  /\ UNCHANGED reactVars

\* An answered call, and its token record.
Charge == /\ Bill(1)
          /\ spent' = IF cap > 0 /\ ~slip THEN spent + 1 ELSE spent

\* complete returns: tool calls, a text that names an obstacle, or a text that
\* ends the work.
Respond ==
  /\ pc = "call"
  /\ iterations' = iterations + 1 /\ Charge
  /\ \/ Goto("tools")
     \/ BlockNow("agent")
     \/ /\ pc' = "verify" /\ declared' = TRUE
        /\ UNCHANGED <<engine, attempt, failures, tree, asked, question, result>>
  /\ UNCHANGED <<cap, priced, prior, charged, slip, watch, repeats, turn, stallAction, stalls>>

\* Mutant: three identical turns count as the end of the work (#740).
Stuck_Completes ==
  /\ pc' = "verify"
  /\ UNCHANGED <<engine, attempt, failures, tree, declared, asked, question, result>>

Stuck == Return("failed")

\* The calls of one response: a success resets the watchdog's clock, an error
\* about requirements or access goes to a human, and the third identical
\* response ends the run.
RunTools ==
  /\ pc = "tools"
  /\ \E succeeded, refused, same \in BOOLEAN :
       /\ quiet' = (quiet /\ ~succeeded)
       /\ repeats' = IF refused THEN repeats ELSE IF same THEN repeats + 1 ELSE 1
       /\ CASE refused                     -> BlockNow("agent")
            [] ~refused /\ repeats' >= 3   -> Stuck
            [] OTHER                       -> Goto("loop")
       /\ same => repeats > 0
  /\ UNCHANGED <<money, monitor, stalled, iterations, turn, stallAction, stalls>>

-----------------------------------------------------------------------------
(* _run_final_verification.                                                   *)

\* The head of a round. A stall is not turned into a question here.
EnterRound ==
  /\ pc = "verify"
  /\ IF ~stalled THEN Goto("gates")
     ELSE CASE stallAction = "retry" -> Goto("finally")
            [] stallAction = "fail"  -> Return("failed")
            [] OTHER                 -> Return("blocked")
  /\ UNCHANGED reactVars

Pass ==
  /\ pc = "gates"
  /\ pc' = "finally" /\ tree' = "green" /\ result' = "completed"
  /\ UNCHANGED <<engine, attempt, failures, declared, asked, question>>
  /\ UNCHANGED reactVars

\* The last round's gates fail: the run does.
GiveUp ==
  /\ pc = "gates" /\ attempt >= MaxVerificationRetries
  /\ pc' = "finally" /\ tree' = "red" /\ result' = "failed"
  /\ UNCHANGED <<engine, attempt, failures, declared, asked, question>>
  /\ UNCHANGED reactVars

\* Mutant: after a quick fix the loop starts over instead of going on.
QuickFix_Uncounted ==
  /\ pc = "gates" /\ attempt < MaxVerificationRetries
  /\ pc' = "verify" /\ tree' = "unchecked"
  /\ UNCHANGED <<engine, attempt, failures, declared, asked, question, result>>
  /\ UNCHANGED reactVars

\* _try_quick_fix succeeded: the gates run again, one round later.
QuickFix ==
  /\ pc = "gates" /\ attempt < MaxVerificationRetries
  /\ pc' = "verify" /\ tree' = "unchecked" /\ attempt' = attempt + 1
  /\ UNCHANGED <<engine, failures, declared, asked, question, result>>
  /\ UNCHANGED reactVars

\* The failure is recorded and goes to a human, or to the agent.
FailRound ==
  /\ pc = "gates" /\ attempt < MaxVerificationRetries
  /\ \E e \in Errors :
       /\ failures' = RecordFailure(failures, e)
       /\ IF ShouldEscalate(failures', e)
          THEN Block("escalation") /\ UNCHANGED turn
          ELSE /\ pc' = "fix" /\ turn' = 0 /\ tree' = "red"
               /\ UNCHANGED <<engine, attempt, declared, asked, question, result>>
  /\ UNCHANGED <<money, watch, iterations, repeats, stallAction, stalls>>

NextRound ==
  /\ pc' = "verify" /\ attempt' = attempt + 1
  /\ UNCHANGED <<engine, failures, tree, declared, asked, question, result>>

\* Mutant: the cap's reason is not one of _BLOCKED_REASONS.
FixTurn_Unlisted ==
  /\ pc = "fix"
  /\ CASE turn >= MaxFixTurns -> NextRound /\ UNCHANGED <<records, spent>>
       [] turn < MaxFixTurns /\ OverCap ->
            /\ pc' = "finally" /\ asked' = asked \cup {"cost"} /\ result' = "failed"
            /\ UNCHANGED <<engine, attempt, failures, tree, declared, question, records, spent>>
       [] OTHER -> Charge /\ (NextRound \/ Goto("fixTools"))
  /\ UNCHANGED <<cap, priced, prior, charged, slip, watch, loop, stallAction, stalls>>

\* One turn of the mini loop: the cap, then a call that ends the fixing or asks
\* for tools.
FixTurn ==
  /\ pc = "fix"
  /\ CASE turn >= MaxFixTurns              -> NextRound /\ UNCHANGED <<records, spent>>
       [] turn < MaxFixTurns /\ OverCap    -> BlockNow("cost") /\ UNCHANGED <<records, spent>>
       [] OTHER -> Charge /\ (NextRound \/ Goto("fixTools"))
  /\ UNCHANGED <<cap, priced, prior, charged, slip, watch, loop, stallAction, stalls>>

\* Its tools run without a word to the watchdog.
FixTools ==
  /\ pc = "fixTools"
  /\ pc' = "fix" /\ turn' = turn + 1 /\ tree' = "unchecked"
  /\ UNCHANGED <<engine, attempt, failures, declared, asked, question, result>>
  /\ UNCHANGED <<money, watch, iterations, repeats, stallAction, stalls>>

-----------------------------------------------------------------------------
(* The watchdog.                                                              *)

\* stall_timeout_s passes with no activity.
Lull ==
  /\ pc \in Monitored /\ monitor = "watching" /\ ~quiet
  /\ quiet' = TRUE
  /\ UNCHANGED <<engineVars, money, monitor, stalled, loop, stallAction, stalls>>

\* _watch_loop measures under the lock, and has decided: the clock is not looked
\* at again.
Measure ==
  /\ monitor = "watching" /\ quiet
  /\ monitor' = "decided" /\ quiet' = FALSE
  /\ UNCHANGED <<engineVars, money, stalled, loop, stallAction, stalls>>

\* It calls back, and its thread ends.
Report ==
  /\ monitor = "decided"
  /\ monitor' = "spent" /\ stalled' = TRUE
  /\ UNCHANGED <<engineVars, money, quiet, loop, stallAction, stalls>>

ReactStep == Start \/ Iterate \/ Respond \/ RunTools \/ EnterRound \/ Pass \/ GiveUp
             \/ QuickFix \/ FailRound \/ FixTurn \/ FixTools \/ Raise \/ Finally \/ Retry
Watchdog == Lull \/ Measure \/ Report
=============================================================================
