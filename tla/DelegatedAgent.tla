--------------------------- MODULE DelegatedAgent ---------------------------
(* An external coding agent: the child process core/adapters/                 *)
(* subprocess_adapter.py drives, inside the gates and correction rounds of    *)
(* core/adapters/verification_wrapper.py.                                     *)
EXTENDS EngineState

CONSTANT MaxCorrectionRounds

ASSUME RoundsAssumption == MaxCorrectionRounds \in Nat

VARIABLES strict,    \* require_file_changes: not asked of Codex and of cloud sandboxes
          guarded,   \* it was asked of the last child, and git could tell
          changed    \* after it git showed uncommitted files, whosever, or its commit

childVars == <<strict, guarded, changed>>

DelegatedLabels == {"delegate", "wrapGates", "lastGates"}

\* The inner adapter's result: a completed one goes on to pc "next", the others
\* are the wrapper's own.
ReturnInner(r, q) ==
  /\ pc' = "conclude" /\ result' = r /\ question' = q
  /\ UNCHANGED <<declared, tree>>

Accept ==
  /\ pc' = IF attempt < MaxCorrectionRounds THEN "wrapGates" ELSE "lastGates"
  /\ declared' = TRUE /\ tree' = "unchecked"
  /\ UNCHANGED <<result, question>>

\* Mutant: exit code 0 is success, whatever the child did (#739).
Judge_ByExitCode(exit, obstacle) ==
  IF exit = 0 THEN Accept
  ELSE IF obstacle THEN ReturnInner("blocked", "agent") ELSE ReturnInner("failed", NoQuestion)

\* _map_result and the zero-file guard: a clean exit with nothing changed is a
\* question or a failure, where the guard applies.
Judge(exit, obstacle) ==
  IF exit = 0 /\ (guarded' => changed') THEN Accept
  ELSE IF obstacle THEN ReturnInner("blocked", "agent") ELSE ReturnInner("failed", NoQuestion)

\* One run of the child: it may change files, or undo what it changed, and exits,
\* or is killed at the timeout, or cannot be started. Outside a git repository,
\* and when rev-parse fails, nothing is asked of it.
Delegate ==
  /\ pc = "delegate"
  /\ changed' \in BOOLEAN /\ guarded' \in {FALSE, strict} /\ UNCHANGED strict
  /\ \/ \E exit \in {0, 1}, obstacle \in BOOLEAN : Judge(exit, obstacle)
     \/ ReturnInner("failed", NoQuestion)
  /\ UNCHANGED <<engine, attempt, failures, asked>>

WrapPass ==
  /\ pc \in {"wrapGates", "lastGates"}
  /\ pc' = "conclude" /\ tree' = "green" /\ result' = "completed"
  /\ UNCHANGED <<engine, attempt, failures, declared, asked, question, childVars>>

\* Mutant: the result quotes the errors instead of the question that was asked.
RaiseQuestion_Reworded(q) ==
  /\ pc' = "conclude" /\ result' = "blocked" /\ question' = "agent"
  /\ asked' \in {asked, asked \cup {q}}

\* _create_escalation_blocker and _create_exhaustion_blocker: the blocker is
\* created as far as the database lets it, and the result carries its question.
RaiseQuestion(q) ==
  /\ pc' = "conclude" /\ result' = "blocked" /\ question' = q
  /\ asked' \in {asked, asked \cup {q}}

\* The next round checks the tree again.
NextCheck == IF attempt + 1 < MaxCorrectionRounds THEN "wrapGates" ELSE "lastGates"

\* Escalation is decided on the earlier rounds' failures; a quick fix keeps the
\* child out of it and is not counted as a failure.
WrapQuickFix ==
  /\ pc = "wrapGates" /\ \E e \in Errors : ~ShouldEscalate(failures, e)
  /\ pc' = NextCheck /\ tree' = "unchecked" /\ attempt' = attempt + 1
  /\ UNCHANGED <<engine, failures, declared, asked, question, result, childVars>>

WrapEscalate ==
  /\ pc = "wrapGates"
  /\ \E e \in Errors : /\ ShouldEscalate(failures, e)
                       /\ failures' = RecordFailure(failures, e)
  /\ tree' = "red"
  /\ RaiseQuestion("escalation")
  /\ UNCHANGED <<engine, attempt, declared, childVars>>

\* No quick fix: the child is run again with the errors in its prompt. What
\* counts as its change is what git shows, the earlier rounds' files included.
WrapCorrect ==
  /\ pc = "wrapGates"
  /\ \E e \in Errors : /\ ~ShouldEscalate(failures, e)
                       /\ failures' = RecordFailure(failures, e)
  /\ pc' = "delegate" /\ tree' = "red" /\ attempt' = attempt + 1
  /\ UNCHANGED <<engine, declared, asked, question, result, childVars>>

\* The check after the last round fails.
Exhaust ==
  /\ pc = "lastGates"
  /\ tree' = "red"
  /\ RaiseQuestion("exhausted")
  /\ UNCHANGED <<engine, attempt, failures, declared, childVars>>

\* A gate runner or the event callback raises: execute_agent's handler.
WrapRaise ==
  /\ pc \in DelegatedLabels
  /\ pc' = "done" /\ result' = "failed"
  /\ UNCHANGED <<engine, attempt, failures, tree, declared, asked, question, childVars>>

DelegatedStep == Delegate \/ WrapPass \/ WrapQuickFix \/ WrapEscalate \/ WrapCorrect
                 \/ Exhaust \/ WrapRaise
=============================================================================
