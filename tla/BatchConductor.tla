--------------------------- MODULE BatchConductor ---------------------------
(* One batch of core/conductor.py: its row in batch_runs, the executors that    *)
(* carry it out (the one that created it and the ones that resume it), the     *)
(* worker subprocesses they launch, the reconciliation thread, and the         *)
(* operators who cancel, stop and resume it or complete its tasks by hand.     *)
(*                                                                            *)
(* An executor works on its own copy of the row, batch[e], and writes it back  *)
(* whole; a worker subprocess moves the task and its run as TaskRuns describes,*)
(* here at the grain the conductor can observe.                                *)
EXTENDS TaskStatus, FiniteSets, SequencesExt

CONSTANTS Tasks,
          Groups,       \* the execution plan: a sequence of sets of tasks
          MaxWorkers,   \* threads of the pool that runs a group
          StopOnFailure, MaxRetries,
          First, Executors,
          Ops           \* what may happen: see OpNames

OpNames == {"fail", "block", "supervise", "crash", "raise", "gates", "die", "cancel", "force",
            "resume", "forceResume", "markDone", "closeIssue", "answer"}

ASSUME GroupsAssumption ==
  /\ Groups \in Seq((SUBSET Tasks) \ {{}})
  /\ \A t \in Tasks : \E i \in DOMAIN Groups : t \in Groups[i]
  /\ \A i, j \in DOMAIN Groups : i # j => Groups[i] \cap Groups[j] = {}
ASSUME BatchAssumption ==
  /\ MaxWorkers \in Nat \ {0} /\ MaxRetries \in Nat /\ StopOnFailure \in BOOLEAN
  /\ IsFiniteSet(Tasks) /\ Tasks # {}
  /\ First \in Executors /\ Ops \subseteq OpNames

VARIABLES row,        \* the persisted batch
          batch,      \* each executor's copy of it
          saving,     \* the saves of its copy that each executor is in the middle of
          ctl,        \* where each executor is
          child,      \* the worker subprocess of each executor for each task
          task, run,  \* the task rows, and the newest run of each with its executor
          blocker,    \* the blocker of each task
          closed,     \* tasks whose GitHub issue is closed
          findings,   \* what each reconciliation pass has found and not applied
          requeued,   \* the blockers each reconciliation thread has reported
          cancels,    \* the copies of the row that cancel commands have read
          announced   \* the last batch event each executor has decided on

vars == <<row, batch, saving, ctl, child, task, run, blocker, closed, findings, requeued, cancels,
          announced>>
\* What a step of the executor mostly leaves alone.
aside == <<saving, blocker, closed, findings, requeued, cancels>>

Live == {"PENDING", "RUNNING"}
Terminal == {"COMPLETED", "PARTIAL", "FAILED", "CANCELLED"}
RunStatuses == {"RUNNING", "BLOCKED", "COMPLETED", "FAILED"}
Rows == [status : Live \cup Terminal, results : [Tasks -> RunStatuses \cup {"none"}]]

\* A save: the tasks whose verdict it brings (one, or none when the batch saves itself),
\* the results as they were dumped, and whether the stored status has been looked at.
Saves == [by : SUBSET Tasks, results : [Tasks -> RunStatuses \cup {"none"}], looked : BOOLEAN]

Alive == {"started", "agent", "closing"}       \* the subprocess is running
Children == Alive \cup {"out", "queued", "exitOk", "exitBad", "supervised", "saving", "recorded"}

Labels == {"idle", "created", "sweep", "loop", "group", "verdict", "gates", "persist", "handler",
           "retries", "reopen", "ended"}

\* Where an executor is, which of the loops it is in, and its local variables.
Controls == [pc : Labels, mode : {"execute", "resume", "retry"}, round : 0..MaxRetries,
             plan : Seq(SUBSET Tasks), broken : BOOLEAN, supervised : BOOLEAN,
             completed : Nat, failed : Nat, blocked : Nat]

NoRun == [status |-> "none", by |-> First]
Idle == [pc |-> "idle", mode |-> "execute", round |-> 0, plan |-> <<>>, broken |-> FALSE,
         supervised |-> FALSE, completed |-> 0, failed |-> 0, blocked |-> 0]

Init ==
  /\ row = [status |-> "PENDING", results |-> [t \in Tasks |-> "none"]]
  /\ batch = [e \in Executors |-> row]
  /\ saving = [e \in Executors |-> {}]
  /\ ctl = [e \in Executors |-> IF e = First THEN [Idle EXCEPT !.pc = "created"] ELSE Idle]
  /\ child = [e \in Executors |-> [t \in Tasks |-> "out"]]
  /\ task = [t \in Tasks |-> "READY"]
  /\ run = [t \in Tasks |-> NoRun]
  /\ blocker = [t \in Tasks |-> "none"]
  /\ closed = {}
  /\ findings = [e \in Executors |-> {}]
  /\ requeued = [e \in Executors |-> {}]
  /\ cancels = {}
  /\ announced = [e \in Executors |-> "none"]

-----------------------------------------------------------------------------
At(e, label) == ctl[e].pc = label
Goto(e, label) == ctl' = [ctl EXCEPT ![e].pc = label]

\* A group of several tasks runs in the thread pool.
Pooled(e) == ctl[e].mode = "execute" /\ Cardinality(Head(ctl[e].plan)) > 1

(* _save_batch with preserve_terminal_cancel. The lock it takes is one of the  *)
(* process, and no transaction spans its SELECT and its INSERT OR REPLACE:     *)
(* what another process writes in between is overwritten.                      *)

\* It is entered with the copy b, whose results it dumps before it takes the lock.
SaveBatch(e, by, b) ==
  /\ batch' = [batch EXCEPT ![e] = b]
  /\ saving' = [saving EXCEPT ![e] = @ \cup {[by |-> by, results |-> b.results, looked |-> FALSE]}]

\* It returns: a pooled worker has yet to be counted, and the executor goes on.
Saved(e, save) ==
  /\ saving' = [saving EXCEPT ![e] = @ \ {save}]
  /\ child' = [child EXCEPT ![e] = [t \in Tasks |->
                 IF t \notin save.by THEN @[t] ELSE IF Pooled(e) THEN "recorded" ELSE "out"]]
  /\ IF save.by # {} THEN UNCHANGED ctl
     ELSE Goto(e, IF At(e, "created") THEN "sweep"
                  ELSE IF At(e, "persist") /\ ctl[e].mode = "execute" /\ MaxRetries > 0
                  THEN "retries" ELSE "ended")

InLock(e) == { save \in saving[e] : save.looked }

\* Mutant: the whole-row write as it was before #726.
LookAtStored_Blind(e) ==
  /\ InLock(e) = {}
  /\ \E save \in saving[e] :
       saving' = [saving EXCEPT ![e] = (@ \ {save}) \cup {[save EXCEPT !.looked = TRUE]}]
  /\ UNCHANGED <<row, batch, ctl, child, task, run, blocker, closed, findings, requeued, cancels,
                 announced>>

\* A write of a status that is not CANCELLED over a CANCELLED row is refused, and
\* the copy is flipped instead.
LookAtStored(e) ==
  /\ InLock(e) = {}
  /\ \E save \in saving[e] :
       IF batch[e].status # "CANCELLED" /\ row.status = "CANCELLED"
       THEN batch' = [batch EXCEPT ![e].status = "CANCELLED"] /\ Saved(e, save)
       ELSE /\ saving' = [saving EXCEPT ![e] = (@ \ {save}) \cup {[save EXCEPT !.looked = TRUE]}]
            /\ UNCHANGED <<batch, ctl, child>>
  /\ UNCHANGED <<row, task, run, blocker, closed, findings, requeued, cancels, announced>>

ReplaceRow(e) ==
  /\ \E save \in InLock(e) :
       row' = [status |-> batch[e].status, results |-> save.results] /\ Saved(e, save)
  /\ UNCHANGED <<batch, task, run, blocker, closed, findings, requeued, cancels, announced>>

Singletons(S) == [i \in 1..Cardinality(S) |-> {SetToSeq(S)[i]}]

\* execute_batch, up to the first sweep of _start_reconciliation_thread.
ExecuteBatch(e) ==
  /\ At(e, "created") /\ saving[e] = {}
  /\ SaveBatch(e, {}, [batch[e] EXCEPT !.status = "RUNNING"])
  /\ ctl' = [ctl EXCEPT ![e].plan = Groups]
  /\ UNCHANGED <<row, child, task, run, announced, blocker, closed, findings, requeued, cancels>>

-----------------------------------------------------------------------------
(* Reconciliation with what happened outside the batch.                       *)

\* check_all_active over the tasks without a final result: told are the closed
\* issues GitHub was asked about and answered for.
Changes(e, told) ==
  LET active == { t \in Tasks : batch[e].results[t] \in {"none", "RUNNING", "BLOCKED"} }
      completed == { t \in active : task[t] = "DONE" }
      resolved == { t \in active \ requeued[e] : task[t] = "BLOCKED" /\ blocker[t] = "ANSWERED" }
  IN  { <<t, "completed">> : t \in completed } \cup { <<t, "requeue">> : t \in resolved }
      \cup { <<t, "issue">> : t \in (active \cap told) \ (completed \cup resolved) }

Reported(cs) == { c[1] : c \in { d \in cs : d[2] = "requeue" } }
Settled(cs) == { c[1] : c \in { d \in cs : d[2] # "requeue" } }

\* Mutant: the blocker-resolved task is marked READY in the results (before #921).
ApplyChanges_Ready(e, cs) ==
  /\ task' = [t \in Tasks |-> IF <<t, "issue">> \in cs THEN "DONE" ELSE task[t]]
  /\ child' = [child EXCEPT ![e] = [t \in Tasks |->
                 IF t \in Settled(cs) /\ @[t] \in Alive THEN "exitBad" ELSE @[t]]]
  /\ batch' = [batch EXCEPT ![e].results = [t \in Tasks |->
                 IF t \in Settled(cs) THEN "COMPLETED"
                 ELSE IF t \in Reported(cs) THEN "READY" ELSE @[t]]]

\* apply_changes: mark the closed issues' tasks DONE, terminate the workers of
\* what is done, record it COMPLETED, and forget the verdict of what is resolved.
ApplyChanges(e, cs) ==
  /\ task' = [t \in Tasks |-> IF <<t, "issue">> \in cs THEN "DONE" ELSE task[t]]
  /\ child' = [child EXCEPT ![e] = [t \in Tasks |->
                 IF t \in Settled(cs) /\ @[t] \in Alive THEN "exitBad" ELSE @[t]]]
  /\ batch' = [batch EXCEPT ![e].results = [t \in Tasks |->
                 IF t \in Settled(cs) THEN "COMPLETED"
                 ELSE IF t \in Reported(cs) THEN "none" ELSE @[t]]]

\* The sweep before anything is launched.
FirstSweep(e) ==
  /\ At(e, "sweep")
  /\ \E told \in SUBSET closed :
       /\ ApplyChanges(e, Changes(e, told))
       /\ requeued' = [requeued EXCEPT ![e] = @ \cup Reported(Changes(e, told))]
  /\ Goto(e, "loop")
  /\ UNCHANGED <<row, run, announced, saving, blocker, closed, findings, cancels>>

\* The thread looks while the first pass executes; it is not joined, so a pass
\* that has begun is applied even when the executor has gone on.
ReconcileCheck(e) ==
  /\ ctl[e].mode = "execute"
  /\ ctl[e].pc \in {"loop", "group", "verdict", "gates", "persist", "handler"}
  /\ findings[e] = {}
  /\ \E told \in SUBSET closed :
       /\ Changes(e, told) # {}
       /\ findings' = [findings EXCEPT ![e] = Changes(e, told)]
       /\ requeued' = [requeued EXCEPT ![e] = @ \cup Reported(Changes(e, told))]
  /\ UNCHANGED <<row, batch, ctl, child, task, run, announced, saving, blocker, closed, cancels>>

ReconcileApply(e) ==
  /\ findings[e] # {}
  /\ ApplyChanges(e, findings[e])
  /\ findings' = [findings EXCEPT ![e] = {}]
  /\ UNCHANGED <<row, ctl, run, announced, saving, blocker, closed, requeued, cancels>>

-----------------------------------------------------------------------------
(* The loops of _execute_serial, _execute_parallel, _run_serial_resume and     *)
(* _run_retries: before each task, or group, they look whether the batch was   *)
(* cancelled.                                                                  *)

\* Mutant: the loop does not look.
NextGroup_Unchecked(e) ==
  /\ At(e, "loop") /\ ctl[e].plan # <<>>
  /\ ~(ctl[e].mode = "execute" /\ StopOnFailure /\ ctl[e].failed > 0)
  /\ child' = [child EXCEPT ![e] = [t \in Tasks |->
                 IF t \in Head(ctl[e].plan) THEN "queued" ELSE @[t]]]
  /\ Goto(e, "group")
  /\ UNCHANGED <<row, batch, task, run, announced, aside>>

NextGroup(e) ==
  /\ At(e, "loop") /\ ctl[e].plan # <<>>
  /\ row.status # "CANCELLED"
  /\ ~(ctl[e].mode = "execute" /\ StopOnFailure /\ ctl[e].failed > 0)
  /\ child' = [child EXCEPT ![e] = [t \in Tasks |->
                 IF t \in Head(ctl[e].plan) THEN "queued" ELSE @[t]]]
  /\ Goto(e, "group")
  /\ UNCHANGED <<row, batch, task, run, announced, aside>>

\* A cancelled retry returns at once; every other way out of a loop finalizes,
\* the retries' after their last round.
LoopEnds(e) ==
  /\ At(e, "loop")
  /\ \/ ctl[e].plan = <<>> \/ row.status = "CANCELLED"
     \/ ctl[e].mode = "execute" /\ StopOnFailure /\ ctl[e].failed > 0
  /\ Goto(e, IF ctl[e].mode # "retry" THEN "verdict"
             ELSE IF ctl[e].plan # <<>> THEN "ended" ELSE "retries")
  /\ UNCHANGED <<row, batch, child, task, run, announced, aside>>

\* Mutant: whatever did not fail counts as completed.
Tallied_Lenient(c, result) ==
  IF result = "FAILED" THEN [c EXCEPT !.failed = @ + 1] ELSE [c EXCEPT !.completed = @ + 1]

Tallied(c, result) ==
  IF result = "COMPLETED" THEN [c EXCEPT !.completed = @ + 1]
  ELSE IF result = "BLOCKED" THEN [c EXCEPT !.blocked = @ + 1]
  ELSE [c EXCEPT !.failed = @ + 1]

Busy(e) == { t \in Tasks : child[e][t] \notin {"out", "queued", "recorded"} }

\* A worker is launched; a task that was completed outside is counted instead.
Launch(e, t) ==
  /\ At(e, "group") /\ child[e][t] = "queued"
  /\ Cardinality(Busy(e)) < MaxWorkers
  /\ IF ctl[e].mode = "execute" /\ batch[e].results[t] = "COMPLETED"
     THEN /\ child' = [child EXCEPT ![e][t] = "out"]
          /\ ctl' = [ctl EXCEPT ![e] = Tallied(@, "COMPLETED")]
     ELSE /\ child' = [child EXCEPT ![e][t] = "started"]
          /\ UNCHANGED ctl
  /\ UNCHANGED <<row, batch, task, run, announced, aside>>

\* create_execution_context raises.
LaunchRaises(e, t) ==
  /\ "raise" \in Ops /\ At(e, "group") /\ child[e][t] = "queued"
  /\ Cardinality(Busy(e)) < MaxWorkers
  /\ ~(ctl[e].mode = "execute" /\ batch[e].results[t] = "COMPLETED")
  /\ child' = [child EXCEPT ![e][t] = "out"]
  /\ ctl' = [ctl EXCEPT ![e].broken = TRUE]
  /\ UNCHANGED <<row, batch, task, run, announced, aside>>

-----------------------------------------------------------------------------
(* The worker subprocess, `work start <task> --execute`: the part of           *)
(* TaskRuns that its exit code and the tables show the conductor.              *)

OwnRun(e, t) == run[t] = [status |-> "RUNNING", by |-> e]
Exit(e, t, code) == child' = [child EXCEPT ![e][t] = code]

\* start_task_run refuses a task with an active run, or that cannot move.
StartRun(e, t) ==
  /\ child[e][t] = "started"
  /\ \/ /\ run[t].status \notin {"RUNNING", "BLOCKED"}
        /\ task[t] = "IN_PROGRESS" \/ CanTransition(task[t], "IN_PROGRESS")
        /\ run' = [run EXCEPT ![t] = [status |-> "RUNNING", by |-> e]]
        /\ task' = [task EXCEPT ![t] = "IN_PROGRESS"]
        /\ Exit(e, t, "agent")
     \/ /\ \/ run[t].status \in {"RUNNING", "BLOCKED"}
           \/ task[t] # "IN_PROGRESS" /\ ~CanTransition(task[t], "IN_PROGRESS")
        /\ Exit(e, t, "exitBad")
        /\ UNCHANGED <<run, task>>
  /\ UNCHANGED <<row, batch, ctl, announced, aside>>

\* fail_run: the run if it is still active, and its task if the machine allows.
FailRun(t) ==
  /\ run' = [run EXCEPT ![t].status = "FAILED"]
  /\ task' = [task EXCEPT ![t] = IF CanTransition(@, "FAILED") THEN "FAILED" ELSE @]

FailOwnRun(e, t) ==
  IF run[t].by = e /\ run[t].status \in {"RUNNING", "BLOCKED"} THEN FailRun(t)
                                                              ELSE UNCHANGED <<run, task>>

\* complete_run moves the task, then (CloseRun) the run.
AgentCompletes(e, t) ==
  /\ child[e][t] = "agent"
  /\ IF OwnRun(e, t) /\ task[t] \in {"IN_PROGRESS", "DONE"}
     THEN /\ task' = [task EXCEPT ![t] = "DONE"]
          /\ Exit(e, t, "closing")
          /\ UNCHANGED run
     ELSE FailOwnRun(e, t) /\ Exit(e, t, "exitBad")
  /\ UNCHANGED <<row, batch, ctl, announced, aside>>

CloseRun(e, t) ==
  /\ child[e][t] = "closing"
  /\ run' = IF run[t].by = e THEN [run EXCEPT ![t].status = "COMPLETED"] ELSE run
  /\ Exit(e, t, "exitOk")
  /\ UNCHANGED <<row, batch, ctl, task, announced, aside>>

AgentFails(e, t) ==
  /\ "fail" \in Ops /\ child[e][t] = "agent"
  /\ FailOwnRun(e, t)
  /\ Exit(e, t, "exitBad")
  /\ UNCHANGED <<row, batch, ctl, announced, aside>>

\* A blocked agent asks its question; the process exits with an error.
AgentBlocks(e, t) ==
  /\ "block" \in Ops /\ child[e][t] = "agent"
  /\ blocker' = [blocker EXCEPT ![t] = "OPEN"]
  /\ IF OwnRun(e, t) /\ CanTransition(task[t], "BLOCKED")
     THEN /\ run' = [run EXCEPT ![t].status = "BLOCKED"]
          /\ task' = [task EXCEPT ![t] = "BLOCKED"]
     ELSE FailOwnRun(e, t)
  /\ Exit(e, t, "exitBad")
  /\ UNCHANGED <<row, batch, ctl, announced, saving, closed, findings, requeued, cancels>>

WorkerCrashes(e, t) ==
  /\ "crash" \in Ops /\ child[e][t] \in Alive
  /\ Exit(e, t, "exitBad")
  /\ UNCHANGED <<row, batch, ctl, task, run, announced, aside>>

-----------------------------------------------------------------------------
(* What the executor makes of a worker that has exited.                        *)

\* The end of _execute_task_subprocess. A run that is still RUNNING after a bad
\* exit is taken for one its worker died in.
LeftRunning(e, t) == run[t].status = "RUNNING" /\ child[e][t] = "exitBad"

Verdict(e, t) ==
  IF LeftRunning(e, t) THEN "FAILED"
  ELSE IF run[t].status # "none" THEN run[t].status
  ELSE IF child[e][t] = "exitOk" THEN "COMPLETED" ELSE "FAILED"

\* Mutant: the worker's verdict replaces whatever is recorded (before #921).
RecordTaskResult_Clobbers(e, t, verdict) == [batch[e] EXCEPT !.results[t] = verdict]

\* _record_task_result: only a COMPLETED is protected.
RecordTaskResult(e, t, verdict) ==
  [batch[e] EXCEPT !.results[t] = IF @ = "COMPLETED" THEN @ ELSE verdict]

\* The verdict is recorded and, but for a pooled worker's, counted; then it is saved.
Collect(e, t) ==
  LET b == RecordTaskResult(e, t, Verdict(e, t)) IN
  /\ At(e, "group") /\ child[e][t] \in {"exitOk", "exitBad"}
  /\ IF LeftRunning(e, t) THEN FailRun(t) ELSE UNCHANGED <<run, task>>
  /\ SaveBatch(e, {t}, b)
  /\ Exit(e, t, "saving")
  /\ ctl' = IF Pooled(e) THEN ctl ELSE [ctl EXCEPT ![e] = Tallied(@, b.results[t])]
  /\ UNCHANGED <<row, announced, blocker, closed, findings, requeued, cancels>>

\* A pooled worker returns what batch.results says after the save, and fails
\* with a KeyError when the reconciler took it away in between.
Count(e, t) ==
  /\ At(e, "group") /\ child[e][t] = "recorded"
  /\ Exit(e, t, "out")
  /\ ctl' = IF batch[e].results[t] = "none" THEN [ctl EXCEPT ![e].broken = TRUE]
            ELSE [ctl EXCEPT ![e] = Tallied(@, batch[e].results[t])]
  /\ UNCHANGED <<row, batch, task, run, announced, aside>>

\* Where it runs alone, a blocked task is shown to the supervisor once; if the
\* question is a tactical one, the supervisor answers it, resets the run and the
\* task (SuperviseEnds), and the task is run a second time.
Supervise(e, t) ==
  /\ "supervise" \in Ops
  /\ At(e, "group") /\ ctl[e].mode = "execute" /\ ~Pooled(e) /\ ~ctl[e].supervised
  /\ child[e][t] \in {"exitOk", "exitBad"}
  /\ Verdict(e, t) = "BLOCKED" /\ blocker[t] = "OPEN"
  /\ blocker' = [blocker EXCEPT ![t] = "ANSWERED"]
  /\ ctl' = [ctl EXCEPT ![e].supervised = TRUE]
  /\ Exit(e, t, "supervised")
  /\ UNCHANGED <<row, batch, task, run, announced, saving, closed, findings, requeued, cancels>>

\* blockers.answer stops a run that is BLOCKED and makes its task READY.
Unblock(t) ==
  IF run[t].status = "BLOCKED"
  THEN /\ run' = [run EXCEPT ![t].status = "FAILED"]
       /\ task' = [task EXCEPT ![t] = IF CanTransition(@, "READY") THEN "READY" ELSE @]
  ELSE UNCHANGED <<run, task>>

SuperviseEnds(e, t) ==
  /\ child[e][t] = "supervised" /\ At(e, "group")
  /\ Unblock(t)
  /\ Exit(e, t, "started")
  /\ UNCHANGED <<row, batch, ctl, announced, aside>>

\* Mutant: the loop goes on with the next group without waiting for this one.
GroupDone_Unwaited(e) ==
  /\ At(e, "group")
  /\ ctl' = [ctl EXCEPT ![e].pc = IF ctl[e].broken THEN "handler" ELSE "loop",
                        ![e].plan = Tail(@), ![e].supervised = FALSE]
  /\ UNCHANGED <<row, batch, child, task, run, announced, aside>>

\* All workers of the group are back.
GroupDone(e) ==
  /\ At(e, "group") /\ \A t \in Tasks : child[e][t] = "out"
  /\ ctl' = [ctl EXCEPT ![e].pc = IF ctl[e].broken THEN "handler" ELSE "loop",
                        ![e].plan = Tail(@), ![e].supervised = FALSE]
  /\ UNCHANGED <<row, batch, child, task, run, announced, aside>>

-----------------------------------------------------------------------------
(* Finalization.                                                              *)

Having(results, status) == Cardinality({ t \in Tasks : results[t] = status })

\* The status a batch earns with so many tasks of each kind.
Earned(completed, failed, blocked) ==
  IF completed = Cardinality(Tasks) THEN "COMPLETED"
  ELSE IF completed > 0 THEN "PARTIAL"
  ELSE IF failed + blocked > 0 THEN "FAILED"
  ELSE "CANCELLED"

\* A first pass counts as it goes; a resume and the retries recount the results.
Outcome(e) ==
  IF ctl[e].mode = "execute" THEN Earned(ctl[e].completed, ctl[e].failed, ctl[e].blocked)
  ELSE Earned(Having(batch[e].results, "COMPLETED"), Having(batch[e].results, "FAILED"),
              Having(batch[e].results, "BLOCKED"))

Finalize(e) ==
  /\ At(e, "verdict")
  /\ batch' = [batch EXCEPT ![e].status = Outcome(e)]
  /\ Goto(e, IF Outcome(e) = "COMPLETED" THEN "gates" ELSE "persist")
  /\ UNCHANGED <<row, child, task, run, announced, aside>>

\* _run_batch_level_validation: the gates pass, fail, or raise.
GatesEnd(e) ==
  /\ At(e, "gates")
  /\ \/ Goto(e, "persist") /\ UNCHANGED batch
     \/ /\ "gates" \in Ops
        /\ batch' = [batch EXCEPT ![e].status = "PARTIAL"]
        /\ Goto(e, "persist")
     \/ /\ "raise" \in Ops
        /\ ctl' = [ctl EXCEPT ![e].pc = "handler", ![e].broken = TRUE]
        /\ UNCHANGED batch
  /\ UNCHANGED <<row, child, task, run, announced, aside>>

\* The event is decided on before the save.
Persist(e) ==
  /\ At(e, "persist") /\ saving[e] = {}
  /\ SaveBatch(e, {}, batch[e])
  /\ announced' = [announced EXCEPT ![e] = batch[e].status]
  /\ UNCHANGED <<row, ctl, child, task, run, blocker, closed, findings, requeued, cancels>>

\* Mutant: the handler only logs and re-raises, as before #763 and #848.
HandleError_Forgotten(e) ==
  /\ At(e, "handler")
  /\ Goto(e, "ended")
  /\ UNCHANGED <<row, batch, announced, child, task, run, aside>>

\* The except clauses around the loops; the retries' leaves the row alone.
HandleError(e) ==
  /\ At(e, "handler") /\ saving[e] = {}
  /\ IF ctl[e].mode = "retry" THEN Goto(e, "ended") /\ UNCHANGED <<batch, announced, saving>>
     ELSE /\ SaveBatch(e, {}, [batch[e] EXCEPT !.status = "FAILED"])
          /\ announced' = [announced EXCEPT ![e] = "FAILED"]
          /\ UNCHANGED ctl
  /\ UNCHANGED <<row, child, task, run, blocker, closed, findings, requeued, cancels>>

\* _run_retries: another round of the tasks that FAILED, while there are some.
NextRound(e) ==
  LET again == { t \in Tasks : batch[e].results[t] = "FAILED" } IN
  /\ At(e, "retries")
  /\ IF again = {} \/ ctl[e].round = MaxRetries
     THEN ctl' = [ctl EXCEPT ![e].pc = "verdict", ![e].mode = "retry"]
     ELSE ctl' = [ctl EXCEPT ![e].pc = "loop", ![e].mode = "retry", ![e].round = @ + 1,
                             ![e].plan = Singletons(again)]
  /\ UNCHANGED <<row, batch, child, task, run, announced, aside>>

\* The executor's process dies; its workers live on, its threads and its saves do not.
ExecutorDies(e) ==
  /\ "die" \in Ops /\ ctl[e].pc \notin {"idle", "created", "ended"}
  /\ Goto(e, "ended")
  /\ findings' = [findings EXCEPT ![e] = {}]
  /\ saving' = [saving EXCEPT ![e] = {}]
  /\ UNCHANGED <<row, batch, child, task, run, announced, blocker, closed, requeued, cancels>>

-----------------------------------------------------------------------------
(* What operators do.                                                         *)

\* resume_batch reads the row, voids the results of what it will run again and
\* puts what is DONE among it back to READY ...
Resume(e) ==
  /\ At(e, "idle")
  /\ row.status \in {"PARTIAL", "FAILED", "CANCELLED"}
  /\ \E force \in BOOLEAN :
       LET again == { t \in Tasks : force \/ row.results[t] # "COMPLETED" } IN
       /\ (IF force THEN "forceResume" ELSE "resume") \in Ops
       /\ again # {}
       /\ ctl' = [ctl EXCEPT ![e] = [Idle EXCEPT !.pc = "reopen", !.mode = "resume",
                                                 !.plan = Singletons(again)]]
       /\ batch' = [batch EXCEPT ![e] = [status |-> "RUNNING",
            results |-> [t \in Tasks |-> IF t \in again THEN "none" ELSE row.results[t]]]]
       /\ task' = [t \in Tasks |-> IF t \in again /\ task[t] = "DONE" THEN "READY" ELSE task[t]]
  /\ UNCHANGED <<row, child, run, announced, aside>>

\* ... and writes it RUNNING, without a look at what has become of it meanwhile.
Reopen(e) ==
  /\ At(e, "reopen")
  /\ row' = batch[e]
  /\ Goto(e, "loop")
  /\ UNCHANGED <<batch, child, task, run, announced, aside>>

\* cancel_batch and stop_batch read the row (one command at a time) ...
Cancel ==
  /\ "cancel" \in Ops /\ cancels = {}
  /\ row.status \in {"PENDING", "RUNNING"}
  /\ cancels' = {row}
  /\ UNCHANGED <<row, batch, ctl, child, task, run, announced, saving, blocker, closed, findings, requeued>>

\* ... and write their copy back, CANCELLED. A forced stop terminates the workers
\* its own process knows of: none from another process, and not one that has
\* been spawned but not registered.
CancelWrites ==
  \E c \in cancels :
    /\ row' = [c EXCEPT !.status = "CANCELLED"]
    /\ cancels' = {}
    /\ \/ UNCHANGED child
       \/ /\ "force" \in Ops
          /\ \E spared \in SUBSET { w \in Executors \X Tasks : child[w[1]][w[2]] = "started" } :
               child' = [e \in Executors |-> [t \in Tasks |->
                           IF At(e, "group") /\ child[e][t] \in Alive /\ <<e, t>> \notin spared
                           THEN "exitBad" ELSE child[e][t]]]
    /\ UNCHANGED <<batch, ctl, task, run, announced, saving, blocker, closed, findings, requeued>>

\* A human declares a task done, through IN_PROGRESS if the machine asks for it.
MarkDone(t) ==
  /\ "markDone" \in Ops
  /\ task[t] = "IN_PROGRESS" \/ CanTransition(task[t], "IN_PROGRESS")
  /\ task' = [task EXCEPT ![t] = "DONE"]
  /\ UNCHANGED <<row, batch, ctl, child, run, announced, aside>>

CloseIssue(t) ==
  /\ "closeIssue" \in Ops
  /\ t \notin closed /\ closed' = closed \cup {t}
  /\ UNCHANGED <<row, batch, ctl, child, task, run, announced, saving, blocker, findings, requeued, cancels>>

\* blockers.answer: the answer, then the run and the task that waited for it.
Answer(t) ==
  /\ "answer" \in Ops /\ blocker[t] = "OPEN"
  /\ blocker' = [blocker EXCEPT ![t] = "ANSWERED"]
  /\ UNCHANGED <<row, batch, ctl, child, task, run, announced, saving, closed, findings, requeued, cancels>>

AnswerEnds(t) ==
  /\ "answer" \in Ops /\ blocker[t] = "ANSWERED" /\ run[t].status = "BLOCKED"
  /\ Unblock(t)
  /\ UNCHANGED <<row, batch, ctl, child, announced, aside>>

-----------------------------------------------------------------------------
Work(e) ==
  \/ ExecuteBatch(e) \/ FirstSweep(e) \/ NextGroup(e) \/ LoopEnds(e) \/ GroupDone(e)
  \/ \E t \in Tasks : \/ Launch(e, t) \/ LaunchRaises(e, t) \/ Collect(e, t) \/ Count(e, t)
                      \/ Supervise(e, t) \/ SuperviseEnds(e, t)
  \/ Finalize(e) \/ GatesEnd(e) \/ Persist(e) \/ HandleError(e) \/ NextRound(e) \/ Reopen(e)
  \/ LookAtStored(e) \/ ReplaceRow(e)

Worker(e, t) ==
  \/ StartRun(e, t) \/ AgentCompletes(e, t) \/ CloseRun(e, t)
  \/ AgentFails(e, t) \/ AgentBlocks(e, t) \/ WorkerCrashes(e, t)

Next ==
  \/ \E e \in Executors : \/ Work(e) \/ ReconcileCheck(e) \/ ReconcileApply(e)
                          \/ ExecutorDies(e) \/ Resume(e)
                          \/ \E t \in Tasks : Worker(e, t)
  \/ Cancel \/ CancelWrites
  \/ \E t \in Tasks : MarkDone(t) \/ CloseIssue(t) \/ Answer(t) \/ AnswerEnds(t)

Spec == Init /\ [][Next]_vars

\* An executor's process is scheduled, and every engine ends: it bounds its own
\* iterations, or its stall monitor ends it.
Fairness == /\ \A e \in Executors : WF_vars(Work(e))
            /\ \A e \in Executors, t \in Tasks : WF_vars(Worker(e, t))

FairSpec == Spec /\ Fairness

-----------------------------------------------------------------------------
\* Every variable is of its type: the row and the copies hold the batch's words,
\* the results only run statuses, the tasks' rows only the task machine's.
TypeOK ==
  /\ row \in Rows
  /\ batch \in [Executors -> Rows]
  /\ saving \in [Executors -> SUBSET Saves]
  /\ ctl \in [Executors -> Controls]
  /\ child \in [Executors -> [Tasks -> Children]]
  /\ task \in [Tasks -> Statuses]
  /\ run \in [Tasks -> [status : RunStatuses \cup {"none"}, by : Executors]]
  /\ blocker \in [Tasks -> {"none", "OPEN", "ANSWERED"}]
  /\ closed \subseteq Tasks
  /\ findings \in [Executors -> SUBSET (Tasks \X {"completed", "requeue", "issue"})]
  /\ requeued \in [Executors -> SUBSET Tasks]
  /\ cancels \subseteq Rows
  /\ announced \in [Executors -> Terminal \cup {"none"}]

Reopens(e) == At(e, "reopen") /\ ctl'[e].pc = "loop"

\* The saves that have looked at the row, found no cancel, and have yet to replace it.
Overtaking(e) == { save \in InLock(e) : batch[e].status # "CANCELLED" }

\* A cancelled batch stays cancelled whatever its executors save afterwards: from the
\* cancel on no save gets past the look at the stored status (#726), and only a resume
\* or the one save that each executor's process may have had past it at that moment,
\* conductor.py:2706-2716, writes another status.
CancelStands ==
  [][row.status = "CANCELLED" =>
       /\ \A e \in Executors : /\ Overtaking(e)' \subseteq Overtaking(e)
                               /\ \A s1, s2 \in Overtaking(e) : s1 = s2
       /\ row'.status # "CANCELLED" =>
            \E e \in Executors : Reopens(e) \/ Overtaking(e)' # Overtaking(e)]_vars

\* Once a task is recorded COMPLETED, by its worker or from outside, no later
\* verdict and no reconciliation takes that away from the executor's results
\* (#921, #1032).
CompletionStands ==
  [][\A e \in Executors, t \in Tasks :
       batch[e].results[t] = "COMPLETED" => \/ batch'[e].results[t] = "COMPLETED"
                                            \/ At(e, "idle")]_vars

\* The stored status never claims more than the stored results: COMPLETED only
\* with a COMPLETED for every task, PARTIAL only with one at all. The tallies of
\* the workers, the skips and the external completions add up to what was recorded.
RowHonest ==
  LET done == Having(row.results, "COMPLETED") IN
  /\ row.status = "COMPLETED" => done = Cardinality(Tasks)
  /\ row.status = "PARTIAL" => done > 0

\* An executor whose copy was flipped to CANCELLED launches nothing more.
NoLaunchOnceNoticed ==
  [][\A e \in Executors, t \in Tasks :
       (batch[e].status = "CANCELLED" /\ child[e][t] = "queued") => child'[e][t] # "started"]_vars

\* The event, and with it the webhook, names the state the batch reached. (No run
\* checks it, for it is false: a cancel can get in front of the save that the
\* event was decided before.)
AnnouncedIsStored ==
  [][\A e \in Executors :
       (At(e, "persist") /\ ctl'[e].pc # "persist") => announced[e] = row'.status]_vars

\* A batch that runs comes to an end, whatever its workers, its gates and the
\* reconciliation do to it.
BatchEnds == (row.status = "RUNNING") ~> (row.status # "RUNNING")
=============================================================================
