------------------------------ MODULE TaskRuns ------------------------------
(* Tasks, runs and blockers: the three tables of .codeframe/state.db that     *)
(* core/tasks.py, core/runtime.py and core/blockers.py read and write, and    *)
(* the operating-system processes (CLI commands, API handlers, agent workers) *)
(* that do so concurrently.                                                   *)
(*                                                                            *)
(* Every helper of those modules opens its own connection, so a process is    *)
(* interruptible between any two of its reads and writes: one action is one   *)
(* statement against the database, and what a process read earlier lives in   *)
(* its frame my[p], possibly stale.                                           *)
(*                                                                            *)
(* The tasks are those without a parent, for which update_status returns      *)
(* before it rolls anything up.                                               *)
EXTENDS TaskStatus, Integers, FiniteSets

CONSTANTS Tasks, Procs,
          NoTask,       \* the task of a row that is not there yet
          MaxRuns,      \* bound: rows ever inserted in runs
          MaxBlockers,  \* bound: rows ever inserted in blockers
          Ops           \* Ops[p]: the operations process p may be asked for

OpNames == {"start", "pick", "leave", "resume", "stop", "answer", "resolve",
            "set", "reset", "retry", "crash"}

ASSUME NoTaskAssumption == NoTask \notin Tasks
ASSUME ProcsAssumption == IsFiniteSet(Procs)
ASSUME BoundsAssumption == MaxRuns \in Nat /\ MaxBlockers \in Nat
ASSUME OpsAssumption == Ops \in [Procs -> SUBSET OpNames]

VARIABLES status,     \* tasks.status
          unclosed,   \* arrivals at DONE whose GitHub close is not dispatched yet
          runs,       \* the runs table, in started_at order
          blockers,   \* the blockers table, in created_at order
          pc, my      \* where each process is, and its local variables

vars == <<status, unclosed, runs, blockers, pc, my>>
tables == <<status, unclosed, runs, blockers>>

RunIds == 1..MaxRuns
BlockerIds == 1..MaxBlockers

RunStatuses == {"NONE", "RUNNING", "BLOCKED", "COMPLETED", "FAILED"}
BlockerStatuses == {"NONE", "OPEN", "ANSWERED", "RESOLVED"}

Labels == {"idle", "checkActive", "insertRun", "agent", "findDuplicate", "insertBlocker",
           "readRun", "writeRun", "readTask", "resetRuns", "update", "swap", "close",
           "writeAnswer", "peekActive", "readActive", "writeResolved"}

\* What a process is in the middle of: an operation it was asked for, or the
\* part of execute_agent it has reached.
Errands == OpNames \cup {"none", "ask", "complete", "block", "fail", "retryReset"}

Frames == [op : Errands, task : Tasks \cup {NoTask}, run : RunIds \cup {0},
           blocker : BlockerIds \cup {0}, seen : Statuses, want : Statuses]

NoFrame == [op |-> "none", task |-> NoTask, run |-> 0, blocker |-> 0,
            seen |-> "BACKLOG", want |-> "BACKLOG"]

\* get_active_run: the newest RUNNING or BLOCKED run of t, at most one.
ActiveRuns(t) == { r \in RunIds : /\ runs[r].task = t
                                  /\ runs[r].status \in {"RUNNING", "BLOCKED"} }
NewestActive(t) == { r \in ActiveRuns(t) : \A s \in ActiveRuns(t) : s <= r }

\* The row the next INSERT takes.
NextRun == { r \in RunIds : /\ runs[r].status = "NONE"
                            /\ \A s \in 1..(r - 1) : runs[s].status # "NONE" }
NextBlocker == { b \in BlockerIds : /\ blockers[b].status = "NONE"
                                    /\ \A c \in 1..(b - 1) : blockers[c].status # "NONE" }

OpenBlockers(t) == { b \in BlockerIds : blockers[b] = [task |-> t, status |-> "OPEN"] }

Init ==
  /\ status \in [Tasks -> {"BACKLOG", "READY"}]
  /\ unclosed = [t \in Tasks |-> 0]
  /\ runs = [r \in RunIds |-> [task |-> NoTask, status |-> "NONE"]]
  /\ blockers = [b \in BlockerIds |-> [task |-> NoTask, status |-> "NONE"]]
  /\ pc = [p \in Procs |-> "idle"]
  /\ my = [p \in Procs |-> NoFrame]

-----------------------------------------------------------------------------
Goto(p, label, frame) ==
  /\ pc' = [pc EXCEPT ![p] = label]
  /\ my' = [my EXCEPT ![p] = frame]

Return(p) == Goto(p, "idle", NoFrame)

\* tasks.update_status is entered.
Update(p, frame, s) == Goto(p, "update", [frame EXCEPT !.want = s])

Asked(p, name) == pc[p] = "idle" /\ name \in Ops[p]

Frame(name, t) == [NoFrame EXCEPT !.op = name, !.task = t]

\* Mutant: the handler only reports the error.
FailRun_Forgotten(p) == Return(p)

\* An exception inside execute_agent's try block: its handler fails the run.
FailRun(p) == Goto(p, "readRun", [my[p] EXCEPT !.op = "fail"])

\* Mutant: the word of the task's status machine is written into the run.
SetRun_TaskWord(r, s) ==
  runs' = [runs EXCEPT ![r].status = IF s = "COMPLETED" THEN "DONE" ELSE s]

SetRun(r, s) == runs' = [runs EXCEPT ![r].status = s]

-----------------------------------------------------------------------------
(* tasks.update_status: a read, the validation against the state machine, and *)
(* a compare-and-set on the status that was read.                             *)

\* What the caller goes on to when the transition is committed.
AfterUpdate(p) ==
  LET f == my[p] IN
  CASE f.op = "start" /\ f.want = "READY" -> Update(p, f, "IN_PROGRESS")
    [] f.op = "start" /\ f.want # "READY" -> Goto(p, "insertRun", f)
    [] f.op = "complete"                  -> Goto(p, "writeRun", f)
    [] f.op = "resume"                    -> Goto(p, "agent", [f EXCEPT !.op = "none"])
    [] f.op = "retryReset"                -> Update(p, [f EXCEPT !.op = "retry"], "READY")
    [] f.op = "retry"                     -> Goto(p, "readTask", [f EXCEPT !.op = "start"])
    [] OTHER                              -> Return(p)

\* Mutant: complete_run lets the rejection escape without a second look, and
\* nothing fails the run.
AfterRejection_Escapes(p) == Return(p)

\* What it goes on to when InvalidTransitionError is raised: complete_run looks
\* again, execute_agent's handler fails a run it could not block, and every
\* other caller lets the error end the process's errand.
AfterRejection(p) ==
  CASE my[p].op = "complete" -> Goto(p, "readTask", my[p])
    [] my[p].op = "block"    -> FailRun(p)
    [] OTHER                 -> Return(p)

ReadForUpdate(p) ==
  /\ pc[p] = "update"
  /\ IF CanTransition(status[my[p].task], my[p].want)
     THEN Goto(p, "swap", [my[p] EXCEPT !.seen = status[my[p].task]])
     ELSE AfterRejection(p)
  /\ UNCHANGED tables

\* Mutant: the UPDATE without AND status = ?, as it was before #930.
CompareAndSet_Blind(p) ==
  LET t == my[p].task IN
  /\ pc[p] = "swap"
  /\ status' = [status EXCEPT ![t] = my[p].want]
  /\ IF my[p].want = "DONE"
     THEN /\ Goto(p, "close", my[p])
          /\ unclosed' = [unclosed EXCEPT ![t] = IF status[t] = "DONE" THEN @ ELSE @ + 1]
     ELSE AfterUpdate(p) /\ UNCHANGED unclosed
  /\ UNCHANGED <<runs, blockers>>

CompareAndSet(p) ==
  LET t == my[p].task IN
  /\ pc[p] = "swap"
  /\ IF status[t] # my[p].seen
     THEN AfterRejection(p) /\ UNCHANGED <<status, unclosed>>
     ELSE /\ status' = [status EXCEPT ![t] = my[p].want]
          /\ IF my[p].want = "DONE"
             THEN /\ Goto(p, "close", my[p])
                  \* an arrival counts once, however many writers claim it
                  /\ unclosed' = [unclosed EXCEPT ![t] = IF status[t] = "DONE" THEN @ ELSE @ + 1]
             ELSE AfterUpdate(p) /\ UNCHANGED unclosed
  /\ UNCHANGED <<runs, blockers>>

\* _dispatch_github_autoclose, still inside update_status.
DispatchClose(p) ==
  /\ pc[p] = "close"
  /\ unclosed' = [unclosed EXCEPT ![my[p].task] = @ - 1]
  /\ AfterUpdate(p)
  /\ UNCHANGED <<status, runs, blockers>>

-----------------------------------------------------------------------------
(* runtime.start_task_run                                                     *)

\* An explicit `work start`, or a batch that picked the task because it is READY,
\* or FAILED and due for another try.
StartTaskRun(p, t) ==
  /\ \/ Asked(p, "start")
     \/ Asked(p, "pick") /\ status[t] \in {"READY", "FAILED"}
  /\ Goto(p, "checkActive", [Frame("start", t) EXCEPT !.seen = status[t]])
  /\ UNCHANGED tables

\* Mutant: no look for an active run.
CheckActive_Unguarded(p) ==
  /\ pc[p] = "checkActive"
  /\ CASE my[p].seen = "BACKLOG"     -> Update(p, my[p], "READY")
       [] my[p].seen = "IN_PROGRESS" -> Goto(p, "insertRun", my[p])
       [] OTHER                      -> Update(p, my[p], "IN_PROGRESS")
  /\ UNCHANGED tables

\* The transitions are chosen from the copy of the task read before the check.
CheckActive(p) ==
  /\ pc[p] = "checkActive"
  /\ IF ActiveRuns(my[p].task) # {} THEN Return(p)
     ELSE CASE my[p].seen = "BACKLOG"     -> Update(p, my[p], "READY")
            [] my[p].seen = "IN_PROGRESS" -> Goto(p, "insertRun", my[p])
            [] OTHER                      -> Update(p, my[p], "IN_PROGRESS")
  /\ UNCHANGED tables

InsertRun(p) ==
  /\ pc[p] = "insertRun"
  /\ \E r \in NextRun :
       /\ runs' = [runs EXCEPT ![r] = [task |-> my[p].task, status |-> "RUNNING"]]
       /\ Goto(p, "agent", [my[p] EXCEPT !.op = "none", !.run = r])
  /\ UNCHANGED <<status, unclosed, blockers>>

\* `work start` without --execute, `work resume --no-execute`.
LeaveRunning(p) ==
  /\ pc[p] = "agent" /\ "leave" \in Ops[p]
  /\ Return(p)
  /\ UNCHANGED tables

-----------------------------------------------------------------------------
(* runtime.execute_agent: the engine's verdict, then what is recorded of it   *)

AgentEnds(p) ==
  /\ pc[p] = "agent"
  /\ \/ Goto(p, "readRun", [my[p] EXCEPT !.op = "complete"])
     \/ FailRun(p)
     \* a blocked engine may have persisted its question itself ("ask"), and may have
     \* reported it to execute_agent ("block"), which then persists it again; a failed
     \* merge-back only does the latter, and a stalled engine has no question
     \/ Goto(p, "readRun", [my[p] EXCEPT !.op = "block"])
     \/ \E create \in {"ask", "block"} : Goto(p, "findDuplicate", [my[p] EXCEPT !.op = create])
  /\ UNCHANGED tables

\* blockers.create has returned b: the next statement of its caller. The engine's
\* own blocker is remembered, for it has the question that execute_agent may create
\* another one of.
AfterCreate(p, b) ==
  \/ /\ my[p].op = "ask"
     /\ Goto(p, "findDuplicate", [my[p] EXCEPT !.op = "block", !.blocker = b])
  \/ Goto(p, "readRun", [my[p] EXCEPT !.op = "block", !.blocker = 0])

\* An OPEN blocker of the task may be of the same question, and is if it is the one
\* just made of it.
FindOpenDuplicate(p) ==
  /\ pc[p] = "findDuplicate"
  /\ \/ \E b \in OpenBlockers(my[p].task) : AfterCreate(p, b)
     \/ /\ my[p].blocker \notin OpenBlockers(my[p].task)
        /\ Goto(p, "insertBlocker", my[p])
  /\ UNCHANGED tables

InsertBlocker(p) ==
  /\ pc[p] = "insertBlocker"
  /\ \E b \in NextBlocker :
       /\ blockers' = [blockers EXCEPT ![b] = [task |-> my[p].task, status |-> "OPEN"]]
       /\ AfterCreate(p, b)
  /\ UNCHANGED <<status, unclosed, runs>>

\* The guards of complete_run, block_run and fail_run on the run they fetch.
ReadRun(p) ==
  LET row == runs[my[p].run] IN
  /\ pc[p] = "readRun"
  /\ CASE my[p].op = "complete" /\ row.status = "RUNNING" -> Update(p, my[p], "DONE")
       [] my[p].op = "block" /\ row.status = "RUNNING"    -> Goto(p, "writeRun", my[p])
       [] my[p].op = "fail"                               ->
            IF row.status \in {"RUNNING", "BLOCKED"} THEN Goto(p, "writeRun", my[p]) ELSE Return(p)
       [] OTHER                                           -> FailRun(p)
  /\ UNCHANGED tables

\* Mutant: fail_run and stop_run leave the task as it is.
WriteRun_TaskForgotten(p) ==
  /\ pc[p] = "writeRun"
  /\ CASE my[p].op = "complete" -> SetRun(my[p].run, "COMPLETED") /\ Return(p)
       [] my[p].op = "block"    -> SetRun(my[p].run, "BLOCKED") /\ Update(p, my[p], "BLOCKED")
       [] my[p].op = "resume"   -> SetRun(my[p].run, "RUNNING") /\ Update(p, my[p], "IN_PROGRESS")
       [] OTHER                 -> SetRun(my[p].run, "FAILED") /\ Return(p)
  /\ UNCHANGED <<status, unclosed, blockers>>

\* UPDATE runs SET status = ? WHERE id = ?: unconditional, unlike the tasks'.
WriteRun(p) ==
  /\ pc[p] = "writeRun"
  /\ CASE my[p].op = "complete" -> SetRun(my[p].run, "COMPLETED") /\ Return(p)
       [] my[p].op = "block"    -> SetRun(my[p].run, "BLOCKED") /\ Update(p, my[p], "BLOCKED")
       [] my[p].op = "resume"   -> SetRun(my[p].run, "RUNNING") /\ Update(p, my[p], "IN_PROGRESS")
       [] OTHER                 -> SetRun(my[p].run, "FAILED") /\ Goto(p, "readTask", my[p])
  /\ UNCHANGED <<status, unclosed, blockers>>

\* The second look at the task, after a run was written or a DONE refused.
ReadTask(p) ==
  LET now == status[my[p].task] IN
  /\ pc[p] = "readTask"
  /\ CASE my[p].op = "start"      -> Goto(p, "checkActive", [my[p] EXCEPT !.seen = now])
       [] my[p].op = "complete"   -> IF now = "DONE" THEN Goto(p, "writeRun", my[p]) ELSE FailRun(p)
       [] my[p].op = "fail"       -> IF CanTransition(now, "FAILED") THEN Update(p, my[p], "FAILED")
                                                                     ELSE Return(p)
       [] my[p].op = "stop"       -> IF now # "READY" THEN Update(p, my[p], "READY") ELSE Return(p)
       [] my[p].op = "retryReset" -> IF now = "BLOCKED" THEN Update(p, my[p], "READY")
                                     ELSE Update(p, [my[p] EXCEPT !.op = "retry"], "READY")
       [] OTHER                   -> IF now = "BLOCKED" THEN Update(p, my[p], "READY") ELSE Return(p)
  /\ UNCHANGED tables

-----------------------------------------------------------------------------
(* What operators ask for: work stop, work resume, blocker answer, blocker    *)
(* resolve, tasks set status, the reset of blocked runs, work retry.          *)

StopRun(p, t) ==
  /\ Asked(p, "stop")
  /\ \E r \in NewestActive(t) : Goto(p, "writeRun", [Frame("stop", t) EXCEPT !.run = r])
  /\ UNCHANGED tables

ResumeRun(p, t) ==
  /\ Asked(p, "resume")
  /\ \E r \in NewestActive(t) :
       /\ runs[r].status = "BLOCKED"
       /\ Goto(p, "writeRun", [Frame("resume", t) EXCEPT !.run = r])
  /\ UNCHANGED tables

AnswerBlocker(p, b) ==
  /\ Asked(p, "answer")
  /\ blockers[b].status \in {"OPEN", "ANSWERED"}
  /\ Goto(p, "writeAnswer", [Frame("answer", blockers[b].task) EXCEPT !.blocker = b])
  /\ UNCHANGED tables

WriteAnswer(p) ==
  /\ pc[p] = "writeAnswer"
  /\ blockers' = [blockers EXCEPT ![my[p].blocker].status = "ANSWERED"]
  /\ Goto(p, "peekActive", my[p])
  /\ UNCHANGED <<status, unclosed, runs>>

\* answer looks whether the task's run is BLOCKED; if so it calls stop_run ...
PeekActive(p) ==
  /\ pc[p] = "peekActive"
  /\ IF \E r \in NewestActive(my[p].task) : runs[r].status = "BLOCKED"
     THEN Goto(p, "readActive", my[p])
     ELSE Return(p)
  /\ UNCHANGED tables

\* ... which looks for the active run again; with none left its ValueError
\* sends answer to the task itself.
ReadActive(p) ==
  /\ pc[p] = "readActive"
  /\ \/ \E r \in NewestActive(my[p].task) :
          Goto(p, "writeRun", [my[p] EXCEPT !.op = "stop", !.run = r])
     \/ /\ ActiveRuns(my[p].task) = {}
        /\ Goto(p, "readTask", my[p])
  /\ UNCHANGED tables

ResolveBlocker(p, b) ==
  /\ Asked(p, "resolve")
  /\ blockers[b].status = "ANSWERED"
  /\ Goto(p, "writeResolved", [Frame("resolve", blockers[b].task) EXCEPT !.blocker = b])
  /\ UNCHANGED tables

WriteResolved(p) ==
  /\ pc[p] = "writeResolved"
  /\ blockers' = [blockers EXCEPT ![my[p].blocker].status = "RESOLVED"]
  /\ Return(p)
  /\ UNCHANGED <<status, unclosed, runs>>

SetStatus(p, t, s) ==
  /\ Asked(p, "set")
  /\ Update(p, Frame("set", t), s)
  /\ UNCHANGED tables

\* reset_blocked_run: one UPDATE over every BLOCKED run of the task, and a look
\* at the task only when it changed a row.
BlockedRuns(t) == { r \in RunIds : runs[r] = [task |-> t, status |-> "BLOCKED"] }

FailBlockedRuns(t) ==
  runs' = [r \in RunIds |-> IF r \in BlockedRuns(t) THEN [runs[r] EXCEPT !.status = "FAILED"]
                                                    ELSE runs[r]]

ResetBlockedRun(p, t) ==
  /\ Asked(p, "reset")
  /\ BlockedRuns(t) # {}
  /\ FailBlockedRuns(t)
  /\ Goto(p, "readTask", Frame("reset", t))
  /\ UNCHANGED <<status, unclosed, blockers>>

\* work retry resets a FAILED or BLOCKED task; of any other it starts a run as
\* StartTaskRun does, or refuses.
RetryTask(p, t) ==
  /\ Asked(p, "retry")
  /\ status[t] \in {"FAILED", "BLOCKED"}
  /\ Goto(p, "resetRuns", Frame("retry", t))
  /\ UNCHANGED tables

\* The reset moves the task itself when it reset a run; work retry then moves
\* it to READY on the strength of the status it read first.
ResetForRetry(p) ==
  /\ pc[p] = "resetRuns"
  /\ FailBlockedRuns(my[p].task)
  /\ IF BlockedRuns(my[p].task) # {}
     THEN Goto(p, "readTask", [my[p] EXCEPT !.op = "retryReset"])
     ELSE Update(p, my[p], "READY")
  /\ UNCHANGED <<status, unclosed, blockers>>

\* The process dies wherever it is; what it committed stays.
Crash(p) ==
  /\ pc[p] # "idle" /\ "crash" \in Ops[p]
  /\ Return(p)
  /\ unclosed' = IF pc[p] = "close" THEN [unclosed EXCEPT ![my[p].task] = @ - 1] ELSE unclosed
  /\ UNCHANGED <<status, runs, blockers>>

-----------------------------------------------------------------------------
\* A process going on with what it was asked for.
Step(p) ==
  \/ ReadForUpdate(p) \/ CompareAndSet(p) \/ DispatchClose(p)
  \/ CheckActive(p) \/ InsertRun(p) \/ AgentEnds(p)
  \/ FindOpenDuplicate(p) \/ InsertBlocker(p)
  \/ ReadRun(p) \/ WriteRun(p) \/ ReadTask(p)
  \/ WriteAnswer(p) \/ PeekActive(p) \/ ReadActive(p) \/ WriteResolved(p)
  \/ ResetForRetry(p)

\* A process being asked for something, or leaving.
Request(p) ==
  \/ \E t \in Tasks : \/ StartTaskRun(p, t) \/ StopRun(p, t) \/ ResumeRun(p, t)
                      \/ ResetBlockedRun(p, t) \/ RetryTask(p, t)
                      \/ \E s \in Statuses : SetStatus(p, t, s)
  \/ \E b \in BlockerIds : AnswerBlocker(p, b) \/ ResolveBlocker(p, b)
  \/ LeaveRunning(p) \/ Crash(p)

Next == \E p \in Procs : Step(p) \/ Request(p)

Spec == Init /\ [][Next]_vars

\* Processes are not starved by the scheduler, and engines end: they bound
\* their own iterations, corrections and waiting.
Fairness == \A p \in Procs : WF_vars(Step(p))

FairSpec == Spec /\ Fairness

-----------------------------------------------------------------------------
\* Every row and every frame is of its type: no helper writes a word into a
\* column that is not of the column's vocabulary (a RunStatus into tasks.status,
\* a task's status into runs.status).
TypeOK ==
  /\ status \in [Tasks -> Statuses]
  /\ unclosed \in [Tasks -> Int]
  /\ runs \in [RunIds -> [task : Tasks \cup {NoTask}, status : RunStatuses]]
  /\ blockers \in [BlockerIds -> [task : Tasks \cup {NoTask}, status : BlockerStatuses]]
  /\ pc \in [Procs -> Labels]
  /\ my \in [Procs -> Frames]

\* The processes together implement the abstract task lifecycle: whatever the
\* interleaving of their reads and writes, every committed status change is one
\* edge of the state machine, and no arrival at DONE is closed on GitHub twice
\* (the compare-and-set of update_status, #930, #565).
Lifecycle == INSTANCE TaskLifecycle

LifecycleSpec == Lifecycle!Spec

Quiet == \A p \in Procs : pc[p] = "idle"

\* The processes that have looked for an active run of t, found none, and have yet
\* to insert theirs.
Contenders(t) ==
  { p \in Procs : /\ my[p].task = t
                  /\ \/ pc[p] = "insertRun"
                     \/ my[p].op = "start" /\ pc[p] \in {"update", "swap", "close"} }

\* The runs of t that are active, or that block_run or resume_run is about to write
\* as such whatever has become of them.
LiveRuns(t) ==
  { r \in RunIds : /\ runs[r].task = t
                   /\ \/ runs[r].status \in {"RUNNING", "BLOCKED"}
                      \/ \E p \in Procs : /\ pc[p] = "writeRun" /\ my[p].run = r
                                          /\ my[p].op \in {"block", "resume"} }

\* An active run keeps everybody else from starting one: from its insertion to its
\* end nobody joins those who looked before it was there, and only they add runs,
\* one each. So a task's active runs are one and those of the starters that were
\* past the look of start_task_run, runtime.py:99, when it appeared.
OnlyContendersStart ==
  [][\A t \in Tasks : ActiveRuns(t) # {} =>
       \/ LiveRuns(t)' \subseteq LiveRuns(t) /\ Contenders(t)' \subseteq Contenders(t)
       \/ \E p \in Contenders(t), r \in RunIds :
             /\ LiveRuns(t)' \subseteq LiveRuns(t) \cup {r}
             /\ Contenders(t)' \subseteq Contenders(t) \ {p}]_vars

\* A RUNNING run has a process that is carrying it out or recording its end: a
\* run nobody works on is one start_task_run refuses to replace (#1005, #722).
NoOrphanRun ==
  \A r \in RunIds : runs[r].status = "RUNNING" =>
    \E p \in Procs : pc[p] # "idle" /\ my[p].run = r

LatestRun(t) ==
  { r \in RunIds : runs[r].task = t /\ \A s \in RunIds : runs[s].task = t => s <= r }

\* When every process has finished, a task and its latest run tell one story:
\* the task of a COMPLETED run is DONE, of a BLOCKED run BLOCKED, and a FAILED
\* run has not left its task looking busy or done (#957, #921, #742).
RunAndTaskAgree ==
  Quiet => \A t \in Tasks : \A r \in LatestRun(t) :
    CASE runs[r].status = "COMPLETED" -> status[t] = "DONE"
      [] runs[r].status = "BLOCKED"   -> status[t] = "BLOCKED"
      [] runs[r].status = "FAILED"    -> status[t] \notin {"IN_PROGRESS", "DONE"}
      [] OTHER                        -> FALSE

\* When every process has finished, a BLOCKED task is waiting for somebody: it
\* has an OPEN blocker. Answering the blocker resets the task to READY. (No run
\* checks it, for it is false: an answer that comes before block_run has marked
\* the run resets nothing.)
BlockedTaskAwaitsAnswer ==
  Quiet => \A t \in Tasks : status[t] = "BLOCKED" => OpenBlockers(t) # {}

\* A run that is RUNNING eventually is not: its agent ends, and however the
\* operators moved the task meanwhile, some path of execute_agent records the
\* end of the run.
RunEnds == \A r \in RunIds : (runs[r].status = "RUNNING") ~> (runs[r].status # "RUNNING")
=============================================================================
