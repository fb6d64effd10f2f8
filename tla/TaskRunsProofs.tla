--------------------------- MODULE TaskRunsProofs ---------------------------
(* TaskRuns is type correct and implements TaskLifecycle, for any number of   *)
(* tasks, processes, runs and blockers.                                       *)
(*                                                                            *)
(* The shape of the argument: every action moves one process to a new label   *)
(* with a new frame. Moves says what such a move may look like; each action   *)
(* is shown to make one, and the invariant follows from Moves alone.          *)
EXTENDS TaskRuns, FiniteSetTheorems, TLAPS

\* The processes that have moved t to DONE and still owe the close of its issue.
Closers(t) == { p \in Procs : pc[p] = "close" /\ my[p].task = t }

\* A process that is doing something knows which task it is about.
FrameTask == \A p \in Procs : pc[p] # "idle" => my[p].task \in Tasks

\* A process about to compare-and-set validated the transition it will commit.
SwapIsLegal == \A p \in Procs : pc[p] = "swap" => CanTransition(my[p].seen, my[p].want)

\* A row that is there belongs to a task.
BlockerTask == \A b \in BlockerIds : blockers[b].status # "NONE" => blockers[b].task \in Tasks

\* A process about to write a blocker's answer or resolution read a row.
FrameBlocker ==
  \A p \in Procs : pc[p] \in {"writeAnswer", "writeResolved"} =>
    my[p].blocker \in BlockerIds /\ blockers[my[p].blocker].status # "NONE"

\* Each close that is owed is owed by exactly one process.
CloseOwed == \A t \in Tasks : unclosed[t] = Cardinality(Closers(t))

Inv == TypeOK /\ FrameTask /\ SwapIsLegal /\ BlockerTask /\ FrameBlocker /\ CloseOwed

\* The move of p to a label and a frame that keep the invariant; the ones into
\* the guarded labels carry what those labels rest on.
Moves(p) ==
  \E l \in Labels, f \in Frames :
    /\ Goto(p, l, f)
    /\ l # "idle" => f.task \in Tasks
    /\ l = "swap" => CanTransition(f.seen, f.want)
    /\ l \in {"writeAnswer", "writeResolved"} =>
         f.blocker \in BlockerIds /\ blockers[f.blocker].status # "NONE"
    /\ l = "close" => /\ pc[p] = "swap" /\ f.task = my[p].task
                      /\ unclosed' = [unclosed EXCEPT ![f.task] = @ + 1]

USE NoTaskAssumption, BoundsAssumption, OpsAssumption

-----------------------------------------------------------------------------
LEMMA NoFrameType == NoFrame \in Frames
BY DEF NoFrame, Frames, Errands, OpNames, Statuses

LEMMA FrameType ==
  ASSUME NEW t \in Tasks \cup {NoTask}, NEW name \in Errands
  PROVE  Frame(name, t) \in Frames /\ Frame(name, t).task = t
BY NoFrameType DEF Frame, NoFrame, Frames, Errands, OpNames, Statuses

LEMMA ReturnMoves ==
  ASSUME Inv, NEW p \in Procs, Return(p)
  PROVE  Moves(p)
<1>1. "idle" \in Labels BY DEF Labels
<1> QED BY <1>1, NoFrameType DEF Return, Moves

Guarded == {"swap", "close", "writeAnswer", "writeResolved"}

\* Any label but the guarded ones may be entered with any frame on a task.
LEMMA PlainMove ==
  ASSUME NEW p \in Procs, NEW l \in Labels \ Guarded, NEW f \in Frames,
         f.task \in Tasks, Goto(p, l, f)
  PROVE  Moves(p)
BY DEF Moves, Guarded

LEMMA UpdateMoves ==
  ASSUME NEW p \in Procs, NEW f \in Frames, NEW s \in Statuses,
         f.task \in Tasks, Update(p, f, s)
  PROVE  Moves(p)
<1> DEFINE g == [f EXCEPT !.want = s]
<1>1. g \in Frames /\ g.task \in Tasks BY DEF Frames
<1>2. Goto(p, "update", g) BY DEF Update
<1>3. "update" \in Labels \ Guarded BY DEF Labels, Guarded
<1> QED BY <1>1, <1>2, <1>3, PlainMove

\* What update_status leads to, when it commits and when it refuses.
LEMMA AfterUpdateMoves ==
  ASSUME Inv, NEW p \in Procs, pc[p] # "idle", AfterUpdate(p)
  PROVE  Moves(p)
<1> DEFINE f == my[p]
<1>1. f \in Frames /\ f.task \in Tasks BY DEF Inv, TypeOK, FrameTask
<1>2. \A o \in Errands : [f EXCEPT !.op = o] \in Frames /\ [f EXCEPT !.op = o].task \in Tasks
  BY <1>1 DEF Frames
<1>3. {"none", "retry", "start"} \subseteq Errands BY DEF Errands, OpNames
<1>4. {"insertRun", "writeRun", "agent", "readTask"} \subseteq Labels \ Guarded
  BY DEF Labels, Guarded
<1>5. {"READY", "IN_PROGRESS"} \subseteq Statuses BY DEF Statuses
<1>6. CASE f.op = "start" /\ f.want = "READY"
  BY <1>6, <1>1, <1>5, UpdateMoves DEF AfterUpdate
<1>7. CASE f.op = "start" /\ f.want # "READY"
  BY <1>7, <1>1, <1>4, PlainMove DEF AfterUpdate
<1>8. CASE f.op = "complete"
  BY <1>8, <1>1, <1>4, PlainMove DEF AfterUpdate
<1>9. CASE f.op = "resume"
  <2>1. Goto(p, "agent", [f EXCEPT !.op = "none"]) BY <1>9 DEF AfterUpdate
  <2> QED BY <2>1, <1>2, <1>3, <1>4, PlainMove
<1>10. CASE f.op = "retryReset"
  <2>1. Update(p, [f EXCEPT !.op = "retry"], "READY") BY <1>10 DEF AfterUpdate
  <2> QED BY <2>1, <1>2, <1>3, <1>5, UpdateMoves
<1>11. CASE f.op = "retry"
  <2>1. Goto(p, "readTask", [f EXCEPT !.op = "start"]) BY <1>11 DEF AfterUpdate
  <2> QED BY <2>1, <1>2, <1>3, <1>4, PlainMove
<1>12. CASE f.op \notin {"start", "complete", "resume", "retryReset", "retry"}
  BY <1>12, ReturnMoves DEF AfterUpdate
<1> QED BY <1>6, <1>7, <1>8, <1>9, <1>10, <1>11, <1>12

LEMMA FailRunMoves ==
  ASSUME Inv, NEW p \in Procs, pc[p] # "idle", FailRun(p)
  PROVE  Moves(p)
<1>1. my[p] \in Frames /\ my[p].task \in Tasks BY DEF Inv, TypeOK, FrameTask
<1>2. [my[p] EXCEPT !.op = "fail"] \in Frames /\ [my[p] EXCEPT !.op = "fail"].task \in Tasks
  BY <1>1 DEF Frames, Errands
<1>3. "readRun" \in Labels \ Guarded BY DEF Labels, Guarded
<1> QED BY <1>2, <1>3, PlainMove DEF FailRun

LEMMA AfterRejectionMoves ==
  ASSUME Inv, NEW p \in Procs, pc[p] # "idle", AfterRejection(p)
  PROVE  Moves(p)
<1>1. my[p] \in Frames /\ my[p].task \in Tasks BY DEF Inv, TypeOK, FrameTask
<1>2. "readTask" \in Labels \ Guarded BY DEF Labels, Guarded
<1>3. CASE my[p].op = "complete" BY <1>3, <1>1, <1>2, PlainMove DEF AfterRejection
<1>4. CASE my[p].op = "block" BY <1>4, FailRunMoves DEF AfterRejection
<1>5. CASE my[p].op \notin {"complete", "block"} BY <1>5, ReturnMoves DEF AfterRejection
<1> QED BY <1>3, <1>4, <1>5

-----------------------------------------------------------------------------
\* A busy process has a frame on a task, and so has every variation of it.
LEMMA BusyFrame ==
  ASSUME Inv, NEW p \in Procs, pc[p] # "idle"
  PROVE  LET f == my[p] IN
         /\ f \in Frames /\ f.task \in Tasks
         /\ \A o \in Errands : /\ [f EXCEPT !.op = o] \in Frames
                               /\ [f EXCEPT !.op = o].task = f.task
         /\ \A s \in Statuses : /\ [f EXCEPT !.seen = s] \in Frames
                                /\ [f EXCEPT !.seen = s].task = f.task
                                /\ [f EXCEPT !.seen = s].seen = s
                                /\ [f EXCEPT !.seen = s].want = f.want
<1> DEFINE f == my[p]
<1>1. f \in Frames /\ f.task \in Tasks BY DEF Inv, TypeOK, FrameTask
<1> QED BY <1>1 DEF Frames

LEMMA ErrandNames ==
  OpNames \cup {"none", "ask", "block", "complete", "fail", "retryReset"} \subseteq Errands
BY DEF Errands

LEMMA PlainLabels ==
  Labels \ Guarded =
    {"idle", "checkActive", "insertRun", "agent", "findDuplicate", "insertBlocker", "readRun",
     "writeRun", "readTask", "resetRuns", "update", "peekActive", "readActive"}
BY DEF Labels, Guarded

-----------------------------------------------------------------------------
(* Each action moves its process as Moves says.                               *)

LEMMA ReadForUpdateMoves ==
  ASSUME Inv, NEW p \in Procs, ReadForUpdate(p)
  PROVE  Moves(p)
<1> DEFINE s == status[my[p].task]
           g == [my[p] EXCEPT !.seen = s]
<1>0. pc[p] # "idle" BY DEF ReadForUpdate
<1>1. s \in Statuses BY <1>0, BusyFrame DEF Inv, TypeOK
<1>2. CASE CanTransition(s, my[p].want)
  <2>1. Goto(p, "swap", g) BY <1>2 DEF ReadForUpdate
  <2>2. /\ g \in Frames /\ g.task \in Tasks
        /\ CanTransition(g.seen, g.want)
    BY <1>0, <1>1, <1>2, BusyFrame
  <2>3. "swap" \in Labels BY DEF Labels
  <2> QED BY <2>1, <2>2, <2>3 DEF Moves
<1>3. CASE ~CanTransition(s, my[p].want)
  BY <1>0, <1>3, AfterRejectionMoves DEF ReadForUpdate
<1> QED BY <1>2, <1>3

LEMMA CompareAndSetMoves ==
  ASSUME Inv, NEW p \in Procs, CompareAndSet(p)
  PROVE  Moves(p)
<1> DEFINE t == my[p].task
<1>0. pc[p] = "swap" BY DEF CompareAndSet
<1>1. my[p] \in Frames /\ t \in Tasks BY <1>0, BusyFrame
<1>2. CASE status[t] # my[p].seen
  BY <1>0, <1>2, AfterRejectionMoves DEF CompareAndSet
<1>3. CASE status[t] = my[p].seen /\ my[p].want = "DONE"
  <2>1. status[t] # "DONE"
    BY <1>0, <1>3 DEF Inv, SwapIsLegal, CanTransition, AllowedTransitions
  <2>2. Goto(p, "close", my[p]) /\ unclosed' = [unclosed EXCEPT ![t] = @ + 1]
    BY <1>3, <2>1 DEF CompareAndSet
  <2>3. "close" \in Labels BY DEF Labels
  <2> QED BY <1>0, <1>1, <2>2, <2>3 DEF Moves
<1>4. CASE status[t] = my[p].seen /\ my[p].want # "DONE"
  BY <1>0, <1>4, AfterUpdateMoves DEF CompareAndSet
<1> QED BY <1>2, <1>3, <1>4

LEMMA StartMoves ==
  ASSUME Inv, NEW p \in Procs,
         \/ \E t \in Tasks : StartTaskRun(p, t)
         \/ CheckActive(p) \/ InsertRun(p) \/ LeaveRunning(p)
  PROVE  Moves(p)
<1>1. ASSUME NEW t \in Tasks, StartTaskRun(p, t) PROVE Moves(p)
  <2> DEFINE f == [Frame("start", t) EXCEPT !.seen = status[t]]
  <2>1. Goto(p, "checkActive", f) BY <1>1 DEF StartTaskRun
  <2>2. Frame("start", t) \in Frames /\ Frame("start", t).task = t
    BY FrameType DEF Errands, OpNames
  <2>3. status[t] \in Statuses BY DEF Inv, TypeOK
  <2>4. f \in Frames /\ f.task \in Tasks BY <2>2, <2>3 DEF Frames
  <2> QED BY <2>1, <2>4, PlainMove, PlainLabels
<1>2. CASE CheckActive(p)
  <2>0. pc[p] # "idle" BY <1>2 DEF CheckActive
  <2>1. my[p] \in Frames /\ my[p].task \in Tasks BY <2>0, BusyFrame
  <2>2. Return(p) \/ Update(p, my[p], "READY") \/ Goto(p, "insertRun", my[p])
        \/ Update(p, my[p], "IN_PROGRESS")
    <3>1. CASE my[p].seen = "BACKLOG" BY <3>1, <1>2 DEF CheckActive
    <3>2. CASE my[p].seen = "IN_PROGRESS" BY <3>2, <1>2 DEF CheckActive
    <3>3. CASE my[p].seen \notin {"BACKLOG", "IN_PROGRESS"} BY <3>3, <1>2 DEF CheckActive
    <3> QED BY <3>1, <3>2, <3>3
  <2>3. {"READY", "IN_PROGRESS"} \subseteq Statuses BY DEF Statuses
  <2> QED BY <2>1, <2>2, <2>3, ReturnMoves, UpdateMoves, PlainMove, PlainLabels
<1>3. CASE InsertRun(p)
  <2>0. pc[p] # "idle" BY <1>3 DEF InsertRun
  <2>1. PICK r \in NextRun : Goto(p, "agent", [my[p] EXCEPT !.op = "none", !.run = r])
    BY <1>3 DEF InsertRun
  <2>2. r \in RunIds BY DEF NextRun
  <2>3. /\ [my[p] EXCEPT !.op = "none", !.run = r] \in Frames
        /\ [my[p] EXCEPT !.op = "none", !.run = r].task \in Tasks
    <3>1. my[p] \in Frames /\ my[p].task \in Tasks BY <2>0, BusyFrame
    <3>2. "none" \in Errands BY ErrandNames
    <3> QED BY <2>2, <3>1, <3>2 DEF Frames
  <2> QED BY <2>1, <2>3, PlainMove, PlainLabels
<1>4. CASE LeaveRunning(p) BY <1>4, ReturnMoves DEF LeaveRunning
<1> QED BY <1>1, <1>2, <1>3, <1>4

LEMMA AgentMoves ==
  ASSUME Inv, NEW p \in Procs,
         AgentEnds(p) \/ FindOpenDuplicate(p) \/ InsertBlocker(p)
  PROVE  Moves(p)
<1>0. pc[p] # "idle" BY DEF AgentEnds, FindOpenDuplicate, InsertBlocker
<1>1. /\ my[p] \in Frames /\ my[p].task \in Tasks
      /\ \A o \in Errands : /\ [my[p] EXCEPT !.op = o] \in Frames
                            /\ [my[p] EXCEPT !.op = o].task \in Tasks
  BY <1>0, BusyFrame
<1>2. {"ask", "block", "complete", "fail"} \subseteq Errands BY DEF Errands
<1>3. CASE AgentEnds(p)
  <2>1. CASE Goto(p, "readRun", [my[p] EXCEPT !.op = "complete"])
    BY <2>1, <1>1, <1>2, PlainMove, PlainLabels
  <2>2. CASE FailRun(p) BY <2>2, <1>0, FailRunMoves
  <2>3. ASSUME NEW create \in {"ask", "block"},
               Goto(p, "findDuplicate", [my[p] EXCEPT !.op = create])
        PROVE  Moves(p)
    BY <2>3, <1>1, <1>2, PlainMove, PlainLabels
  <2>4. CASE Goto(p, "readRun", [my[p] EXCEPT !.op = "block"])
    BY <2>4, <1>1, <1>2, PlainMove, PlainLabels
  <2> QED BY <1>3, <2>1, <2>2, <2>3, <2>4 DEF AgentEnds
<1>4. ASSUME NEW b \in BlockerIds, AfterCreate(p, b) PROVE Moves(p)
  <2>1. \A c \in BlockerIds \cup {0} :
          /\ [my[p] EXCEPT !.op = "block", !.blocker = c] \in Frames
          /\ [my[p] EXCEPT !.op = "block", !.blocker = c].task \in Tasks
    BY <1>1, <1>2 DEF Frames
  <2>2. CASE Goto(p, "findDuplicate", [my[p] EXCEPT !.op = "block", !.blocker = b])
    BY <2>1, <2>2, PlainMove, PlainLabels
  <2>3. CASE Goto(p, "readRun", [my[p] EXCEPT !.op = "block", !.blocker = 0])
    BY <2>1, <2>3, PlainMove, PlainLabels
  <2> QED BY <1>4, <2>2, <2>3 DEF AfterCreate
<1>5. CASE FindOpenDuplicate(p)
  <2>1. \A b \in OpenBlockers(my[p].task) : b \in BlockerIds BY DEF OpenBlockers
  <2>2. (\E b \in BlockerIds : AfterCreate(p, b)) \/ Goto(p, "insertBlocker", my[p])
    BY <1>5, <2>1 DEF FindOpenDuplicate
  <2> QED BY <2>2, <1>1, <1>4, PlainMove, PlainLabels
<1>6. CASE InsertBlocker(p)
  <2>1. \A b \in NextBlocker : b \in BlockerIds BY DEF NextBlocker
  <2> QED BY <1>4, <1>6, <2>1 DEF InsertBlocker
<1> QED BY <1>3, <1>5, <1>6

LEMMA RecordMoves ==
  ASSUME Inv, NEW p \in Procs, ReadRun(p) \/ WriteRun(p) \/ ReadTask(p)
  PROVE  Moves(p)
<1>0. pc[p] # "idle" BY DEF ReadRun, WriteRun, ReadTask
<1>1. my[p] \in Frames /\ my[p].task \in Tasks BY <1>0, BusyFrame
<1>2. {"READY", "IN_PROGRESS", "BLOCKED", "FAILED", "DONE"} \subseteq Statuses BY DEF Statuses
<1>3. \A s \in {"READY", "IN_PROGRESS", "BLOCKED", "FAILED", "DONE"} :
        Update(p, my[p], s) => Moves(p)
  BY <1>1, <1>2, UpdateMoves
<1>4. \A l \in {"writeRun", "readTask"} : Goto(p, l, my[p]) => Moves(p)
  BY <1>1, PlainMove, PlainLabels
<1>5. CASE ReadRun(p)
  <2>1. CASE my[p].op = "complete" /\ runs[my[p].run].status = "RUNNING"
    BY <1>5, <2>1, <1>3 DEF ReadRun
  <2>2. CASE my[p].op = "block" /\ runs[my[p].run].status = "RUNNING"
    BY <1>5, <2>2, <1>4 DEF ReadRun
  <2>3. CASE my[p].op = "fail"
    BY <1>5, <2>3, <1>4, ReturnMoves DEF ReadRun
  <2>4. CASE /\ ~(my[p].op = "complete" /\ runs[my[p].run].status = "RUNNING")
             /\ ~(my[p].op = "block" /\ runs[my[p].run].status = "RUNNING")
             /\ my[p].op # "fail"
    BY <1>5, <1>0, <2>4, FailRunMoves DEF ReadRun
  <2> QED BY <2>1, <2>2, <2>3, <2>4
<1>6. CASE WriteRun(p)
  <2>1. CASE my[p].op = "complete" BY <1>6, <2>1, ReturnMoves DEF WriteRun
  <2>2. CASE my[p].op = "block" BY <1>6, <2>2, <1>3 DEF WriteRun
  <2>3. CASE my[p].op = "resume" BY <1>6, <2>3, <1>3 DEF WriteRun
  <2>4. CASE my[p].op \notin {"complete", "block", "resume"}
    BY <1>6, <2>4, <1>4 DEF WriteRun
  <2> QED BY <2>1, <2>2, <2>3, <2>4
<1>7. CASE ReadTask(p)
  <2>1. CASE my[p].op = "start"
    <3> DEFINE g == [my[p] EXCEPT !.seen = status[my[p].task]]
    <3>1. status[my[p].task] \in Statuses BY <1>1 DEF Inv, TypeOK
    <3>2. g \in Frames /\ g.task \in Tasks BY <1>1, <3>1 DEF Frames
    <3>3. Goto(p, "checkActive", g) BY <1>7, <2>1 DEF ReadTask
    <3> QED BY <3>2, <3>3, PlainMove, PlainLabels
  <2>2. CASE my[p].op = "complete"
    BY <1>7, <2>2, <1>0, <1>4, FailRunMoves DEF ReadTask
  <2>3. CASE my[p].op = "fail"
    BY <1>7, <2>3, <1>3, ReturnMoves DEF ReadTask
  <2>4. CASE my[p].op = "stop"
    BY <1>7, <2>4, <1>3, ReturnMoves DEF ReadTask
  <2>5. CASE my[p].op = "retryReset"
    <3> DEFINE g == [my[p] EXCEPT !.op = "retry"]
    <3>1. g \in Frames /\ g.task \in Tasks BY <1>1 DEF Frames, Errands, OpNames
    <3>2. Update(p, my[p], "READY") \/ Update(p, g, "READY") BY <1>7, <2>5 DEF ReadTask
    <3> QED BY <3>1, <3>2, <1>2, <1>3, UpdateMoves
  <2>6. CASE my[p].op \notin {"start", "complete", "fail", "stop", "retryReset"}
    BY <1>7, <2>6, <1>3, ReturnMoves DEF ReadTask
  <2> QED BY <2>1, <2>2, <2>3, <2>4, <2>5, <2>6
<1> QED BY <1>5, <1>6, <1>7

LEMMA OperatorMoves ==
  ASSUME Inv, NEW p \in Procs,
         \/ \E t \in Tasks : \/ StopRun(p, t) \/ ResumeRun(p, t) \/ ResetBlockedRun(p, t)
                             \/ RetryTask(p, t)
                             \/ \E s \in Statuses : SetStatus(p, t, s)
         \/ \E b \in BlockerIds : AnswerBlocker(p, b) \/ ResolveBlocker(p, b)
  PROVE  Moves(p)
<1>1. ASSUME NEW t \in Tasks, NEW name \in OpNames
      PROVE  /\ Frame(name, t) \in Frames /\ Frame(name, t).task = t
             /\ \A r \in RunIds : /\ [Frame(name, t) EXCEPT !.run = r] \in Frames
                                  /\ [Frame(name, t) EXCEPT !.run = r].task = t
             /\ \A b \in BlockerIds : /\ [Frame(name, t) EXCEPT !.blocker = b] \in Frames
                                      /\ [Frame(name, t) EXCEPT !.blocker = b].task = t
  <2>1. Frame(name, t) \in Frames /\ Frame(name, t).task = t BY FrameType, ErrandNames
  <2> QED BY <2>1 DEF Frames
<1>2. {"stop", "resume", "reset", "retry", "set", "answer", "resolve"} \subseteq OpNames
  BY DEF OpNames
<1>3. \A t \in Tasks : NewestActive(t) \subseteq RunIds BY DEF NewestActive, ActiveRuns
<1>4. ASSUME NEW t \in Tasks, StopRun(p, t) \/ ResumeRun(p, t) PROVE Moves(p)
  <2>1. PICK r \in NewestActive(t), name \in {"stop", "resume"} :
          Goto(p, "writeRun", [Frame(name, t) EXCEPT !.run = r])
    BY <1>4 DEF StopRun, ResumeRun
  <2> DEFINE f == [Frame(name, t) EXCEPT !.run = r]
  <2>2. r \in RunIds BY <1>3
  <2>3. f \in Frames /\ f.task \in Tasks BY <1>1, <1>2, <2>2
  <2> QED BY <2>1, <2>3, PlainMove, PlainLabels
<1>5. ASSUME NEW t \in Tasks, ResetBlockedRun(p, t) PROVE Moves(p)
  <2>1. Goto(p, "readTask", Frame("reset", t)) BY <1>5 DEF ResetBlockedRun
  <2>2. Frame("reset", t) \in Frames /\ Frame("reset", t).task \in Tasks BY <1>1, <1>2
  <2> QED BY <2>1, <2>2, PlainMove, PlainLabels
<1>6. ASSUME NEW t \in Tasks, RetryTask(p, t) PROVE Moves(p)
  <2>1. Goto(p, "resetRuns", Frame("retry", t)) BY <1>6 DEF RetryTask
  <2>2. Frame("retry", t) \in Frames /\ Frame("retry", t).task \in Tasks BY <1>1, <1>2
  <2> QED BY <2>1, <2>2, PlainMove, PlainLabels
<1>7. ASSUME NEW t \in Tasks, NEW s \in Statuses, SetStatus(p, t, s) PROVE Moves(p)
  <2>1. Update(p, Frame("set", t), s) BY <1>7 DEF SetStatus
  <2>2. Frame("set", t) \in Frames /\ Frame("set", t).task \in Tasks BY <1>1, <1>2
  <2> QED BY <2>1, <2>2, UpdateMoves
<1>8. ASSUME NEW b \in BlockerIds, AnswerBlocker(p, b) \/ ResolveBlocker(p, b) PROVE Moves(p)
  <2> DEFINE t == blockers[b].task
  <2>1. t \in Tasks BY <1>8 DEF AnswerBlocker, ResolveBlocker, Inv, BlockerTask
  <2>2. PICK name \in {"answer", "resolve"}, l \in {"writeAnswer", "writeResolved"} :
          Goto(p, l, [Frame(name, t) EXCEPT !.blocker = b])
    BY <1>8 DEF AnswerBlocker, ResolveBlocker
  <2> DEFINE f == [Frame(name, t) EXCEPT !.blocker = b]
  <2>3. f \in Frames /\ f.task \in Tasks BY <1>1, <1>2, <2>1
  <2>4. f.blocker = b
    <3>1. Frame(name, t) \in Frames BY <1>1, <1>2, <2>1
    <3> QED BY <3>1 DEF Frames
  <2>5. blockers[b].status # "NONE" BY <1>8 DEF AnswerBlocker, ResolveBlocker
  <2>6. l \in Labels BY DEF Labels
  <2> QED BY <2>2, <2>3, <2>4, <2>5, <2>6 DEF Moves
<1> QED BY <1>4, <1>5, <1>6, <1>7, <1>8

LEMMA AnswerMoves ==
  ASSUME Inv, NEW p \in Procs,
         \/ WriteAnswer(p) \/ PeekActive(p) \/ ReadActive(p) \/ WriteResolved(p)
         \/ ResetForRetry(p) \/ DispatchClose(p) \/ Crash(p)
  PROVE  Moves(p)
<1>0. pc[p] # "idle"
  BY DEF WriteAnswer, PeekActive, ReadActive, WriteResolved, ResetForRetry, DispatchClose, Crash
<1>1. my[p] \in Frames /\ my[p].task \in Tasks BY <1>0, BusyFrame
<1>2. \A l \in {"peekActive", "readActive", "readTask"} : Goto(p, l, my[p]) => Moves(p)
  BY <1>1, PlainMove, PlainLabels
<1>3. CASE WriteAnswer(p) BY <1>2, <1>3 DEF WriteAnswer
<1>4. CASE PeekActive(p)
  <2>1. Goto(p, "readActive", my[p]) \/ Return(p) BY <1>4 DEF PeekActive
  <2> QED BY <2>1, <1>2, ReturnMoves
<1>5. CASE ReadActive(p)
  <2>1. ASSUME NEW r \in NewestActive(my[p].task),
               Goto(p, "writeRun", [my[p] EXCEPT !.op = "stop", !.run = r])
        PROVE  Moves(p)
    <3> DEFINE f == [my[p] EXCEPT !.op = "stop", !.run = r]
    <3>1. r \in RunIds BY DEF NewestActive, ActiveRuns
    <3>2. f \in Frames /\ f.task \in Tasks BY <1>1, <3>1 DEF Frames, Errands, OpNames
    <3> QED BY <2>1, <3>2, PlainMove, PlainLabels
  <2> QED BY <1>2, <1>5, <2>1 DEF ReadActive
<1>6. CASE WriteResolved(p) BY <1>6, ReturnMoves DEF WriteResolved
<1>7. CASE ResetForRetry(p)
  <2> DEFINE f == [my[p] EXCEPT !.op = "retryReset"]
  <2>1. f \in Frames /\ f.task \in Tasks BY <1>1 DEF Frames, Errands
  <2>2. Goto(p, "readTask", f) \/ Update(p, my[p], "READY") BY <1>7 DEF ResetForRetry
  <2>3. "READY" \in Statuses BY DEF Statuses
  <2> QED BY <2>1, <2>2, <2>3, <1>1, PlainMove, PlainLabels, UpdateMoves
<1>8. CASE DispatchClose(p) BY <1>0, <1>8, AfterUpdateMoves DEF DispatchClose
<1>9. CASE Crash(p) BY <1>9, ReturnMoves DEF Crash
<1> QED BY <1>3, <1>4, <1>5, <1>6, <1>7, <1>8, <1>9, SMTT(30)

LEMMA ActionMoves ==
  ASSUME Inv, NEW p \in Procs, Step(p) \/ Request(p)
  PROVE  Moves(p)
BY ReadForUpdateMoves, CompareAndSetMoves, StartMoves, AgentMoves, RecordMoves, OperatorMoves,
   AnswerMoves DEF Step, Request

-----------------------------------------------------------------------------
(* What the actions do to the tables.                                         *)

LEMMA RunRows ==
  ASSUME Inv, NEW p \in Procs, Step(p) \/ Request(p)
  PROVE  runs' \in [RunIds -> [task : Tasks \cup {NoTask}, status : RunStatuses]]
<1> DEFINE Rows == [task : Tasks \cup {NoTask}, status : RunStatuses]
<1>0. runs \in [RunIds -> Rows] BY DEF Inv, TypeOK
<1>1. CASE runs' = runs BY <1>0, <1>1
<1>2. CASE InsertRun(p)
  <2>0. pc[p] # "idle" BY <1>2 DEF InsertRun
  <2>1. my[p].task \in Tasks BY <2>0, BusyFrame
  <2>2. [task |-> my[p].task, status |-> "RUNNING"] \in Rows BY <2>1 DEF RunStatuses
  <2> QED BY <1>0, <1>2, <2>2 DEF InsertRun
<1>3. CASE WriteRun(p)
  <2>1. PICK s \in {"COMPLETED", "BLOCKED", "RUNNING", "FAILED"} : SetRun(my[p].run, s)
    <3>1. CASE my[p].op = "complete" BY <1>3, <3>1 DEF WriteRun
    <3>2. CASE my[p].op = "block" BY <1>3, <3>2 DEF WriteRun
    <3>3. CASE my[p].op = "resume" BY <1>3, <3>3 DEF WriteRun
    <3>4. CASE my[p].op \notin {"complete", "block", "resume"} BY <1>3, <3>4 DEF WriteRun
    <3> QED BY <3>1, <3>2, <3>3, <3>4
  <2> QED BY <1>0, <2>1 DEF SetRun, RunStatuses
<1>4. ASSUME NEW t, FailBlockedRuns(t) PROVE runs' \in [RunIds -> Rows]
  BY <1>0, <1>4, SMTT(30) DEF FailBlockedRuns, RunStatuses
<1>5. \/ runs' = runs \/ InsertRun(p) \/ WriteRun(p)
      \/ \E t \in Tasks : ResetBlockedRun(p, t)
      \/ ResetForRetry(p)
  BY DEF Step, Request, tables, ReadForUpdate, CompareAndSet, DispatchClose, CheckActive,
     AgentEnds, FindOpenDuplicate, InsertBlocker, ReadRun, ReadTask, WriteAnswer, PeekActive,
     ReadActive, WriteResolved, StartTaskRun, StopRun, ResumeRun, RetryTask, SetStatus,
     AnswerBlocker, ResolveBlocker, LeaveRunning, Crash
<1> QED BY <1>1, <1>2, <1>3, <1>4, <1>5 DEF ResetBlockedRun, ResetForRetry

LEMMA BlockerRows ==
  ASSUME Inv, NEW p \in Procs, Step(p) \/ Request(p)
  PROVE  /\ blockers' \in [BlockerIds -> [task : Tasks \cup {NoTask}, status : BlockerStatuses]]
         /\ BlockerTask'
         /\ \A b \in BlockerIds : blockers[b].status # "NONE" => blockers'[b].status # "NONE"
<1> DEFINE Rows == [task : Tasks \cup {NoTask}, status : BlockerStatuses]
<1>0. blockers \in [BlockerIds -> Rows] BY DEF Inv, TypeOK
<1>1. CASE blockers' = blockers BY <1>0, <1>1 DEF Inv, BlockerTask
<1>2. CASE InsertBlocker(p)
  <2>0. pc[p] # "idle" BY <1>2 DEF InsertBlocker
  <2>1. my[p].task \in Tasks BY <2>0, BusyFrame
  <2>2. [task |-> my[p].task, status |-> "OPEN"] \in Rows BY <2>1 DEF BlockerStatuses
  <2> DEFINE row == [task |-> my[p].task, status |-> "OPEN"]
  <2>3. PICK b \in NextBlocker : blockers' = [blockers EXCEPT ![b] = row]
    BY <1>2, Zenon DEF InsertBlocker
  <2>4. b \in BlockerIds BY DEF NextBlocker
  <2>5. \A c \in BlockerIds : blockers'[c] = IF c = b THEN row ELSE blockers[c]
    BY <1>0, <2>3, <2>4
  <2>6. row.task \in Tasks /\ row.status = "OPEN" BY <2>1
  <2>7. blockers' \in [BlockerIds -> Rows] BY <1>0, <2>2, <2>3
  <2>8. BlockerTask' BY <2>5, <2>6 DEF Inv, BlockerTask
  <2>9. \A c \in BlockerIds : blockers[c].status # "NONE" => blockers'[c].status # "NONE"
    BY <2>5, <2>6
  <2> QED BY <2>7, <2>8, <2>9
<1>3. CASE WriteAnswer(p) \/ WriteResolved(p)
  <2> DEFINE b == my[p].blocker
  <2>1. b \in BlockerIds /\ blockers[b].status # "NONE"
    BY <1>3 DEF WriteAnswer, WriteResolved, Inv, FrameBlocker
  <2>2. PICK s \in {"ANSWERED", "RESOLVED"} : blockers' = [blockers EXCEPT ![b].status = s]
    BY <1>3 DEF WriteAnswer, WriteResolved
  <2>3. s \in BlockerStatuses /\ s # "NONE" BY SMTT(30) DEF BlockerStatuses
  <2> QED BY <1>0, <2>1, <2>2, <2>3 DEF Inv, BlockerTask
<1>4. blockers' = blockers \/ InsertBlocker(p) \/ WriteAnswer(p) \/ WriteResolved(p)
  BY DEF Step, Request, tables, ReadForUpdate, CompareAndSet, DispatchClose, CheckActive,
     AgentEnds, InsertRun, FindOpenDuplicate, ReadRun, WriteRun, ReadTask, PeekActive,
     ReadActive, ResetForRetry, ResetBlockedRun, StartTaskRun, StopRun, ResumeRun, RetryTask,
     SetStatus, AnswerBlocker, ResolveBlocker, LeaveRunning, Crash
<1> QED BY <1>1, <1>2, <1>3, <1>4

\* A status changes only in a compare-and-set that commits, along an edge.
\* A step that changes none owes no new close.
LEMMA StatusRows ==
  ASSUME Inv, NEW p \in Procs, Step(p) \/ Request(p)
  PROVE  \/ status' = status /\ (pc[p] = "close" \/ unclosed' = unclosed)
         \/ /\ pc[p] = "swap"
            /\ CanTransition(status[my[p].task], my[p].want)
            /\ status' = [status EXCEPT ![my[p].task] = my[p].want]
            /\ unclosed' = [unclosed EXCEPT ![my[p].task] =
                              IF my[p].want = "DONE" THEN @ + 1 ELSE @]
<1> DEFINE t == my[p].task
<1>1. CASE CompareAndSet(p) /\ status[t] = my[p].seen
  <2>1. pc[p] = "swap" /\ CanTransition(status[t], my[p].want)
    BY <1>1 DEF CompareAndSet, Inv, SwapIsLegal
  <2>2. status[t] # "DONE" \/ my[p].want # "DONE"
    BY <2>1 DEF CanTransition, AllowedTransitions
  <2>3. t \in Tasks /\ unclosed \in [Tasks -> Int] BY <2>1, BusyFrame DEF Inv, TypeOK
  <2>4. /\ status' = [status EXCEPT ![t] = my[p].want]
        /\ my[p].want = "DONE" => unclosed' = [unclosed EXCEPT ![t] = @ + 1]
        /\ my[p].want # "DONE" => unclosed' = unclosed
    BY <1>1, <2>2 DEF CompareAndSet
  <2> QED BY <2>1, <2>3, <2>4
<1>2. CASE CompareAndSet(p) /\ status[t] # my[p].seen BY <1>2, SMTT(30) DEF CompareAndSet
<1>3. \/ status' = status /\ (pc[p] = "close" \/ unclosed' = unclosed)
      \/ CompareAndSet(p)
  BY DEF Step, Request, tables, ReadForUpdate, DispatchClose, CheckActive,
     AgentEnds, InsertRun, FindOpenDuplicate, InsertBlocker, ReadRun, WriteRun, ReadTask,
     WriteAnswer, PeekActive, ReadActive, WriteResolved, ResetForRetry, ResetBlockedRun,
     StartTaskRun, StopRun, ResumeRun, RetryTask, SetStatus, AnswerBlocker, ResolveBlocker,
     LeaveRunning, Crash
<1> QED BY <1>1, <1>2, <1>3

\* The closes owed change when a close begins to be owed and when its owner
\* sends it or dies.
LEMMA UnclosedRows ==
  ASSUME Inv, NEW p \in Procs, Step(p) \/ Request(p)
  PROVE  /\ pc[p] = "close" => /\ unclosed' = [unclosed EXCEPT ![my[p].task] = @ - 1]
                               /\ status' = status
         /\ pc[p] # "close" => \/ unclosed' = unclosed
                               \/ pc[p] = "swap" /\ pc'[p] = "close"
<1> DEFINE t == my[p].task
<1>1. CASE CompareAndSet(p)
  <2>1. pc[p] = "swap" BY <1>1 DEF CompareAndSet
  <2>2. unclosed' = unclosed \/ Goto(p, "close", my[p]) BY <1>1 DEF CompareAndSet
  <2>3. pc \in [Procs -> Labels] BY DEF Inv, TypeOK
  <2> QED BY <2>1, <2>2, <2>3 DEF Goto
<1>2. CASE DispatchClose(p) BY <1>2 DEF DispatchClose
<1>3. CASE Crash(p) BY <1>3, SMTT(30) DEF Crash
<1>4. \/ CompareAndSet(p) \/ DispatchClose(p) \/ Crash(p)
      \/ pc[p] # "close" /\ unclosed' = unclosed
  BY DEF Step, Request, tables, ReadForUpdate, CheckActive,
     AgentEnds, InsertRun, FindOpenDuplicate, InsertBlocker, ReadRun, WriteRun, ReadTask,
     WriteAnswer, PeekActive, ReadActive, WriteResolved, ResetForRetry, ResetBlockedRun,
     StartTaskRun, StopRun, ResumeRun, RetryTask, SetStatus, AnswerBlocker, ResolveBlocker,
     LeaveRunning, Asked
<1> QED BY <1>1, <1>2, <1>3, <1>4

-----------------------------------------------------------------------------
LEMMA InitInv == Init => Inv
<1> SUFFICES ASSUME Init PROVE Inv OBVIOUS
<1>1. status \in [Tasks -> Statuses] BY DEF Init, Statuses
<1>2. unclosed \in [Tasks -> Int] BY DEF Init
<1>3. runs \in [RunIds -> [task : Tasks \cup {NoTask}, status : RunStatuses]]
  BY DEF Init, RunStatuses
<1>4. blockers \in [BlockerIds -> [task : Tasks \cup {NoTask}, status : BlockerStatuses]]
  BY DEF Init, BlockerStatuses
<1>5. pc \in [Procs -> Labels] /\ my \in [Procs -> Frames] BY NoFrameType DEF Init, Labels
<1>6. FrameTask /\ SwapIsLegal /\ FrameBlocker BY DEF Init, FrameTask, SwapIsLegal, FrameBlocker
<1>7. BlockerTask BY DEF Init, BlockerTask
<1>8. CloseOwed
  <2>1. \A t \in Tasks : Closers(t) = {} BY DEF Init, Closers
  <2>2. \A t \in Tasks : unclosed[t] = 0 BY DEF Init
  <2> QED BY <2>1, <2>2, FS_EmptySet DEF CloseOwed
<1> QED BY <1>1, <1>2, <1>3, <1>4, <1>5, <1>6, <1>7, <1>8 DEF Inv, TypeOK

\* The owed closes stay matched to the processes that owe them.
LEMMA CloseOwedStep ==
  ASSUME Inv, NEW p \in Procs, Step(p) \/ Request(p)
  PROVE  CloseOwed'
<1> DEFINE u == my[p].task
<1>1. PICK l \in Labels, f \in Frames :
        /\ Goto(p, l, f)
        /\ l = "close" => /\ pc[p] = "swap" /\ f.task = my[p].task
                          /\ unclosed' = [unclosed EXCEPT ![f.task] = @ + 1]
  BY ActionMoves DEF Moves
<1>2. /\ pc \in [Procs -> Labels] /\ my \in [Procs -> Frames]
      /\ unclosed \in [Tasks -> Int]
  BY DEF Inv, TypeOK
<1>3. \A q \in Procs : /\ pc'[q] = IF q = p THEN l ELSE pc[q]
                       /\ my'[q] = IF q = p THEN f ELSE my[q]
  BY <1>1, <1>2 DEF Goto
<1>4. SUFFICES ASSUME NEW t \in Tasks PROVE unclosed'[t] = Cardinality(Closers(t)')
  BY DEF CloseOwed
<1>5. IsFiniteSet(Closers(t)) BY FS_Subset, ProcsAssumption DEF Closers
<1>6. unclosed[t] = Cardinality(Closers(t)) BY DEF Inv, CloseOwed
<1>7. CASE l = "close"
  <2>1. p \notin Closers(t) BY <1>1, <1>7 DEF Closers
  <2>2. CASE t = u
    <3>1. Closers(t)' = Closers(t) \cup {p} BY <1>1, <1>3, <1>7, <2>2 DEF Closers
    <3>2. unclosed'[t] = unclosed[t] + 1 BY <1>1, <1>2, <1>7, <2>2
    <3> QED BY <3>1, <3>2, <2>1, <1>5, <1>6, FS_AddElement, ZenonT(60)
  <2>3. CASE t # u
    <3>1. Closers(t)' = Closers(t) BY <1>1, <1>3, <1>7, <2>3 DEF Closers
    <3>2. unclosed'[t] = unclosed[t] BY <1>1, <1>2, <1>7, <2>3
    <3> QED BY <3>1, <3>2, <1>6
  <2> QED BY <2>2, <2>3
<1>8. CASE l # "close" /\ pc[p] = "close"
  <2>1. unclosed' = [unclosed EXCEPT ![u] = @ - 1] BY <1>8, UnclosedRows
  <2>2. CASE t = u
    <3>1. Closers(t)' = Closers(t) \ {p} BY <1>3, <1>8 DEF Closers
    <3>2. p \in Closers(t) BY <1>8, <2>2 DEF Closers
    <3>3. unclosed'[t] = unclosed[t] - 1 BY <1>2, <2>1, <2>2
    <3>4. Cardinality(Closers(t) \ {p}) = Cardinality(Closers(t)) - 1
      BY <3>2, <1>5, FS_RemoveElement
    <3> QED BY <3>1, <3>3, <3>4, <1>6
  <2>3. CASE t # u
    <3>1. Closers(t)' = Closers(t) BY <1>3, <1>8, <2>3 DEF Closers
    <3>2. unclosed'[t] = unclosed[t] BY <1>2, <2>1, <2>3
    <3> QED BY <3>1, <3>2, <1>6
  <2> QED BY <2>2, <2>3
<1>9. CASE l # "close" /\ pc[p] # "close"
  <2>1. unclosed' = unclosed BY <1>3, <1>9, UnclosedRows
  <2>2. Closers(t)' = Closers(t) BY <1>3, <1>9 DEF Closers
  <2> QED BY <2>1, <2>2, <1>6
<1> QED BY <1>7, <1>8, <1>9

LEMMA StepInv ==
  ASSUME Inv, NEW p \in Procs, Step(p) \/ Request(p)
  PROVE  Inv'
<1>1. PICK l \in Labels, f \in Frames :
        /\ Goto(p, l, f)
        /\ l # "idle" => f.task \in Tasks
        /\ l = "swap" => CanTransition(f.seen, f.want)
        /\ l \in {"writeAnswer", "writeResolved"} =>
             f.blocker \in BlockerIds /\ blockers[f.blocker].status # "NONE"
        /\ l = "close" => /\ pc[p] = "swap" /\ f.task = my[p].task
                          /\ unclosed' = [unclosed EXCEPT ![f.task] = @ + 1]
  BY ActionMoves DEF Moves
<1>2. pc \in [Procs -> Labels] /\ my \in [Procs -> Frames] BY DEF Inv, TypeOK
<1>3. \A q \in Procs : /\ pc'[q] = IF q = p THEN l ELSE pc[q]
                       /\ my'[q] = IF q = p THEN f ELSE my[q]
  BY <1>1, <1>2 DEF Goto
<1>4. pc' \in [Procs -> Labels] /\ my' \in [Procs -> Frames] BY <1>1, <1>2 DEF Goto
<1>5. status' \in [Tasks -> Statuses]
  <2>1. status \in [Tasks -> Statuses] BY DEF Inv, TypeOK
  <2>2. my[p].want \in Statuses BY <1>2 DEF Frames
  <2> QED BY <2>1, <2>2, StatusRows
<1>6. unclosed' \in [Tasks -> Int]
  <2>1. unclosed \in [Tasks -> Int] BY DEF Inv, TypeOK
  <2>2. pc'[p] = l BY <1>3
  <2>3. pc[p] = "close" \/ unclosed' = unclosed \/ l = "close" BY <2>2, UnclosedRows
  <2> QED BY <2>1, <2>3, <1>1, UnclosedRows
<1>7. FrameTask' BY <1>1, <1>3 DEF Inv, FrameTask
<1>8. SwapIsLegal' BY <1>1, <1>3 DEF Inv, SwapIsLegal
<1>9. FrameBlocker' BY <1>1, <1>3, BlockerRows DEF Inv, FrameBlocker
<1> QED BY <1>4, <1>5, <1>6, <1>7, <1>8, <1>9, RunRows, BlockerRows, CloseOwedStep
  DEF Inv, TypeOK

LEMMA Invariant == Spec => []Inv
<1>1. Inv /\ [Next]_vars => Inv'
  <2> SUFFICES ASSUME Inv, [Next]_vars PROVE Inv' OBVIOUS
  <2>1. CASE Next BY <2>1, StepInv DEF Next
  <2>2. CASE UNCHANGED vars
    BY <2>2 DEF vars, Inv, TypeOK, FrameTask, SwapIsLegal, BlockerTask, FrameBlocker, CloseOwed,
       Closers
  <2> QED BY <2>1, <2>2
<1> QED BY <1>1, InitInv, PTL DEF Spec

\* Whatever the interleaving, the rows of the tables and the frames of the
\* processes are of their types: no helper of core/runtime.py, core/tasks.py or
\* core/blockers.py writes a word into a column that is not of its vocabulary.
THEOREM TypeCorrect == Spec => []TypeOK
<1>1. Inv => TypeOK BY DEF Inv
<1> QED BY <1>1, Invariant, PTL

\* TaskRuns implements TaskLifecycle: every committed status change is an edge
\* of ALLOWED_TRANSITIONS although it was validated against an earlier read, and
\* every arrival at DONE is closed on GitHub at most once.
THEOREM ImplementsLifecycle == Spec => LifecycleSpec
<1>1. Init => Lifecycle!Init BY DEF Init, Lifecycle!Init
<1>2. Inv /\ [Next]_vars => [Lifecycle!Next]_(Lifecycle!lifecycleVars)
  <2> SUFFICES ASSUME Inv, [Next]_vars PROVE [Lifecycle!Next]_(Lifecycle!lifecycleVars) OBVIOUS
  <2>1. CASE UNCHANGED vars BY <2>1 DEF vars, Lifecycle!lifecycleVars
  <2>2. ASSUME NEW p \in Procs, Step(p) \/ Request(p)
        PROVE  [Lifecycle!Next]_(Lifecycle!lifecycleVars)
    <3> DEFINE t == my[p].task
    <3>1. CASE pc[p] = "close"
      <4>1. t \in Tasks BY <3>1, BusyFrame
      <4>2. p \in Closers(t) /\ IsFiniteSet(Closers(t))
        BY <3>1, FS_Subset, ProcsAssumption DEF Closers
      <4>3. unclosed[t] > 0
        <5>1. Closers(t) # {} BY <4>2
        <5>2. Cardinality(Closers(t)) # 0 /\ Cardinality(Closers(t)) \in Nat
          BY <4>2, <5>1, FS_EmptySet, FS_CardinalityType
        <5> QED BY <4>1, <5>2 DEF Inv, CloseOwed
      <4>4. Lifecycle!Close(t) BY <2>2, <3>1, <4>3, UnclosedRows DEF Lifecycle!Close
      <4> QED BY <4>1, <4>4 DEF Lifecycle!Next
    <3>2. CASE /\ pc[p] = "swap"
               /\ CanTransition(status[t], my[p].want)
               /\ status' = [status EXCEPT ![t] = my[p].want]
               /\ unclosed' = [unclosed EXCEPT ![t] = IF my[p].want = "DONE" THEN @ + 1 ELSE @]
      <4>1. t \in Tasks BY <3>2, BusyFrame
      <4>2. my[p].want \in Lifecycle!Statuses
        BY DEF Inv, TypeOK, Frames, Statuses, Lifecycle!Statuses
      <4>3. Lifecycle!Move(t, my[p].want)
        BY <3>2 DEF Lifecycle!Move, CanTransition, Lifecycle!CanTransition,
           AllowedTransitions, Lifecycle!AllowedTransitions
      <4> QED BY <4>1, <4>2, <4>3 DEF Lifecycle!Next
    <3>3. CASE status' = status /\ unclosed' = unclosed
      BY <3>3 DEF Lifecycle!lifecycleVars
    <3> QED BY <2>2, <3>1, <3>2, <3>3, StatusRows
  <2> QED BY <2>1, <2>2 DEF Next
<1> QED BY <1>1, <1>2, Invariant, PTL DEF Spec, LifecycleSpec, Lifecycle!Spec
=============================================================================
