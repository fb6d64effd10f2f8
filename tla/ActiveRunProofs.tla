-------------------------- MODULE ActiveRunProofs --------------------------
(* Which runs are active, and with whom, for any numbers of tasks, processes,   *)
(* runs and blockers, in three parts.                                           *)
(*   While one process starts runs and stays with them, and the others only     *)
(* stop them, answer, resolve and move tasks, no run is orphaned; a resume, a   *)
(* process that leaves its run or dies would each break it.                     *)
(*   With one worker and one operator who answers, each task agrees with its    *)
(* latest run whenever all have finished.                                       *)
(*   Whatever anybody does, an active run keeps all those out who had not       *)
(* looked before it was there.                                                  *)
EXTENDS TaskRunsProofs

\* The operations of a process that starts runs, and of those that only deal
\* with the runs there are.
StarterOps == {"start", "pick"}
BystanderOps == {"stop", "answer", "resolve", "set", "reset"}

\* One process starts runs; nobody resumes, retries, leaves a run or dies.
OneStarter(w) ==
  Ops[w] \subseteq StarterOps /\ \A p \in Procs \ {w} : Ops[p] \subseteq BystanderOps

\* Where a bystander can be, and with which errand; the only run it writes is
\* one it stops.
Bystander(l, f) ==
  l = "idle" \/ /\ f.op \in BystanderOps
                /\ l \in {"update", "swap", "close", "readTask", "writeRun", "writeAnswer",
                          "peekActive", "readActive", "writeResolved"}
                /\ l = "writeRun" => f.op = "stop"

\* Where the starter can be, by errand.
Updating == {"update", "swap", "close"}
Places ==
  ({"start"} \X (Updating \cup {"checkActive", "insertRun"}))
  \cup ({"none"} \X {"agent"})
  \cup ({"ask"} \X {"findDuplicate", "insertBlocker"})
  \cup ({"block"} \X (Updating \cup {"findDuplicate", "insertBlocker", "readRun", "writeRun"}))
  \cup ({"complete"} \X (Updating \cup {"readRun", "writeRun", "readTask"}))
  \cup ({"fail"} \X (Updating \cup {"readRun", "writeRun", "readTask"}))

Placed(w) ==
  /\ \A p \in Procs \ {w} : Bystander(pc[p], my[p])
  /\ pc[w] # "idle" => <<my[w].op, pc[w]>> \in Places

Starting(w) == pc[w] # "idle" /\ my[w].op = "start"
Holding(w) == pc[w] # "idle" /\ my[w].op # "start"

\* A start that has found no active run finds none until it inserts its own.
NoneActive(w) ==
  Starting(w) => /\ my[w].run = 0
                 /\ pc[w] # "checkActive" => ActiveRuns(my[w].task) = {}

\* The run the starter works on is the only one of its task that can be active.
OnlyOwnActive(w) ==
  Holding(w) => /\ my[w].run \in RunIds
                /\ runs[my[w].run].task = my[w].task
                /\ ActiveRuns(my[w].task) \subseteq {my[w].run}

\* Having recorded the end of its run, the starter leaves it ended: only then
\* does it turn to the task.
Recorded(w) ==
  (Holding(w) /\ my[w].op \in {"block", "fail"} /\ pc[w] \in Updating \cup {"readTask"}) =>
    runs[my[w].run].status # "RUNNING"

\* A RUNNING run is the starter's.
OwnedByStarter(w) ==
  \A r \in RunIds : runs[r].status = "RUNNING" => pc[w] # "idle" /\ my[w].run = r

\* A task has one active run: with one starter the look of start_task_run is enough.
AtMostOneActiveRun == \A t \in Tasks : \A r, s \in ActiveRuns(t) : r = s

RunInv(w) == /\ NoneActive(w) /\ OnlyOwnActive(w) /\ Recorded(w) /\ OwnedByStarter(w)
             /\ AtMostOneActiveRun

CalmInv(w) == Inv /\ Placed(w) /\ RunInv(w)

-----------------------------------------------------------------------------
(* What bystanders do.                                                        *)

\* A bystander's step changes runs only by failing some of them.
Shrinks ==
  \A r \in RunIds : \/ runs'[r] = runs[r]
                    \/ runs'[r].task = runs[r].task /\ runs'[r].status = "FAILED"

LEMMA RunsType ==
  ASSUME Inv
  PROVE  /\ DOMAIN runs = RunIds
         /\ \A r \in RunIds : runs[r] \in [task : Tasks \cup {NoTask}, status : RunStatuses]
BY DEF Inv, TypeOK

LEMMA SetRunRow ==
  ASSUME Inv, NEW r \in RunIds, NEW s \in RunStatuses, SetRun(r, s)
  PROVE  \A q \in RunIds : /\ runs'[q].task = runs[q].task
                           /\ runs'[q].status = IF q = r THEN s ELSE runs[q].status
                           /\ q # r => runs'[q] = runs[q]
BY RunsType DEF SetRun

LEMMA MoveOne ==
  ASSUME Inv, NEW p \in Procs, NEW l, NEW f, Goto(p, l, f)
  PROVE  /\ pc'[p] = l /\ my'[p] = f
         /\ \A q \in Procs \ {p} : pc'[q] = pc[q] /\ my'[q] = my[q]
BY DEF Goto, Inv, TypeOK

LEMMA Variations ==
  ASSUME NEW f \in Frames
  PROVE  /\ \A s : LET g == [f EXCEPT !.want = s] IN
                     g.op = f.op /\ g.run = f.run /\ g.task = f.task /\ g.want = s
         /\ \A s : LET g == [f EXCEPT !.seen = s] IN
                     g.op = f.op /\ g.run = f.run /\ g.task = f.task
         /\ \A o : LET g == [f EXCEPT !.op = o] IN
                     g.op = o /\ g.run = f.run /\ g.task = f.task
         /\ \A o, r : LET g == [f EXCEPT !.op = o, !.run = r] IN
                     g.op = o /\ g.run = r /\ g.task = f.task
         /\ \A o, b : LET g == [f EXCEPT !.op = o, !.blocker = b] IN
                     g.op = o /\ g.run = f.run /\ g.task = f.task
BY DEF Frames

LEMMA NewFrame ==
  ASSUME NEW name \in Errands, NEW t \in Tasks
  PROVE  /\ Frame(name, t).op = name /\ Frame(name, t).run = 0 /\ Frame(name, t).task = t
         /\ Frame(name, t) \in Frames
BY FrameType DEF Frame, NoFrame

LEMMA BystanderStep ==
  ASSUME NEW w \in Procs, OneStarter(w), Inv, Placed(w),
         NEW p \in Procs \ {w}, Step(p) \/ Request(p)
  PROVE  Bystander(pc'[p], my'[p]) /\ Shrinks
<1>1. Bystander(pc[p], my[p]) /\ Ops[p] \subseteq BystanderOps BY DEF Placed, OneStarter
<1>2. my[p] \in Frames BY DEF Inv, TypeOK
<1>3. BystanderOps \subseteq Errands BY DEF BystanderOps, Errands, OpNames
<1>4. (Return(p) \/ (pc[p] # "idle" /\ \E s : Update(p, my[p], s))) => Bystander(pc'[p], my'[p])
  <2>1. ASSUME NEW s, pc[p] # "idle", Update(p, my[p], s) PROVE Bystander(pc'[p], my'[p])
    <3>1. pc'[p] = "update" /\ my'[p] = [my[p] EXCEPT !.want = s] BY <2>1, MoveOne DEF Update
    <3>2. my'[p].op = my[p].op BY <3>1, <1>2, Variations
    <3> QED BY <3>1, <3>2, <2>1, <1>1 DEF Bystander
  <2>2. ASSUME Return(p) PROVE Bystander(pc'[p], my'[p])
    BY <2>2, MoveOne DEF Return, Bystander
  <2> QED BY <2>1, <2>2
<1>5. runs' = runs => Shrinks BY DEF Shrinks
<1>6. ASSUME pc[p] # "idle" PROVE AfterUpdate(p) => Return(p)
  BY <1>1, <1>6 DEF AfterUpdate, Bystander, BystanderOps
<1>7. ASSUME pc[p] # "idle" PROVE AfterRejection(p) => Return(p)
  BY <1>1, <1>7 DEF AfterRejection, Bystander, BystanderOps
<1>8. \A l \in {"swap", "close", "peekActive", "readActive", "readTask"} :
        (pc[p] # "idle" /\ Goto(p, l, my[p])) => Bystander(pc'[p], my'[p])
  BY <1>1, MoveOne DEF Bystander
<1>9. CASE ReadForUpdate(p)
  <2>1. pc[p] # "idle" /\ runs' = runs BY <1>9 DEF ReadForUpdate, tables
  <2>2. CASE Goto(p, "swap", [my[p] EXCEPT !.seen = status[my[p].task]])
    <3> DEFINE f == [my[p] EXCEPT !.seen = status[my[p].task]]
    <3>0. f.op = my[p].op BY <1>2, Variations
    <3>1. pc'[p] = "swap" /\ my'[p] = f BY <2>2, MoveOne
    <3> HIDE DEF f
    <3> QED BY <3>0, <3>1, <2>1, <1>1, <1>5 DEF Bystander
  <2> QED BY <1>9, <2>1, <2>2, <1>4, <1>5, <1>7 DEF ReadForUpdate
<1>10. CASE CompareAndSet(p) \/ DispatchClose(p)
  <2>1. pc[p] # "idle" /\ runs' = runs BY <1>10 DEF CompareAndSet, DispatchClose
  <2>2. AfterRejection(p) \/ AfterUpdate(p) \/ Goto(p, "close", my[p])
    BY <1>10 DEF CompareAndSet, DispatchClose
  <2> QED BY <2>1, <2>2, <1>4, <1>5, <1>6, <1>7, <1>8
<1>11. CASE WriteRun(p)
  <2>1. my[p].op = "stop" /\ my[p].run \in RunIds \cup {0}
    BY <1>11, <1>1, <1>2 DEF WriteRun, Bystander, Frames
  <2>2. SetRun(my[p].run, "FAILED") /\ Goto(p, "readTask", my[p]) BY <1>11, <2>1 DEF WriteRun
  <2>3. Shrinks
    <3>1. CASE my[p].run \in RunIds
      BY <2>2, <3>1, SetRunRow DEF RunStatuses, Shrinks
    <3>2. CASE my[p].run = 0
      BY <2>2, <3>2, RunsType DEF SetRun, RunIds, Shrinks
    <3> QED BY <2>1, <3>1, <3>2
  <2> QED BY <2>2, <2>3, <1>8, <1>11 DEF WriteRun
<1>12. CASE ReadTask(p)
  <2>1. pc[p] # "idle" /\ runs' = runs BY <1>12 DEF ReadTask, tables
  <2>2. Update(p, my[p], "READY") \/ Return(p)
    BY <1>12, <1>1 DEF ReadTask, Bystander, BystanderOps
  <2> QED BY <2>1, <2>2, <1>4, <1>5
<1>13. CASE WriteAnswer(p) \/ PeekActive(p) \/ WriteResolved(p)
  <2>1. pc[p] # "idle" /\ runs' = runs
    BY <1>13 DEF WriteAnswer, PeekActive, WriteResolved, tables
  <2>2. Return(p) \/ Goto(p, "peekActive", my[p]) \/ Goto(p, "readActive", my[p])
    BY <1>13 DEF WriteAnswer, PeekActive, WriteResolved
  <2> QED BY <2>1, <2>2, <1>4, <1>5, <1>8
<1>14. CASE ReadActive(p)
  <2>1. pc[p] # "idle" /\ runs' = runs BY <1>14 DEF ReadActive, tables
  <2>2. ASSUME NEW r \in NewestActive(my[p].task),
               Goto(p, "writeRun", [my[p] EXCEPT !.op = "stop", !.run = r])
        PROVE  Bystander(pc'[p], my'[p])
    <3> DEFINE f == [my[p] EXCEPT !.op = "stop", !.run = r]
    <3>0. f.op = "stop" BY <1>2, Variations
    <3>1. pc'[p] = "writeRun" /\ my'[p] = f BY <2>2, MoveOne
    <3> HIDE DEF f
    <3> QED BY <3>0, <3>1 DEF Bystander, BystanderOps
  <2> QED BY <1>14, <2>1, <2>2, <1>5, <1>8 DEF ReadActive
<1>15. ASSUME NEW t \in Tasks, StopRun(p, t) PROVE Bystander(pc'[p], my'[p]) /\ Shrinks
  <2>1. PICK r : Goto(p, "writeRun", [Frame("stop", t) EXCEPT !.run = r]) BY <1>15 DEF StopRun
  <2>2. Frame("stop", t).op = "stop" /\ Frame("stop", t) \in Frames
    BY NewFrame DEF Errands, OpNames
  <2>3. [Frame("stop", t) EXCEPT !.run = r].op = "stop" BY <2>2 DEF Frames
  <2> DEFINE f == [Frame("stop", t) EXCEPT !.run = r]
  <2>4. pc'[p] = "writeRun" /\ my'[p] = f /\ f.op = "stop" BY <2>1, <2>3, MoveOne
  <2> HIDE DEF f
  <2> QED BY <2>4, <1>5, <1>15 DEF StopRun, tables, Bystander, BystanderOps
<1>16. ASSUME NEW t \in Tasks, ResetBlockedRun(p, t)
       PROVE  Bystander(pc'[p], my'[p]) /\ Shrinks
  <2>1. Goto(p, "readTask", Frame("reset", t)) /\ FailBlockedRuns(t)
    BY <1>16 DEF ResetBlockedRun
  <2>2. Frame("reset", t).op = "reset" BY NewFrame DEF Errands, OpNames
  <2>3. Shrinks BY <2>1, RunsType DEF FailBlockedRuns, Shrinks
  <2> QED BY <2>1, <2>2, <2>3, MoveOne DEF Bystander, BystanderOps
<1>17. ASSUME NEW t \in Tasks, NEW s \in Statuses, SetStatus(p, t, s)
       PROVE  Bystander(pc'[p], my'[p]) /\ Shrinks
  <2>1. Goto(p, "update", [Frame("set", t) EXCEPT !.want = s]) BY <1>17 DEF SetStatus, Update
  <2>2. Frame("set", t).op = "set" /\ Frame("set", t) \in Frames
    BY NewFrame DEF Errands, OpNames
  <2>3. [Frame("set", t) EXCEPT !.want = s].op = "set" BY <2>2, Variations
  <2> DEFINE f == [Frame("set", t) EXCEPT !.want = s]
  <2>4. pc'[p] = "update" /\ my'[p] = f /\ f.op = "set" BY <2>1, <2>3, MoveOne
  <2>5. runs' = runs BY <1>17 DEF SetStatus, tables
  <2> HIDE DEF f
  <2> QED BY <2>4, <2>5, <1>5 DEF Bystander, BystanderOps
<1>18. ASSUME NEW b \in BlockerIds, AnswerBlocker(p, b) \/ ResolveBlocker(p, b)
       PROVE  Bystander(pc'[p], my'[p]) /\ Shrinks
  <2>1. PICK name \in {"answer", "resolve"}, l \in {"writeAnswer", "writeResolved"} :
          Goto(p, l, [Frame(name, blockers[b].task) EXCEPT !.blocker = b])
    BY <1>18 DEF AnswerBlocker, ResolveBlocker
  <2>2. [Frame(name, blockers[b].task) EXCEPT !.blocker = b].op = name BY DEF Frame, NoFrame
  <2> DEFINE f == [Frame(name, blockers[b].task) EXCEPT !.blocker = b]
  <2>3. pc'[p] = l /\ my'[p] = f /\ f.op = name BY <2>1, <2>2, MoveOne
  <2>4. runs' = runs BY <1>18 DEF AnswerBlocker, ResolveBlocker, tables
  <2> HIDE DEF f
  <2> QED BY <2>3, <2>4, <1>5 DEF Bystander, BystanderOps
<1>19. ~( \/ CheckActive(p) \/ InsertRun(p) \/ AgentEnds(p) \/ FindOpenDuplicate(p)
          \/ InsertBlocker(p) \/ ReadRun(p) \/ ResetForRetry(p) \/ LeaveRunning(p) \/ Crash(p)
          \/ \E t \in Tasks : StartTaskRun(p, t) \/ ResumeRun(p, t) \/ RetryTask(p, t) )
  BY <1>1 DEF CheckActive, InsertRun, AgentEnds, FindOpenDuplicate, InsertBlocker, ReadRun,
     ResetForRetry, LeaveRunning, Crash, StartTaskRun, ResumeRun, RetryTask, Asked, Bystander,
     BystanderOps
<1> QED BY <1>9, <1>10, <1>11, <1>12, <1>13, <1>14, <1>15, <1>16, <1>17, <1>18, <1>19
      DEF Step, Request

\* Runs that are only failed, and a starter that stays where it is, keep RunInv.
LEMMA ShrinkKeeps ==
  ASSUME NEW w \in Procs, Inv, RunInv(w), Shrinks, pc'[w] = pc[w], my'[w] = my[w]
  PROVE  RunInv(w)'
<1>1. \A t : ActiveRuns(t)' \subseteq ActiveRuns(t) BY DEF ActiveRuns, Shrinks
<1>2. \A r \in RunIds : /\ runs'[r].task = runs[r].task
                        /\ runs'[r].status = "RUNNING" => runs[r].status = "RUNNING"
  BY DEF Shrinks
<1>3. NoneActive(w)' BY <1>1 DEF RunInv, NoneActive, Starting
<1>4. OnlyOwnActive(w)' BY <1>1, <1>2 DEF RunInv, OnlyOwnActive, Holding
<1>5. Recorded(w)' BY <1>2 DEF RunInv, OnlyOwnActive, Recorded, Holding
<1>6. OwnedByStarter(w)' BY <1>2 DEF RunInv, OwnedByStarter
<1>7. AtMostOneActiveRun' BY <1>1 DEF RunInv, AtMostOneActiveRun
<1> QED BY <1>3, <1>4, <1>5, <1>6, <1>7 DEF RunInv

-----------------------------------------------------------------------------
(* What the starter does.                                                     *)

\* The starter keeps its run and its task, and goes where what it has recorded
\* allows.
LEMMA KeepRun ==
  ASSUME NEW w \in Procs, CalmInv(w), Holding(w), runs' = runs, NEW l, NEW f, Goto(w, l, f),
         <<f.op, l>> \in Places, l # "idle", f.op # "start",
         f.run = my[w].run, f.task = my[w].task,
         (f.op \in {"block", "fail"} /\ l \in Updating \cup {"readTask"}) =>
           runs[my[w].run].status # "RUNNING"
  PROVE  Placed(w)' /\ RunInv(w)'
<1>1. pc'[w] = l /\ my'[w] = f /\ \A q \in Procs \ {w} : pc'[q] = pc[q] /\ my'[q] = my[q]
  BY MoveOne DEF CalmInv
<1>2. \A t : ActiveRuns(t)' = ActiveRuns(t) BY DEF ActiveRuns
<1>3. Placed(w)' BY <1>1 DEF CalmInv, Placed
<1>4. NoneActive(w)' BY <1>1 DEF NoneActive, Starting
<1>5. OnlyOwnActive(w)' BY <1>1, <1>2 DEF CalmInv, RunInv, OnlyOwnActive, Holding
<1>6. Recorded(w)' BY <1>1 DEF Recorded, Holding
<1>7. OwnedByStarter(w)' BY <1>1 DEF CalmInv, RunInv, OwnedByStarter
<1>8. AtMostOneActiveRun' BY <1>2 DEF CalmInv, RunInv, AtMostOneActiveRun
<1> QED BY <1>3, <1>4, <1>5, <1>6, <1>7, <1>8 DEF RunInv

\* A starter that has no run yet goes on starting.
LEMMA KeepStarting ==
  ASSUME NEW w \in Procs, CalmInv(w), Starting(w), runs' = runs, NEW l, NEW f, Goto(w, l, f),
         <<f.op, l>> \in Places, l # "idle", f.op = "start", f.run = 0,
         l # "checkActive" => ActiveRuns(f.task) = {}
  PROVE  Placed(w)' /\ RunInv(w)'
<1>1. pc'[w] = l /\ my'[w] = f /\ \A q \in Procs \ {w} : pc'[q] = pc[q] /\ my'[q] = my[q]
  BY MoveOne DEF CalmInv
<1>2. \A t : ActiveRuns(t)' = ActiveRuns(t) BY DEF ActiveRuns
<1>3. Placed(w)' BY <1>1 DEF CalmInv, Placed
<1>4. NoneActive(w)' BY <1>1, <1>2 DEF NoneActive, Starting
<1>5. OnlyOwnActive(w)' /\ Recorded(w)' BY <1>1 DEF OnlyOwnActive, Recorded, Holding
<1>6. my[w].run = 0 BY DEF CalmInv, RunInv, NoneActive
<1>7. OwnedByStarter(w)' BY <1>6, <1>1 DEF CalmInv, RunInv, OwnedByStarter
<1>8. AtMostOneActiveRun' BY <1>2 DEF CalmInv, RunInv, AtMostOneActiveRun
<1> QED BY <1>3, <1>4, <1>5, <1>7, <1>8 DEF RunInv

\* It ends its errand only when its run is not RUNNING any more.
LEMMA ReturnEnded ==
  ASSUME NEW w \in Procs, CalmInv(w), Return(w), runs' = runs,
         \A r \in RunIds : runs[r].status # "RUNNING"
  PROVE  Placed(w)' /\ RunInv(w)'
<1>1. pc'[w] = "idle" /\ \A q \in Procs \ {w} : pc'[q] = pc[q] /\ my'[q] = my[q]
  BY MoveOne DEF CalmInv, Return
<1>2. \A t : ActiveRuns(t)' = ActiveRuns(t) BY DEF ActiveRuns
<1>3. Placed(w)' BY <1>1 DEF CalmInv, Placed
<1>4. NoneActive(w)' /\ OnlyOwnActive(w)' /\ Recorded(w)'
  BY <1>1 DEF NoneActive, OnlyOwnActive, Recorded, Starting, Holding
<1>5. OwnedByStarter(w)' BY DEF OwnedByStarter
<1>6. AtMostOneActiveRun' BY <1>2 DEF CalmInv, RunInv, AtMostOneActiveRun
<1> QED BY <1>3, <1>4, <1>5, <1>6 DEF RunInv

\* What the starter's own run says about all of them.
LEMMA NoneRunning ==
  ASSUME NEW w \in Procs, CalmInv(w),
         \/ Starting(w)
         \/ Holding(w) /\ runs[my[w].run].status # "RUNNING"
         \/ pc[w] = "idle"
  PROVE  \A r \in RunIds : runs[r].status # "RUNNING"
<1>1. Starting(w) => my[w].run = 0 BY DEF CalmInv, RunInv, NoneActive
<1> QED BY <1>1 DEF CalmInv, RunInv, OwnedByStarter, RunIds

\* execute_agent's handler, entered while the starter holds its run.
LEMMA FailKeeps ==
  ASSUME NEW w \in Procs, CalmInv(w), Holding(w), FailRun(w), runs' = runs
  PROVE  Placed(w)' /\ RunInv(w)'
<1> DEFINE f == [my[w] EXCEPT !.op = "fail"]
<1>1. my[w] \in Frames BY DEF CalmInv, Inv, TypeOK
<1>2. f.op = "fail" /\ f.run = my[w].run /\ f.task = my[w].task BY <1>1, Variations
<1>3. Goto(w, "readRun", f) BY DEF FailRun
<1>4. <<"fail", "readRun">> \in Places /\ "readRun" \notin Updating \cup {"readTask"}
  BY DEF Places, Updating
<1> QED BY <1>2, <1>3, <1>4, KeepRun

\* update_status is entered with the starter's errand unchanged.
LEMMA UpdateKeeps ==
  ASSUME NEW w \in Procs, CalmInv(w), Holding(w), runs' = runs, NEW s, Update(w, my[w], s),
         my[w].op \in {"block", "complete", "fail"},
         my[w].op \in {"block", "fail"} => runs[my[w].run].status # "RUNNING"
  PROVE  Placed(w)' /\ RunInv(w)'
<1> DEFINE f == [my[w] EXCEPT !.want = s]
<1>1. my[w] \in Frames BY DEF CalmInv, Inv, TypeOK
<1>2. f.op = my[w].op /\ f.run = my[w].run /\ f.task = my[w].task BY <1>1, Variations
<1>3. Goto(w, "update", f) BY DEF Update
<1>4. <<f.op, "update">> \in Places BY <1>2 DEF Places, Updating
<1> QED BY <1>2, <1>3, <1>4, KeepRun

LEMMA StartTaskRunStep ==
  ASSUME NEW w \in Procs, CalmInv(w), NEW t \in Tasks, StartTaskRun(w, t)
  PROVE  Placed(w)' /\ RunInv(w)'
<1> DEFINE f == [Frame("start", t) EXCEPT !.seen = status[t]]
<1>1. Goto(w, "checkActive", f) /\ runs' = runs /\ pc[w] = "idle"
  BY DEF StartTaskRun, tables, Asked
<1>2. /\ Frame("start", t) \in Frames /\ Frame("start", t).op = "start"
      /\ Frame("start", t).run = 0
  BY NewFrame DEF Errands, OpNames
<1>3. f.op = "start" /\ f.run = 0 BY <1>2, Variations
<1>4. /\ pc'[w] = "checkActive" /\ my'[w] = f
      /\ \A q \in Procs \ {w} : pc'[q] = pc[q] /\ my'[q] = my[q]
  BY <1>1, MoveOne DEF CalmInv
<1>5. \A u : ActiveRuns(u)' = ActiveRuns(u) BY <1>1 DEF ActiveRuns
<1>6. \A r \in RunIds : runs[r].status # "RUNNING" BY <1>1, NoneRunning
<1>7. Placed(w)' BY <1>3, <1>4 DEF CalmInv, Placed, Places
<1>8. NoneActive(w)' BY <1>3, <1>4 DEF NoneActive, Starting
<1>9. OnlyOwnActive(w)' /\ Recorded(w)' BY <1>3, <1>4 DEF OnlyOwnActive, Recorded, Holding
<1>10. OwnedByStarter(w)' BY <1>1, <1>6 DEF OwnedByStarter
<1>11. AtMostOneActiveRun' BY <1>5 DEF CalmInv, RunInv, AtMostOneActiveRun
<1> QED BY <1>7, <1>8, <1>9, <1>10, <1>11 DEF RunInv

LEMMA CheckActiveStep ==
  ASSUME NEW w \in Procs, CalmInv(w), CheckActive(w)
  PROVE  Placed(w)' /\ RunInv(w)'
<1>1. pc[w] = "checkActive" /\ runs' = runs BY DEF CheckActive, tables
<1>2. my[w].op = "start" BY <1>1 DEF CalmInv, Placed, Places, Updating
<1>3. Starting(w) /\ my[w].run = 0 BY <1>1, <1>2 DEF CalmInv, RunInv, NoneActive, Starting
<1>4. CASE ActiveRuns(my[w].task) # {}
  <2>1. Return(w) BY <1>4 DEF CheckActive
  <2> QED BY <2>1, <1>1, <1>3, NoneRunning, ReturnEnded
<1>5. CASE ActiveRuns(my[w].task) = {}
  <2>1. my[w] \in Frames BY DEF CalmInv, Inv, TypeOK
  <2>2. ASSUME NEW s, Update(w, my[w], s) PROVE Placed(w)' /\ RunInv(w)'
    <3> DEFINE f == [my[w] EXCEPT !.want = s]
    <3>1. f.op = "start" /\ f.run = 0 /\ f.task = my[w].task BY <1>2, <1>3, <2>1, Variations
    <3>2. Goto(w, "update", f) BY <2>2 DEF Update
    <3>3. <<"start", "update">> \in Places BY DEF Places, Updating
    <3> HIDE DEF f
    <3> QED BY <1>1, <1>3, <1>5, <3>1, <3>2, <3>3, KeepStarting
  <2>3. ASSUME Goto(w, "insertRun", my[w]) PROVE Placed(w)' /\ RunInv(w)'
    <3>1. <<"start", "insertRun">> \in Places BY DEF Places
    <3> QED BY <1>1, <1>2, <1>3, <1>5, <2>3, <3>1, KeepStarting
  <2>4. \/ Goto(w, "insertRun", my[w])
        \/ Update(w, my[w], "READY") \/ Update(w, my[w], "IN_PROGRESS")
    <3>1. CASE my[w].seen = "BACKLOG" BY <3>1, <1>5 DEF CheckActive
    <3>2. CASE my[w].seen = "IN_PROGRESS" BY <3>2, <1>5 DEF CheckActive
    <3>3. CASE my[w].seen \notin {"BACKLOG", "IN_PROGRESS"} BY <3>3, <1>5 DEF CheckActive
    <3> QED BY <3>1, <3>2, <3>3
  <2> QED BY <2>2, <2>3, <2>4
<1> QED BY <1>4, <1>5

LEMMA InsertRunStep ==
  ASSUME NEW w \in Procs, CalmInv(w), InsertRun(w)
  PROVE  Placed(w)' /\ RunInv(w)'
<1>1. PICK r \in NextRun :
        /\ runs' = [runs EXCEPT ![r] = [task |-> my[w].task, status |-> "RUNNING"]]
        /\ Goto(w, "agent", [my[w] EXCEPT !.op = "none", !.run = r])
  BY DEF InsertRun
<1> DEFINE f == [my[w] EXCEPT !.op = "none", !.run = r]
           t == my[w].task
<1>2. pc[w] = "insertRun" BY DEF InsertRun
<1>3. my[w].op = "start" BY <1>2 DEF CalmInv, Placed, Places, Updating
<1>4. Starting(w) /\ ActiveRuns(t) = {}
  BY <1>2, <1>3 DEF CalmInv, RunInv, NoneActive, Starting
<1>5. my[w] \in Frames BY DEF CalmInv, Inv, TypeOK
<1>6. f.op = "none" /\ f.run = r /\ f.task = t BY <1>5, Variations
<1>7. r \in RunIds /\ runs[r].status = "NONE" BY DEF NextRun
<1>8. /\ runs'[r].task = t /\ runs'[r].status = "RUNNING"
      /\ \A q \in RunIds \ {r} : runs'[q] = runs[q]
  BY <1>1, <1>7, RunsType DEF CalmInv
<1>9. /\ pc'[w] = "agent" /\ my'[w] = f
      /\ \A q \in Procs \ {w} : pc'[q] = pc[q] /\ my'[q] = my[q]
  BY <1>1, MoveOne DEF CalmInv
<1>10. \A q \in RunIds \ {r} : ~(runs'[q].task = t /\ runs'[q].status \in {"RUNNING", "BLOCKED"})
  BY <1>4, <1>8 DEF ActiveRuns
<1>11. AtMostOneActiveRun'
  <2> SUFFICES ASSUME NEW u \in Tasks, NEW x \in ActiveRuns(u)', NEW y \in ActiveRuns(u)'
               PROVE  x = y
    BY DEF AtMostOneActiveRun
  <2>1. CASE u = t BY <1>10, <2>1 DEF ActiveRuns
  <2>2. CASE u # t
    <3>1. x \in ActiveRuns(u) /\ y \in ActiveRuns(u) BY <1>8, <2>2 DEF ActiveRuns
    <3> QED BY <3>1 DEF CalmInv, RunInv, AtMostOneActiveRun
  <2> QED BY <2>1, <2>2
<1>12. Placed(w)' BY <1>6, <1>9 DEF CalmInv, Placed, Places
<1>13. NoneActive(w)' /\ Recorded(w)' BY <1>6, <1>9 DEF NoneActive, Recorded, Starting
<1>14. OnlyOwnActive(w)'
  <2>1. \A q \in RunIds : (runs'[q].task = my'[w].task /\ runs'[q].status \in {"RUNNING", "BLOCKED"})
          => q = my'[w].run
    BY <1>6, <1>9, <1>10
  <2>2. ActiveRuns(my[w].task)' \subseteq {my'[w].run} BY <2>1 DEF ActiveRuns
  <2> QED BY <2>2, <1>6, <1>7, <1>8, <1>9 DEF OnlyOwnActive
<1>15. OwnedByStarter(w)'
  <2>1. \A q \in RunIds : runs[q].status # "RUNNING" BY <1>4, NoneRunning
  <2> QED BY <2>1, <1>6, <1>8, <1>9 DEF OwnedByStarter
<1> QED BY <1>11, <1>12, <1>13, <1>14, <1>15 DEF RunInv

LEMMA AgentStep ==
  ASSUME NEW w \in Procs, CalmInv(w),
         AgentEnds(w) \/ FindOpenDuplicate(w) \/ InsertBlocker(w)
  PROVE  Placed(w)' /\ RunInv(w)'
<1>1. runs' = runs /\ pc[w] \in {"agent", "findDuplicate", "insertBlocker"}
  BY DEF AgentEnds, FindOpenDuplicate, InsertBlocker, tables
<1>2. my[w].op \in {"none", "ask", "block"} /\ (pc[w] = "agent" => my[w].op = "none")
      /\ (pc[w] # "agent" => my[w].op \in {"ask", "block"})
  BY <1>1 DEF CalmInv, Placed, Places, Updating
<1>3. Holding(w) BY <1>1, <1>2 DEF Holding
<1>4. my[w] \in Frames BY DEF CalmInv, Inv, TypeOK
<1>5. \A o : LET f == [my[w] EXCEPT !.op = o] IN
               f.op = o /\ f.run = my[w].run /\ f.task = my[w].task
  BY <1>4, Variations
<1>6. /\ {<<"ask", "findDuplicate">>, <<"block", "findDuplicate">>, <<"complete", "readRun">>,
         <<"block", "readRun">>, <<"ask", "insertBlocker">>, <<"block", "insertBlocker">>}
           \subseteq Places
      /\ {"findDuplicate", "readRun", "insertBlocker"} \cap (Updating \cup {"readTask"}) = {}
  BY DEF Places, Updating
<1>7. CASE AgentEnds(w)
  <2>1. CASE Goto(w, "readRun", [my[w] EXCEPT !.op = "complete"])
    BY <2>1, <1>1, <1>3, <1>5, <1>6, KeepRun
  <2>2. CASE FailRun(w) BY <2>2, <1>1, <1>3, FailKeeps
  <2>3. ASSUME NEW o \in {"ask", "block"}, Goto(w, "findDuplicate", [my[w] EXCEPT !.op = o])
        PROVE  Placed(w)' /\ RunInv(w)'
    BY <2>3, <1>1, <1>3, <1>5, <1>6, KeepRun
  <2>4. CASE Goto(w, "readRun", [my[w] EXCEPT !.op = "block"])
    BY <2>4, <1>1, <1>3, <1>5, <1>6, KeepRun
  <2> QED BY <1>7, <2>1, <2>2, <2>3, <2>4 DEF AgentEnds
<1>8. ASSUME NEW b, AfterCreate(w, b) PROVE Placed(w)' /\ RunInv(w)'
  <2>1. ASSUME NEW l \in {"findDuplicate", "readRun"}, NEW c,
               Goto(w, l, [my[w] EXCEPT !.op = "block", !.blocker = c])
        PROVE  Placed(w)' /\ RunInv(w)'
    <3> DEFINE f == [my[w] EXCEPT !.op = "block", !.blocker = c]
    <3>1. f.op = "block" /\ f.run = my[w].run /\ f.task = my[w].task BY <1>4, Variations
    <3>2. Goto(w, l, f) BY <2>1
    <3> HIDE DEF f
    <3> QED BY <1>1, <1>3, <1>6, <3>1, <3>2, KeepRun
  <2> QED BY <1>8, <2>1 DEF AfterCreate
<1>9. CASE FindOpenDuplicate(w)
  <2>1. pc[w] = "findDuplicate" /\ ((\E b : AfterCreate(w, b)) \/ Goto(w, "insertBlocker", my[w]))
    BY <1>9 DEF FindOpenDuplicate
  <2>2. ASSUME Goto(w, "insertBlocker", my[w]) PROVE Placed(w)' /\ RunInv(w)'
    <3>1. <<my[w].op, "insertBlocker">> \in Places /\ my[w].op # "start" BY <2>1, <1>2, <1>6
    <3> QED BY <2>2, <3>1, <1>1, <1>3, <1>6, KeepRun
  <2> QED BY <2>1, <2>2, <1>8
<1>10. CASE InsertBlocker(w) BY <1>8, <1>10 DEF InsertBlocker
<1> QED BY <1>7, <1>9, <1>10

LEMMA ReadStep ==
  ASSUME NEW w \in Procs, CalmInv(w), ReadRun(w) \/ ReadTask(w)
  PROVE  Placed(w)' /\ RunInv(w)'
<1>1. runs' = runs /\ pc[w] \in {"readRun", "readTask"} BY DEF ReadRun, ReadTask, tables
<1>2. /\ my[w].op \in {"block", "complete", "fail"}
      /\ pc[w] = "readTask" => my[w].op \in {"complete", "fail"}
  BY <1>1 DEF CalmInv, Placed, Places, Updating
<1>3. Holding(w) BY <1>1, <1>2 DEF Holding
<1>4. <<my[w].op, "writeRun">> \in Places /\ "writeRun" \notin Updating \cup {"readTask"}
  BY <1>2 DEF Places, Updating
<1>5. Goto(w, "writeRun", my[w]) => Placed(w)' /\ RunInv(w)'
  BY <1>1, <1>2, <1>3, <1>4, KeepRun
<1>6. CASE ReadRun(w)
  <2>1. CASE my[w].op = "complete" /\ runs[my[w].run].status = "RUNNING"
    <3>1. Update(w, my[w], "DONE") BY <1>6, <2>1 DEF ReadRun
    <3> QED BY <3>1, <2>1, <1>1, <1>3, UpdateKeeps
  <2>2. CASE my[w].op = "block" /\ runs[my[w].run].status = "RUNNING"
    BY <1>5, <1>6, <2>2 DEF ReadRun
  <2>3. CASE my[w].op = "fail"
    <3>1. CASE runs[my[w].run].status \in {"RUNNING", "BLOCKED"}
      BY <1>5, <1>6, <2>3, <3>1 DEF ReadRun
    <3>2. CASE runs[my[w].run].status \notin {"RUNNING", "BLOCKED"}
      <4>1. Return(w) BY <1>6, <2>3, <3>2 DEF ReadRun
      <4> QED BY <4>1, <3>2, <1>1, <1>3, NoneRunning, ReturnEnded
    <3> QED BY <3>1, <3>2
  <2>4. CASE my[w].op \in {"complete", "block"} /\ runs[my[w].run].status # "RUNNING"
    <3>1. FailRun(w) BY <1>6, <2>4 DEF ReadRun
    <3> QED BY <3>1, <1>1, <1>3, FailKeeps
  <2> QED BY <1>2, <2>1, <2>2, <2>3, <2>4
<1>7. CASE ReadTask(w)
  <2>0. pc[w] = "readTask" BY <1>7 DEF ReadTask
  <2>1. CASE my[w].op = "complete"
    <3>1. Goto(w, "writeRun", my[w]) \/ FailRun(w) BY <1>7, <2>1 DEF ReadTask
    <3> QED BY <3>1, <1>1, <1>3, <1>5, FailKeeps
  <2>2. CASE my[w].op = "fail"
    <3>1. Update(w, my[w], "FAILED") \/ Return(w) BY <1>7, <2>2 DEF ReadTask
    <3>2. runs[my[w].run].status # "RUNNING"
      BY <2>0, <2>2, <1>3 DEF CalmInv, RunInv, Recorded
    <3> QED BY <3>1, <3>2, <2>2, <1>1, <1>3, UpdateKeeps, NoneRunning, ReturnEnded
  <2> QED BY <2>0, <1>2, <2>1, <2>2
<1> QED BY <1>6, <1>7

LEMMA WriteRunStep ==
  ASSUME NEW w \in Procs, CalmInv(w), WriteRun(w)
  PROVE  Placed(w)' /\ RunInv(w)'
<1> DEFINE r == my[w].run
           t == my[w].task
<1>1. pc[w] = "writeRun" BY DEF WriteRun
<1>2. my[w].op \in {"block", "complete", "fail"}
  BY <1>1 DEF CalmInv, Placed, Places, Updating
<1>3. Holding(w) BY <1>1, <1>2 DEF Holding
<1>4. r \in RunIds /\ runs[r].task = t /\ ActiveRuns(t) \subseteq {r}
  BY <1>3 DEF CalmInv, RunInv, OnlyOwnActive
<1>5. my[w] \in Frames BY DEF CalmInv, Inv, TypeOK
<1>6. PICK s \in {"COMPLETED", "BLOCKED", "FAILED"}, l \in {"idle", "update", "readTask"}, f \in Frames :
        /\ SetRun(r, s) /\ Goto(w, l, f)
        /\ l # "idle" => /\ f.op = my[w].op /\ f.run = r /\ f.task = t
                         /\ <<f.op, l>> \in Places
  <2>1. CASE my[w].op = "complete"
    <3>1. SetRun(r, "COMPLETED") /\ Goto(w, "idle", NoFrame) BY <2>1 DEF WriteRun, Return
    <3> QED BY <3>1, NoFrameType
  <2>2. CASE my[w].op = "block"
    <3> DEFINE g == [my[w] EXCEPT !.want = "BLOCKED"]
    <3>1. SetRun(r, "BLOCKED") /\ Goto(w, "update", g) BY <2>2 DEF WriteRun, Update
    <3>2. g.op = my[w].op /\ g.run = r /\ g.task = t BY <1>5, Variations
    <3>3. <<"block", "update">> \in Places BY DEF Places, Updating
    <3>4. g \in Frames BY <1>5 DEF Frames, Statuses
    <3> QED BY <3>1, <3>2, <3>3, <3>4, <2>2
  <2>3. CASE my[w].op = "fail"
    <3>1. SetRun(r, "FAILED") /\ Goto(w, "readTask", my[w]) BY <2>3 DEF WriteRun
    <3>2. <<"fail", "readTask">> \in Places BY DEF Places
    <3> QED BY <3>1, <3>2, <2>3, <1>5
  <2> QED BY <1>2, <2>1, <2>2, <2>3
<1>7. \A q \in RunIds : /\ runs'[q].task = runs[q].task
                        /\ runs'[q].status = IF q = r THEN s ELSE runs[q].status
  <2>1. s \in RunStatuses BY DEF RunStatuses
  <2> QED BY <2>1, <1>4, <1>6, SetRunRow DEF CalmInv
<1>8. /\ pc'[w] = l /\ my'[w] = f
      /\ \A q \in Procs \ {w} : pc'[q] = pc[q] /\ my'[q] = my[q]
  BY <1>6, MoveOne DEF CalmInv
<1>9. \A q \in RunIds \ {r} : ~(runs'[q].task = t /\ runs'[q].status \in {"RUNNING", "BLOCKED"})
  BY <1>4, <1>7 DEF ActiveRuns
<1>10. AtMostOneActiveRun'
  <2> SUFFICES ASSUME NEW u \in Tasks, NEW x \in ActiveRuns(u)', NEW y \in ActiveRuns(u)'
               PROVE  x = y
    BY DEF AtMostOneActiveRun
  <2>1. CASE u = t BY <1>9, <2>1 DEF ActiveRuns
  <2>2. CASE u # t
    <3>1. x \in ActiveRuns(u) /\ y \in ActiveRuns(u) BY <1>4, <1>7, <2>2 DEF ActiveRuns
    <3> QED BY <3>1 DEF CalmInv, RunInv, AtMostOneActiveRun
  <2> QED BY <2>1, <2>2
<1>11. \A q \in RunIds : runs'[q].status # "RUNNING"
  BY <1>7 DEF CalmInv, RunInv, OwnedByStarter
<1>12. Placed(w)' BY <1>6, <1>8 DEF CalmInv, Placed
<1>13. NoneActive(w)' BY <1>2, <1>6, <1>8 DEF NoneActive, Starting
<1>14. OnlyOwnActive(w)'
  <2> SUFFICES ASSUME l # "idle"
               PROVE  /\ my'[w].run \in RunIds /\ runs'[my'[w].run].task = my'[w].task
                      /\ ActiveRuns(my[w].task)' \subseteq {my'[w].run}
    BY <1>8 DEF OnlyOwnActive, Holding
  <2>1. my'[w].run = r /\ my'[w].task = t BY <1>6, <1>8
  <2>2. \A q \in RunIds : (runs'[q].task = my'[w].task /\ runs'[q].status \in {"RUNNING", "BLOCKED"})
          => q = my'[w].run
    BY <1>9, <2>1
  <2>3. ActiveRuns(my[w].task)' \subseteq {my'[w].run} BY <2>2 DEF ActiveRuns
  <2> QED BY <2>1, <2>3, <1>4, <1>7
<1>15. Recorded(w)' BY <1>14, <1>11 DEF Recorded, OnlyOwnActive
<1>16. OwnedByStarter(w)' BY <1>11 DEF OwnedByStarter
<1> QED BY <1>10, <1>12, <1>13, <1>14, <1>15, <1>16 DEF RunInv

LEMMA UpdateStep ==
  ASSUME NEW w \in Procs, CalmInv(w),
         ReadForUpdate(w) \/ CompareAndSet(w) \/ DispatchClose(w)
  PROVE  Placed(w)' /\ RunInv(w)'
<1>1. runs' = runs /\ pc[w] \in Updating
  BY DEF ReadForUpdate, CompareAndSet, DispatchClose, tables, Updating
<1>2. my[w].op \in {"start", "block", "complete", "fail"}
  BY <1>1 DEF CalmInv, Placed, Places, Updating
<1>3. my[w] \in Frames /\ pc[w] # "idle" BY <1>1 DEF CalmInv, Inv, TypeOK, Updating
<1>4. \A l \in Updating : <<my[w].op, l>> \in Places BY <1>2 DEF Places
<1>5. CASE my[w].op = "start"
  <2>1. Starting(w) /\ my[w].run = 0 /\ ActiveRuns(my[w].task) = {}
    BY <1>1, <1>3, <1>5 DEF CalmInv, RunInv, NoneActive, Starting, Updating
  <2>2. \A l \in Updating \cup {"insertRun"} : <<"start", l>> \in Places BY DEF Places
  <2>3. CASE AfterRejection(w)
    <3>1. Return(w) BY <2>3, <1>5 DEF AfterRejection
    <3> QED BY <3>1, <2>1, <1>1, NoneRunning, ReturnEnded
  <2>4. CASE AfterUpdate(w) /\ my[w].want = "READY"
    <3> DEFINE f == [my[w] EXCEPT !.want = "IN_PROGRESS"]
    <3>1. Goto(w, "update", f) BY <2>4, <1>5 DEF AfterUpdate, Update
    <3>2. f.op = "start" /\ f.run = 0 /\ f.task = my[w].task BY <1>3, <1>5, <2>1, Variations
    <3>3. <<"start", "update">> \in Places BY <2>2 DEF Updating
    <3> HIDE DEF f
    <3> QED BY <3>1, <3>2, <3>3, <2>1, <1>1, KeepStarting
  <2>5. CASE AfterUpdate(w) /\ my[w].want # "READY"
    <3>1. Goto(w, "insertRun", my[w]) BY <2>5, <1>5 DEF AfterUpdate
    <3> QED BY <3>1, <2>1, <2>2, <1>1, <1>5, KeepStarting
  <2>6. CASE Goto(w, "swap", [my[w] EXCEPT !.seen = status[my[w].task]])
    <3> DEFINE f == [my[w] EXCEPT !.seen = status[my[w].task]]
    <3>1. f.op = "start" /\ f.run = 0 /\ f.task = my[w].task BY <1>3, <1>5, <2>1, Variations
    <3>2. <<"start", "swap">> \in Places BY <2>2 DEF Updating
    <3>3. Goto(w, "swap", f) BY <2>6
    <3> HIDE DEF f
    <3> QED BY <3>1, <3>2, <3>3, <2>1, <1>1, KeepStarting
  <2>7. CASE Goto(w, "close", my[w])
    <3>1. <<"start", "close">> \in Places BY <2>2 DEF Updating
    <3> QED BY <2>7, <3>1, <2>1, <1>1, <1>5, KeepStarting
  <2> QED BY <2>3, <2>4, <2>5, <2>6, <2>7 DEF ReadForUpdate, CompareAndSet, DispatchClose
<1>6. CASE my[w].op # "start"
  <2>1. Holding(w) BY <1>3, <1>6 DEF Holding
  <2>2. my[w].op \in {"block", "fail"} => runs[my[w].run].status # "RUNNING"
    BY <1>1, <2>1 DEF CalmInv, RunInv, Recorded
  <2>3. CASE AfterRejection(w)
    <3>1. CASE my[w].op = "complete"
      <4>1. Goto(w, "readTask", my[w]) BY <2>3, <3>1 DEF AfterRejection
      <4>2. <<"complete", "readTask">> \in Places BY DEF Places
      <4> QED BY <4>1, <4>2, <3>1, <2>1, <1>1, KeepRun
    <3>2. CASE my[w].op = "block"
      <4>1. FailRun(w) BY <2>3, <3>2 DEF AfterRejection
      <4> QED BY <4>1, <2>1, <1>1, FailKeeps
    <3>3. CASE my[w].op = "fail"
      <4>1. Return(w) BY <2>3, <3>3 DEF AfterRejection
      <4> QED BY <4>1, <3>3, <2>1, <2>2, <1>1, NoneRunning, ReturnEnded
    <3> QED BY <1>2, <1>6, <3>1, <3>2, <3>3
  <2>4. CASE AfterUpdate(w)
    <3>1. CASE my[w].op = "complete"
      <4>1. Goto(w, "writeRun", my[w]) BY <2>4, <3>1 DEF AfterUpdate
      <4>2. <<"complete", "writeRun">> \in Places BY DEF Places
      <4> QED BY <4>1, <4>2, <3>1, <2>1, <1>1, KeepRun
    <3>2. CASE my[w].op \in {"block", "fail"}
      <4>1. Return(w) BY <2>4, <3>2 DEF AfterUpdate
      <4> QED BY <4>1, <3>2, <2>1, <2>2, <1>1, NoneRunning, ReturnEnded
    <3> QED BY <1>2, <1>6, <3>1, <3>2
  <2>5. CASE Goto(w, "swap", [my[w] EXCEPT !.seen = status[my[w].task]])
    <3> DEFINE f == [my[w] EXCEPT !.seen = status[my[w].task]]
    <3>1. f.op = my[w].op /\ f.run = my[w].run /\ f.task = my[w].task BY <1>3, Variations
    <3>2. <<f.op, "swap">> \in Places BY <1>4, <3>1 DEF Updating
    <3> QED BY <2>5, <3>1, <3>2, <1>1, <1>6, <2>1, <2>2, KeepRun
  <2>6. CASE Goto(w, "close", my[w])
    <3>1. <<my[w].op, "close">> \in Places BY <1>4 DEF Updating
    <3> QED BY <2>6, <3>1, <1>1, <1>6, <2>1, <2>2, KeepRun
  <2>7. AfterRejection(w) \/ AfterUpdate(w) \/ Goto(w, "close", my[w])
        \/ Goto(w, "swap", [my[w] EXCEPT !.seen = status[my[w].task]])
    BY DEF ReadForUpdate, CompareAndSet, DispatchClose
  <2> QED BY <2>3, <2>4, <2>5, <2>6, <2>7
<1> QED BY <1>5, <1>6

LEMMA StarterStep ==
  ASSUME NEW w \in Procs, OneStarter(w), CalmInv(w), Step(w) \/ Request(w)
  PROVE  Placed(w)' /\ RunInv(w)'
<1>1. ~( \/ WriteAnswer(w) \/ PeekActive(w) \/ ReadActive(w) \/ WriteResolved(w)
         \/ ResetForRetry(w) \/ LeaveRunning(w) \/ Crash(w)
         \/ \E t \in Tasks : \/ StopRun(w, t) \/ ResumeRun(w, t) \/ ResetBlockedRun(w, t)
                             \/ RetryTask(w, t) \/ \E s \in Statuses : SetStatus(w, t, s)
         \/ \E b \in BlockerIds : AnswerBlocker(w, b) \/ ResolveBlocker(w, b) )
  <2>1. pc[w] \notin {"writeAnswer", "peekActive", "readActive", "writeResolved", "resetRuns"}
    BY DEF CalmInv, Placed, Places, Updating
  <2> QED BY <2>1 DEF WriteAnswer, PeekActive, ReadActive, WriteResolved, ResetForRetry,
        LeaveRunning, Crash, StopRun, ResumeRun, ResetBlockedRun, RetryTask, SetStatus,
        AnswerBlocker, ResolveBlocker, Asked, OneStarter, StarterOps
<1> QED BY <1>1, UpdateStep, StartTaskRunStep, CheckActiveStep, InsertRunStep, AgentStep,
      ReadStep, WriteRunStep DEF Step, Request

-----------------------------------------------------------------------------
LEMMA CalmStep ==
  ASSUME NEW w \in Procs, OneStarter(w), CalmInv(w), [Next]_vars
  PROVE  CalmInv(w)'
<1>1. ASSUME NEW p \in Procs, Step(p) \/ Request(p) PROVE CalmInv(w)'
  <2>1. Inv' BY <1>1, StepInv DEF CalmInv
  <2>2. CASE p = w BY <1>1, <2>1, <2>2, StarterStep DEF CalmInv
  <2>3. CASE p # w
    <3>1. Bystander(pc'[p], my'[p]) /\ Shrinks BY <1>1, <2>3, BystanderStep DEF CalmInv
    <3>2. PICK l \in Labels, f \in Frames : Goto(p, l, f) BY <1>1, ActionMoves DEF CalmInv, Moves
    <3>3. \A q \in Procs \ {p} : pc'[q] = pc[q] /\ my'[q] = my[q]
      BY <3>2, MoveOne DEF CalmInv
    <3>4. RunInv(w)' BY <2>3, <3>1, <3>3, ShrinkKeeps DEF CalmInv
    <3>5. Placed(w)' BY <2>3, <3>1, <3>3 DEF CalmInv, Placed
    <3> QED BY <2>1, <3>4, <3>5 DEF CalmInv
  <2> QED BY <2>2, <2>3
<1>2. CASE UNCHANGED vars
  <2>1. Inv' BY <1>2 DEF CalmInv, vars, Inv, TypeOK, FrameTask, SwapIsLegal, BlockerTask,
          FrameBlocker, CloseOwed, Closers
  <2>2. \A t : ActiveRuns(t)' = ActiveRuns(t) BY <1>2 DEF vars, ActiveRuns
  <2>3. Placed(w)' BY <1>2 DEF CalmInv, vars, Placed
  <2>4. RunInv(w)'
    BY <1>2, <2>2 DEF CalmInv, vars, RunInv, NoneActive, OnlyOwnActive, Recorded,
       OwnedByStarter, AtMostOneActiveRun, Starting, Holding
  <2> QED BY <2>1, <2>3, <2>4 DEF CalmInv
<1> QED BY <1>1, <1>2 DEF Next

LEMMA CalmInit ==
  ASSUME NEW w \in Procs, Init
  PROVE  CalmInv(w)
<1>1. \A r \in RunIds : runs[r].status = "NONE" BY DEF Init
<1>2. \A p \in Procs : pc[p] = "idle" BY DEF Init
<1>3. \A t : ActiveRuns(t) = {} BY <1>1 DEF ActiveRuns
<1>4. Placed(w) BY <1>2 DEF Placed, Bystander
<1>5. RunInv(w)
  BY <1>1, <1>2, <1>3 DEF RunInv, NoneActive, OnlyOwnActive, Recorded, OwnedByStarter,
     AtMostOneActiveRun, Starting, Holding
<1> QED BY <1>4, <1>5, InitInv DEF CalmInv

LEMMA CalmInvariant ==
  ASSUME NEW w \in Procs, OneStarter(w)
  PROVE  Spec => []CalmInv(w)
<1>1. Init => CalmInv(w) BY CalmInit
<1>2. CalmInv(w) /\ [Next]_vars => CalmInv(w)' BY CalmStep
<1> QED BY <1>1, <1>2, PTL DEF Spec

\* While one process starts the runs, no path of execute_agent lets go of a run
\* that is still RUNNING: its rejections and its handlers included.
THEOREM NoOrphanRunAlways ==
  ASSUME NEW w \in Procs, OneStarter(w)
  PROVE  Spec => []NoOrphanRun
<1>1. CalmInv(w) => NoOrphanRun BY DEF CalmInv, RunInv, OwnedByStarter, NoOrphanRun
<1> QED BY <1>1, CalmInvariant, PTL

-----------------------------------------------------------------------------
(* One worker and one operator who answers: a task and its latest run agree.  *)

\* One worker picks tasks up, one operator answers its questions, and whoever
\* else there is marks answered questions resolved.
Patient(w, h) ==
  /\ h # w /\ Ops[w] \subseteq {"pick"} /\ Ops[h] \subseteq {"answer", "resolve"}
  /\ \A p \in Procs \ {w, h} : Ops[p] \subseteq {"resolve"}

\* The latest run of t and the status of t tell one story.
Agrees(t) ==
  \A r \in LatestRun(t) :
    /\ runs[r].status \in {"COMPLETED", "BLOCKED", "FAILED"}
    /\ runs[r].status = "COMPLETED" => status[t] = "DONE"
    /\ runs[r].status = "BLOCKED" => status[t] = "BLOCKED"
    /\ runs[r].status = "FAILED" => status[t] \notin {"IN_PROGRESS", "DONE"}

\* Rows are inserted in order, and a row that is not there has no task.
RowsInOrder ==
  \A r \in RunIds : runs[r].status = "NONE" =>
    runs[r].task = NoTask /\ \A s \in RunIds : r <= s => runs[s].status = "NONE"

\* Only the latest run of a task can be active.
ActiveIsLatest == \A t \in Tasks : ActiveRuns(t) \subseteq LatestRun(t)

\* What the worker has done with its task and its run, by errand and place: their
\* statuses. A rejection of DONE or FAILED is not among it, and BLOCKED is refused
\* only when the operator was quicker.
WithRun == {"agent", "findDuplicate", "insertBlocker", "readRun", "writeRun"}
Tales ==
  ({"none", "ask", "block"} \X WithRun \X {"IN_PROGRESS"} \X {"RUNNING"})
  \cup ({"block"} \X {"update", "swap"} \X {"IN_PROGRESS"} \X {"BLOCKED", "FAILED"})
  \cup ({"block"} \X {"update", "swap"} \X {"READY"} \X {"FAILED"})
  \cup ({"complete"} \X {"readRun", "update", "swap"} \X {"IN_PROGRESS"} \X {"RUNNING"})
  \cup ({"complete"} \X {"close", "writeRun"} \X {"DONE"} \X {"RUNNING"})
  \cup ({"fail"} \X {"readRun", "writeRun"} \X {"IN_PROGRESS"} \X {"RUNNING"})
  \cup ({"fail"} \X {"readRun"} \X {"READY"} \X {"FAILED"})
  \cup ({"fail"} \X {"readTask", "update", "swap"} \X {"IN_PROGRESS"} \X {"FAILED"})

\* What the worker asks update_status for.
Wanted == [start |-> "IN_PROGRESS", block |-> "BLOCKED", complete |-> "DONE", fail |-> "FAILED"]

\* How far a start has come with its task.
StartTale(l, f) ==
  \/ /\ l = "checkActive" /\ f.seen \in {"READY", "FAILED"}
     /\ status[f.task] \in {"READY", "FAILED"} /\ Agrees(f.task)
  \/ l \in {"update", "swap"} /\ status[f.task] \in {"READY", "FAILED"} /\ Agrees(f.task)
  \/ l = "insertRun" /\ status[f.task] = "IN_PROGRESS"

\* What holds of a worker at l with frame f.
Told(l, f) ==
  /\ l # "idle" /\ f.op = "start" => StartTale(l, f)
  /\ l # "idle" /\ f.op # "start" =>
       LatestRun(f.task) = {f.run} /\ <<f.op, l, status[f.task], runs[f.run].status>> \in Tales
  /\ l \in {"update", "swap"} => f.want = Wanted[f.op]

\* A task the worker is not at is settled.
Away(w, t) == pc[w] = "idle" \/ my[w].task # t
RestSettled(w) == \A t \in Tasks : Away(w, t) => Agrees(t)

\* The worker has marked its run BLOCKED, and not yet its task.
Marking(w, t) ==
  pc[w] \in {"update", "swap"} /\ my[w].op = "block" /\ my[w].task = t

\* Once the operator has found the run of a task BLOCKED, nobody moves the task
\* but him, except a worker that is marking it.
Minding(l) == l \in {"readActive", "writeRun", "readTask", "update", "swap"}
OperatorAt(w, l, f) ==
  /\ \/ l = "idle"
     \/ f.op = "answer" /\ l \in {"writeAnswer", "peekActive", "readActive"}
     \/ f.op = "resolve" /\ l = "writeResolved"
     \/ f.op = "stop" /\ l \in {"writeRun", "readTask", "update", "swap"}
  /\ l \in {"update", "swap"} => f.want = "READY"
  /\ Minding(l) => \/ status[f.task] = "BLOCKED" /\ Away(w, f.task)
                   \/ status[f.task] = "IN_PROGRESS" /\ Marking(w, f.task)
  /\ l = "readActive" => \E r \in LatestRun(f.task) : runs[r].status = "BLOCKED"
  /\ l = "writeRun" => f.run \in LatestRun(f.task) /\ runs[f.run].status = "BLOCKED"
  /\ l \in {"readTask", "update", "swap"} =>
       \E r \in LatestRun(f.task) : runs[r].status = "FAILED"

OthersResolve(w, h) == \A p \in Procs \ {w, h} : pc[p] \in {"idle", "writeResolved"}

Settled(w, h) ==
  /\ RowsInOrder /\ ActiveIsLatest /\ Told(pc[w], my[w]) /\ RestSettled(w)
  /\ OperatorAt(w, pc[h], my[h]) /\ OthersResolve(w, h)
PatientInv(w, h) == CalmInv(w) /\ Settled(w, h)

-----------------------------------------------------------------------------
LEMMA PatientStarter ==
  ASSUME NEW w, NEW h, Patient(w, h) PROVE OneStarter(w)
BY DEF Patient, OneStarter, StarterOps, BystanderOps

LEMMA OneLatest ==
  ASSUME NEW t, NEW x \in LatestRun(t), NEW y \in LatestRun(t)
  PROVE  x = y
<1>1. x \in Int /\ y \in Int /\ x <= y /\ y <= x BY DEF LatestRun, RunIds
<1> QED BY <1>1

LEMMA LatestOf ==
  ASSUME NEW t, NEW r \in LatestRun(t)
  PROVE  r \in RunIds /\ runs[r].task = t
BY DEF LatestRun

LEMMA LatestSame ==
  ASSUME \A r \in RunIds : runs'[r].task = runs[r].task
  PROVE  \A t : LatestRun(t)' = LatestRun(t)
BY DEF LatestRun

\* What keeps the tables keeps what is told of them.
LEMMA TablesSame ==
  ASSUME UNCHANGED <<runs, status>>
  PROVE  /\ RowsInOrder => RowsInOrder'
         /\ ActiveIsLatest => ActiveIsLatest'
         /\ \A t : LatestRun(t)' = LatestRun(t)
         /\ \A t : Agrees(t) => Agrees(t)'
         /\ \A l, f : Told(l, f) => Told(l, f)'
<1>1. \A t : LatestRun(t)' = LatestRun(t) BY LatestSame
<1>2. \A t : ActiveRuns(t)' = ActiveRuns(t) BY DEF ActiveRuns
<1>3. \A t : Agrees(t) => Agrees(t)' BY <1>1 DEF Agrees
<1>4. \A l, f : Told(l, f) => Told(l, f)' BY <1>1, <1>3 DEF Told, StartTale
<1> QED BY <1>1, <1>2, <1>3, <1>4 DEF RowsInOrder, ActiveIsLatest

\* The operator's view survives a step of somebody else that leaves the latest
\* run of his task, and that task, to him or to a worker that is marking it.
LEMMA OperatorStays ==
  ASSUME NEW w, NEW h, OperatorAt(w, pc[h], my[h]), pc'[h] = pc[h], my'[h] = my[h],
         Minding(pc[h]) => \A t : t = my[h].task =>
           /\ LatestRun(t)' = LatestRun(t)
           /\ \A r \in LatestRun(t) : runs'[r].status = runs[r].status
           /\ \/ status'[t] = "BLOCKED" /\ (pc'[w] = "idle" \/ my'[w].task # t)
              \/ /\ status'[t] = "IN_PROGRESS" /\ pc'[w] \in {"update", "swap"}
                 /\ my'[w].op = "block" /\ my'[w].task = t
  PROVE  OperatorAt(w, pc[h], my[h])'
<1>0. PICK t : t = my[h].task OBVIOUS
<1>1. CASE ~Minding(pc[h]) BY <1>1 DEF OperatorAt, Minding
<1>2. CASE Minding(pc[h])
  <2>1. LatestRun(t)' = LatestRun(t) /\ \A r \in LatestRun(t) : runs'[r].status = runs[r].status
    BY <1>0, <1>2
  <2>2. \/ status'[t] = "BLOCKED" /\ Away(w, t)'
        \/ status'[t] = "IN_PROGRESS" /\ Marking(w, t)'
    BY <1>0, <1>2 DEF Away, Marking
  <2> QED BY <1>0, <1>2, <2>1, <2>2 DEF OperatorAt, Minding
<1> QED BY <1>1, <1>2

-----------------------------------------------------------------------------
(* Somebody who resolves.                                                     *)

LEMMA ResolverStep ==
  ASSUME NEW w \in Procs, NEW h \in Procs, Patient(w, h), PatientInv(w, h),
         NEW p \in Procs \ {w, h}, Step(p) \/ Request(p)
  PROVE  Settled(w, h)'
<1>1. pc[p] \in {"idle", "writeResolved"} /\ Ops[p] \subseteq {"resolve"}
  BY SMTT(30) DEF PatientInv, Settled, OthersResolve, Patient
<1>2. WriteResolved(p) \/ \E b \in BlockerIds : ResolveBlocker(p, b)
  BY <1>1 DEF Step, Request, ReadForUpdate, CompareAndSet, DispatchClose, CheckActive,
     AgentEnds, InsertRun, FindOpenDuplicate, InsertBlocker, ReadRun, WriteRun, ReadTask,
     WriteAnswer, PeekActive, ReadActive, ResetForRetry, ResetBlockedRun,
     StartTaskRun, StopRun, ResumeRun, RetryTask, SetStatus, AnswerBlocker,
     LeaveRunning, Crash, Asked
<1>3. UNCHANGED <<runs, status>> BY <1>2 DEF WriteResolved, ResolveBlocker, tables
<1>4. PICK l \in {"idle", "writeResolved"} : \E f : Goto(p, l, f)
  BY <1>2 DEF WriteResolved, ResolveBlocker, Return
<1>5. pc'[p] = l /\ \A q \in Procs \ {p} : pc'[q] = pc[q] /\ my'[q] = my[q]
  BY <1>4, MoveOne DEF PatientInv, CalmInv
<1>6. pc'[w] = pc[w] /\ my'[w] = my[w] /\ pc'[h] = pc[h] /\ my'[h] = my[h] BY <1>5
<1>7. /\ RowsInOrder' /\ ActiveIsLatest' /\ \A t : LatestRun(t)' = LatestRun(t)
      /\ \A t : Agrees(t) => Agrees(t)'
      /\ \A l1, f1 : Told(l1, f1) => Told(l1, f1)'
  BY <1>3, TablesSame DEF PatientInv, Settled
<1>8. Told(pc[w], my[w])'
  <2>1. Told(pc[w], my[w]) BY DEF PatientInv, Settled
  <2> QED BY <1>3, <1>6, <1>7, <2>1 DEF Told, StartTale
<1>9. RestSettled(w)' BY <1>6, <1>7 DEF PatientInv, Settled, RestSettled, Away
<1>10. OperatorAt(w, pc[h], my[h])'
  <2>1. OperatorAt(w, pc[h], my[h]) BY DEF PatientInv, Settled
  <2> QED BY <1>3, <1>6, <1>7, <2>1, OperatorStays DEF OperatorAt, Away, Marking
<1>11. OthersResolve(w, h)' BY <1>5 DEF PatientInv, Settled, OthersResolve
<1> QED BY <1>7, <1>8, <1>9, <1>10, <1>11 DEF Settled

-----------------------------------------------------------------------------
(* The operator.                                                              *)

LEMMA Frozen ==
  ASSUME NEW f \in Frames
  PROVE  /\ \A s : [f EXCEPT !.seen = s].want = f.want /\ [f EXCEPT !.seen = s].seen = s
         /\ \A o, r : [f EXCEPT !.op = o, !.run = r].want = f.want
BY DEF Frames

\* The operator moves on and touches neither runs nor tasks.
LEMMA OperatorMove ==
  ASSUME NEW w \in Procs, NEW h \in Procs, Patient(w, h), PatientInv(w, h),
         UNCHANGED <<runs, status>>, NEW l, NEW f, Goto(h, l, f), OperatorAt(w, l, f)
  PROVE  Settled(w, h)'
<1>1. pc'[h] = l /\ my'[h] = f /\ \A q \in Procs \ {h} : pc'[q] = pc[q] /\ my'[q] = my[q]
  BY MoveOne DEF PatientInv, CalmInv
<1>2. pc'[w] = pc[w] /\ my'[w] = my[w] BY <1>1 DEF Patient
<1>3. /\ RowsInOrder' /\ ActiveIsLatest' /\ \A t : LatestRun(t)' = LatestRun(t)
      /\ \A t : Agrees(t) => Agrees(t)'
      /\ \A l1, f1 : Told(l1, f1) => Told(l1, f1)'
  BY TablesSame DEF PatientInv, Settled
<1>4. Told(pc[w], my[w])'
  <2>1. Told(pc[w], my[w]) BY DEF PatientInv, Settled
  <2> QED BY <1>2, <1>3, <2>1 DEF Told, StartTale
<1>5. RestSettled(w)' BY <1>2, <1>3 DEF PatientInv, Settled, RestSettled, Away
<1>6. OperatorAt(w, pc[h], my[h])'
  <2>1. \A r : runs'[r] = runs[r] OBVIOUS
  <2> QED BY <1>1, <1>2, <1>3, <2>1 DEF OperatorAt, Away, Marking, Minding
<1>7. OthersResolve(w, h)' BY <1>1 DEF PatientInv, Settled, OthersResolve
<1> QED BY <1>3, <1>4, <1>5, <1>6, <1>7 DEF Settled

\* Where the operator finds a BLOCKED run, the task is his or being marked.
LEMMA BlockedRunFound ==
  ASSUME NEW w \in Procs, NEW h \in Procs, PatientInv(w, h), NEW t \in Tasks,
         NEW r \in ActiveRuns(t), runs[r].status = "BLOCKED"
  PROVE  /\ r \in LatestRun(t)
         /\ \/ status[t] = "BLOCKED" /\ Away(w, t)
            \/ status[t] = "IN_PROGRESS" /\ Marking(w, t)
<1>1. r \in LatestRun(t) BY DEF PatientInv, Settled, ActiveIsLatest
<1>2. CASE Away(w, t) BY <1>1, <1>2 DEF PatientInv, Settled, RestSettled, Agrees
<1>3. CASE ~Away(w, t)
  <2>1. pc[w] # "idle" /\ my[w].task = t /\ Told(pc[w], my[w])
    BY <1>3 DEF Away, PatientInv, Settled
  <2>2. CASE my[w].op = "start"
    <3>1. CASE pc[w] = "insertRun"
      BY <2>1, <2>2, <3>1 DEF PatientInv, CalmInv, RunInv, NoneActive, Starting
    <3>2. CASE pc[w] # "insertRun"
      BY <1>1, <2>1, <2>2, <3>2 DEF Told, StartTale, Agrees
    <3> QED BY <3>1, <3>2
  <2>3. CASE my[w].op # "start"
    <3>1. r = my[w].run /\ <<my[w].op, pc[w], status[t], "BLOCKED">> \in Tales
      BY <1>1, <2>1, <2>3 DEF Told
    <3>2. my[w].op = "block" /\ pc[w] \in {"update", "swap"} /\ status[t] = "IN_PROGRESS"
      BY <3>1 DEF Tales, WithRun
    <3> QED BY <1>1, <2>1, <3>2 DEF Marking
  <2> QED BY <2>2, <2>3
<1> QED BY <1>1, <1>2, <1>3

LEMMA OperatorQuietStep ==
  ASSUME NEW w \in Procs, NEW h \in Procs, Patient(w, h), PatientInv(w, h),
         \/ WriteAnswer(h) \/ PeekActive(h) \/ ReadActive(h) \/ WriteResolved(h)
         \/ ReadTask(h) \/ ReadForUpdate(h)
         \/ \E b \in BlockerIds : AnswerBlocker(h, b) \/ ResolveBlocker(h, b)
  PROVE  Settled(w, h)'
<1> DEFINE t == my[h].task
<1>1. UNCHANGED <<runs, status>>
  BY DEF WriteAnswer, PeekActive, ReadActive, WriteResolved, ReadTask, ReadForUpdate,
         AnswerBlocker, ResolveBlocker, tables
<1>2. OperatorAt(w, pc[h], my[h]) BY DEF PatientInv, Settled
<1>3. my[h] \in Frames BY DEF PatientInv, CalmInv, Inv, TypeOK
<1>4. ASSUME Return(h) PROVE Settled(w, h)'
  <2>1. OperatorAt(w, "idle", NoFrame) BY DEF OperatorAt, Minding
  <2> QED BY <1>1, <1>4, <2>1, OperatorMove DEF Return
<1>5. pc[h] # "idle" => t \in Tasks BY DEF PatientInv, CalmInv, Inv, FrameTask
<1>6. CASE WriteAnswer(h)
  <2>1. OperatorAt(w, "peekActive", my[h]) BY <1>2, <1>6 DEF WriteAnswer, OperatorAt, Minding
  <2> QED BY <1>1, <1>6, <2>1, OperatorMove DEF WriteAnswer
<1>7. CASE PeekActive(h) /\ \E r \in NewestActive(t) : runs[r].status = "BLOCKED"
  <2>1. PICK r \in ActiveRuns(t) : runs[r].status = "BLOCKED" BY <1>7 DEF NewestActive
  <2>2. t \in Tasks /\ my[h].op = "answer" BY <1>2, <1>5, <1>7 DEF PeekActive, OperatorAt
  <2>3. OperatorAt(w, "readActive", my[h])
    BY <2>1, <2>2, BlockedRunFound DEF OperatorAt, Minding
  <2> QED BY <1>1, <1>7, <2>3, OperatorMove DEF PeekActive
<1>8. CASE PeekActive(h) /\ ~\E r \in NewestActive(t) : runs[r].status = "BLOCKED"
  BY <1>4, <1>8 DEF PeekActive
<1>9. CASE ReadActive(h)
  <2>1. pc[h] = "readActive" /\ t \in Tasks BY <1>5, <1>9 DEF ReadActive
  <2>2. PICK b \in LatestRun(t) : runs[b].status = "BLOCKED" BY <1>2, <2>1 DEF OperatorAt
  <2>3. b \in ActiveRuns(t) BY <2>2, LatestOf DEF ActiveRuns
  <2>4. PICK r \in NewestActive(t) : Goto(h, "writeRun", [my[h] EXCEPT !.op = "stop", !.run = r])
    BY <1>9, <2>3 DEF ReadActive
  <2>5. r \in LatestRun(t) BY <2>1 DEF PatientInv, Settled, ActiveIsLatest, NewestActive
  <2>6. r = b BY <2>2, <2>5, OneLatest
  <2> DEFINE f == [my[h] EXCEPT !.op = "stop", !.run = r]
  <2>7. f.op = "stop" /\ f.run = r /\ f.task = t BY <1>3, Variations
  <2> HIDE DEF f
  <2>8. OperatorAt(w, "writeRun", f)
    BY <1>2, <2>1, <2>2, <2>5, <2>6, <2>7 DEF OperatorAt, Minding
  <2> QED BY <1>1, <2>4, <2>8, OperatorMove DEF f
<1>10. CASE WriteResolved(h) BY <1>4, <1>10 DEF WriteResolved
<1>11. CASE ReadTask(h)
  <2>1. pc[h] = "readTask" /\ my[h].op = "stop" BY <1>2, <1>11 DEF ReadTask, OperatorAt
  <2>2. Return(h) \/ Update(h, my[h], "READY") BY <1>11, <2>1 DEF ReadTask
  <2>3. ASSUME Update(h, my[h], "READY") PROVE Settled(w, h)'
    <3> DEFINE f == [my[h] EXCEPT !.want = "READY"]
    <3>1. f.op = "stop" /\ f.run = my[h].run /\ f.task = t /\ f.want = "READY"
      BY <1>3, <2>1, Variations
    <3>2. Goto(h, "update", f) BY <2>3 DEF Update
    <3> HIDE DEF f
    <3>3. OperatorAt(w, "update", f) BY <1>2, <2>1, <3>1 DEF OperatorAt, Minding
    <3> QED BY <1>1, <3>2, <3>3, OperatorMove
  <2> QED BY <1>4, <2>2, <2>3
<1>12. CASE ReadForUpdate(h)
  <2>1. pc[h] = "update" /\ my[h].op = "stop" BY <1>2, <1>12 DEF ReadForUpdate, OperatorAt
  <2>2. AfterRejection(h) => Return(h) BY <2>1 DEF AfterRejection
  <2>3. ASSUME Goto(h, "swap", [my[h] EXCEPT !.seen = status[t]]) PROVE Settled(w, h)'
    <3> DEFINE f == [my[h] EXCEPT !.seen = status[t]]
    <3>1. f.op = "stop" /\ f.run = my[h].run /\ f.task = t /\ f.want = my[h].want
      BY <1>3, <2>1, Variations, Frozen
    <3>2. Goto(h, "swap", f) BY <2>3
    <3> HIDE DEF f
    <3>3. OperatorAt(w, "swap", f) BY <1>2, <2>1, <3>1 DEF OperatorAt, Minding
    <3> QED BY <1>1, <3>2, <3>3, OperatorMove
  <2> QED BY <1>4, <1>12, <2>2, <2>3 DEF ReadForUpdate
<1>13. ASSUME NEW b \in BlockerIds, AnswerBlocker(h, b) \/ ResolveBlocker(h, b)
       PROVE  Settled(w, h)'
  <2>1. PICK z \in {<<"answer", "writeAnswer">>, <<"resolve", "writeResolved">>} :
          Goto(h, z[2], [Frame(z[1], blockers[b].task) EXCEPT !.blocker = b])
    BY <1>13 DEF AnswerBlocker, ResolveBlocker
  <2> DEFINE f == [Frame(z[1], blockers[b].task) EXCEPT !.blocker = b]
  <2>2. f.op = z[1] BY DEF Frame, NoFrame
  <2> HIDE DEF f
  <2>3. OperatorAt(w, z[2], f) BY <2>2 DEF OperatorAt, Minding
  <2> QED BY <1>1, <2>1, <2>3, OperatorMove DEF f
<1> QED BY <1>6, <1>7, <1>8, <1>9, <1>10, <1>11, <1>12, <1>13, SMTT(30)

\* stop_run fails the run that answer found BLOCKED.
LEMMA OperatorWritesRun ==
  ASSUME NEW w \in Procs, NEW h \in Procs, Patient(w, h), PatientInv(w, h), WriteRun(h)
  PROVE  Settled(w, h)'
<1> DEFINE t == my[h].task
           r == my[h].run
<1>1. OperatorAt(w, pc[h], my[h]) /\ pc[h] = "writeRun" BY DEF PatientInv, Settled, WriteRun
<1>2. /\ my[h].op = "stop" /\ r \in LatestRun(t) /\ runs[r].status = "BLOCKED" /\ r \in RunIds
      /\ runs[r].task = t
  BY <1>1, LatestOf DEF OperatorAt
<1>3. \/ status[t] = "BLOCKED" /\ Away(w, t)
      \/ status[t] = "IN_PROGRESS" /\ Marking(w, t)
  BY <1>1 DEF OperatorAt, Minding
<1>4. SetRun(r, "FAILED") /\ Goto(h, "readTask", my[h]) /\ UNCHANGED status
  BY <1>2 DEF WriteRun
<1>5. \A q \in RunIds : /\ runs'[q].task = runs[q].task
                        /\ runs'[q].status = IF q = r THEN "FAILED" ELSE runs[q].status
                        /\ q # r => runs'[q] = runs[q]
  BY <1>2, <1>4, SetRunRow DEF PatientInv, CalmInv, RunStatuses
<1>6. /\ pc'[h] = "readTask" /\ my'[h] = my[h]
      /\ \A q \in Procs \ {h} : pc'[q] = pc[q] /\ my'[q] = my[q]
  BY <1>4, MoveOne DEF PatientInv, CalmInv
<1>7. pc'[w] = pc[w] /\ my'[w] = my[w] BY <1>6 DEF Patient
<1>8. \A u : LatestRun(u)' = LatestRun(u) BY <1>5, LatestSame
<1>9. RowsInOrder' BY <1>2, <1>5 DEF PatientInv, Settled, RowsInOrder
<1>10. ActiveIsLatest'
  <2>1. \A u : ActiveRuns(u)' \subseteq ActiveRuns(u) BY <1>5 DEF ActiveRuns
  <2> QED BY <1>8, <2>1 DEF PatientInv, Settled, ActiveIsLatest
<1>11. \A u : u # t => (Agrees(u) => Agrees(u)')
  <2> SUFFICES ASSUME NEW u, u # t, Agrees(u) PROVE Agrees(u)'
    OBVIOUS
  <2>1. \A q \in LatestRun(u) : q # r /\ q \in RunIds BY <1>2, LatestOf
  <2> QED BY <1>4, <1>5, <1>8, <2>1 DEF Agrees
<1>12. \A u : u = t /\ status[t] = "BLOCKED" => Agrees(u)'
  <2> SUFFICES ASSUME NEW u, u = t, status[t] = "BLOCKED" PROVE Agrees(u)'
    OBVIOUS
  <2>1. \A q \in LatestRun(u) : q = r BY <1>2, OneLatest
  <2> QED BY <1>2, <1>4, <1>5, <1>8, <2>1 DEF Agrees
<1>13. Told(pc[w], my[w])'
  <2>1. Told(pc[w], my[w]) BY DEF PatientInv, Settled
  <2>2. CASE pc[w] = "idle" BY <1>7, <2>2 DEF Told
  <2>3. CASE pc[w] # "idle" /\ my[w].task # t
    <3>1. CASE my[w].op = "start" BY <1>4, <1>7, <1>11, <2>1, <2>3, <3>1 DEF Told, StartTale
    <3>2. CASE my[w].op # "start"
      <4>1. my[w].run \in LatestRun(my[w].task) BY <2>1, <2>3, <3>2 DEF Told
      <4>2. my[w].run # r /\ my[w].run \in RunIds BY <1>2, <2>3, <4>1, LatestOf
      <4> QED BY <1>4, <1>5, <1>7, <1>8, <2>1, <2>3, <3>2, <4>2 DEF Told
    <3> QED BY <3>1, <3>2
  <2>4. CASE pc[w] # "idle" /\ my[w].task = t
    <3>1. status[t] = "IN_PROGRESS" /\ pc[w] \in {"update", "swap"} /\ my[w].op = "block"
      BY <1>3, <2>4 DEF Away, Marking
    <3>2. LatestRun(t) = {my[w].run} /\ my[w].want = Wanted[my[w].op] BY <2>1, <2>4, <3>1 DEF Told
    <3>3. my[w].run = r BY <1>2, <3>2
    <3>4. <<"block", pc[w], "IN_PROGRESS", "FAILED">> \in Tales BY <3>1 DEF Tales
    <3> QED BY <1>2, <1>4, <1>5, <1>7, <1>8, <2>4, <3>1, <3>2, <3>3, <3>4 DEF Told
  <2> QED BY <2>2, <2>3, <2>4
<1>14. RestSettled(w)'
  <2> SUFFICES ASSUME NEW u \in Tasks, Away(w, u) PROVE Agrees(u)'
    BY <1>7 DEF RestSettled, Away
  <2>1. Agrees(u) BY DEF PatientInv, Settled, RestSettled
  <2>2. CASE u = t BY <1>3, <1>12, <2>2 DEF Away, Marking
  <2>3. CASE u # t BY <1>11, <2>1, <2>3
  <2> QED BY <2>2, <2>3
<1>15. OperatorAt(w, pc[h], my[h])'
  <2>1. r \in LatestRun(t)' /\ runs'[r].status = "FAILED" BY <1>2, <1>5, <1>6, <1>8
  <2> QED BY <1>1, <1>2, <1>3, <1>4, <1>6, <1>7, <2>1 DEF OperatorAt, Away, Marking, Minding
<1>16. OthersResolve(w, h)' BY <1>6 DEF PatientInv, Settled, OthersResolve
<1> QED BY <1>9, <1>10, <1>13, <1>14, <1>15, <1>16 DEF Settled

\* stop_run moves the task to READY, if it is still as it was read.
LEMMA OperatorSwaps ==
  ASSUME NEW w \in Procs, NEW h \in Procs, Patient(w, h), PatientInv(w, h), CompareAndSet(h)
  PROVE  Settled(w, h)'
<1> DEFINE t == my[h].task
<1>1. OperatorAt(w, pc[h], my[h]) /\ pc[h] = "swap" BY DEF PatientInv, Settled, CompareAndSet
<1>2. my[h].op = "stop" /\ my[h].want = "READY" BY <1>1 DEF OperatorAt
<1>3. PICK r \in LatestRun(t) : runs[r].status = "FAILED" BY <1>1 DEF OperatorAt
<1>4. \/ status[t] = "BLOCKED" /\ Away(w, t)
      \/ status[t] = "IN_PROGRESS" /\ Marking(w, t)
  BY <1>1 DEF OperatorAt, Minding
<1>5. t \in Tasks /\ status \in [Tasks -> Statuses]
  BY <1>1 DEF PatientInv, CalmInv, Inv, TypeOK, FrameTask
<1>6. CASE status[t] # my[h].seen
  <2>1. Return(h) /\ UNCHANGED <<runs, status>>
    BY <1>2, <1>6 DEF CompareAndSet, AfterRejection
  <2>2. OperatorAt(w, "idle", NoFrame) BY DEF OperatorAt, Minding
  <2> QED BY <2>1, <2>2, OperatorMove DEF Return
<1>7. CASE status[t] = my[h].seen
  <2>1. status' = [status EXCEPT ![t] = "READY"] /\ Return(h) /\ UNCHANGED runs
    BY <1>2, <1>7 DEF CompareAndSet, AfterUpdate
  <2>2. pc'[h] = "idle" /\ \A q \in Procs \ {h} : pc'[q] = pc[q] /\ my'[q] = my[q]
    BY <2>1, MoveOne DEF PatientInv, CalmInv, Return
  <2>3. pc'[w] = pc[w] /\ my'[w] = my[w] BY <2>2 DEF Patient
  <2>4. status'[t] = "READY" /\ \A u \in Tasks \ {t} : status'[u] = status[u] BY <1>5, <2>1
  <2>5. \A u : LatestRun(u)' = LatestRun(u) BY <2>1, LatestSame
  <2>6. RowsInOrder' BY <2>1 DEF PatientInv, Settled, RowsInOrder
  <2>7. ActiveIsLatest'
    <3>1. \A u : ActiveRuns(u)' = ActiveRuns(u) BY <2>1 DEF ActiveRuns
    <3> QED BY <2>5, <3>1 DEF PatientInv, Settled, ActiveIsLatest
  <2>8. \A u \in Tasks \ {t} : Agrees(u) => Agrees(u)' BY <2>1, <2>4, <2>5 DEF Agrees
  <2>9. \A u : u = t => Agrees(u)'
    <3> SUFFICES ASSUME NEW u, u = t PROVE Agrees(u)'
      OBVIOUS
    <3>1. \A q \in LatestRun(u) : q = r BY <1>3, OneLatest
    <3> QED BY <1>3, <2>1, <2>4, <2>5, <3>1 DEF Agrees
  <2>10. Told(pc[w], my[w])'
    <3>1. Told(pc[w], my[w]) BY DEF PatientInv, Settled
    <3>2. CASE pc[w] = "idle" BY <2>3, <3>2 DEF Told
    <3>3. CASE pc[w] # "idle" /\ my[w].task # t
      <4>1. my[w].task \in Tasks \ {t} BY <3>3 DEF PatientInv, CalmInv, Inv, FrameTask
      <4> QED BY <2>1, <2>3, <2>4, <2>5, <2>8, <3>1, <3>3, <4>1 DEF Told, StartTale
    <3>4. CASE pc[w] # "idle" /\ my[w].task = t
      <4>1. pc[w] \in {"update", "swap"} /\ my[w].op = "block"
        BY <1>4, <3>4 DEF Away, Marking
      <4>2. LatestRun(t) = {my[w].run} /\ my[w].want = Wanted[my[w].op]
        BY <3>1, <3>4, <4>1 DEF Told
      <4>3. my[w].run = r BY <1>3, <4>2
      <4>4. <<"block", pc[w], "READY", "FAILED">> \in Tales BY <4>1 DEF Tales
      <4> QED BY <1>3, <2>1, <2>3, <2>4, <2>5, <3>4, <4>1, <4>2, <4>3, <4>4 DEF Told
    <3> QED BY <3>2, <3>3, <3>4
  <2>11. RestSettled(w)'
    BY <2>3, <2>8, <2>9 DEF PatientInv, Settled, RestSettled, Away
  <2>12. OperatorAt(w, pc[h], my[h])' BY <2>2 DEF OperatorAt, Minding
  <2>13. OthersResolve(w, h)' BY <2>2 DEF PatientInv, Settled, OthersResolve
  <2> QED BY <2>6, <2>7, <2>10, <2>11, <2>12, <2>13 DEF Settled
<1> QED BY <1>6, <1>7

LEMMA OperatorStep ==
  ASSUME NEW w \in Procs, NEW h \in Procs, Patient(w, h), PatientInv(w, h), Step(h) \/ Request(h)
  PROVE  Settled(w, h)'
<1>1. OperatorAt(w, pc[h], my[h]) /\ Ops[h] \subseteq {"answer", "resolve"}
  BY DEF PatientInv, Settled, Patient
<1>2. ~( \/ DispatchClose(h) \/ CheckActive(h) \/ InsertRun(h) \/ AgentEnds(h)
         \/ FindOpenDuplicate(h) \/ InsertBlocker(h) \/ ReadRun(h) \/ ResetForRetry(h)
         \/ LeaveRunning(h) \/ Crash(h)
         \/ \E t \in Tasks : \/ StartTaskRun(h, t) \/ StopRun(h, t) \/ ResumeRun(h, t)
                             \/ ResetBlockedRun(h, t) \/ RetryTask(h, t)
                             \/ \E s \in Statuses : SetStatus(h, t, s) )
  BY <1>1 DEF OperatorAt, DispatchClose, CheckActive, InsertRun, AgentEnds, FindOpenDuplicate,
     InsertBlocker, ReadRun, ResetForRetry, LeaveRunning, Crash, StartTaskRun, StopRun,
     ResumeRun, ResetBlockedRun, RetryTask, SetStatus, Asked
<1> QED BY <1>2, OperatorQuietStep, OperatorWritesRun, OperatorSwaps DEF Step, Request

-----------------------------------------------------------------------------
(* The worker.                                                                *)

\* The worker moves on and touches neither runs nor tasks.
LEMMA WorkerMove ==
  ASSUME NEW w \in Procs, NEW h \in Procs, Patient(w, h), PatientInv(w, h),
         UNCHANGED <<runs, status>>, NEW l, NEW f, Goto(w, l, f), Told(l, f),
         \/ pc[w] = "idle" /\ l # "idle" /\ status[f.task] \in {"READY", "FAILED"}
         \/ pc[w] # "idle" /\ l # "idle" /\ f.task = my[w].task
         \/ pc[w] # "idle" /\ l = "idle" /\ Agrees(my[w].task),
         \A t : Marking(w, t) /\ status[t] = "IN_PROGRESS" =>
                  l \in {"update", "swap"} /\ f.op = "block" /\ f.task = t
  PROVE  Settled(w, h)'
<1>1. pc'[w] = l /\ my'[w] = f /\ \A q \in Procs \ {w} : pc'[q] = pc[q] /\ my'[q] = my[q]
  BY MoveOne DEF PatientInv, CalmInv
<1>2. pc'[h] = pc[h] /\ my'[h] = my[h] BY <1>1 DEF Patient
<1>3. /\ RowsInOrder' /\ ActiveIsLatest' /\ \A t : LatestRun(t)' = LatestRun(t)
      /\ \A t : Agrees(t) => Agrees(t)'
      /\ \A l1, f1 : Told(l1, f1) => Told(l1, f1)'
  BY TablesSame DEF PatientInv, Settled
<1>4. Told(pc[w], my[w])' BY <1>1, <1>3 DEF Told, StartTale
<1>5. RestSettled(w)'
  <2> SUFFICES ASSUME NEW u \in Tasks, l = "idle" \/ f.task # u PROVE Agrees(u)'
    BY <1>1 DEF RestSettled, Away
  <2>1. CASE Away(w, u) BY <1>3, <2>1 DEF PatientInv, Settled, RestSettled
  <2>2. CASE ~Away(w, u) BY <1>3, <2>2 DEF Away
  <2> QED BY <2>1, <2>2
<1>6. OperatorAt(w, pc[h], my[h])'
  <2>1. OperatorAt(w, pc[h], my[h]) BY DEF PatientInv, Settled
  <2>2. ASSUME Minding(pc[h])
        PROVE  \/ status[my[h].task] = "BLOCKED" /\ (l = "idle" \/ f.task # my[h].task)
               \/ /\ status[my[h].task] = "IN_PROGRESS" /\ l \in {"update", "swap"}
                  /\ f.op = "block" /\ f.task = my[h].task
    BY <2>1, <2>2 DEF OperatorAt, Away
  <2> QED BY <1>1, <1>2, <1>3, <2>1, <2>2, OperatorStays
<1>7. OthersResolve(w, h)' BY <1>1 DEF PatientInv, Settled, OthersResolve
<1> QED BY <1>3, <1>4, <1>5, <1>6, <1>7 DEF Settled

\* It ends its errand at a task that agrees with its run.
LEMMA WorkerReturns ==
  ASSUME NEW w \in Procs, NEW h \in Procs, Patient(w, h), PatientInv(w, h),
         UNCHANGED <<runs, status>>, Return(w), pc[w] # "idle", Agrees(my[w].task),
         \A t : ~(Marking(w, t) /\ status[t] = "IN_PROGRESS")
  PROVE  Settled(w, h)'
<1>1. Told("idle", NoFrame) BY DEF Told
<1> QED BY <1>1, WorkerMove DEF Return

\* It stays with its task, which it is not marking.
LEMMA WorkerGoesOn ==
  ASSUME NEW w \in Procs, NEW h \in Procs, Patient(w, h), PatientInv(w, h),
         UNCHANGED <<runs, status>>, NEW l, NEW f, Goto(w, l, f), Told(l, f),
         pc[w] # "idle", l # "idle", f.task = my[w].task,
         pc[w] \notin {"update", "swap"} \/ my[w].op # "block"
           \/ status[my[w].task] # "IN_PROGRESS"
  PROVE  Settled(w, h)'
<1>1. \A t : ~(Marking(w, t) /\ status[t] = "IN_PROGRESS") BY DEF Marking
<1> QED BY <1>1, WorkerMove

LEMMA WorkerStarts ==
  ASSUME NEW w \in Procs, NEW h \in Procs, Patient(w, h), PatientInv(w, h),
         NEW t \in Tasks, StartTaskRun(w, t)
  PROVE  Settled(w, h)'
<1> DEFINE f == [Frame("start", t) EXCEPT !.seen = status[t]]
<1>1. /\ pc[w] = "idle" /\ status[t] \in {"READY", "FAILED"} /\ Goto(w, "checkActive", f)
      /\ UNCHANGED <<runs, status>>
  BY DEF StartTaskRun, Asked, Patient, tables
<1>2. Frame("start", t) \in Frames /\ Frame("start", t).op = "start" /\ Frame("start", t).task = t
  BY NewFrame DEF Errands, OpNames
<1>3. f.op = "start" /\ f.task = t /\ f.seen = status[t] BY <1>2, Variations, Frozen
<1> HIDE DEF f
<1>4. Agrees(t) BY <1>1 DEF PatientInv, Settled, RestSettled, Away
<1>5. Told("checkActive", f) BY <1>1, <1>3, <1>4 DEF Told, StartTale
<1>6. \A u : ~(Marking(w, u) /\ status[u] = "IN_PROGRESS") BY <1>1 DEF Marking
<1> QED BY <1>1, <1>3, <1>5, <1>6, WorkerMove

LEMMA WorkerChecks ==
  ASSUME NEW w \in Procs, NEW h \in Procs, Patient(w, h), PatientInv(w, h), CheckActive(w)
  PROVE  Settled(w, h)'
<1>1. pc[w] = "checkActive" /\ UNCHANGED <<runs, status>> BY DEF CheckActive, tables
<1>2. my[w].op = "start" BY <1>1 DEF PatientInv, CalmInv, Placed, Places, Updating
<1>3. StartTale("checkActive", my[w]) BY <1>1, <1>2 DEF PatientInv, Settled, Told
<1>4. /\ my[w].seen \in {"READY", "FAILED"} /\ status[my[w].task] \in {"READY", "FAILED"}
      /\ Agrees(my[w].task)
  BY <1>3 DEF StartTale
<1>5. CASE Return(w)
  <2>1. \A t : ~(Marking(w, t) /\ status[t] = "IN_PROGRESS") BY <1>1 DEF Marking
  <2> QED BY <1>1, <1>4, <1>5, <2>1, WorkerReturns
<1>6. CASE Update(w, my[w], "IN_PROGRESS")
  <2> DEFINE f == [my[w] EXCEPT !.want = "IN_PROGRESS"]
  <2>1. my[w] \in Frames BY DEF PatientInv, CalmInv, Inv, TypeOK
  <2>2. f.op = "start" /\ f.task = my[w].task /\ f.want = "IN_PROGRESS" BY <1>2, <2>1, Variations
  <2>3. Goto(w, "update", f) BY <1>6 DEF Update
  <2> HIDE DEF f
  <2>4. Told("update", f) BY <1>4, <2>2 DEF Told, StartTale, Wanted
  <2> QED BY <1>1, <2>2, <2>3, <2>4, WorkerGoesOn
<1>7. Return(w) \/ Update(w, my[w], "IN_PROGRESS")
  <2>1. my[w].seen # "BACKLOG" /\ my[w].seen # "IN_PROGRESS" BY <1>4
  <2> QED BY <2>1 DEF CheckActive
<1> QED BY <1>5, <1>6, <1>7

\* The tale of a worker that holds a run.
LEMMA Held ==
  ASSUME NEW w \in Procs, NEW h \in Procs, PatientInv(w, h), Holding(w)
  PROVE  /\ LatestRun(my[w].task) = {my[w].run} /\ my[w].run \in RunIds
         /\ runs[my[w].run].task = my[w].task
         /\ <<my[w].op, pc[w], status[my[w].task], runs[my[w].run].status>> \in Tales
         /\ pc[w] \in {"update", "swap"} => my[w].want = Wanted[my[w].op]
<1>1. Told(pc[w], my[w]) BY DEF PatientInv, Settled
<1>2. LatestRun(my[w].task) = {my[w].run} BY <1>1 DEF Holding, Told
<1>3. my[w].run \in RunIds /\ runs[my[w].run].task = my[w].task BY <1>2, LatestOf
<1> QED BY <1>1, <1>2, <1>3 DEF Holding, Told

\* Its run being the latest of its task, the task agrees with it.
LEMMA AgreesWith ==
  ASSUME NEW t, NEW r, LatestRun(t) = {r},
         \/ runs[r].status = "COMPLETED" /\ status[t] = "DONE"
         \/ runs[r].status = "BLOCKED" /\ status[t] = "BLOCKED"
         \/ runs[r].status = "FAILED" /\ status[t] \notin {"IN_PROGRESS", "DONE"}
  PROVE  Agrees(t)
BY DEF Agrees

LEMMA WorkerAtAgent ==
  ASSUME NEW w \in Procs, NEW h \in Procs, Patient(w, h), PatientInv(w, h),
         \/ AgentEnds(w) \/ FindOpenDuplicate(w) \/ InsertBlocker(w) \/ ReadRun(w) \/ ReadTask(w)
  PROVE  Settled(w, h)'
<1> DEFINE t == my[w].task
           s == status[t]
           rs == runs[my[w].run].status
<1>1. /\ UNCHANGED <<runs, status>>
      /\ pc[w] \in {"agent", "findDuplicate", "insertBlocker", "readRun", "readTask"}
  BY DEF AgentEnds, FindOpenDuplicate, InsertBlocker, ReadRun, ReadTask, tables
<1>2. <<my[w].op, pc[w]>> \in Places BY <1>1 DEF PatientInv, CalmInv, Placed
<1>3. /\ pc[w] = "agent" => my[w].op = "none"
      /\ pc[w] \in {"findDuplicate", "insertBlocker"} => my[w].op \in {"ask", "block"}
      /\ pc[w] = "readRun" => my[w].op \in {"block", "complete", "fail"}
      /\ pc[w] = "readTask" => my[w].op \in {"complete", "fail"}
  BY <1>1, <1>2 DEF Places, Updating
<1>4. Holding(w) BY <1>1, <1>3 DEF Holding
<1>5. LatestRun(t) = {my[w].run} /\ <<my[w].op, pc[w], s, rs>> \in Tales BY <1>4, Held
<1>6. my[w] \in Frames BY DEF PatientInv, CalmInv, Inv, TypeOK
<1>7. \A t1 : ~(Marking(w, t1) /\ status[t1] = "IN_PROGRESS") BY <1>1 DEF Marking
<1>8. ASSUME NEW l \in {"findDuplicate", "insertBlocker", "readRun", "writeRun"}, NEW f, Goto(w, l, f),
             f.op # "start", f.task = t, f.run = my[w].run, <<f.op, l, s, rs>> \in Tales
      PROVE  Settled(w, h)'
  <2>1. Told(l, f) BY <1>5, <1>8 DEF Told
  <2> QED BY <1>1, <1>8, <2>1, WorkerGoesOn
<1>9. ASSUME NEW o \in {"complete", "fail", "ask", "block"},
             NEW l \in {"findDuplicate", "insertBlocker", "readRun", "writeRun"},
             Goto(w, l, [my[w] EXCEPT !.op = o]), <<o, l, s, rs>> \in Tales
      PROVE  Settled(w, h)'
  <2> DEFINE f == [my[w] EXCEPT !.op = o]
  <2>1. f.op = o /\ f.run = my[w].run /\ f.task = t BY <1>6, Variations
  <2>2. Goto(w, l, f) BY <1>9
  <2> HIDE DEF f
  <2> QED BY <1>8, <1>9, <2>1, <2>2
<1>10. ASSUME NEW v \in {"DONE", "FAILED"}, Update(w, my[w], v), my[w].op \in {"complete", "fail"},
              v = Wanted[my[w].op], <<my[w].op, "update", s, rs>> \in Tales
       PROVE  Settled(w, h)'
  <2> DEFINE f == [my[w] EXCEPT !.want = v]
  <2>1. f.op = my[w].op /\ f.run = my[w].run /\ f.task = t /\ f.want = v BY <1>6, Variations
  <2>2. Goto(w, "update", f) BY <1>10 DEF Update
  <2> HIDE DEF f
  <2>3. Told("update", f) BY <1>5, <1>10, <2>1 DEF Told
  <2> QED BY <1>1, <1>10, <2>1, <2>2, <2>3, WorkerGoesOn
<1>11. CASE AgentEnds(w)
  <2>1. pc[w] = "agent" /\ my[w].op = "none" BY <1>3, <1>11 DEF AgentEnds
  <2>2. s = "IN_PROGRESS" /\ rs = "RUNNING" BY <1>5, <2>1 DEF Tales, WithRun
  <2>3. /\ <<"complete", "readRun", s, rs>> \in Tales /\ <<"fail", "readRun", s, rs>> \in Tales
        /\ <<"block", "readRun", s, rs>> \in Tales
        /\ \A o \in {"ask", "block"} : <<o, "findDuplicate", s, rs>> \in Tales
    BY <2>2 DEF Tales, WithRun
  <2>4. CASE Goto(w, "readRun", [my[w] EXCEPT !.op = "complete"]) BY <1>9, <2>3, <2>4
  <2>5. CASE FailRun(w) BY <1>9, <2>3, <2>5 DEF FailRun
  <2>6. ASSUME NEW o \in {"ask", "block"}, Goto(w, "findDuplicate", [my[w] EXCEPT !.op = o])
        PROVE  Settled(w, h)'
    BY <1>9, <2>3, <2>6
  <2>7. CASE Goto(w, "readRun", [my[w] EXCEPT !.op = "block"]) BY <1>9, <2>3, <2>7
  <2> QED BY <1>11, <2>4, <2>5, <2>6, <2>7 DEF AgentEnds
<1>12. CASE FindOpenDuplicate(w) \/ InsertBlocker(w)
  <2>1. pc[w] \in {"findDuplicate", "insertBlocker"} /\ my[w].op \in {"ask", "block"}
    BY <1>3, <1>12 DEF FindOpenDuplicate, InsertBlocker
  <2>2. s = "IN_PROGRESS" /\ rs = "RUNNING" BY <1>5, <2>1 DEF Tales, WithRun
  <2>3. /\ <<"block", "findDuplicate", s, rs>> \in Tales /\ <<"block", "readRun", s, rs>> \in Tales
        /\ <<my[w].op, "insertBlocker", s, rs>> \in Tales
    BY <2>1, <2>2 DEF Tales, WithRun
  <2>4. CASE Goto(w, "insertBlocker", my[w]) BY <1>8, <2>1, <2>3, <2>4
  <2>5. ASSUME NEW b, AfterCreate(w, b) PROVE Settled(w, h)'
    <3>1. ASSUME NEW l \in {"findDuplicate", "readRun"}, NEW c,
                 Goto(w, l, [my[w] EXCEPT !.op = "block", !.blocker = c])
          PROVE  Settled(w, h)'
      <4> DEFINE f == [my[w] EXCEPT !.op = "block", !.blocker = c]
      <4>1. f.op = "block" /\ f.run = my[w].run /\ f.task = t BY <1>6, Variations
      <4>2. Goto(w, l, f) BY <3>1
      <4> HIDE DEF f
      <4> QED BY <1>8, <2>3, <4>1, <4>2
    <3> QED BY <2>5, <3>1 DEF AfterCreate
  <2> QED BY <1>12, <2>4, <2>5 DEF FindOpenDuplicate, InsertBlocker
<1>13. CASE ReadRun(w)
  <2>1. pc[w] = "readRun" /\ my[w].op \in {"block", "complete", "fail"} BY <1>3, <1>13 DEF ReadRun
  <2>2. CASE my[w].op = "complete"
    <3>1. s = "IN_PROGRESS" /\ rs = "RUNNING" BY <1>5, <2>1, <2>2 DEF Tales, WithRun
    <3>2. Update(w, my[w], "DONE") BY <1>13, <2>2, <3>1 DEF ReadRun
    <3>3. <<"complete", "update", s, rs>> \in Tales BY <3>1 DEF Tales
    <3> QED BY <1>10, <2>2, <3>2, <3>3 DEF Wanted
  <2>3. CASE my[w].op = "block"
    <3>1. s = "IN_PROGRESS" /\ rs = "RUNNING" BY <1>5, <2>1, <2>3 DEF Tales, WithRun
    <3>2. Goto(w, "writeRun", my[w]) BY <1>13, <2>3, <3>1 DEF ReadRun
    <3>3. <<"block", "writeRun", s, rs>> \in Tales BY <3>1 DEF Tales, WithRun
    <3> QED BY <1>8, <2>3, <3>2, <3>3
  <2>4. CASE my[w].op = "fail" /\ rs = "RUNNING"
    <3>1. s = "IN_PROGRESS" BY <1>5, <2>1, <2>4 DEF Tales, WithRun
    <3>2. Goto(w, "writeRun", my[w]) BY <1>13, <2>4 DEF ReadRun
    <3>3. <<"fail", "writeRun", s, rs>> \in Tales BY <2>4, <3>1 DEF Tales
    <3> QED BY <1>8, <2>4, <3>2, <3>3
  <2>5. CASE my[w].op = "fail" /\ rs # "RUNNING"
    <3>1. s = "READY" /\ rs = "FAILED" BY <1>5, <2>1, <2>5 DEF Tales, WithRun
    <3>2. Return(w) BY <1>13, <2>5, <3>1 DEF ReadRun
    <3>3. Agrees(t) BY <1>5, <3>1, AgreesWith
    <3> QED BY <1>1, <1>7, <3>2, <3>3, WorkerReturns
  <2> QED BY <2>1, <2>2, <2>3, <2>4, <2>5
<1>14. CASE ReadTask(w)
  <2>1. pc[w] = "readTask" BY <1>14 DEF ReadTask
  <2>2. my[w].op = "fail" /\ s = "IN_PROGRESS" /\ rs = "FAILED"
    BY <1>5, <2>1 DEF Tales, WithRun
  <2>3. Update(w, my[w], "FAILED")
    BY <1>14, <2>2 DEF ReadTask, CanTransition, AllowedTransitions
  <2>4. <<"fail", "update", s, rs>> \in Tales BY <2>2 DEF Tales
  <2> QED BY <1>10, <2>2, <2>3, <2>4 DEF Wanted
<1> QED BY <1>11, <1>12, <1>13, <1>14

\* update_status as the worker calls it: its reads, its refusals and the
\* dispatch of a close.
LEMMA WorkerReadsOn ==
  ASSUME NEW w \in Procs, NEW h \in Procs, Patient(w, h), PatientInv(w, h),
         \/ ReadForUpdate(w) \/ DispatchClose(w)
         \/ CompareAndSet(w) /\ status[my[w].task] # my[w].seen
  PROVE  Settled(w, h)'
<1> DEFINE t == my[w].task
           s == status[t]
           rs == runs[my[w].run].status
<1>1. UNCHANGED <<runs, status>> /\ pc[w] \in {"update", "swap", "close"}
  BY DEF ReadForUpdate, DispatchClose, CompareAndSet, tables
<1>2. my[w] \in Frames BY DEF PatientInv, CalmInv, Inv, TypeOK
<1>3. Told(pc[w], my[w]) BY DEF PatientInv, Settled
<1> DEFINE f == [my[w] EXCEPT !.seen = s]
<1>4. f.op = my[w].op /\ f.run = my[w].run /\ f.task = t /\ f.want = my[w].want
  BY <1>2, Variations, Frozen
<1>5. pc[w] = "swap" => CanTransition(my[w].seen, my[w].want)
  BY DEF PatientInv, CalmInv, Inv, SwapIsLegal
<1>6. CASE my[w].op = "start"
  <2>1. /\ StartTale(pc[w], my[w])
        /\ pc[w] \in {"update", "swap"} => my[w].want = "IN_PROGRESS"
    BY <1>1, <1>3, <1>6 DEF Told, Wanted
  <2>2. pc[w] \in {"update", "swap"} /\ s \in {"READY", "FAILED"} /\ Agrees(t)
    BY <1>1, <2>1 DEF StartTale
  <2>3. CASE AfterRejection(w)
    <3>1. Return(w) BY <1>6, <2>3 DEF AfterRejection
    <3>2. \A u : ~(Marking(w, u) /\ status[u] = "IN_PROGRESS") BY <1>6 DEF Marking
    <3> QED BY <1>1, <2>2, <3>1, <3>2, WorkerReturns
  <2>4. CASE Goto(w, "swap", f)
    <3> HIDE DEF f
    <3>1. Told("swap", f) BY <1>4, <1>6, <2>1, <2>2 DEF Told, StartTale, Wanted
    <3> QED BY <1>1, <1>4, <1>6, <2>4, <3>1, WorkerGoesOn
  <2> QED BY <2>2, <2>3, <2>4 DEF ReadForUpdate, DispatchClose, CompareAndSet
<1>7. CASE my[w].op # "start"
  <2>1. LatestRun(t) = {my[w].run} /\ <<my[w].op, pc[w], s, rs>> \in Tales
    BY <1>1, <1>3, <1>7 DEF Told
  <2>2. my[w].op \in {"block", "complete", "fail"} BY <1>1, <2>1 DEF Tales, WithRun
  <2>3. pc[w] \in {"update", "swap"} => my[w].want = Wanted[my[w].op] BY <1>3 DEF Told
  <2>4. CASE my[w].op = "complete"
    <3>1. CASE pc[w] = "close"
      <4>1. Goto(w, "writeRun", my[w])
        BY <2>4, <3>1 DEF ReadForUpdate, DispatchClose, CompareAndSet, AfterUpdate
      <4>2. <<"complete", "writeRun", s, rs>> \in Tales
        BY <2>1, <2>4, <3>1 DEF Tales, WithRun
      <4>3. Told("writeRun", my[w]) BY <1>7, <2>1, <2>4, <4>2 DEF Told
      <4> QED BY <1>1, <2>4, <4>1, <4>3, WorkerGoesOn
    <3>2. CASE pc[w] # "close"
      <4>1. s = "IN_PROGRESS" /\ rs = "RUNNING" /\ my[w].want = "DONE"
        BY <1>1, <2>1, <2>3, <2>4, <3>2 DEF Tales, WithRun, Wanted
      <4>2. pc[w] = "swap" => my[w].seen = "IN_PROGRESS"
        <5>1. pc[w] = "swap" => my[w].seen \in Statuses BY <1>2 DEF Frames
        <5> QED BY <1>5, <4>1, <5>1 DEF CanTransition, AllowedTransitions, Statuses
      <4>3. ReadForUpdate(w) BY <3>2, <4>1, <4>2 DEF DispatchClose, CompareAndSet
      <4>4. Goto(w, "swap", f)
        BY <4>1, <4>3 DEF ReadForUpdate, CanTransition, AllowedTransitions
      <4>5. <<"complete", "swap", s, rs>> \in Tales BY <4>1 DEF Tales
      <4> HIDE DEF f
      <4>6. Told("swap", f) BY <1>4, <2>1, <2>4, <4>1, <4>5 DEF Told, Wanted
      <4> QED BY <1>1, <1>4, <2>4, <4>4, <4>6, WorkerGoesOn
    <3> QED BY <3>1, <3>2
  <2>5. CASE my[w].op = "fail"
    <3>1. s = "IN_PROGRESS" /\ rs = "FAILED" /\ my[w].want = "FAILED" /\ pc[w] # "close"
      BY <1>1, <2>1, <2>3, <2>5 DEF Tales, WithRun, Wanted
    <3>2. pc[w] = "swap" => my[w].seen = "IN_PROGRESS"
      <4>1. pc[w] = "swap" => my[w].seen \in Statuses BY <1>2 DEF Frames
      <4> QED BY <1>5, <3>1, <4>1 DEF CanTransition, AllowedTransitions, Statuses
    <3>3. ReadForUpdate(w) BY <3>1, <3>2 DEF DispatchClose, CompareAndSet
    <3>4. Goto(w, "swap", f)
      BY <3>1, <3>3 DEF ReadForUpdate, CanTransition, AllowedTransitions
    <3>5. <<"fail", "swap", s, rs>> \in Tales BY <3>1 DEF Tales
    <3> HIDE DEF f
    <3>6. Told("swap", f) BY <1>4, <2>1, <2>5, <3>1, <3>5 DEF Told, Wanted
    <3> QED BY <1>1, <1>4, <2>5, <3>4, <3>6, WorkerGoesOn
  <2>6. CASE my[w].op = "block"
    <3>1. /\ pc[w] \in {"update", "swap"} /\ my[w].want = "BLOCKED"
          /\ \/ s = "IN_PROGRESS" /\ rs \in {"BLOCKED", "FAILED"}
             \/ s = "READY" /\ rs = "FAILED"
      BY <1>1, <2>1, <2>3, <2>6 DEF Tales, WithRun, Wanted
    <3>2. pc[w] = "swap" => my[w].seen = "IN_PROGRESS"
      <4>1. pc[w] = "swap" => my[w].seen \in Statuses BY <1>2 DEF Frames
      <4> QED BY <1>5, <3>1, <4>1 DEF CanTransition, AllowedTransitions, Statuses
    <3>3. CASE s = "IN_PROGRESS"
      <4>1. ReadForUpdate(w) BY <3>1, <3>2, <3>3 DEF DispatchClose, CompareAndSet
      <4>2. pc[w] = "update" /\ Goto(w, "swap", f)
        BY <3>1, <3>3, <4>1 DEF ReadForUpdate, CanTransition, AllowedTransitions
      <4>3. <<"block", "swap", s, rs>> \in Tales BY <3>1, <3>3 DEF Tales
      <4> HIDE DEF f
      <4>4. Told("swap", f) BY <1>4, <2>1, <2>6, <3>1, <4>3 DEF Told, Wanted
      <4>5. \A u : Marking(w, u) => u = t BY DEF Marking
      <4> QED BY <1>1, <1>4, <2>6, <4>2, <4>4, <4>5, WorkerMove
    <3>4. CASE s = "READY" /\ rs = "FAILED"
      <4>1. AfterRejection(w)
        BY <3>1, <3>4 DEF ReadForUpdate, DispatchClose, CompareAndSet, CanTransition,
           AllowedTransitions
      <4> DEFINE g == [my[w] EXCEPT !.op = "fail"]
      <4>2. Goto(w, "readRun", g) BY <2>6, <4>1 DEF AfterRejection, FailRun
      <4>3. g.op = "fail" /\ g.run = my[w].run /\ g.task = t BY <1>2, Variations
      <4> HIDE DEF g
      <4>4. <<"fail", "readRun", s, rs>> \in Tales BY <3>4 DEF Tales
      <4>5. Told("readRun", g) BY <2>1, <4>3, <4>4 DEF Told
      <4> QED BY <1>1, <3>4, <4>2, <4>3, <4>5, WorkerGoesOn
    <3> QED BY <3>1, <3>3, <3>4
  <2> QED BY <2>2, <2>4, <2>5, <2>6
<1> QED BY <1>6, <1>7

\* The worker commits a status.
LEMMA WorkerSwaps ==
  ASSUME NEW w \in Procs, NEW h \in Procs, Patient(w, h), PatientInv(w, h),
         CompareAndSet(w), status[my[w].task] = my[w].seen
  PROVE  Settled(w, h)'
<1>0. PICK t : t = my[w].task OBVIOUS
<1> DEFINE rs == runs[my[w].run].status
           s == my[w].want
<1>1. /\ pc[w] = "swap" /\ UNCHANGED runs /\ status' = [status EXCEPT ![t] = s]
      /\ (s = "DONE" /\ Goto(w, "close", my[w])) \/ (s # "DONE" /\ AfterUpdate(w))
  BY <1>0 DEF CompareAndSet
<1>2. t \in Tasks /\ status \in [Tasks -> Statuses] /\ my[w] \in Frames
  BY <1>0, <1>1 DEF PatientInv, CalmInv, Inv, TypeOK, FrameTask
<1>3. status'[t] = s /\ \A u \in Tasks \ {t} : status'[u] = status[u] BY <1>1, <1>2
<1>4. Told("swap", my[w]) BY <1>1 DEF PatientInv, Settled
<1>5. CanTransition(my[w].seen, s) /\ my[w].seen \in Statuses
  BY <1>1, <1>2 DEF PatientInv, CalmInv, Inv, SwapIsLegal, Frames
<1>6. \A u : LatestRun(u)' = LatestRun(u) BY <1>1, LatestSame
<1>7. PICK l, f : /\ Goto(w, l, f)
                  /\ l = "idle" => Agrees(t)' /\ my[w].op # "start"
                  /\ l # "idle" => f.task = t /\ Told(l, f)' /\ my[w].op # "block"
                  /\ Told(l, f)'
                  /\ my[w].op = "block" => s = "BLOCKED"
  <2>1. CASE my[w].op = "start"
    <3>1. s = "IN_PROGRESS" BY <1>4, <2>1 DEF Told, Wanted
    <3>2. Goto(w, "insertRun", my[w]) BY <1>1, <2>1, <3>1 DEF AfterUpdate
    <3>3. ASSUME NEW f, f = my[w] PROVE Told("insertRun", f)'
      BY <1>0, <1>3, <2>1, <3>1, <3>3 DEF Told, StartTale
    <3> QED BY <1>0, <2>1, <3>2, <3>3
  <2>2. CASE my[w].op # "start"
    <3>1. /\ LatestRun(t) = {my[w].run} /\ s = Wanted[my[w].op]
          /\ <<my[w].op, "swap", status[t], rs>> \in Tales
      BY <1>0, <1>4, <2>2 DEF Told
    <3>2. my[w].op \in {"block", "complete", "fail"} BY <3>1 DEF Tales, WithRun
    <3>3. CASE my[w].op = "complete"
      <4>1. s = "DONE" /\ rs = "RUNNING" BY <3>1, <3>3 DEF Tales, WithRun, Wanted
      <4>2. Goto(w, "close", my[w]) BY <1>1, <4>1
      <4>3. ASSUME NEW f, f = my[w] PROVE Told("close", f)'
        <5>1. <<"complete", "close", "DONE", "RUNNING">> \in Tales BY DEF Tales
        <5> QED BY <1>0, <1>1, <1>3, <1>6, <3>1, <3>3, <4>1, <4>3, <5>1 DEF Told
      <4> QED BY <1>0, <3>3, <4>2, <4>3
    <3>4. CASE my[w].op = "block"
      <4>1. s = "BLOCKED" /\ rs \in {"BLOCKED", "FAILED"}
        BY <3>1, <3>4 DEF Tales, WithRun, Wanted
      <4>2. Goto(w, "idle", NoFrame) BY <1>1, <3>4, <4>1 DEF AfterUpdate, Return
      <4>3. Agrees(t)' BY <1>1, <1>3, <1>6, <3>1, <4>1 DEF Agrees
      <4>4. Told("idle", NoFrame)' BY DEF Told
      <4> QED BY <3>4, <4>1, <4>2, <4>3, <4>4
    <3>5. CASE my[w].op = "fail"
      <4>1. s = "FAILED" /\ rs = "FAILED" BY <3>1, <3>5 DEF Tales, WithRun, Wanted
      <4>2. Goto(w, "idle", NoFrame) BY <1>1, <3>5, <4>1 DEF AfterUpdate, Return
      <4>3. Agrees(t)' BY <1>1, <1>3, <1>6, <3>1, <4>1 DEF Agrees
      <4>4. Told("idle", NoFrame)' BY DEF Told
      <4> QED BY <3>5, <4>1, <4>2, <4>3, <4>4
    <3> QED BY <3>2, <3>3, <3>4, <3>5
  <2> QED BY <2>1, <2>2
<1>8. pc'[w] = l /\ my'[w] = f /\ \A q \in Procs \ {w} : pc'[q] = pc[q] /\ my'[q] = my[q]
  BY <1>7, MoveOne DEF PatientInv, CalmInv
<1>9. pc'[h] = pc[h] /\ my'[h] = my[h] BY <1>8 DEF Patient
<1>10. RowsInOrder' BY <1>1 DEF PatientInv, Settled, RowsInOrder
<1>11. ActiveIsLatest'
  <2>1. \A u : ActiveRuns(u)' = ActiveRuns(u) BY <1>1 DEF ActiveRuns
  <2> QED BY <1>6, <2>1 DEF PatientInv, Settled, ActiveIsLatest
<1>12. Told(pc[w], my[w])' BY <1>7, <1>8 DEF Told, StartTale
<1>13. RestSettled(w)'
  <2> SUFFICES ASSUME NEW u \in Tasks, l = "idle" \/ f.task # u PROVE Agrees(u)'
    BY <1>8 DEF RestSettled, Away
  <2>1. CASE u = t BY <1>7, <2>1
  <2>2. CASE u # t
    <3>1. Agrees(u) BY <1>0, <2>2 DEF PatientInv, Settled, RestSettled, Away
    <3> QED BY <1>1, <1>3, <1>6, <2>2, <3>1 DEF Agrees
  <2> QED BY <2>1, <2>2
<1>14. OperatorAt(w, pc[h], my[h])'
  <2>1. OperatorAt(w, pc[h], my[h]) BY DEF PatientInv, Settled
  <2>2. ASSUME Minding(pc[h])
        PROVE  status'[my[h].task] = "BLOCKED" /\ (l = "idle" \/ f.task # my[h].task)
    <3>0. my[h].task \in Tasks
      BY <2>2 DEF Minding, PatientInv, CalmInv, Inv, FrameTask
    <3>1. CASE my[h].task = t
      <4>1. my[w].op = "block" BY <1>0, <1>1, <2>1, <2>2, <3>1 DEF OperatorAt, Away, Marking
      <4> QED BY <1>3, <1>7, <3>1, <4>1
    <3>2. CASE my[h].task # t
      <4>1. status[my[h].task] = "BLOCKED"
        BY <1>0, <2>1, <2>2, <3>2 DEF OperatorAt, Marking
      <4> QED BY <1>3, <1>7, <3>0, <3>2, <4>1
    <3> QED BY <3>1, <3>2
  <2> QED BY <1>1, <1>6, <1>8, <1>9, <2>1, <2>2, OperatorStays
<1>15. OthersResolve(w, h)' BY <1>8 DEF PatientInv, Settled, OthersResolve
<1> QED BY <1>10, <1>11, <1>12, <1>13, <1>14, <1>15 DEF Settled

\* The worker records the end of its run. The task is still as it was, so the
\* operator cannot have come to it; it may from then on.
LEMMA WorkerWritesRun ==
  ASSUME NEW w \in Procs, NEW h \in Procs, Patient(w, h), PatientInv(w, h), WriteRun(w)
  PROVE  Settled(w, h)'
<1>0. PICK t, r : t = my[w].task /\ r = my[w].run OBVIOUS
<1>1. pc[w] = "writeRun" /\ UNCHANGED status BY DEF WriteRun
<1>2. my[w].op \in {"block", "complete", "fail"}
  BY <1>1 DEF PatientInv, CalmInv, Placed, Places, Updating
<1>3. Holding(w) BY <1>1, <1>2 DEF Holding
<1>4. /\ LatestRun(t) = {r} /\ r \in RunIds /\ runs[r].task = t
      /\ <<my[w].op, "writeRun", status[t], runs[r].status>> \in Tales
  BY <1>0, <1>1, <1>3, Held
<1>5. /\ runs[r].status = "RUNNING"
      /\ my[w].op \in {"block", "fail"} => status[t] = "IN_PROGRESS"
      /\ my[w].op = "complete" => status[t] = "DONE"
  BY <1>2, <1>4 DEF Tales, WithRun
<1>6. my[w] \in Frames BY DEF PatientInv, CalmInv, Inv, TypeOK
<1>7. PICK s \in {"COMPLETED", "BLOCKED", "FAILED"}, l \in {"idle", "update", "readTask"},
           f \in Frames :
        /\ SetRun(r, s) /\ Goto(w, l, f)
        /\ \/ my[w].op = "complete" /\ s = "COMPLETED" /\ l = "idle"
           \/ my[w].op = "block" /\ s = "BLOCKED" /\ l = "update" /\ f.want = "BLOCKED"
           \/ my[w].op = "fail" /\ s = "FAILED" /\ l = "readTask"
        /\ l # "idle" => f.op = my[w].op /\ f.run = r /\ f.task = t
  <2>1. CASE my[w].op = "complete"
    <3>1. SetRun(r, "COMPLETED") /\ Goto(w, "idle", NoFrame) BY <1>0, <2>1 DEF WriteRun, Return
    <3> QED BY <2>1, <3>1, NoFrameType
  <2>2. CASE my[w].op = "block"
    <3> DEFINE g == [my[w] EXCEPT !.want = "BLOCKED"]
    <3>1. SetRun(r, "BLOCKED") /\ Goto(w, "update", g) BY <1>0, <2>2 DEF WriteRun, Update
    <3>2. g.op = my[w].op /\ g.run = r /\ g.task = t /\ g.want = "BLOCKED"
      BY <1>0, <1>6, Variations
    <3>3. g \in Frames BY <1>6 DEF Frames, Statuses
    <3> HIDE DEF g
    <3> QED BY <2>2, <3>1, <3>2, <3>3
  <2>3. CASE my[w].op = "fail"
    <3>1. SetRun(r, "FAILED") /\ Goto(w, "readTask", my[w]) BY <1>0, <2>3 DEF WriteRun
    <3> QED BY <1>0, <1>6, <2>3, <3>1
  <2> QED BY <1>2, <2>1, <2>2, <2>3
<1>8. \A q \in RunIds : /\ runs'[q].task = runs[q].task
                        /\ runs'[q].status = IF q = r THEN s ELSE runs[q].status
                        /\ q # r => runs'[q] = runs[q]
  BY <1>4, <1>7, SetRunRow DEF PatientInv, CalmInv, RunStatuses
<1>9. pc'[w] = l /\ my'[w] = f /\ \A q \in Procs \ {w} : pc'[q] = pc[q] /\ my'[q] = my[q]
  BY <1>7, MoveOne DEF PatientInv, CalmInv
<1>10. pc'[h] = pc[h] /\ my'[h] = my[h] BY <1>9 DEF Patient
<1>11. \A u : LatestRun(u)' = LatestRun(u) BY <1>8, LatestSame
<1>12. RowsInOrder' BY <1>5, <1>8 DEF PatientInv, Settled, RowsInOrder
<1>13. ActiveIsLatest'
  <2>1. \A u : ActiveRuns(u)' \subseteq ActiveRuns(u) BY <1>5, <1>8 DEF ActiveRuns
  <2> QED BY <1>11, <2>1 DEF PatientInv, Settled, ActiveIsLatest
<1>14. LatestRun(t)' = {r} /\ runs'[r].status = s /\ status'[t] = status[t]
  BY <1>1, <1>4, <1>8, <1>11
<1>15. Told(pc[w], my[w])'
  <2>1. CASE l = "idle" BY <1>9, <2>1 DEF Told
  <2>2. CASE my[w].op = "block"
    <3>1. l = "update" /\ f.want = "BLOCKED" /\ s = "BLOCKED" /\ status'[t] = "IN_PROGRESS"
      BY <1>5, <1>7, <1>14, <2>2
    <3>2. <<"block", "update", "IN_PROGRESS", "BLOCKED">> \in Tales BY DEF Tales
    <3> QED BY <1>7, <1>9, <1>14, <2>2, <3>1, <3>2 DEF Told, Wanted
  <2>3. CASE my[w].op = "fail"
    <3>1. l = "readTask" /\ s = "FAILED" /\ status'[t] = "IN_PROGRESS"
      BY <1>5, <1>7, <1>14, <2>3
    <3>2. <<"fail", "readTask", "IN_PROGRESS", "FAILED">> \in Tales BY DEF Tales
    <3> QED BY <1>7, <1>9, <1>14, <2>3, <3>1, <3>2 DEF Told
  <2> QED BY <1>7, <2>1, <2>2, <2>3
<1>16. RestSettled(w)'
  <2> SUFFICES ASSUME NEW u \in Tasks, l = "idle" \/ f.task # u PROVE Agrees(u)'
    BY <1>9 DEF RestSettled, Away
  <2>1. CASE u = t
    <3>1. s = "COMPLETED" /\ status'[t] = "DONE" BY <1>1, <1>5, <1>7, <2>1
    <3> QED BY <1>14, <2>1, <3>1 DEF Agrees
  <2>2. CASE u # t
    <3>1. Agrees(u) BY <1>0, <2>2 DEF PatientInv, Settled, RestSettled, Away
    <3>2. \A q \in LatestRun(u) : q \in RunIds /\ q # r BY <1>4, <2>2, LatestOf
    <3> QED BY <1>1, <1>8, <1>11, <3>1, <3>2 DEF Agrees
  <2> QED BY <2>1, <2>2
<1>17. OperatorAt(w, pc[h], my[h])'
  <2>1. OperatorAt(w, pc[h], my[h]) BY DEF PatientInv, Settled
  <2>2. ASSUME Minding(pc[h]), NEW u, u = my[h].task
        PROVE  /\ LatestRun(u)' = LatestRun(u)
               /\ \A q \in LatestRun(u) : runs'[q].status = runs[q].status
               /\ status'[u] = "BLOCKED" /\ (l = "idle" \/ f.task # u)
    <3>1. status[u] = "BLOCKED" /\ u # t
      BY <1>0, <1>1, <2>1, <2>2 DEF OperatorAt, Away, Marking
    <3>2. \A q \in LatestRun(u) : q \in RunIds /\ q # r BY <1>4, <3>1, LatestOf
    <3> QED BY <1>1, <1>7, <1>8, <1>11, <3>1, <3>2
  <2> QED BY <1>9, <1>10, <2>1, <2>2, OperatorStays
<1>18. OthersResolve(w, h)' BY <1>9 DEF PatientInv, Settled, OthersResolve
<1> QED BY <1>12, <1>13, <1>15, <1>16, <1>17, <1>18 DEF Settled

\* The worker inserts the run of a task that has no active one: the new row is
\* the task's latest.
LEMMA WorkerInserts ==
  ASSUME NEW w \in Procs, NEW h \in Procs, Patient(w, h), PatientInv(w, h), InsertRun(w)
  PROVE  Settled(w, h)'
<1>0. PICK t : t = my[w].task OBVIOUS
<1>1. PICK r \in NextRun :
        /\ runs' = [runs EXCEPT ![r] = [task |-> t, status |-> "RUNNING"]]
        /\ Goto(w, "agent", [my[w] EXCEPT !.op = "none", !.run = r])
        /\ UNCHANGED status /\ pc[w] = "insertRun"
  BY <1>0 DEF InsertRun
<1> DEFINE f == [my[w] EXCEPT !.op = "none", !.run = r]
<1>2. my[w].op = "start" BY <1>1 DEF PatientInv, CalmInv, Placed, Places, Updating
<1>3. status[t] = "IN_PROGRESS"
  BY <1>0, <1>1, <1>2 DEF PatientInv, Settled, Told, StartTale
<1>4. ActiveRuns(t) = {}
  BY <1>0, <1>1, <1>2 DEF PatientInv, CalmInv, RunInv, NoneActive, Starting
<1>5. f.op = "none" /\ f.run = r /\ f.task = t
  BY <1>0, Variations DEF PatientInv, CalmInv, Inv, TypeOK
<1>6. Goto(w, "agent", f) BY <1>1
<1> HIDE DEF f
<1>7. /\ r \in RunIds /\ runs[r].status = "NONE"
      /\ \A q \in RunIds : q < r => runs[q].status # "NONE"
  BY DEF NextRun, RunIds
<1>8. /\ runs'[r].task = t /\ runs'[r].status = "RUNNING"
      /\ \A q \in RunIds \ {r} : runs'[q] = runs[q]
  BY <1>1, <1>7, RunsType DEF PatientInv, CalmInv
<1>9. pc'[w] = "agent" /\ my'[w] = f /\ \A q \in Procs \ {w} : pc'[q] = pc[q] /\ my'[q] = my[q]
  BY <1>6, MoveOne DEF PatientInv, CalmInv
<1>10. pc'[h] = pc[h] /\ my'[h] = my[h] BY <1>9 DEF Patient
<1>11. t \in Tasks BY <1>0, <1>1 DEF PatientInv, CalmInv, Inv, FrameTask
<1>12. \A q \in RunIds : r <= q => runs[q].status = "NONE" /\ runs[q].task = NoTask
  BY <1>7 DEF PatientInv, Settled, RowsInOrder, RunIds
<1>13. LatestRun(t)' = {r}
  <2>1. r \in LatestRun(t)'
    <3>1. \A q \in RunIds : q # r /\ runs'[q].task = t => q <= r
      BY <1>7, <1>8, <1>11, <1>12, NoTaskAssumption DEF RunIds
    <3> QED BY <1>7, <1>8, <3>1 DEF LatestRun, RunIds
  <2>2. \A q \in LatestRun(t)' : q = r
    <3> SUFFICES ASSUME NEW q \in RunIds, runs'[q].task = t,
                        \A x \in RunIds : runs'[x].task = t => x <= q
                 PROVE  q = r
      BY DEF LatestRun
    <3>1. r <= q BY <1>7, <1>8
    <3> QED BY <1>7, <1>8, <1>11, <1>12, <3>1, NoTaskAssumption DEF RunIds
  <2> QED BY <2>1, <2>2
<1>14. \A u \in Tasks \ {t} : LatestRun(u)' = LatestRun(u)
  <2> SUFFICES ASSUME NEW u \in Tasks \ {t} PROVE LatestRun(u)' = LatestRun(u)
    OBVIOUS
  <2>1. \A q \in RunIds : runs'[q].task = u <=> runs[q].task = u
    BY <1>7, <1>8, <1>12, NoTaskAssumption DEF RunIds
  <2> QED BY <2>1 DEF LatestRun
<1>15. \A u \in Tasks \ {t} : \A q \in LatestRun(u) : q \in RunIds /\ q # r
  BY <1>7, <1>12, LatestOf, NoTaskAssumption DEF RunIds
<1>16. RowsInOrder'
  <2> SUFFICES ASSUME NEW q \in RunIds, runs'[q].status = "NONE"
               PROVE  /\ runs'[q].task = NoTask
                      /\ \A x \in RunIds : q <= x => runs'[x].status = "NONE"
    BY DEF RowsInOrder
  <2>1. q # r /\ runs'[q] = runs[q] BY <1>8
  <2>2. r < q BY <1>7, <2>1 DEF RunIds
  <2>3. \A x \in RunIds : q <= x => x # r /\ r <= x BY <1>7, <2>2 DEF RunIds
  <2> QED BY <1>7, <1>8, <1>12, <2>1, <2>2, <2>3 DEF RunIds
<1>17. ActiveIsLatest'
  <2> SUFFICES ASSUME NEW u \in Tasks, NEW q \in ActiveRuns(u)' PROVE q \in LatestRun(u)'
    BY DEF ActiveIsLatest
  <2>1. CASE u = t
    <3>1. q = r BY <1>4, <1>8, <2>1 DEF ActiveRuns
    <3> QED BY <1>13, <2>1, <3>1
  <2>2. CASE u # t
    <3>1. q # r BY <1>8, <2>2 DEF ActiveRuns
    <3>2. q \in ActiveRuns(u) BY <1>8, <3>1 DEF ActiveRuns
    <3> QED BY <1>14, <2>2, <3>2 DEF PatientInv, Settled, ActiveIsLatest
  <2> QED BY <2>1, <2>2
<1>18. Told(pc[w], my[w])'
  <2>1. <<"none", "agent", "IN_PROGRESS", "RUNNING">> \in Tales BY DEF Tales, WithRun
  <2> QED BY <1>1, <1>3, <1>5, <1>8, <1>9, <1>13, <2>1 DEF Told
<1>19. RestSettled(w)'
  <2> SUFFICES ASSUME NEW u \in Tasks \ {t} PROVE Agrees(u)'
    BY <1>5, <1>9 DEF RestSettled, Away
  <2>1. Agrees(u) BY <1>0 DEF PatientInv, Settled, RestSettled, Away
  <2> QED BY <1>1, <1>8, <1>14, <1>15, <2>1 DEF Agrees
<1>20. OperatorAt(w, pc[h], my[h])'
  <2>1. OperatorAt(w, pc[h], my[h]) BY DEF PatientInv, Settled
  <2>2. ASSUME Minding(pc[h]), NEW u, u = my[h].task
        PROVE  /\ LatestRun(u)' = LatestRun(u)
               /\ \A q \in LatestRun(u) : runs'[q].status = runs[q].status
               /\ status'[u] = "BLOCKED" /\ f.task # u
    <3>1. status[u] = "BLOCKED" /\ u # t
      BY <1>0, <1>1, <2>1, <2>2 DEF OperatorAt, Away, Marking
    <3>2. u \in Tasks
      BY <2>2 DEF Minding, PatientInv, CalmInv, Inv, FrameTask
    <3> QED BY <1>1, <1>5, <1>8, <1>14, <1>15, <3>1, <3>2
  <2> QED BY <1>9, <1>10, <2>1, <2>2, OperatorStays
<1>21. OthersResolve(w, h)' BY <1>9 DEF PatientInv, Settled, OthersResolve
<1> QED BY <1>16, <1>17, <1>18, <1>19, <1>20, <1>21 DEF Settled

LEMMA WorkerStep ==
  ASSUME NEW w \in Procs, NEW h \in Procs, Patient(w, h), PatientInv(w, h), Step(w) \/ Request(w)
  PROVE  Settled(w, h)'
<1>1. ~( \/ WriteAnswer(w) \/ PeekActive(w) \/ ReadActive(w) \/ WriteResolved(w)
         \/ ResetForRetry(w) \/ LeaveRunning(w) \/ Crash(w)
         \/ \E t \in Tasks : \/ StopRun(w, t) \/ ResumeRun(w, t) \/ ResetBlockedRun(w, t)
                             \/ RetryTask(w, t) \/ \E s \in Statuses : SetStatus(w, t, s)
         \/ \E b \in BlockerIds : AnswerBlocker(w, b) \/ ResolveBlocker(w, b) )
  <2>1. pc[w] \notin {"writeAnswer", "peekActive", "readActive", "writeResolved", "resetRuns"}
    BY DEF PatientInv, CalmInv, Placed, Places, Updating
  <2> QED BY <2>1 DEF WriteAnswer, PeekActive, ReadActive, WriteResolved, ResetForRetry,
        LeaveRunning, Crash, StopRun, ResumeRun, ResetBlockedRun, RetryTask, SetStatus,
        AnswerBlocker, ResolveBlocker, Asked, Patient
<1>2. CompareAndSet(w) => Settled(w, h)'
  BY WorkerReadsOn, WorkerSwaps
<1> QED BY <1>1, <1>2, WorkerReadsOn, WorkerStarts, WorkerChecks, WorkerInserts, WorkerAtAgent,
      WorkerWritesRun, SMTT(30) DEF Step, Request

-----------------------------------------------------------------------------
LEMMA PatientStep ==
  ASSUME NEW w \in Procs, NEW h \in Procs, Patient(w, h), PatientInv(w, h), [Next]_vars
  PROVE  PatientInv(w, h)'
<1>1. CalmInv(w)' BY PatientStarter, CalmStep DEF PatientInv
<1>2. ASSUME NEW p \in Procs, Step(p) \/ Request(p) PROVE Settled(w, h)'
  BY <1>2, ResolverStep, OperatorStep, WorkerStep
<1>3. CASE UNCHANGED vars
  <2>1. UNCHANGED <<runs, status, pc, my>> BY <1>3 DEF vars
  <2>2. /\ RowsInOrder' /\ ActiveIsLatest' /\ \A t : LatestRun(t)' = LatestRun(t)
        /\ \A t : Agrees(t) => Agrees(t)'
        /\ \A l, f : Told(l, f) => Told(l, f)'
    BY <2>1, TablesSame DEF PatientInv, Settled
  <2>3. Told(pc[w], my[w])'
    <3>1. Told(pc[w], my[w]) BY DEF PatientInv, Settled
    <3> QED BY <2>1, <2>2, <3>1 DEF Told, StartTale
  <2>4. RestSettled(w)' BY <2>1, <2>2 DEF PatientInv, Settled, RestSettled, Away
  <2>5. OperatorAt(w, pc[h], my[h])'
    <3>1. OperatorAt(w, pc[h], my[h]) BY DEF PatientInv, Settled
    <3>2. pc' = pc /\ my' = my /\ status' = status /\ runs' = runs BY <2>1
    <3>3. ASSUME Minding(pc[h]), NEW t, t = my[h].task
          PROVE  /\ LatestRun(t)' = LatestRun(t)
                 /\ \A r \in LatestRun(t) : runs'[r].status = runs[r].status
                 /\ \/ status'[t] = "BLOCKED" /\ (pc'[w] = "idle" \/ my'[w].task # t)
                    \/ /\ status'[t] = "IN_PROGRESS" /\ pc'[w] \in {"update", "swap"}
                       /\ my'[w].op = "block" /\ my'[w].task = t
      BY <2>2, <3>1, <3>2, <3>3 DEF OperatorAt, Away, Marking
    <3> QED BY <3>1, <3>2, <3>3, OperatorStays
  <2>6. OthersResolve(w, h)' BY <2>1 DEF PatientInv, Settled, OthersResolve
  <2> QED BY <1>1, <2>2, <2>3, <2>4, <2>5, <2>6 DEF Settled, PatientInv
<1> QED BY <1>1, <1>2, <1>3 DEF Next, PatientInv

LEMMA PatientInit ==
  ASSUME NEW w \in Procs, NEW h \in Procs, Init
  PROVE  PatientInv(w, h)
<1>1. \A r \in RunIds : runs[r] = [task |-> NoTask, status |-> "NONE"] BY DEF Init
<1>2. \A p \in Procs : pc[p] = "idle" BY DEF Init
<1>3. \A t : ActiveRuns(t) = {} BY <1>1 DEF ActiveRuns
<1>4. \A t \in Tasks : LatestRun(t) = {} BY <1>1, NoTaskAssumption DEF LatestRun
<1>5. RowsInOrder BY <1>1 DEF RowsInOrder
<1>6. ActiveIsLatest BY <1>3 DEF ActiveIsLatest
<1>7. RestSettled(w) BY <1>4 DEF RestSettled, Agrees
<1>8. Told(pc[w], my[w]) BY <1>2 DEF Told
<1>9. OperatorAt(w, pc[h], my[h]) BY <1>2 DEF OperatorAt, Minding
<1>10. OthersResolve(w, h) BY <1>2 DEF OthersResolve
<1> QED BY <1>5, <1>6, <1>7, <1>8, <1>9, <1>10, CalmInit DEF Settled, PatientInv

\* One worker that starts runs on the tasks it finds READY or FAILED, and one
\* operator who answers the questions: whenever all have finished, each task and
\* its latest run tell one story, although complete_run, block_run, fail_run and
\* the answer's stop_run each write the run and the task in transactions of their
\* own. With a second operator who answers it is false.
THEOREM RunAndTaskAgreeAlways ==
  ASSUME NEW w \in Procs, NEW h \in Procs, Patient(w, h)
  PROVE  Spec => []RunAndTaskAgree
<1>1. Init => PatientInv(w, h) BY PatientInit
<1>2. PatientInv(w, h) /\ [Next]_vars => PatientInv(w, h)' BY PatientStep
<1>3. PatientInv(w, h) => RunAndTaskAgree
  <2> SUFFICES ASSUME PatientInv(w, h), Quiet PROVE RunAndTaskAgree
    BY DEF RunAndTaskAgree
  <2>1. \A t \in Tasks : Agrees(t)
    BY DEF Quiet, PatientInv, Settled, RestSettled, Away
  <2> QED BY <2>1 DEF RunAndTaskAgree, Agrees
<1> QED BY <1>1, <1>2, <1>3, PTL DEF Spec
-----------------------------------------------------------------------------
(* Any number of starters, and every operation: who can add an active run.    *)

\* Only work retry, which found the task FAILED or BLOCKED, resets runs and goes on.
RetryPlace == \A p \in Procs : pc[p] = "resetRuns" => my[p].op = "retry"

\* A process at l with frame f has found no active run of t and has yet to insert.
Joins(l, f, t) == f.task = t /\ (l = "insertRun" \/ (f.op = "start" /\ l \in Updating))

\* Nobody joins the contenders of t, and no run of t becomes live.
NobodyAdds(t) == LiveRuns(t)' \subseteq LiveRuns(t) /\ Contenders(t)' \subseteq Contenders(t)

\* One of the contenders of t becomes its run.
OneInserts(t) ==
  \E p \in Contenders(t), r \in RunIds : /\ LiveRuns(t)' \subseteq LiveRuns(t) \cup {r}
                                         /\ Contenders(t)' \subseteq Contenders(t) \ {p}

LEMMA ContendersJoin ==
  ASSUME NEW t, NEW p \in Procs
  PROVE  p \in Contenders(t) <=> Joins(pc[p], my[p], t)
BY DEF Contenders, Joins, Updating

LEMMA ContendersOf ==
  ASSUME Inv, NEW t, NEW p \in Procs, NEW l, NEW f, Goto(p, l, f)
  PROVE  \A q \in Contenders(t)' : q \in Contenders(t) \/ (q = p /\ Joins(l, f, t))
<1>1. pc'[p] = l /\ my'[p] = f /\ \A q \in Procs \ {p} : pc'[q] = pc[q] /\ my'[q] = my[q]
  BY MoveOne
<1> QED BY <1>1 DEF Contenders, Joins, Updating

LEMMA NobodyRetries ==
  ASSUME Inv, RetryPlace, NEW p \in Procs, NEW l, NEW f, Goto(p, l, f),
         l = "resetRuns" => f.op = "retry"
  PROVE  RetryPlace'
BY MoveOne DEF RetryPlace

\* The row p is at may be another than before; the others keep what they are about to
\* write, so a run is live after the step only if its row is, or was going to be.
LEMMA LiveOf ==
  ASSUME Inv, NEW t, NEW p \in Procs, NEW l, NEW f, Goto(p, l, f),
         NEW r \in LiveRuns(t)', runs[r].task = t
  PROVE  \/ r \in LiveRuns(t)
         \/ runs'[r].status \in {"RUNNING", "BLOCKED"}
         \/ l = "writeRun" /\ f.op \in {"block", "resume"} /\ f.run = r
<1>1. pc'[p] = l /\ my'[p] = f /\ \A q \in Procs \ {p} : pc'[q] = pc[q] /\ my'[q] = my[q]
  BY MoveOne
<1> QED BY <1>1 DEF LiveRuns

LEMMA StaysOut ==
  ASSUME Inv, RetryPlace, NEW t, NEW p \in Procs, NEW l, NEW f, Goto(p, l, f),
         \A r \in RunIds : runs'[r].task = t =>
           /\ runs[r].task = t
           /\ runs'[r].status \in {"RUNNING", "BLOCKED"} => r \in LiveRuns(t),
         \A r \in RunIds : (/\ l = "writeRun" /\ f.op \in {"block", "resume"}
                            /\ f.run = r /\ runs[r].task = t) => r \in LiveRuns(t),
         Joins(l, f, t) => p \in Contenders(t),
         l = "resetRuns" => f.op = "retry"
  PROVE  NobodyAdds(t) /\ RetryPlace'
<1>1. Contenders(t)' \subseteq Contenders(t) BY ContendersOf
<1>2. ASSUME NEW r \in LiveRuns(t)' PROVE r \in LiveRuns(t)
  <2>1. r \in RunIds /\ runs'[r].task = t BY <1>2 DEF LiveRuns
  <2> QED BY <1>2, <2>1, LiveOf
<1> QED BY <1>1, <1>2, NobodyRetries DEF NobodyAdds

\* A step that writes no run and comes to no write of one.
LEMMA OutQuietly ==
  ASSUME Inv, RetryPlace, NEW t, NEW p \in Procs, NEW l, NEW f, Goto(p, l, f),
         runs' = runs, l \notin {"writeRun", "resetRuns"},
         Joins(l, f, t) => p \in Contenders(t)
  PROVE  NobodyAdds(t) /\ RetryPlace'
<1>1. \A r \in RunIds : runs'[r].status \in {"RUNNING", "BLOCKED"} /\ runs'[r].task = t
                          => r \in LiveRuns(t)
  BY DEF LiveRuns
<1> QED BY <1>1, StaysOut

\* On the way to write a run, which is live if it is going to be written as active.
LEMMA OutToWrite ==
  ASSUME Inv, RetryPlace, NEW t, NEW p \in Procs, NEW f, Goto(p, "writeRun", f), runs' = runs,
         f.op \in {"block", "resume"} =>
           (f.run \in RunIds => runs[f.run].status \in {"RUNNING", "BLOCKED"})
  PROVE  NobodyAdds(t) /\ RetryPlace'
<1>1. ~Joins("writeRun", f, t) BY DEF Joins, Updating
<1>2. Contenders(t)' \subseteq Contenders(t) BY <1>1, ContendersOf
<1>3. ASSUME NEW r \in LiveRuns(t)' PROVE r \in LiveRuns(t)
  <2>1. r \in RunIds /\ runs[r].task = t BY <1>3 DEF LiveRuns
  <2>2. \/ r \in LiveRuns(t)
        \/ runs'[r].status \in {"RUNNING", "BLOCKED"}
        \/ f.op \in {"block", "resume"} /\ f.run = r
    BY <1>3, <2>1, LiveOf
  <2> QED BY <2>1, <2>2 DEF LiveRuns
<1> QED BY <1>2, <1>3, NobodyRetries DEF NobodyAdds

LEMMA OutReturning ==
  ASSUME Inv, RetryPlace, NEW t, NEW p \in Procs, Return(p), runs' = runs
  PROVE  NobodyAdds(t) /\ RetryPlace'
<1>1. Goto(p, "idle", NoFrame) BY DEF Return
<1>2. ~Joins("idle", NoFrame, t) BY DEF Joins, Updating
<1> QED BY <1>1, <1>2, OutQuietly

LEMMA OutUpdating ==
  ASSUME Inv, RetryPlace, NEW t, NEW p \in Procs, NEW f \in Frames, NEW s,
         Update(p, f, s), runs' = runs, f.op = "start" /\ f.task = t => p \in Contenders(t)
  PROVE  NobodyAdds(t) /\ RetryPlace'
<1> DEFINE g == [f EXCEPT !.want = s]
<1>1. Goto(p, "update", g) BY DEF Update
<1>2. g.op = f.op /\ g.task = f.task BY Variations
<1> HIDE DEF g
<1>3. Joins("update", g, t) => p \in Contenders(t) BY <1>2 DEF Joins
<1> QED BY <1>1, <1>3, OutQuietly

\* The frame with another errand, at a label where it does not count as a starter.
LEMMA OutTurning ==
  ASSUME Inv, RetryPlace, NEW t, NEW p \in Procs, NEW o,
         NEW l \in {"readRun", "readTask", "agent", "findDuplicate"},
         Goto(p, l, [my[p] EXCEPT !.op = o]), runs' = runs
  PROVE  NobodyAdds(t) /\ RetryPlace'
<1> DEFINE f == [my[p] EXCEPT !.op = o]
<1>1. Goto(p, l, f) OBVIOUS
<1> HIDE DEF f
<1>2. ~Joins(l, f, t) BY DEF Joins, Updating
<1> QED BY <1>1, <1>2, OutQuietly

LEMMA OutAfterUpdate ==
  ASSUME Inv, RetryPlace, NEW t, NEW p \in Procs, pc[p] \in {"swap", "close"},
         runs' = runs, AfterUpdate(p)
  PROVE  NobodyAdds(t) /\ RetryPlace'
<1>0. my[p] \in Frames BY DEF Inv, TypeOK
<1>1. my[p].op = "start" /\ my[p].task = t => p \in Contenders(t) BY DEF Contenders
<1>2. CASE my[p].op = "start" /\ my[p].want = "READY"
  BY <1>0, <1>1, <1>2, OutUpdating DEF AfterUpdate
<1>3. CASE my[p].op = "start" /\ my[p].want # "READY"
  <2>1. Goto(p, "insertRun", my[p]) BY <1>3 DEF AfterUpdate
  <2>2. Joins("insertRun", my[p], t) => p \in Contenders(t) BY <1>1, <1>3 DEF Joins
  <2> QED BY <2>1, <2>2, OutQuietly
<1>4. CASE my[p].op = "complete"
  <2>1. Goto(p, "writeRun", my[p]) BY <1>4 DEF AfterUpdate
  <2>2. ~Joins("writeRun", my[p], t) BY DEF Joins, Updating
  <2>3. \A r \in RunIds : runs'[r].status \in {"RUNNING", "BLOCKED"} /\ runs'[r].task = t
                            => r \in LiveRuns(t)
    BY DEF LiveRuns
  <2> QED BY <1>4, <2>1, <2>2, <2>3, StaysOut
<1>5. CASE my[p].op = "resume"
  BY <1>5, OutTurning DEF AfterUpdate
<1>6. CASE my[p].op = "retryReset"
  <2> DEFINE g == [my[p] EXCEPT !.op = "retry"]
  <2>1. Update(p, g, "READY") BY <1>6 DEF AfterUpdate
  <2>2. g \in Frames /\ g.op = "retry" BY <1>0, Variations DEF Frames, Errands, OpNames
  <2> HIDE DEF g
  <2> QED BY <2>1, <2>2, OutUpdating
<1>7. CASE my[p].op = "retry"
  BY <1>7, OutTurning DEF AfterUpdate
<1>8. CASE my[p].op \notin {"start", "complete", "resume", "retryReset", "retry"}
  BY <1>8, OutReturning DEF AfterUpdate
<1> QED BY <1>2, <1>3, <1>4, <1>5, <1>6, <1>7, <1>8

LEMMA OutAfterRejection ==
  ASSUME Inv, RetryPlace, NEW t, NEW p \in Procs, runs' = runs, AfterRejection(p)
  PROVE  NobodyAdds(t) /\ RetryPlace'
<1>1. CASE my[p].op = "complete"
  <2>1. PICK f : Goto(p, "readTask", f) BY <1>1 DEF AfterRejection
  <2>2. ~Joins("readTask", f, t) BY DEF Joins, Updating
  <2> QED BY <2>1, <2>2, OutQuietly
<1>2. CASE my[p].op = "block" BY <1>2, OutTurning DEF AfterRejection, FailRun
<1>3. CASE my[p].op \notin {"complete", "block"} BY <1>3, OutReturning DEF AfterRejection
<1> QED BY <1>1, <1>2, <1>3

\* The look of start_task_run: with an active run of its task the process turns back.
LEMMA OutChecking ==
  ASSUME Inv, RetryPlace, NEW t, NEW p \in Procs, CheckActive(p)
  PROVE  (ActiveRuns(t) # {} => NobodyAdds(t)) /\ RetryPlace'
<1>0. my[p] \in Frames /\ runs' = runs BY DEF Inv, TypeOK, CheckActive, tables
<1>1. CASE ActiveRuns(my[p].task) # {} BY <1>0, <1>1, OutReturning DEF CheckActive
<1>2. CASE ActiveRuns(my[p].task) = {}
  <2>1. PICK l, f : /\ l \in {"update", "insertRun"} /\ Goto(p, l, f)
                        /\ f.task = my[p].task
    <3>1. CASE my[p].seen = "IN_PROGRESS" BY <1>2, <3>1 DEF CheckActive
    <3>2. CASE my[p].seen # "IN_PROGRESS"
      <4>1. PICK s : Goto(p, "update", [my[p] EXCEPT !.want = s])
        BY <1>2, <3>2 DEF CheckActive, Update
      <4> DEFINE g == [my[p] EXCEPT !.want = s]
      <4>2. Goto(p, "update", g) /\ g.task = my[p].task BY <1>0, <4>1, Variations
      <4> HIDE DEF g
      <4> QED BY <4>2
    <3> QED BY <3>1, <3>2
  <2>2. RetryPlace' BY <2>1, NobodyRetries
  <2>3. ASSUME my[p].task # t PROVE NobodyAdds(t)
    BY <1>0, <2>1, <2>3, OutQuietly DEF Joins
  <2> QED BY <1>2, <2>2, <2>3
<1> QED BY <1>1, <1>2

\* The insertion: its process was a contender, and is one no more.
LEMMA OutInserting ==
  ASSUME Inv, RetryPlace, NEW t, NEW p \in Procs, InsertRun(p)
  PROVE  (NobodyAdds(t) \/ OneInserts(t)) /\ RetryPlace'
<1>1. PICK r \in NextRun :
        /\ runs' = [runs EXCEPT ![r] = [task |-> my[p].task, status |-> "RUNNING"]]
        /\ Goto(p, "agent", [my[p] EXCEPT !.op = "none", !.run = r])
        /\ pc[p] = "insertRun"
  BY DEF InsertRun
<1>2. r \in RunIds BY DEF NextRun
<1>3. runs'[r].task = my[p].task /\ \A q \in RunIds \ {r} : runs'[q] = runs[q]
  BY <1>1, <1>2, RunsType
<1> DEFINE f == [my[p] EXCEPT !.op = "none", !.run = r]
<1>4. Goto(p, "agent", f) BY <1>1
<1> HIDE DEF f
<1>5. ~Joins("agent", f, t) BY DEF Joins, Updating
<1>6. \A q \in RunIds \ {r} : runs'[q].status \in {"RUNNING", "BLOCKED"} /\ runs'[q].task = t
                                => q \in LiveRuns(t)
  BY <1>3 DEF LiveRuns
<1>7. CASE my[p].task # t
  <2>1. \A q \in RunIds : runs'[q].task = t =>
          runs[q].task = t /\ (runs'[q].status \in {"RUNNING", "BLOCKED"} => q \in LiveRuns(t))
    BY <1>3, <1>6, <1>7
  <2> QED BY <1>4, <1>5, <2>1, StaysOut
<1>8. CASE my[p].task = t
  <2>1. p \in Contenders(t) BY <1>1, <1>8 DEF Contenders
  <2>2. Contenders(t)' \subseteq Contenders(t) \ {p}
    <3>1. pc'[p] = "agent" BY <1>4, MoveOne
    <3>2. p \notin Contenders(t)'
      <4>1. my'[p].op # "start" \/ pc'[p] \notin {"update", "swap", "close"} BY <3>1
      <4> QED BY <3>1, <4>1 DEF Contenders
    <3> QED BY <1>4, <1>5, <3>2, ContendersOf
  <2>3. ASSUME NEW q \in LiveRuns(t)', q # r PROVE q \in LiveRuns(t)
    <3>1. q \in RunIds \ {r} /\ runs'[q].task = t BY <2>3 DEF LiveRuns
    <3>2. runs[q].task = t BY <1>3, <3>1
    <3> QED BY <1>4, <1>6, <2>3, <3>1, <3>2, LiveOf
  <2>4. RetryPlace' BY <1>4, NobodyRetries
  <2> QED BY <1>2, <2>1, <2>2, <2>3, <2>4 DEF OneInserts
<1> QED BY <1>7, <1>8

LEMMA OutAtAgent ==
  ASSUME Inv, RetryPlace, NEW t, NEW p \in Procs,
         AgentEnds(p) \/ FindOpenDuplicate(p) \/ InsertBlocker(p)
  PROVE  NobodyAdds(t) /\ RetryPlace'
<1>0. runs' = runs BY DEF AgentEnds, FindOpenDuplicate, InsertBlocker, tables
<1>1. CASE AgentEnds(p)
  BY <1>0, <1>1, OutTurning DEF AgentEnds, FailRun
<1>2. ASSUME NEW b, AfterCreate(p, b) PROVE NobodyAdds(t) /\ RetryPlace'
  <2>1. PICK l, f : l \in {"findDuplicate", "readRun"} /\ Goto(p, l, f) BY <1>2 DEF AfterCreate
  <2>2. ~Joins(l, f, t)
    <3>1. l # "insertRun" /\ l \notin Updating BY <2>1 DEF Updating
    <3> QED BY <3>1 DEF Joins
  <2> QED BY <1>0, <2>1, <2>2, OutQuietly
<1>3. ASSUME Goto(p, "insertBlocker", my[p]) PROVE NobodyAdds(t) /\ RetryPlace'
  <2>1. PICK f : Goto(p, "insertBlocker", f) BY <1>3
  <2>2. ~Joins("insertBlocker", f, t) BY DEF Joins, Updating
  <2> QED BY <1>0, <2>1, <2>2, OutQuietly
<1> QED BY <1>1, <1>2, <1>3 DEF FindOpenDuplicate, InsertBlocker

LEMMA OutReading ==
  ASSUME Inv, RetryPlace, NEW t, NEW p \in Procs,
         ReadForUpdate(p) \/ ReadRun(p) \/ ReadTask(p)
  PROVE  NobodyAdds(t) /\ RetryPlace'
<1>0. my[p] \in Frames /\ runs' = runs BY DEF Inv, TypeOK, ReadForUpdate, ReadRun, ReadTask, tables
<1>1. CASE ReadForUpdate(p)
  <2> DEFINE f == [my[p] EXCEPT !.seen = status[my[p].task]]
  <2>1. f.op = my[p].op /\ f.task = my[p].task BY <1>0, Variations
  <2>2. CASE Goto(p, "swap", f)
    <3> HIDE DEF f
    <3>1. Joins("swap", f, t) => p \in Contenders(t) BY <1>1, <2>1 DEF Joins, Contenders, ReadForUpdate
    <3> QED BY <1>0, <2>2, <3>1, OutQuietly
  <2> QED BY <1>0, <1>1, <2>2, OutAfterRejection DEF ReadForUpdate
<1>2. ASSUME Goto(p, "writeRun", my[p]),
             my[p].op \in {"block", "resume"} => runs[my[p].run].status = "RUNNING"
      PROVE  NobodyAdds(t) /\ RetryPlace'
  <2>1. PICK f : f = my[p] OBVIOUS
  <2>2. Goto(p, "writeRun", f) BY <1>2, <2>1
  <2>3. f.op \in {"block", "resume"} => runs[f.run].status = "RUNNING" BY <1>2, <2>1
  <2> QED BY <1>0, <2>2, <2>3, OutToWrite
<1>3. CASE ReadRun(p)
  <2>1. CASE my[p].op = "complete" /\ runs[my[p].run].status = "RUNNING"
    BY <1>0, <1>3, <2>1, OutUpdating DEF ReadRun
  <2>2. CASE my[p].op = "block" /\ runs[my[p].run].status = "RUNNING"
    BY <1>2, <1>3, <2>2 DEF ReadRun
  <2>3. CASE my[p].op = "fail"
    BY <1>0, <1>2, <1>3, <2>3, OutReturning DEF ReadRun
  <2>4. CASE /\ ~(my[p].op = "complete" /\ runs[my[p].run].status = "RUNNING")
             /\ ~(my[p].op = "block" /\ runs[my[p].run].status = "RUNNING")
             /\ my[p].op # "fail"
    BY <1>0, <1>3, <2>4, OutTurning DEF ReadRun, FailRun
  <2> QED BY <2>1, <2>2, <2>3, <2>4
<1>4. CASE ReadTask(p)
  <2>1. CASE my[p].op = "start"
    <3>1. PICK f : Goto(p, "checkActive", f) BY <1>4, <2>1 DEF ReadTask
    <3>2. ~Joins("checkActive", f, t) BY DEF Joins, Updating
    <3> QED BY <1>0, <3>1, <3>2, OutQuietly
  <2>2. CASE my[p].op = "complete"
    BY <1>0, <1>2, <1>4, <2>2, OutTurning DEF ReadTask, FailRun
  <2>3. CASE my[p].op = "retryReset"
    <3> DEFINE g == [my[p] EXCEPT !.op = "retry"]
    <3>1. Update(p, my[p], "READY") \/ Update(p, g, "READY") BY <1>4, <2>3 DEF ReadTask
    <3>2. g \in Frames /\ g.op = "retry" BY <1>0, Variations DEF Frames, Errands, OpNames
    <3> HIDE DEF g
    <3> QED BY <1>0, <2>3, <3>1, <3>2, OutUpdating
  <2>4. CASE my[p].op \notin {"start", "complete", "retryReset"}
    <3>1. Return(p) \/ \E s : Update(p, my[p], s)
      <4>1. CASE my[p].op = "fail" BY <1>4, <4>1 DEF ReadTask
      <4>2. CASE my[p].op = "stop" BY <1>4, <4>2 DEF ReadTask
      <4>3. CASE my[p].op \notin {"fail", "stop"} BY <1>4, <2>4, <4>3 DEF ReadTask
      <4> QED BY <4>1, <4>2, <4>3
    <3> QED BY <1>0, <2>4, <3>1, OutReturning, OutUpdating
  <2> QED BY <2>1, <2>2, <2>3, <2>4
<1> QED BY <1>1, <1>3, <1>4

\* A write of one row: only block_run and resume_run write an active status, and
\* theirs is a live run by then.
LEMMA OutWriting ==
  ASSUME Inv, RetryPlace, NEW t, NEW p \in Procs, WriteRun(p)
  PROVE  NobodyAdds(t) /\ RetryPlace'
<1>0. my[p] \in Frames /\ my[p].run \in RunIds \cup {0} /\ pc[p] = "writeRun"
  BY DEF Inv, TypeOK, Frames, WriteRun
<1> DEFINE Writes(s, l, f) ==
             /\ s \in RunStatuses /\ l \in {"idle", "update", "readTask"}
             /\ SetRun(my[p].run, s) /\ Goto(p, l, f)
             /\ s \in {"RUNNING", "BLOCKED"} => my[p].op \in {"block", "resume"}
             /\ l = "update" => f.op \in {"block", "resume"}
<1>1. PICK s, l, f : Writes(s, l, f)
  <2>1. CASE my[p].op = "complete" BY <2>1 DEF WriteRun, Return, RunStatuses
  <2>2. ASSUME NEW w, my[p].op \in {"block", "resume"},
               NEW active \in {"BLOCKED", "RUNNING"}, SetRun(my[p].run, active),
               Update(p, my[p], w)
        PROVE  \E s, l, f : Writes(s, l, f)
    <3> DEFINE g == [my[p] EXCEPT !.want = w]
    <3>1. Goto(p, "update", g) /\ g.op = my[p].op BY <1>0, <2>2, Variations DEF Update
    <3> HIDE DEF g
    <3>2. Writes(active, "update", g) BY <2>2, <3>1 DEF RunStatuses
    <3> QED BY <3>2
  <2>3. CASE my[p].op \in {"block", "resume"} BY <2>2, <2>3 DEF WriteRun
  <2>4. CASE my[p].op \notin {"complete", "block", "resume"} BY <2>4 DEF WriteRun, RunStatuses
  <2> QED BY <2>1, <2>3, <2>4
<1>2. ~Joins(l, f, t) BY <1>1 DEF Joins, Updating
<1>3. \A r \in RunIds : runs'[r].task = t =>
        runs[r].task = t /\ (runs'[r].status \in {"RUNNING", "BLOCKED"} => r \in LiveRuns(t))
  <2>1. CASE my[p].run \in RunIds
    <3>1. \A r \in RunIds : /\ runs'[r].task = runs[r].task
                            /\ runs'[r].status = IF r = my[p].run THEN s ELSE runs[r].status
      BY <1>1, <2>1, SetRunRow
    <3> QED BY <1>0, <1>1, <3>1 DEF LiveRuns
  <2>2. CASE my[p].run = 0
    <3>1. \A r \in RunIds : runs'[r] = runs[r]
      BY <1>1, <2>2, RunsType DEF SetRun, RunIds
    <3> QED BY <3>1 DEF LiveRuns
  <2> QED BY <1>0, <2>1, <2>2
<1> QED BY <1>1, <1>2, <1>3, StaysOut

\* What operators do fails runs or takes up one that is active.
LEMMA OutOperating ==
  ASSUME Inv, RetryPlace, NEW t, NEW p \in Procs,
         \/ \E u \in Tasks : \/ StartTaskRun(p, u) \/ StopRun(p, u) \/ ResumeRun(p, u)
                             \/ ResetBlockedRun(p, u) \/ RetryTask(p, u)
                             \/ \E s \in Statuses : SetStatus(p, u, s)
         \/ \E b \in BlockerIds : AnswerBlocker(p, b) \/ ResolveBlocker(p, b)
         \/ LeaveRunning(p) \/ Crash(p)
         \/ WriteAnswer(p) \/ PeekActive(p) \/ ReadActive(p) \/ WriteResolved(p)
         \/ ResetForRetry(p)
  PROVE  NobodyAdds(t) /\ RetryPlace'
<1>0. my[p] \in Frames BY DEF Inv, TypeOK
<1>1. runs' = runs => \A r \in RunIds :
        runs'[r].status \in {"RUNNING", "BLOCKED"} /\ runs'[r].task = t => r \in LiveRuns(t)
  BY DEF LiveRuns
<1>2. ASSUME NEW u, FailBlockedRuns(u)
      PROVE  \A r \in RunIds : runs'[r].task = t =>
               runs[r].task = t /\ (runs'[r].status \in {"RUNNING", "BLOCKED"} => r \in LiveRuns(t))
  <2>1. \A r \in RunIds : runs'[r].task = runs[r].task /\ runs'[r].status \in {runs[r].status, "FAILED"}
    BY <1>2, RunsType DEF FailBlockedRuns
  <2> QED BY <2>1 DEF LiveRuns
<1>3. ASSUME NEW l \in {"checkActive", "readTask", "writeAnswer", "writeResolved", "peekActive",
                        "readActive"}, NEW f, Goto(p, l, f), runs' = runs
      PROVE  NobodyAdds(t) /\ RetryPlace'
  <2>1. ~Joins(l, f, t) BY DEF Joins, Updating
  <2> QED BY <1>3, <2>1, OutQuietly
<1>4. ASSUME NEW u \in Tasks, ResetBlockedRun(p, u) PROVE NobodyAdds(t) /\ RetryPlace'
  <2>1. PICK f : Goto(p, "readTask", f) BY <1>4 DEF ResetBlockedRun
  <2>2. ~Joins("readTask", f, t) BY DEF Joins, Updating
  <2>3. FailBlockedRuns(u) BY <1>4 DEF ResetBlockedRun
  <2> QED BY <1>2, <2>1, <2>2, <2>3, StaysOut
<1>5. CASE ResetForRetry(p)
  <2>1. FailBlockedRuns(my[p].task) /\ my[p].op = "retry" BY <1>5 DEF ResetForRetry, RetryPlace
  <2>2. CASE Goto(p, "readTask", [my[p] EXCEPT !.op = "retryReset"])
    <3>1. PICK f : Goto(p, "readTask", f) BY <2>2
    <3>2. ~Joins("readTask", f, t) BY DEF Joins, Updating
    <3>3. \A r \in RunIds : runs'[r].task = t =>
            runs[r].task = t /\ (runs'[r].status \in {"RUNNING", "BLOCKED"} => r \in LiveRuns(t))
      BY <1>2, <2>1
    <3> QED BY <3>1, <3>2, <3>3, StaysOut
  <2>3. CASE Update(p, my[p], "READY")
    <3> DEFINE g == [my[p] EXCEPT !.want = "READY"]
    <3>1. Goto(p, "update", g) /\ g.op = "retry" BY <1>0, <2>1, <2>3, Variations DEF Update
    <3> HIDE DEF g
    <3>2. ~Joins("update", g, t) BY <3>1 DEF Joins
    <3> QED BY <1>2, <2>1, <3>1, <3>2, StaysOut
  <2> QED BY <1>5, <2>2, <2>3 DEF ResetForRetry
<1>6. ASSUME NEW u \in Tasks, StartTaskRun(p, u) PROVE NobodyAdds(t) /\ RetryPlace'
  <2>1. runs' = runs /\ \E f : Goto(p, "checkActive", f) BY <1>6 DEF StartTaskRun, tables
  <2> QED BY <1>3, <2>1
<1>7. ASSUME NEW f, Goto(p, "writeRun", f), runs' = runs,
             f.op \notin {"block", "resume"} \/ \E u : f.run \in ActiveRuns(u)
      PROVE  NobodyAdds(t) /\ RetryPlace'
  BY <1>7, OutToWrite DEF ActiveRuns
<1>8. ASSUME NEW u \in Tasks, StopRun(p, u) \/ ResumeRun(p, u) PROVE NobodyAdds(t) /\ RetryPlace'
  <2>1. PICK name \in {"stop", "resume"}, r \in ActiveRuns(u) :
          runs' = runs /\ Goto(p, "writeRun", [Frame(name, u) EXCEPT !.run = r])
    BY <1>8 DEF StopRun, ResumeRun, NewestActive, tables
  <2> DEFINE g == [Frame(name, u) EXCEPT !.run = r]
  <2>2. Frame(name, u) \in Frames BY NewFrame DEF Errands, OpNames
  <2>3. g.run = r BY <2>2 DEF Frames
  <2>4. Goto(p, "writeRun", g) BY <2>1
  <2> HIDE DEF g
  <2> QED BY <1>7, <2>1, <2>3, <2>4
<1>9. CASE ReadActive(p)
  <2>1. runs' = runs BY <1>9 DEF ReadActive, tables
  <2>2. ASSUME NEW r, Goto(p, "writeRun", [my[p] EXCEPT !.op = "stop", !.run = r])
        PROVE  NobodyAdds(t) /\ RetryPlace'
    <3> DEFINE g == [my[p] EXCEPT !.op = "stop", !.run = r]
    <3>1. g.op = "stop" BY <1>0, Variations
    <3>2. Goto(p, "writeRun", g) BY <2>2
    <3> HIDE DEF g
    <3> QED BY <1>7, <2>1, <3>1, <3>2
  <2> QED BY <1>3, <1>9, <2>1, <2>2 DEF ReadActive
<1>10. ASSUME NEW u \in Tasks, RetryTask(p, u) PROVE NobodyAdds(t) /\ RetryPlace'
  <2>1. Goto(p, "resetRuns", Frame("retry", u)) /\ runs' = runs BY <1>10 DEF RetryTask, tables
  <2>2. Frame("retry", u).op = "retry" BY NewFrame DEF Errands, OpNames
  <2>3. ~Joins("resetRuns", Frame("retry", u), t) BY DEF Joins, Updating
  <2> QED BY <1>1, <2>1, <2>2, <2>3, StaysOut
<1>11. ASSUME NEW u \in Tasks, NEW s \in Statuses, SetStatus(p, u, s)
       PROVE  NobodyAdds(t) /\ RetryPlace'
  <2>1. Frame("set", u) \in Frames /\ Frame("set", u).op = "set" BY NewFrame DEF Errands, OpNames
  <2>2. Update(p, Frame("set", u), s) /\ runs' = runs BY <1>11 DEF SetStatus, tables
  <2> QED BY <2>1, <2>2, OutUpdating
<1>12. ASSUME NEW b \in BlockerIds, AnswerBlocker(p, b) \/ ResolveBlocker(p, b)
       PROVE  NobodyAdds(t) /\ RetryPlace'
  <2>1. runs' = runs /\ \E l, f : l \in {"writeAnswer", "writeResolved"} /\ Goto(p, l, f)
    BY <1>12 DEF AnswerBlocker, ResolveBlocker, tables
  <2> QED BY <1>3, <2>1
<1>13. CASE LeaveRunning(p) \/ Crash(p) \/ WriteResolved(p)
  BY <1>13, OutReturning DEF LeaveRunning, Crash, WriteResolved, tables
<1>14. CASE WriteAnswer(p) \/ PeekActive(p)
  <2>1. runs' = runs /\ (Return(p) \/ \E l \in {"peekActive", "readActive"} : Goto(p, l, my[p]))
    BY <1>14 DEF WriteAnswer, PeekActive, tables
  <2> QED BY <1>3, <2>1, OutReturning
<1> QED BY <1>4, <1>5, <1>6, <1>8, <1>9, <1>10, <1>11, <1>12, <1>13, <1>14

LEMMA ContendersStep ==
  ASSUME Inv, RetryPlace, [Next]_vars, NEW t
  PROVE  (ActiveRuns(t) # {} => NobodyAdds(t) \/ OneInserts(t)) /\ RetryPlace'
<1>1. ASSUME NEW p \in Procs, CompareAndSet(p) \/ DispatchClose(p)
      PROVE  NobodyAdds(t) /\ RetryPlace'
  <2>1. pc[p] \in {"swap", "close"} /\ runs' = runs BY <1>1 DEF CompareAndSet, DispatchClose
  <2>2. CASE pc[p] = "swap" /\ Goto(p, "close", my[p])
    <3>0. PICK f : f = my[p] OBVIOUS
    <3>1. Joins("close", f, t) => p \in Contenders(t) BY <2>2, <3>0 DEF Joins, Contenders
    <3>2. Goto(p, "close", f) BY <2>2, <3>0
    <3> QED BY <2>1, <3>1, <3>2, OutQuietly
  <2>3. \/ pc[p] = "swap" /\ Goto(p, "close", my[p])
        \/ AfterUpdate(p) \/ AfterRejection(p)
    BY <1>1 DEF CompareAndSet, DispatchClose
  <2> QED BY <2>1, <2>2, <2>3, OutAfterUpdate, OutAfterRejection
<1>2. CASE UNCHANGED vars
  <2>1. runs' = runs /\ pc' = pc /\ my' = my BY <1>2 DEF vars
  <2> QED BY <2>1 DEF NobodyAdds, LiveRuns, Contenders, RetryPlace
<1>3. ASSUME NEW p \in Procs, Step(p) \/ Request(p)
      PROVE  (ActiveRuns(t) # {} => NobodyAdds(t) \/ OneInserts(t)) /\ RetryPlace'
  <2>1. CASE CheckActive(p) BY <2>1, OutChecking
  <2>2. CASE InsertRun(p) BY <2>2, OutInserting
  <2>3. CASE AgentEnds(p) \/ FindOpenDuplicate(p) \/ InsertBlocker(p) BY <2>3, OutAtAgent
  <2>4. CASE ReadForUpdate(p) \/ ReadRun(p) \/ ReadTask(p) BY <2>4, OutReading
  <2>5. CASE WriteRun(p) BY <2>5, OutWriting
  <2>6. CASE CompareAndSet(p) \/ DispatchClose(p) BY <1>1, <2>6
  <2>7. CASE WriteAnswer(p) \/ PeekActive(p) \/ ReadActive(p) \/ WriteResolved(p)
             \/ ResetForRetry(p) \/ Request(p)
    BY <2>7, OutOperating DEF Request
  <2> QED BY <1>3, <2>1, <2>2, <2>3, <2>4, <2>5, <2>6, <2>7 DEF Step
<1> QED BY <1>2, <1>3 DEF Next

\* With any number of starters and every operation there is, deaths and resumes
\* included, an active run keeps all those out who had not looked before it was
\* there: the set of contenders only shrinks, and each of them adds at most one run.
\* This is what the look of start_task_run is worth, which is no lock: runtime.py:99.
THEOREM OnlyContendersStartAlways == Spec => OnlyContendersStart
<1>1. Init => RetryPlace BY DEF Init, RetryPlace
<1>2. Inv /\ RetryPlace /\ [Next]_vars => RetryPlace' BY ContendersStep
<1>3. Inv /\ RetryPlace /\ [Next]_vars =>
        [\A t \in Tasks : ActiveRuns(t) # {} =>
           \/ LiveRuns(t)' \subseteq LiveRuns(t) /\ Contenders(t)' \subseteq Contenders(t)
           \/ \E p \in Contenders(t), r \in RunIds :
                 /\ LiveRuns(t)' \subseteq LiveRuns(t) \cup {r}
                 /\ Contenders(t)' \subseteq Contenders(t) \ {p}]_vars
  BY ContendersStep DEF NobodyAdds, OneInserts
<1> QED BY <1>1, <1>2, <1>3, Invariant, PTL DEF Spec, OnlyContendersStart
=============================================================================
