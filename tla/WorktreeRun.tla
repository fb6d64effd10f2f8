---------------------------- MODULE WorktreeRun ----------------------------
(* Runs with --isolation worktree: execute_agent's use of                     *)
(* core/sandbox/context.py and core/worktrees.py. Each run works on a branch  *)
(* cf/<task> in a directory of its own; the merge back happens in the one     *)
(* main working tree, under a lock the processes share (where there is flock) *)
(* and humans do not.                                                         *)
(*                                                                            *)
(* One action is one git command. The work of a run is the run itself: a      *)
(* directory, a branch or the base holds the runs whose work is in it.        *)
EXTENDS Integers

CONSTANTS Runs, Tasks,       \* runs are numbered in the order they begin
          Branches, Main,   \* the user's branches; "main"
          Nobody, Human,    \* no task, no run; a merge of the human's own
          Detached,         \* what rev-parse answers off any branch
          MaxMeddling       \* how often the human switches or begins or ends a merge

ASSUME NamesAssumption == {Nobody, Human} \cap (Tasks \cup Runs) = {} /\ Nobody # Human
ASSUME RunsAssumption == Runs \subseteq Nat
ASSUME MeddlingAssumption == MaxMeddling \in Nat
ASSUME BranchesAssumption == Main \in Branches /\ {Detached, Nobody} \cap Branches = {} /\ Detached # Nobody

VARIABLES
  task,       \* the task of the run
  row,        \* its row
  pc,         \* where the process executing the run is
  verdict,    \* state.status, as execute_agent has it
  merged,     \* the runs whose worktree_merged is set
  own,        \* the runs whose context was created
  base,       \* the branch the context was created from
  made,       \* the runs whose agent changed files
  discarded,  \* the runs whose work a human threw away
  crossed,    \* crossed[r]: what a human switched to last between r's checkout and merge
  head,       \* what the main tree has checked out
  content,    \* content[b]: the work on branch b
  midmerge,   \* the run, or the human, whose merge the main tree is in the middle of
  lock,       \* who holds .git/cf-merge.lock
  meddling,   \* how often the human has done that
  dirs,       \* the tasks with a worktree directory
  loose,      \* the uncommitted work in it
  branches,   \* the tasks with a branch cf/<task>
  commits     \* the work committed on it

ledger == <<task, row, pc, verdict, merged, own, base>>
tree == <<head, content, midmerge, lock, meddling>>
worktrees == <<dirs, loose, branches, commits>>
work == <<made, discarded, crossed>>   \* history
vars == <<ledger, work, tree, worktrees>>

Labels == {"new", "check", "add", "agent", "commit", "lock", "checkout", "merge", "abort",
           "unlock", "record", "removeDir", "deleteBranch", "over", "dead"}
Active == {"RUNNING", "BLOCKED"}

Alive(r) == pc[r] \notin {"new", "over", "dead"}
RunsOf(t) == { r \in Runs : task[r] = t }

Init ==
  /\ task = [r \in Runs |-> Nobody] /\ row = [r \in Runs |-> "none"] /\ pc = [r \in Runs |-> "new"]
  /\ verdict = [r \in Runs |-> "none"] /\ merged = {} /\ own = {}
  /\ base = [r \in Runs |-> Main]
  /\ made = {} /\ discarded = {} /\ crossed = [r \in Runs |-> Nobody]
  /\ head \in Branches /\ content = [b \in Branches |-> {}]
  /\ midmerge = Nobody /\ lock = Nobody /\ meddling = 0
  /\ dirs = {} /\ loose = [t \in Tasks |-> {}]
  /\ branches = {} /\ commits = [t \in Tasks |-> {}]

To(r, label) == pc' = [pc EXCEPT ![r] = label]

\* The process is gone, and its variables with it.
Quit(r, label) ==
  /\ To(r, label)
  /\ verdict' = [verdict EXCEPT ![r] = "none"]
  /\ merged' = merged \ {r} /\ own' = own \ {r}

\* execute_agent goes to the end with what state.status is now.
Settle(r, v) == To(r, "record") /\ verdict' = [verdict EXCEPT ![r] = v]

-----------------------------------------------------------------------------
(* The worktree is made.                                                      *)

\* start_task_run lets one run of a task be active.
Begin(r, t) ==
  /\ pc[r] = "new" /\ \A s \in Runs : s < r => pc[s] # "new"
  /\ \A s \in RunsOf(t) : row[s] \notin Active
  /\ task' = [task EXCEPT ![r] = t]
  /\ row' = [row EXCEPT ![r] = "RUNNING"] /\ To(r, "check")
  /\ UNCHANGED <<verdict, merged, own, base, work, tree, worktrees>>

\* Mutant: a detached HEAD's name is taken for a branch.
BaseBranch_Raw == head

\* get_base_branch.
BaseBranch == IF head = Detached THEN Main ELSE head

\* _create_worktree_context refuses what an earlier run left behind.
Check(r) ==
  /\ pc[r] = "check"
  /\ IF task[r] \in dirs \cup branches
     THEN Settle(r, "failed") /\ UNCHANGED base
     ELSE To(r, "add") /\ base' = [base EXCEPT ![r] = BaseBranch] /\ UNCHANGED verdict
  /\ UNCHANGED <<task, row, merged, own, work, tree, worktrees>>

\* Mutant: a directory and a branch that are there already are used (add -B --force).
Add_Reuses(r) ==
  /\ pc[r] = "add"
  /\ dirs' = dirs \cup {task[r]} /\ branches' = branches \cup {task[r]}
  /\ own' = own \cup {r} /\ To(r, "agent")
  /\ UNCHANGED <<task, row, verdict, merged, base, work, tree, loose, commits>>

\* git worktree add -b: refused when another run was quicker; when it fails on
\* its own it may leave the branch.
Add(r) ==
  /\ pc[r] = "add"
  /\ LET t == task[r] IN
       \/ /\ t \notin dirs \cup branches
          /\ dirs' = dirs \cup {t} /\ branches' = branches \cup {t}
          /\ own' = own \cup {r} /\ To(r, "agent") /\ UNCHANGED verdict
       \/ /\ Settle(r, "failed")
          /\ branches' \in {branches, branches \cup {t}}
          /\ UNCHANGED <<dirs, own>>
  /\ UNCHANGED <<task, row, merged, base, work, tree, loose, commits>>

\* The engine, with its outcome; hooks and exceptions included.
Agent(r) ==
  /\ pc[r] = "agent"
  /\ \/ made' = made \cup {r} /\ loose' = [loose EXCEPT ![task[r]] = @ \cup {r}]
     \/ UNCHANGED <<made, loose>>
  /\ \/ To(r, "commit") /\ verdict' = [verdict EXCEPT ![r] = "completed"]
     \/ Settle(r, "blocked")
     \/ Settle(r, "failed")
  /\ UNCHANGED <<task, row, merged, own, base, discarded, crossed, tree, dirs, branches, commits>>

-----------------------------------------------------------------------------
(* The merge back of a completed run.                                         *)

\* auto_commit raises when git add or git commit fails.
Commit(r) ==
  /\ pc[r] = "commit"
  /\ \/ /\ To(r, "lock") /\ UNCHANGED verdict
        /\ loose' = [loose EXCEPT ![task[r]] = {}]
        /\ commits' = [commits EXCEPT ![task[r]] = @ \cup loose[task[r]]]
     \/ Settle(r, "blocked") /\ UNCHANGED <<loose, commits>>
  /\ UNCHANGED <<task, row, merged, own, base, work, tree, dirs, branches>>

\* Mutant: the lock is a no-op.
Lock_NoOp(r) ==
  /\ pc[r] = "lock"
  /\ lock' = r /\ To(r, "checkout")
  /\ UNCHANGED <<task, row, verdict, merged, own, base, work, head, content, midmerge, meddling, worktrees>>

Lock(r) ==
  /\ pc[r] = "lock" /\ lock = Nobody
  /\ lock' = r /\ To(r, "checkout")
  /\ UNCHANGED <<task, row, verdict, merged, own, base, work, head, content, midmerge, meddling, worktrees>>

\* Mutant: the exception of a failed checkout leaves the lock taken.
Checkout_KeepsLock(r) ==
  /\ pc[r] = "checkout"
  /\ \/ midmerge = Nobody /\ head' = base[r] /\ To(r, "merge") /\ UNCHANGED verdict
     \/ UNCHANGED head /\ Settle(r, "blocked")
  /\ UNCHANGED <<task, row, merged, own, base, work, content, midmerge, lock, meddling, worktrees>>

\* git checkout <base>: refused in the middle of a merge with conflicts (one
\* without them may go on), or because of what the human changed in the main tree.
Checkout(r) ==
  /\ pc[r] = "checkout"
  /\ \/ /\ midmerge = Nobody \/ head = base[r]
        /\ head' = base[r] /\ To(r, "merge") /\ UNCHANGED verdict
     \/ /\ UNCHANGED head
        /\ To(r, "unlock") /\ verdict' = [verdict EXCEPT ![r] = "blocked"]
  /\ UNCHANGED <<task, row, merged, own, base, work, content, midmerge, lock, meddling, worktrees>>

\* git merge --no-ff into whatever is checked out, be it no branch (whose commits
\* the next checkout leaves behind); it conflicts, or refuses to begin.
Merge(r) ==
  /\ pc[r] = "merge"
  /\ \/ /\ midmerge = Nobody
        /\ content' = [b \in Branches |-> IF b = head THEN content[b] \cup commits[task[r]]
                                                     ELSE content[b]]
        /\ merged' = merged \cup {r} /\ To(r, "unlock") /\ UNCHANGED <<midmerge, crossed>>
     \/ /\ To(r, "abort")
        /\ midmerge' \in IF midmerge = Nobody THEN {Nobody, r} ELSE {midmerge}
        /\ crossed' = [crossed EXCEPT ![r] = Nobody]
        /\ UNCHANGED <<content, merged>>
  /\ UNCHANGED <<task, row, verdict, own, base, made, discarded, head, lock, meddling, worktrees>>

\* Mutant: what became of the merge is not looked at (MergeResult.success).
Abort_Unreported(r) ==
  /\ pc[r] = "abort"
  /\ midmerge' \in {midmerge, Nobody} /\ To(r, "unlock")
  /\ UNCHANGED <<task, row, verdict, merged, own, base, work, head, content, lock, meddling, worktrees>>

\* git merge --abort, of whoever's merge it is; nobody looks whether it fails.
Abort(r) ==
  /\ pc[r] = "abort"
  /\ midmerge' \in {midmerge, Nobody}
  /\ verdict' = [verdict EXCEPT ![r] = "blocked"] /\ To(r, "unlock")
  /\ UNCHANGED <<task, row, merged, own, base, work, head, content, lock, meddling, worktrees>>

Unlock(r) ==
  /\ pc[r] = "unlock"
  /\ lock' = Nobody /\ To(r, "record")
  /\ UNCHANGED <<task, row, verdict, merged, own, base, work, head, content, midmerge, meddling, worktrees>>

-----------------------------------------------------------------------------
(* The end of execute_agent.                                                  *)

\* Mutant: the context is cleaned up whatever became of the run (#714).
Record_AlwaysCleans(r) ==
  /\ pc[r] = "record"
  /\ IF r \in own THEN To(r, "removeDir") /\ UNCHANGED <<verdict, merged, own>>
                 ELSE Quit(r, "over")
  /\ row' = [row EXCEPT ![r] = IF @ = "RUNNING" THEN "FAILED" ELSE @]
  /\ UNCHANGED <<task, base, work, tree, worktrees>>

\* The row is written if it is still RUNNING; a blocker that cannot be created,
\* or a task that cannot be moved, makes it FAILED. Then the context is cleaned
\* up if its work was merged, and preserved if not.
Record(r) ==
  /\ pc[r] = "record"
  /\ IF r \in merged THEN To(r, "removeDir") /\ UNCHANGED <<verdict, merged, own>>
                    ELSE Quit(r, "over")
  /\ LET word == CASE verdict[r] = "completed" -> "COMPLETED"
                   [] verdict[r] = "blocked"   -> "BLOCKED"
                   [] OTHER                    -> "FAILED"
     IN  row' \in IF row[r] = "RUNNING" THEN {[row EXCEPT ![r] = w] : w \in {word, "FAILED"}}
                                        ELSE {row}
  /\ UNCHANGED <<task, base, work, tree, worktrees>>

\* git worktree remove --force takes what is not committed with it, or fails.
RemoveDir(r) ==
  /\ pc[r] = "removeDir"
  /\ To(r, "deleteBranch")
  /\ \/ dirs' = dirs \ {task[r]} /\ loose' = [loose EXCEPT ![task[r]] = {}]
     \/ UNCHANGED <<dirs, loose>>
  /\ UNCHANGED <<task, row, verdict, merged, own, base, work, tree, branches, commits>>

\* git branch -D: refused while a worktree has the branch checked out.
DeleteBranch(r) ==
  /\ pc[r] = "deleteBranch"
  /\ Quit(r, "over")
  /\ \/ /\ task[r] \notin dirs
        /\ branches' = branches \ {task[r]} /\ commits' = [commits EXCEPT ![task[r]] = {}]
     \/ UNCHANGED <<branches, commits>>
  /\ UNCHANGED <<task, row, base, work, tree, dirs, loose>>

\* The process dies; the kernel drops its flock.
Crash(r) ==
  /\ Alive(r)
  /\ Quit(r, "dead")
  /\ lock' = IF lock = r THEN Nobody ELSE lock
  /\ UNCHANGED <<task, row, base, work, head, content, midmerge, meddling, worktrees>>

RunStep(r) ==
  \/ Check(r) \/ Add(r) \/ Agent(r) \/ Commit(r) \/ Lock(r) \/ Checkout(r) \/ Merge(r)
  \/ Abort(r) \/ Unlock(r) \/ Record(r) \/ RemoveDir(r) \/ DeleteBranch(r)

-----------------------------------------------------------------------------
(* The human, whom the lock does not bind: the main tree may change between    *)
(* any two git commands of a run. A task's worktree is left to its process.   *)

\* cf work stop, or the answer to a blocker: the row ends, a live process does
\* not.
Stop(r) ==
  /\ row[r] \in Active
  /\ row' = [row EXCEPT ![r] = "FAILED"]
  /\ UNCHANGED <<task, pc, verdict, merged, own, base, work, tree, worktrees>>

Leave(t) ==
  /\ dirs' = dirs \ {t} /\ branches' = branches \ {t}
  /\ loose' = [loose EXCEPT ![t] = {}] /\ commits' = [commits EXCEPT ![t] = {}]

\* A preserved worktree is thrown away, as the error message says it may be.
Discard(t) ==
  /\ \A r \in RunsOf(t) : ~Alive(r)
  /\ t \in dirs \cup branches
  /\ discarded' = discarded \cup loose[t] \cup commits[t]
  /\ Leave(t)
  /\ UNCHANGED <<ledger, made, crossed, tree>>

\* Or merged by hand.
Recover(t) ==
  /\ \A r \in RunsOf(t) : ~Alive(r)
  /\ t \in branches /\ midmerge = Nobody /\ head \in Branches
  /\ content' = [content EXCEPT ![head] = @ \cup loose[t] \cup commits[t]]
  /\ Leave(t)
  /\ UNCHANGED <<ledger, work, head, midmerge, lock, meddling>>

\* The human does something to the main tree, whoever has the lock.
Meddle ==
  /\ meddling < MaxMeddling /\ meddling' = meddling + 1
  /\ UNCHANGED <<ledger, made, discarded, content, lock, worktrees>>

\* git checkout, refused in the middle of a merge.
Switch ==
  /\ Meddle /\ midmerge = Nobody
  /\ head' \in (Branches \cup {Detached}) \ {head}
  /\ crossed' = [r \in Runs |-> IF pc[r] = "merge" THEN head' ELSE crossed[r]]
  /\ UNCHANGED midmerge

\* A merge of the human's own begins, or the one in the tree is ended.
HumanMerge ==
  /\ Meddle
  /\ midmerge' = IF midmerge = Nobody THEN Human ELSE Nobody
  /\ UNCHANGED <<head, crossed>>

Next ==
  \/ \E r \in Runs : (\E t \in Tasks : Begin(r, t)) \/ RunStep(r) \/ Crash(r) \/ Stop(r)
  \/ \E t \in Tasks : Discard(t) \/ Recover(t)
  \/ Switch \/ HumanMerge

Spec == Init /\ [][Next]_vars

\* Git commands and agents return; nobody has to crash, stop or tidy up.
FairSpec == Spec /\ \A r \in Runs : WF_vars(RunStep(r))

-----------------------------------------------------------------------------
\* Every variable has the shape the code gives it; in particular a context has
\* a branch to merge into (get_base_branch never answers "HEAD").
TypeOK ==
  /\ task \in [Runs -> Tasks \cup {Nobody}]
  /\ row \in [Runs -> {"none", "RUNNING", "COMPLETED", "FAILED", "BLOCKED"}]
  /\ pc \in [Runs -> Labels]
  /\ verdict \in [Runs -> {"none", "completed", "blocked", "failed"}]
  /\ merged \subseteq own /\ own \subseteq Runs
  /\ base \in [Runs -> Branches]
  /\ made \subseteq Runs /\ discarded \subseteq Runs
  /\ crossed \in [Runs -> Branches \cup {Detached, Nobody}]
  /\ head \in Branches \cup {Detached} /\ content \in [Branches -> SUBSET Runs]
  /\ midmerge \in Runs \cup {Human, Nobody} /\ lock \in Runs \cup {Nobody} /\ meddling \in 0..MaxMeddling
  /\ dirs \subseteq Tasks /\ loose \in [Tasks -> SUBSET Runs]
  /\ branches \subseteq Tasks /\ commits \in [Tasks -> SUBSET Runs]

\* What an agent did is never lost to failures, conflicts, crashes, retries and
\* cleanups: it is in the worktree, on the task's branch or on a branch of the
\* user's, unless a human discarded it (#714, #787) or took HEAD off every branch
\* between the checkout and the merge.
WorkIsKept ==
  \A r \in made : \/ r \in loose[task[r]] \cup commits[task[r]] \cup discarded
                  \/ \E b \in Branches : r \in content[b]
                  \/ crossed[r] = Detached

\* What a run committed is where it belongs: on its base, or, when a human switched
\* the main tree between its checkout and its merge, on what that tree then had
\* checked out (which may be no branch).
Landed(r) ==
  IF crossed[r] = Nobody THEN r \in content[base[r]]
                         ELSE crossed[r] = Detached \/ r \in content[crossed[r]]

\* A COMPLETED run's work is on the branch the run was started from, whatever
\* other runs merge and humans switch, merge, abort and recover in the meantime.
\* Only a switch that falls between the run's own checkout and merge sends the
\* work elsewhere, and then to what was switched to.
CompletedIsMerged == \A r \in made : row[r] = "COMPLETED" => Landed(r)

\* The main tree is never left in the middle of the merge of a run that ends as if
\* it had merged: whose merge it is is at it, BLOCKED or FAILED, or its process died.
HalfMergeIsReported ==
  midmerge \in Runs =>
    /\ row[midmerge] # "COMPLETED" /\ midmerge \notin merged
    /\ \/ pc[midmerge] \in {"abort", "dead"}
       \/ verdict[midmerge] = "blocked" \/ row[midmerge] \in {"BLOCKED", "FAILED"}

\* Two processes never have the same worktree, although a stopped run's process
\* goes on while the next run of its task begins.
OneRunPerWorktree ==
  \A r, s \in own : task[r] = task[s] /\ Alive(r) /\ Alive(s) => r = s

\* Every run that begins comes to its end or dies: none waits for the lock for
\* ever.
RunIsOver == \A r \in Runs : pc[r] # "new" ~> pc[r] \in {"over", "dead"}
=============================================================================
