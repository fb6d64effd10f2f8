-------------------------- MODULE WorktreeRunProofs --------------------------
(* What WorktreeRun promises of the agents' work, for any runs, tasks and     *)
(* branches.                                                                  *)
EXTENDS WorktreeRun, TLAPS

Holding == {"checkout", "merge", "abort", "unlock"}
InTree  == Holding \cup {"agent", "commit", "lock", "removeDir", "deleteBranch"}

\* A run has a task once it has begun, and its row is COMPLETED when little is left
\* to do; a context is that of whoever works in the worktree, or has just ceased
\* to, and its branch is there.
Placed ==
  \A r \in Runs :
    /\ pc[r] # "new" => task[r] \in Tasks
    /\ row[r] = "COMPLETED" => pc[r] \in {"removeDir", "deleteBranch", "over", "dead"}
    /\ Alive(r) /\ pc[r] \notin {"removeDir", "deleteBranch"} => row[r] \in {"RUNNING", "FAILED"}
    /\ r \in own => pc[r] \in InTree \cup {"record"} /\ task[r] \in branches
    /\ pc[r] \in InTree => r \in own
    /\ pc[r] \in {"removeDir", "deleteBranch"} => r \in merged
    /\ r \in merged => pc[r] \in {"unlock", "record", "removeDir", "deleteBranch"}

\* Who is between Lock and Unlock has the lock, and merges into its base or into
\* what a human has checked out since.
Locked ==
  \A r \in Runs :
    /\ pc[r] \in Holding => lock = r
    /\ pc[r] \in {"new", "check", "add", "agent", "commit", "lock", "checkout"} => crossed[r] = Nobody
    /\ pc[r] = "merge" => head = IF crossed[r] = Nobody THEN base[r] ELSE crossed[r]

\* There is nothing in what does not exist, and in the worktree and on the branch of
\* a context only the work of its own run.
Alone ==
  /\ \A t \in Tasks : /\ t \notin dirs => loose[t] = {}
                      /\ t \notin branches => commits[t] = {}
  /\ \A r \in Runs : pc[r] = "agent" => task[r] \in dirs
  /\ \A r \in own : loose[task[r]] \cup commits[task[r]] \subseteq {r}

\* Past the commit there is nothing uncommitted, and what a merged run's task
\* committed is on a branch, unless a human took HEAD off every branch: what a
\* cleanup removes is saved elsewhere.
Saved ==
  \A r \in Runs :
    /\ pc[r] \in Holding \cup {"lock"} \/ r \in merged => loose[task[r]] = {}
    /\ r \in merged =>
         \A s \in commits[task[r]] : \/ \E b \in Branches : s \in content[b]
                                     \/ s = r /\ crossed[r] = Detached

\* Where the work of a run is on its way to its base.
Delivered ==
  \A r \in made :
    /\ pc[r] \notin {"new", "check", "add", "agent"}
    /\ pc[r] = "commit" => r \in loose[task[r]]
    /\ pc[r] \in {"lock", "checkout", "merge"} => r \in commits[task[r]]
    /\ pc[r] \in {"unlock", "record"} /\ verdict[r] = "completed" => Landed(r)
    /\ row[r] = "COMPLETED" => Landed(r)

\* How far the run is whose merge the main tree is in the middle of.
HalfMerge ==
  midmerge \in Runs =>
    /\ row[midmerge] # "COMPLETED" /\ midmerge \notin merged
    /\ \/ pc[midmerge] \in {"abort", "dead"}
       \/ pc[midmerge] \in {"unlock", "record"} /\ verdict[midmerge] = "blocked"
       \/ pc[midmerge] = "over" /\ row[midmerge] \in {"BLOCKED", "FAILED"}

IInv == /\ TypeOK /\ Placed /\ OneRunPerWorktree /\ Locked /\ Alone
        /\ WorkIsKept /\ Saved /\ Delivered /\ HalfMerge

LEMMA InitInv == Init => IInv
  BY NamesAssumption, BranchesAssumption, MeddlingAssumption
  DEF Init, IInv, work, Alone, Landed, TypeOK, Placed, OneRunPerWorktree, Locked,
      WorkIsKept, Saved, Delivered,
      HalfMerge, Labels, InTree, Holding, Alive

LEMMA BeginInv == ASSUME IInv, NEW r \in Runs, NEW t \in Tasks, Begin(r, t) PROVE IInv'
<1>1. WorkIsKept'
  <2>1. r \notin made  BY DEF IInv, work, Delivered, Begin
  <2>2. \A s \in Runs : s # r => task'[s] = task[s]  BY DEF IInv, work, TypeOK, Begin
  <2> QED  BY <2>1, <2>2 DEF IInv, work, TypeOK, WorkIsKept, Begin, tree, worktrees
<1>2. TypeOK'
  BY BranchesAssumption, MeddlingAssumption DEF IInv, work, TypeOK, Labels, Begin, To,
      RunsOf, Active, tree,
         worktrees
<1>3. Placed'
  BY NamesAssumption DEF IInv, work, TypeOK, Placed, InTree, Holding, Alive, Begin, To,
         RunsOf, Active, tree, worktrees
<1>4. OneRunPerWorktree'
  BY DEF IInv, work, TypeOK, OneRunPerWorktree, Placed, Alive, InTree, Holding, Begin, To,
         RunsOf, Active, tree, worktrees
<1>5. Locked'
  BY NamesAssumption DEF IInv, work, TypeOK, Locked, Placed, InTree, Holding, Begin, To,
         RunsOf, Active, tree, worktrees
<1>6. Saved'
  BY DEF IInv, work, TypeOK, Saved, Placed, InTree, Holding, Alive, OneRunPerWorktree,
      Begin,
         To, RunsOf, Active, tree, worktrees
<1>7. Delivered'
  BY DEF IInv, work, TypeOK, Delivered, Landed, Placed, InTree, Holding, Locked,
         OneRunPerWorktree,
         Alive, Begin, To, RunsOf, Active, tree, worktrees
<1>8. HalfMerge'
  BY NamesAssumption DEF IInv, work, TypeOK, HalfMerge, Placed, InTree, Holding, Locked,
         RunsOf, Begin, To, Active, tree, worktrees
<1>9. Alone'
  BY DEF IInv, work, TypeOK, Alone, Placed, InTree, Holding, Alive, OneRunPerWorktree,
         Begin, To, RunsOf, Active, tree, worktrees
<1> QED  BY <1>1, <1>2, <1>3, <1>4, <1>5, <1>6, <1>7, <1>8, <1>9 DEF IInv

LEMMA CheckInv == ASSUME IInv, NEW r \in Runs, Check(r) PROVE IInv'
<1>1. TypeOK'
  BY BranchesAssumption, MeddlingAssumption DEF IInv, work, TypeOK, Labels, Check, Settle,
      To, BaseBranch, tree,
         worktrees
<1>2. Placed'
  BY NamesAssumption DEF IInv, work, TypeOK, Placed, InTree, Holding, Alive, Check, Settle,
         To, BaseBranch, tree, worktrees
<1>3. OneRunPerWorktree'
  BY DEF IInv, work, TypeOK, OneRunPerWorktree, Placed, Alive, InTree, Holding, Check,
      Settle,
         To, BaseBranch, tree, worktrees
<1>4. Locked'
  BY NamesAssumption DEF IInv, work, TypeOK, Locked, Placed, InTree, Holding, Check, Settle,
         To, BaseBranch, tree, worktrees
<1>5. Saved'
  BY DEF IInv, work, TypeOK, Saved, Placed, InTree, Holding, Alive, OneRunPerWorktree,
      Check,
         Settle, To, BaseBranch, tree, worktrees
<1>6. Delivered'
  BY DEF IInv, work, TypeOK, Delivered, Landed, Placed, InTree, Holding, Locked,
         OneRunPerWorktree,
         Alive, Check, Settle, To, BaseBranch, tree, worktrees
<1>7. HalfMerge'
  BY NamesAssumption DEF IInv, work, TypeOK, HalfMerge, Placed, InTree, Holding, Locked,
         RunsOf, Check, Settle, To, BaseBranch, tree, worktrees
<1>8. WorkIsKept'
  BY DEF IInv, work, WorkIsKept, Check, tree, worktrees
<1>9. Alone'
  BY DEF IInv, work, TypeOK, Alone, Placed, InTree, Holding, Alive, OneRunPerWorktree,
         Check, Settle, To, BaseBranch, tree, worktrees
<1> QED  BY <1>1, <1>2, <1>3, <1>4, <1>5, <1>6, <1>7, <1>8, <1>9 DEF IInv

LEMMA AddInv == ASSUME IInv, NEW r \in Runs, Add(r) PROVE IInv'
<1>1. TypeOK'
  <2>1. task[r] \in Tasks  BY DEF IInv, work, TypeOK, Placed, Add
  <2>2. branches' \subseteq Tasks /\ dirs' \subseteq Tasks /\ merged' \subseteq own' /\ own' \subseteq Runs
    BY <2>1 DEF IInv, work, TypeOK, Add
  <2>3. pc' \in [Runs -> Labels] /\ verdict' \in [Runs -> {"none", "completed", "blocked", "failed"}]
    BY DEF IInv, work, TypeOK, Add, Settle, To, Labels
  <2> QED  BY <2>2, <2>3 DEF IInv, work, TypeOK, Add, tree
<1>2. OneRunPerWorktree'
  <2>1. \A s \in Runs : s # r => pc'[s] = pc[s]  BY DEF IInv, work, TypeOK, Add, Settle, To
  <2>2. CASE own' = own
    <3>1. r \notin own  BY DEF IInv, work, TypeOK, Placed, Add, InTree, Holding
    <3> QED  BY <2>1, <2>2 DEF IInv, work, TypeOK, OneRunPerWorktree, Add, Alive
  <2>3. CASE own' = own \cup {r} /\ task[r] \notin branches
    <3>1. \A s \in own : task[s] # task[r]  BY <2>3 DEF IInv, work, TypeOK, Placed
    <3> QED  BY <2>1, <2>3, <3>1 DEF IInv, work, TypeOK, OneRunPerWorktree, Add, Alive
  <2> QED  BY <2>2, <2>3 DEF Add
<1>3. Placed'
  BY NamesAssumption DEF IInv, work, TypeOK, Placed, InTree, Holding, Alive, Add, Settle,
      To,
         tree
<1>4. Locked'
  BY NamesAssumption DEF IInv, work, TypeOK, Locked, Placed, InTree, Holding, Add, Settle,
      To,
         tree
<1>5. Saved'
  BY DEF IInv, work, TypeOK, Saved, Placed, InTree, Holding, Alive, OneRunPerWorktree, Add,
         Settle, To, tree
<1>6. Delivered'
  BY DEF IInv, work, TypeOK, Delivered, Landed, Placed, InTree, Holding, Locked,
         OneRunPerWorktree,
         Alive, Add, Settle, To, tree
<1>7. HalfMerge'
  BY NamesAssumption DEF IInv, work, TypeOK, HalfMerge, Placed, InTree, Holding, Locked,
         RunsOf, Add, Settle, To, tree
<1>8. WorkIsKept'
  BY DEF IInv, work, WorkIsKept, Add, tree
<1>9. Alone'
  BY DEF IInv, work, TypeOK, Alone, Placed, InTree, Holding, Alive, OneRunPerWorktree, Add,
         Settle, To, tree
<1> QED  BY <1>1, <1>2, <1>3, <1>4, <1>5, <1>6, <1>7, <1>8, <1>9 DEF IInv

LEMMA AgentInv == ASSUME IInv, NEW r \in Runs, Agent(r) PROVE IInv'
<1>1. task[r] \in Tasks /\ r \in own  BY DEF IInv, work, TypeOK, Placed, Agent, InTree
<1>2. \A s \in Runs : s # r => pc'[s] = pc[s] /\ verdict'[s] = verdict[s]
  BY DEF IInv, work, TypeOK, Agent, Settle, To
<1>3. /\ \A t \in Tasks : loose[t] \subseteq loose'[t]
      /\ \A t \in Tasks : t # task[r] => loose'[t] = loose[t]
      /\ made' = made \/ (made' = made \cup {r} /\ r \in loose'[task[r]])
      /\ loose' \in [Tasks -> SUBSET Runs]
  BY <1>1 DEF IInv, work, TypeOK, Agent
<1>4. TypeOK'
  <2>1. pc' \in [Runs -> Labels] /\ verdict' \in [Runs -> {"none", "completed", "blocked", "failed"}]
    BY DEF IInv, work, TypeOK, Agent, Settle, To, Labels
  <2>2. made' \subseteq Runs  BY <1>3 DEF IInv, work, TypeOK
  <2> QED  BY <1>3, <2>1, <2>2 DEF IInv, work, TypeOK, Agent, tree
<1>5. WorkIsKept'
  <2>1. \A s \in Runs : s \in made => task[s] \in Tasks  BY DEF IInv, work, TypeOK,
      Placed, Delivered
  <2> QED  BY <1>1, <1>3, <2>1 DEF IInv, work, TypeOK, WorkIsKept, Agent, tree
<1>6. Delivered'
  <2> SUFFICES ASSUME NEW s \in made'
               PROVE  /\ pc'[s] \notin {"new", "check", "add", "agent"}
                      /\ pc'[s] = "commit" => s \in loose'[task'[s]]
                      /\ pc'[s] \in {"lock", "checkout", "merge"} => s \in commits'[task'[s]]
                      /\ pc'[s] \in {"unlock", "record"} /\ verdict'[s] = "completed"
                           => Landed(s)'
                      /\ row'[s] = "COMPLETED" => Landed(s)'
    BY DEF Delivered
  <2>1. CASE s = r
    <3>1. r \notin made  BY DEF IInv, work, Delivered, Agent
    <3>2. r \in loose'[task'[r]]  BY <1>3, <2>1, <3>1 DEF Agent
    <3>3. row'[r] # "COMPLETED"  BY DEF IInv, work, Placed, Agent
    <3>4. /\ pc'[r] \in {"commit", "record"}
          /\ pc'[r] = "record" => verdict'[r] \in {"blocked", "failed"}
      BY DEF IInv, work, TypeOK, Agent, Settle, To
    <3> QED  BY <2>1, <3>2, <3>3, <3>4
  <2>2. CASE s # r
    <3>1. s \in made /\ s \in Runs  BY <1>3, <2>2 DEF IInv, work, TypeOK
    <3>2. task[s] \in Tasks  BY <3>1 DEF IInv, work, TypeOK, Placed, Delivered
    <3>3. Landed(s)' <=> Landed(s)  BY DEF Landed, Agent, tree
    <3> QED  BY <1>2, <1>3, <2>2, <3>1, <3>2, <3>3 DEF IInv, work, Delivered, Agent, tree
  <2> QED  BY <2>1, <2>2
<1>7. Placed'
  BY NamesAssumption DEF IInv, work, TypeOK, Placed, InTree, Holding, Alive, Agent, Settle,
         To, tree
<1>8. OneRunPerWorktree'
  BY DEF IInv, work, TypeOK, OneRunPerWorktree, Placed, Alive, InTree, Holding, Agent,
      Settle,
         To, tree
<1>9. Locked'
  BY NamesAssumption DEF IInv, work, TypeOK, Locked, Placed, InTree, Holding, Agent, Settle,
         To, tree
<1>10. Saved'
  BY DEF IInv, work, TypeOK, Saved, Placed, InTree, Holding, Alive, OneRunPerWorktree,
      Agent,
         Settle, To, tree
<1>11. HalfMerge'
  BY NamesAssumption DEF IInv, work, TypeOK, HalfMerge, Placed, InTree, Holding, Locked,
         RunsOf, Agent, Settle, To, tree
<1>12. Alone'
  BY DEF IInv, work, TypeOK, Alone, Placed, InTree, Holding, Alive, OneRunPerWorktree,
         Agent, Settle, To, tree
<1> QED  BY <1>4, <1>5, <1>6, <1>7, <1>8, <1>9, <1>10, <1>11, <1>12 DEF IInv

LEMMA CommitInv == ASSUME IInv, NEW r \in Runs, Commit(r) PROVE IInv'
<1>1. task[r] \in Tasks /\ r \in own  BY DEF IInv, work, TypeOK, Placed, Commit, InTree
<1>2. \A s \in Runs : s # r => pc'[s] = pc[s]  BY DEF IInv, work, TypeOK, Commit, Settle, To
<1>3. WorkIsKept'
  <2>1. \A t \in Tasks : loose[t] \cup commits[t] = loose'[t] \cup commits'[t]
    BY <1>1 DEF IInv, work, TypeOK, Commit
  <2>2. \A s \in made : task[s] \in Tasks  BY DEF IInv, work, TypeOK, Placed, Delivered
  <2> QED  BY <2>1, <2>2 DEF IInv, work, TypeOK, WorkIsKept, Commit, tree
<1>4. Saved'
  <2>1. r \notin merged  BY DEF IInv, work, TypeOK, Placed, Commit
  <2>2. \A s \in Runs : s \in merged => task[s] # task[r]
    BY <1>1, <2>1 DEF IInv, work, TypeOK, Placed, OneRunPerWorktree, Commit, Alive,
        InTree, Holding
  <2>3. \A t \in Tasks : t # task[r] => loose'[t] = loose[t] /\ commits'[t] = commits[t]
    BY DEF IInv, work, TypeOK, Commit
  <2>4. \A t \in Tasks : loose[t] = {} => loose'[t] = {}  BY DEF IInv, work, TypeOK, Commit
  <2>5. pc'[r] = "lock" => loose'[task[r]] = {}  BY <1>1 DEF IInv, work, TypeOK, Commit,
      Settle, To
  <2>6. pc'[r] \in {"lock", "record"}  BY DEF IInv, work, TypeOK, Commit, Settle, To
  <2>7. \A s \in Runs : s \in merged \/ pc[s] # "new" => task[s] \in Tasks
    BY DEF IInv, work, Placed
  <2> QED  BY <1>2, <2>1, <2>2, <2>3, <2>4, <2>5, <2>6, <2>7
           DEF IInv, work, Saved, Commit, Holding, tree
<1>5. TypeOK'
  BY BranchesAssumption, MeddlingAssumption DEF IInv, work, TypeOK, Labels, Commit,
      Settle, To, tree
<1>6. Placed'
  BY NamesAssumption DEF IInv, work, TypeOK, Placed, InTree, Holding, Alive, Commit, Settle,
         To, tree
<1>7. OneRunPerWorktree'
  BY DEF IInv, work, TypeOK, OneRunPerWorktree, Placed, Alive, InTree, Holding, Commit,
         Settle, To, tree
<1>8. Locked'
  BY NamesAssumption DEF IInv, work, TypeOK, Locked, Placed, InTree, Holding, Commit,
      Settle,
         To, tree
<1>9. Delivered'
  BY DEF IInv, work, TypeOK, Delivered, Landed, Placed, InTree, Holding, Locked,
         OneRunPerWorktree,
         Alive, Commit, Settle, To, tree
<1>10. HalfMerge'
  BY NamesAssumption DEF IInv, work, TypeOK, HalfMerge, Placed, InTree, Holding, Locked,
         RunsOf, Commit, Settle, To, tree
<1>11. Alone'
  BY DEF IInv, work, TypeOK, Alone, Placed, InTree, Holding, Alive, OneRunPerWorktree,
         Commit, Settle, To, RunsOf, ledger, tree, worktrees
<1> QED  BY <1>3, <1>4, <1>5, <1>6, <1>7, <1>8, <1>9, <1>10, <1>11 DEF IInv

LEMMA LockInv == ASSUME IInv, NEW r \in Runs, Lock(r) PROVE IInv'
<1>1. TypeOK'
  BY BranchesAssumption, MeddlingAssumption DEF IInv, work, TypeOK, Labels, Lock, To,
      worktrees
<1>2. Placed'
  BY NamesAssumption DEF IInv, work, TypeOK, Placed, InTree, Holding, Alive, Lock, To,
         worktrees
<1>3. OneRunPerWorktree'
  BY DEF IInv, work, TypeOK, OneRunPerWorktree, Placed, Alive, InTree, Holding, Lock, To,
         worktrees
<1>4. Locked'
  BY NamesAssumption DEF IInv, work, TypeOK, Locked, Placed, InTree, Holding, Lock, To,
         worktrees
<1>5. Saved'
  BY DEF IInv, work, TypeOK, Saved, Placed, InTree, Holding, Alive, OneRunPerWorktree, Lock,
         To, worktrees
<1>6. Delivered'
  BY DEF IInv, work, TypeOK, Delivered, Landed, Placed, InTree, Holding, Locked,
         OneRunPerWorktree,
         Alive, Lock, To, worktrees
<1>7. HalfMerge'
  BY NamesAssumption DEF IInv, work, TypeOK, HalfMerge, Placed, InTree, Holding, Locked,
         RunsOf, Lock, To, worktrees
<1>8. WorkIsKept'
  BY DEF IInv, work, WorkIsKept, Lock, worktrees
<1>9. Alone'
  BY DEF IInv, work, TypeOK, Alone, Placed, InTree, Holding, Alive, OneRunPerWorktree,
         Lock, To, worktrees
<1> QED  BY <1>1, <1>2, <1>3, <1>4, <1>5, <1>6, <1>7, <1>8, <1>9 DEF IInv

LEMMA CheckoutInv == ASSUME IInv, NEW r \in Runs, Checkout(r) PROVE IInv'
<1>1. TypeOK'
  BY BranchesAssumption, MeddlingAssumption DEF IInv, work, TypeOK, Labels, Checkout,
      Settle, To, worktrees
<1>2. Placed'
  BY NamesAssumption DEF IInv, work, TypeOK, Placed, InTree, Holding, Alive, Checkout,
      Settle,
         To, worktrees
<1>3. OneRunPerWorktree'
  BY DEF IInv, work, TypeOK, OneRunPerWorktree, Placed, Alive, InTree, Holding, Checkout,
         Settle, To, worktrees
<1>4. Locked'
  BY NamesAssumption DEF IInv, work, TypeOK, Locked, Placed, InTree, Holding, Checkout,
         Settle, To, worktrees
<1>5. Saved'
  BY DEF IInv, work, TypeOK, Saved, Placed, InTree, Holding, Alive, OneRunPerWorktree,
         Checkout, Settle, To, worktrees
<1>6. Delivered'
  BY DEF IInv, work, TypeOK, Delivered, Landed, Placed, InTree, Holding, Locked,
         OneRunPerWorktree,
         Alive, Checkout, Settle, To, worktrees
<1>7. HalfMerge'
  BY NamesAssumption DEF IInv, work, TypeOK, HalfMerge, Placed, InTree, Holding, Locked,
         RunsOf, Checkout, Settle, To, worktrees
<1>8. WorkIsKept'
  BY DEF IInv, work, WorkIsKept, Checkout, worktrees
<1>9. Alone'
  BY DEF IInv, work, TypeOK, Alone, Placed, InTree, Holding, Alive, OneRunPerWorktree,
         Checkout, Settle, To, worktrees
<1> QED  BY <1>1, <1>2, <1>3, <1>4, <1>5, <1>6, <1>7, <1>8, <1>9 DEF IInv

LEMMA MergeInv == ASSUME IInv, NEW r \in Runs, Merge(r) PROVE IInv'
<1>1. TypeOK'
  <2>1. task[r] \in Tasks /\ r \in own  BY DEF IInv, work, TypeOK, Placed, Merge, InTree,
      Holding
  <2>2. content' \in [Branches -> SUBSET Runs] /\ midmerge' \in Runs \cup {Human, Nobody}
    BY <2>1 DEF IInv, work, TypeOK, Merge
  <2>3. pc' \in [Runs -> Labels]  BY DEF IInv, work, TypeOK, Merge, To, Labels
  <2>4. merged' \subseteq own'  BY <2>1 DEF IInv, work, TypeOK, Merge
  <2>5. crossed' \in [Runs -> Branches \cup {Detached, Nobody}]  BY DEF IInv, work,
      TypeOK, Merge
  <2> QED  BY <2>2, <2>3, <2>4, <2>5 DEF IInv, work, TypeOK, Merge, worktrees
<1>2. Placed'
  BY NamesAssumption DEF IInv, work, TypeOK, Placed, InTree, Holding, Alive, Merge, To,
         worktrees
<1>3. OneRunPerWorktree'
  BY DEF IInv, work, TypeOK, OneRunPerWorktree, Placed, Alive, InTree, Holding, Merge, To,
         worktrees
<1>4. Locked'
  BY NamesAssumption DEF IInv, work, TypeOK, Locked, Placed, InTree, Holding, Merge, To,
         worktrees
<1>. DEFINE grown == \A b \in Branches : content[b] \subseteq content'[b]
<1>5. WorkIsKept'
  <2>1. grown  BY DEF IInv, TypeOK, Merge
  <2>2. \A s \in Runs : s # r => crossed'[s] = crossed[s]  BY DEF IInv, TypeOK, Merge
  <2>3. r \in made => r \in commits[task[r]]  BY DEF IInv, Delivered, Merge
  <2>4. made \subseteq Runs  BY DEF IInv, TypeOK
  <2> QED  BY <2>1, <2>2, <2>3, <2>4 DEF IInv, WorkIsKept, Merge, worktrees
<1>6. Saved'
  <2>1. grown  BY DEF IInv, TypeOK, Merge
  <2>2. \A s \in Runs : s # r => crossed'[s] = crossed[s] /\ pc'[s] = pc[s]
    BY DEF IInv, TypeOK, Merge, To
  <2>3. loose[task[r]] = {} /\ commits[task[r]] \subseteq {r}
    BY DEF IInv, Saved, Alone, Placed, Merge, InTree, Holding
  <2>4. ASSUME r \in merged'
        PROVE  \/ \E b \in Branches : commits[task[r]] \subseteq content'[b]
               \/ crossed'[r] = Detached
    <3>1. crossed' = crossed /\ midmerge = Nobody
      BY <2>4 DEF IInv, Placed, Merge
    <3>2. head = IF crossed[r] = Nobody THEN base[r] ELSE crossed[r]  BY DEF IInv, Locked,
        Merge
    <3>3. head \in Branches \/ head = Detached  BY DEF IInv, TypeOK
    <3>4. base[r] \in Branches  BY DEF IInv, TypeOK
    <3>5. head \in Branches => commits[task[r]] \subseteq content'[head]
      BY <2>4 DEF IInv, Placed, Merge
    <3> QED  BY <3>1, <3>2, <3>3, <3>4, <3>5, BranchesAssumption
  <2>5. merged' \subseteq merged \cup {r}  BY DEF Merge
  <2> QED  BY <2>1, <2>2, <2>3, <2>4, <2>5 DEF IInv, Saved, Merge, Holding, worktrees
<1>7. Delivered'
  BY DEF IInv, work, TypeOK, Delivered, Landed, Placed, InTree, Holding, Locked,
         OneRunPerWorktree,
         Alive, Merge, To, worktrees
<1>8. HalfMerge'
  BY NamesAssumption DEF IInv, work, TypeOK, HalfMerge, Placed, InTree, Holding, Locked,
         RunsOf, Merge, To, worktrees
<1>9. Alone'
  BY DEF IInv, work, TypeOK, Alone, Placed, InTree, Holding, Alive, OneRunPerWorktree,
         Merge, To, worktrees
<1> QED  BY <1>1, <1>2, <1>3, <1>4, <1>5, <1>6, <1>7, <1>8, <1>9 DEF IInv

LEMMA AbortInv == ASSUME IInv, NEW r \in Runs, Abort(r) PROVE IInv'
<1>1. TypeOK'
  BY BranchesAssumption, MeddlingAssumption DEF IInv, work, TypeOK, Labels, Abort, To,
      worktrees
<1>2. Placed'
  BY NamesAssumption DEF IInv, work, TypeOK, Placed, InTree, Holding, Alive, Abort, To,
         worktrees
<1>3. OneRunPerWorktree'
  BY DEF IInv, work, TypeOK, OneRunPerWorktree, Placed, Alive, InTree, Holding, Abort, To,
         worktrees
<1>4. Locked'
  BY NamesAssumption DEF IInv, work, TypeOK, Locked, Placed, InTree, Holding, Abort, To,
         worktrees
<1>5. Saved'
  BY DEF IInv, work, TypeOK, Saved, Placed, InTree, Holding, Alive, OneRunPerWorktree,
      Abort,
         To, worktrees
<1>6. Delivered'
  BY DEF IInv, work, TypeOK, Delivered, Landed, Placed, InTree, Holding, Locked,
         OneRunPerWorktree,
         Alive, Abort, To, worktrees
<1>7. HalfMerge'
  BY NamesAssumption DEF IInv, work, TypeOK, HalfMerge, Placed, InTree, Holding, Locked,
         RunsOf, Abort, To, worktrees
<1>8. WorkIsKept'
  BY DEF IInv, work, WorkIsKept, Abort, worktrees
<1>9. Alone'
  BY DEF IInv, work, TypeOK, Alone, Placed, InTree, Holding, Alive, OneRunPerWorktree,
         Abort, To, worktrees
<1> QED  BY <1>1, <1>2, <1>3, <1>4, <1>5, <1>6, <1>7, <1>8, <1>9 DEF IInv

LEMMA UnlockInv == ASSUME IInv, NEW r \in Runs, Unlock(r) PROVE IInv'
<1>1. TypeOK'
  BY BranchesAssumption, MeddlingAssumption DEF IInv, work, TypeOK, Labels, Unlock, To,
      worktrees
<1>2. Placed'
  BY NamesAssumption DEF IInv, work, TypeOK, Placed, InTree, Holding, Alive, Unlock, To,
         worktrees
<1>3. OneRunPerWorktree'
  BY DEF IInv, work, TypeOK, OneRunPerWorktree, Placed, Alive, InTree, Holding, Unlock, To,
         worktrees
<1>4. Locked'
  BY NamesAssumption DEF IInv, work, TypeOK, Locked, Placed, InTree, Holding, Unlock, To,
         worktrees
<1>5. Saved'
  BY DEF IInv, work, TypeOK, Saved, Placed, InTree, Holding, Alive, OneRunPerWorktree,
      Unlock,
         To, worktrees
<1>6. Delivered'
  BY DEF IInv, work, TypeOK, Delivered, Landed, Placed, InTree, Holding, Locked,
         OneRunPerWorktree,
         Alive, Unlock, To, worktrees
<1>7. HalfMerge'
  BY NamesAssumption DEF IInv, work, TypeOK, HalfMerge, Placed, InTree, Holding, Locked,
         RunsOf, Unlock, To, worktrees
<1>8. WorkIsKept'
  BY DEF IInv, work, WorkIsKept, Unlock, worktrees
<1>9. Alone'
  BY DEF IInv, work, TypeOK, Alone, Placed, InTree, Holding, Alive, OneRunPerWorktree,
         Unlock, To, worktrees
<1> QED  BY <1>1, <1>2, <1>3, <1>4, <1>5, <1>6, <1>7, <1>8, <1>9 DEF IInv

LEMMA RecordInv == ASSUME IInv, NEW r \in Runs, Record(r) PROVE IInv'
<1>1. TypeOK'
  BY BranchesAssumption, MeddlingAssumption DEF IInv, work, TypeOK, Labels, Record, Quit,
      To, tree, worktrees
<1>2. Placed'
  BY NamesAssumption DEF IInv, work, TypeOK, Placed, InTree, Holding, Alive, Record, Quit,
      To,
         tree, worktrees
<1>3. OneRunPerWorktree'
  BY DEF IInv, work, TypeOK, OneRunPerWorktree, Placed, Alive, InTree, Holding, Record,
      Quit,
         To, tree, worktrees
<1>4. Locked'
  BY NamesAssumption DEF IInv, work, TypeOK, Locked, Placed, InTree, Holding, Record, Quit,
         To, tree, worktrees
<1>5. Saved'
  BY DEF IInv, work, TypeOK, Saved, Placed, InTree, Holding, Alive, OneRunPerWorktree,
      Record,
         Quit, To, tree, worktrees
<1>6. Delivered'
  BY DEF IInv, work, TypeOK, Delivered, Landed, Placed, InTree, Holding, Locked,
         OneRunPerWorktree,
         Alive, Record, Quit, To, tree, worktrees
<1>7. HalfMerge'
  <2>1. \A s \in Runs : s # r => /\ pc'[s] = pc[s] /\ row'[s] = row[s]
                                 /\ verdict'[s] = verdict[s]
                                 /\ (s \in merged' <=> s \in merged)
    BY DEF IInv, TypeOK, Record, Quit, To, Labels
  <2>2. CASE midmerge = r
    <3>1. verdict[r] = "blocked" /\ r \notin merged  BY <2>2 DEF IInv, HalfMerge, Record
    <3>2. row[r] \in {"RUNNING", "FAILED"}  BY DEF IInv, Placed, Record, Alive
    <3>3. row'[r] \in {"BLOCKED", "FAILED"}  BY <3>1, <3>2 DEF IInv, TypeOK, Record
    <3>4. pc'[r] = "over" /\ r \notin merged'  BY <3>1 DEF IInv, TypeOK, Record, Quit, To
    <3>5. midmerge' = r  BY <2>2 DEF Record, tree
    <3>6. row'[r] # "COMPLETED"  BY <3>3
    <3> QED  BY <3>3, <3>4, <3>5, <3>6 DEF HalfMerge
  <2>3. CASE midmerge # r
    <3>1. midmerge' = midmerge  BY DEF Record, tree
    <3> SUFFICES ASSUME midmerge \in Runs
                 PROVE  /\ row'[midmerge] # "COMPLETED" /\ midmerge \notin merged'
                        /\ \/ pc'[midmerge] \in {"abort", "dead"}
                           \/ pc'[midmerge] \in {"unlock", "record"} /\ verdict'[midmerge] = "blocked"
                           \/ pc'[midmerge] = "over" /\ row'[midmerge] \in {"BLOCKED", "FAILED"}
      BY <3>1 DEF HalfMerge
    <3>2. /\ pc'[midmerge] = pc[midmerge] /\ row'[midmerge] = row[midmerge]
          /\ verdict'[midmerge] = verdict[midmerge] /\ (midmerge \in merged' <=> midmerge \in merged)
      BY <2>1, <2>3
    <3>3. /\ row[midmerge] # "COMPLETED" /\ midmerge \notin merged
          /\ \/ pc[midmerge] \in {"abort", "dead"}
             \/ pc[midmerge] \in {"unlock", "record"} /\ verdict[midmerge] = "blocked"
             \/ pc[midmerge] = "over" /\ row[midmerge] \in {"BLOCKED", "FAILED"}
      BY DEF IInv, HalfMerge
    <3> QED  BY <3>2, <3>3
  <2> QED  BY <2>2, <2>3
<1>8. WorkIsKept'
  BY DEF IInv, work, WorkIsKept, Record, tree, worktrees
<1>9. Alone'
  BY DEF IInv, work, TypeOK, Alone, Placed, InTree, Holding, Alive, OneRunPerWorktree,
         Record, Quit, To, tree, worktrees
<1> QED  BY <1>1, <1>2, <1>3, <1>4, <1>5, <1>6, <1>7, <1>8, <1>9 DEF IInv

LEMMA RemoveDirInv == ASSUME IInv, NEW r \in Runs, RemoveDir(r) PROVE IInv'
<1>1. WorkIsKept'
  <2>1. loose[task[r]] = {}  BY DEF IInv, work, Saved, Placed, RemoveDir
  <2>2. \A t \in Tasks : loose'[t] = loose[t]  BY <2>1 DEF IInv, work, TypeOK, RemoveDir
  <2>3. \A s \in made : task[s] \in Tasks  BY DEF IInv, work, TypeOK, Placed, Delivered
  <2> QED  BY <2>2, <2>3 DEF IInv, work, TypeOK, WorkIsKept, RemoveDir, tree
<1>2. TypeOK'
  BY BranchesAssumption, MeddlingAssumption DEF IInv, work, TypeOK, Labels, RemoveDir, To,
      tree
<1>3. Placed'
  BY NamesAssumption DEF IInv, work, TypeOK, Placed, InTree, Holding, Alive, RemoveDir, To,
         tree
<1>4. OneRunPerWorktree'
  BY DEF IInv, work, TypeOK, OneRunPerWorktree, Placed, Alive, InTree, Holding, RemoveDir,
      To,
         tree
<1>5. Locked'
  BY NamesAssumption DEF IInv, work, TypeOK, Locked, Placed, InTree, Holding, RemoveDir, To,
         tree
<1>6. Saved'
  BY DEF IInv, work, TypeOK, Saved, Placed, InTree, Holding, Alive, OneRunPerWorktree,
         RemoveDir, To, tree
<1>7. Delivered'
  BY DEF IInv, work, TypeOK, Delivered, Landed, Placed, InTree, Holding, Locked,
         OneRunPerWorktree,
         Alive, RemoveDir, To, tree
<1>8. HalfMerge'
  BY NamesAssumption DEF IInv, work, TypeOK, HalfMerge, Placed, InTree, Holding, Locked,
         RunsOf, RemoveDir, To, tree
<1>9. Alone'
  BY DEF IInv, work, TypeOK, Alone, Placed, InTree, Holding, Alive, OneRunPerWorktree,
         RemoveDir, To, tree
<1> QED  BY <1>1, <1>2, <1>3, <1>4, <1>5, <1>6, <1>7, <1>8, <1>9 DEF IInv

LEMMA DeleteBranchInv == ASSUME IInv, NEW r \in Runs, DeleteBranch(r) PROVE IInv'
<1>1. Placed'
  <2>1. \A s \in Runs : s # r => pc'[s] = pc[s]  BY DEF IInv, work, TypeOK, DeleteBranch,
      Quit, To
  <2>2. pc'[r] = "over" /\ r \notin own' /\ r \notin merged'
    BY DEF IInv, work, TypeOK, DeleteBranch, Quit, To
  <2>3. \A s \in own' : task[s] # task[r]
    BY DEF IInv, work, TypeOK, Placed, OneRunPerWorktree, DeleteBranch, Quit, InTree,
        Holding, Alive
  <2> QED  BY <2>1, <2>2, <2>3 DEF IInv, work, TypeOK, Placed, DeleteBranch, Quit, InTree,
      Holding, Alive
<1>2. WorkIsKept'
  <2>1. \A s \in commits[task[r]] : \/ \E b \in Branches : s \in content[b]
                                    \/ crossed[s] = Detached
    BY DEF IInv, Saved, Placed, DeleteBranch
  <2>2. \A t \in Tasks : t # task[r] => commits'[t] = commits[t]
    BY DEF IInv, work, TypeOK, DeleteBranch
  <2>3. \A s \in made : task[s] \in Tasks  BY DEF IInv, work, TypeOK, Placed, Delivered
  <2> QED  BY <2>1, <2>2, <2>3 DEF IInv, work, TypeOK, WorkIsKept, DeleteBranch, tree
<1>3. TypeOK'
  BY BranchesAssumption, MeddlingAssumption DEF IInv, work, TypeOK, Labels, DeleteBranch,
      Quit, To, tree
<1>4. OneRunPerWorktree'
  BY DEF IInv, work, TypeOK, OneRunPerWorktree, Placed, Alive, InTree, Holding,
      DeleteBranch,
         Quit, To, tree
<1>5. Locked'
  BY NamesAssumption DEF IInv, work, TypeOK, Locked, Placed, InTree, Holding, DeleteBranch,
         Quit, To, tree
<1>6. Saved'
  BY DEF IInv, work, TypeOK, Saved, Placed, InTree, Holding, Alive, OneRunPerWorktree,
         DeleteBranch, Quit, To, tree
<1>7. Delivered'
  BY DEF IInv, work, TypeOK, Delivered, Landed, Placed, InTree, Holding, Locked,
         OneRunPerWorktree,
         Alive, DeleteBranch, Quit, To, tree
<1>8. HalfMerge'
  BY NamesAssumption DEF IInv, work, TypeOK, HalfMerge, Placed, InTree, Holding, Locked,
         RunsOf, DeleteBranch, Quit, To, tree
<1>9. Alone'
  BY DEF IInv, work, TypeOK, Alone, Placed, InTree, Holding, Alive, OneRunPerWorktree,
         DeleteBranch, Quit, To, tree
<1> QED  BY <1>1, <1>2, <1>3, <1>4, <1>5, <1>6, <1>7, <1>8, <1>9 DEF IInv

LEMMA CrashInv == ASSUME IInv, NEW r \in Runs, Crash(r) PROVE IInv'
<1>1. TypeOK'
  BY BranchesAssumption, MeddlingAssumption DEF IInv, work, TypeOK, Labels, Crash, Quit,
      To, worktrees
<1>2. Placed'
  BY NamesAssumption DEF IInv, work, TypeOK, Placed, InTree, Holding, Alive, Crash, Quit,
      To,
         worktrees
<1>3. OneRunPerWorktree'
  BY DEF IInv, work, TypeOK, OneRunPerWorktree, Placed, Alive, InTree, Holding, Crash, Quit,
         To, worktrees
<1>4. Locked'
  BY NamesAssumption DEF IInv, work, TypeOK, Locked, Placed, InTree, Holding, Crash, Quit,
      To,
         worktrees
<1>5. Saved'
  BY DEF IInv, work, TypeOK, Saved, Placed, InTree, Holding, Alive, OneRunPerWorktree,
      Crash,
         Quit, To, worktrees
<1>6. Delivered'
  BY DEF IInv, work, TypeOK, Delivered, Landed, Placed, InTree, Holding, Locked,
         OneRunPerWorktree,
         Alive, Crash, Quit, To, worktrees
<1>7. HalfMerge'
  BY NamesAssumption DEF IInv, work, TypeOK, HalfMerge, Placed, InTree, Holding, Locked,
         RunsOf, Crash, Quit, To, worktrees
<1>8. WorkIsKept'
  BY DEF IInv, work, WorkIsKept, Crash, worktrees
<1>9. Alone'
  BY DEF IInv, work, TypeOK, Alone, Placed, InTree, Holding, Alive, OneRunPerWorktree,
         Crash, Quit, To, worktrees
<1> QED  BY <1>1, <1>2, <1>3, <1>4, <1>5, <1>6, <1>7, <1>8, <1>9 DEF IInv

LEMMA StopInv == ASSUME IInv, NEW r \in Runs, Stop(r) PROVE IInv'
<1>1. TypeOK'
  BY BranchesAssumption, MeddlingAssumption DEF IInv, work, TypeOK, Labels, Stop, Active,
      tree, worktrees
<1>2. Placed'
  BY NamesAssumption DEF IInv, work, TypeOK, Placed, InTree, Holding, Alive, Stop, Active,
         tree, worktrees
<1>3. Delivered'
  BY DEF IInv, work, TypeOK, Delivered, Landed, Placed, InTree, Holding, Locked,
         OneRunPerWorktree,
         Alive, Stop, Active, tree, worktrees
<1>4. OneRunPerWorktree' /\ Locked' /\ WorkIsKept' /\ Saved' /\ HalfMerge'
  BY DEF IInv, work, OneRunPerWorktree, Locked, WorkIsKept, Saved, HalfMerge, Stop,
         tree, worktrees, Alive, RunsOf
<1>5. Alone'
  BY DEF IInv, work, TypeOK, Alone, Placed, InTree, Holding, Alive, OneRunPerWorktree,
         Stop, Settle, To, RunsOf, ledger, tree, worktrees
<1> QED  BY <1>1, <1>2, <1>3, <1>4, <1>5 DEF IInv

LEMMA DiscardInv == ASSUME IInv, NEW t \in Tasks, Discard(t) PROVE IInv'
<1>1. TypeOK'
  BY BranchesAssumption, MeddlingAssumption DEF IInv, work, TypeOK, Labels, Discard,
      Leave, RunsOf, ledger, tree
<1>2. Placed'
  BY NamesAssumption DEF IInv, work, TypeOK, Placed, InTree, Holding, Alive, Discard, Leave,
         RunsOf, ledger, tree
<1>3. WorkIsKept'
  BY DEF IInv, work, TypeOK, WorkIsKept, Saved, Placed, InTree, Holding, Discard, Leave,
         RunsOf, ledger, tree
<1>4. Saved'
  BY DEF IInv, work, TypeOK, Saved, Placed, InTree, Holding, Alive, OneRunPerWorktree,
         Discard, Leave, RunsOf, ledger, tree
<1>5. Delivered'
  BY DEF IInv, work, TypeOK, Delivered, Landed, Placed, InTree, Holding, Locked,
         OneRunPerWorktree,
         Alive, Discard, Leave, RunsOf, ledger, tree
<1>6. OneRunPerWorktree' /\ Locked' /\ HalfMerge'
  BY DEF IInv, work, OneRunPerWorktree, Locked, HalfMerge, Discard, Leave, ledger, tree,
         Alive, RunsOf
<1>7. Alone'
  BY DEF IInv, work, TypeOK, Alone, Placed, InTree, Holding, Alive, OneRunPerWorktree,
         Discard, Leave, RunsOf, ledger, tree
<1> QED  BY <1>1, <1>2, <1>3, <1>4, <1>5, <1>6, <1>7 DEF IInv

LEMMA RecoverInv == ASSUME IInv, NEW t \in Tasks, Recover(t) PROVE IInv'
<1>1. TypeOK'
  BY BranchesAssumption, MeddlingAssumption DEF IInv, work, TypeOK, Labels, Recover,
      Leave, RunsOf, ledger
<1>2. Placed'
  BY NamesAssumption DEF IInv, work, TypeOK, Placed, InTree, Holding, Alive, Recover, Leave,
         RunsOf, ledger
<1>3. WorkIsKept'
  BY DEF IInv, work, TypeOK, WorkIsKept, Saved, Placed, InTree, Holding, Recover, Leave,
         RunsOf, ledger
<1>4. Saved'
  BY DEF IInv, work, TypeOK, Saved, Placed, InTree, Holding, Alive, OneRunPerWorktree,
         Recover, Leave, RunsOf, ledger
<1>5. Delivered'
  BY DEF IInv, work, TypeOK, Delivered, Landed, Placed, InTree, Holding, Locked,
         OneRunPerWorktree,
         Alive, Recover, Leave, RunsOf, ledger
<1>6. OneRunPerWorktree' /\ Locked' /\ HalfMerge'
  BY DEF IInv, work, OneRunPerWorktree, Locked, HalfMerge, Recover, Leave, ledger,
         Alive, RunsOf
<1>7. Alone'
  BY DEF IInv, work, TypeOK, Alone, Placed, InTree, Holding, Alive, OneRunPerWorktree,
         Recover, Leave, RunsOf, ledger
<1> QED  BY <1>1, <1>2, <1>3, <1>4, <1>5, <1>6, <1>7 DEF IInv

LEMMA SwitchInv == ASSUME IInv, Switch PROVE IInv'
<1>. USE DEF Switch, Meddle, ledger, worktrees
<1>1. head' \in Branches \cup {Detached} /\ meddling' \in 0..MaxMeddling
  BY MeddlingAssumption DEF IInv, TypeOK
<1>2. \A r \in Runs : crossed'[r] = IF pc[r] = "merge" THEN head' ELSE crossed[r]
  OBVIOUS
<1>3. TypeOK'
  <2>1. crossed' \in [Runs -> Branches \cup {Detached, Nobody}]  BY <1>1 DEF IInv, TypeOK
  <2> QED  BY <1>1, <2>1 DEF IInv, TypeOK
<1>4. Locked'
  <2>1. head' # Nobody  BY <1>1, BranchesAssumption
  <2> QED  BY <1>2, <2>1 DEF IInv, Locked
<1>5. WorkIsKept'
  <2>1. \A r \in made : r \in Runs /\ (pc[r] = "merge" => r \in commits[task[r]])
    BY DEF IInv, TypeOK, Delivered
  <2> QED  BY <1>2, <2>1 DEF IInv, WorkIsKept
<1>6. Saved'
  <2>1. \A r \in Runs : r \in merged => pc[r] # "merge"  BY DEF IInv, Placed
  <2> QED  BY <1>2, <2>1 DEF IInv, Saved
<1>7. Delivered'
  <2>1. \A r \in Runs : pc[r] # "merge" => (Landed(r)' <=> Landed(r))  BY <1>2 DEF Landed
  <2>2. \A r \in Runs : pc[r] = "merge" => row[r] # "COMPLETED"  BY DEF IInv, Placed
  <2>3. made \subseteq Runs  BY DEF IInv, TypeOK
  <2> QED  BY <2>1, <2>2, <2>3 DEF IInv, Delivered
<1>8. Placed' /\ OneRunPerWorktree' /\ Alone' /\ HalfMerge'
  BY DEF IInv, Placed, OneRunPerWorktree, Alone, HalfMerge, Alive
<1> QED  BY <1>3, <1>4, <1>5, <1>6, <1>7, <1>8 DEF IInv

LEMMA HumanMergeInv == ASSUME IInv, HumanMerge PROVE IInv'
<1>. USE DEF HumanMerge, Meddle, ledger, worktrees
<1>1. TypeOK'
  BY MeddlingAssumption DEF IInv, TypeOK
<1>2. midmerge' \notin Runs
  BY NamesAssumption
<1>3. Delivered'
  <2>1. \A r : Landed(r)' <=> Landed(r)  BY DEF Landed
  <2> QED  BY <2>1 DEF IInv, Delivered
<1>4. Placed' /\ OneRunPerWorktree' /\ Locked' /\ Alone' /\ WorkIsKept' /\ Saved' /\ HalfMerge'
  BY <1>2 DEF IInv, Placed, OneRunPerWorktree, Locked, Alone, WorkIsKept, Saved,
      HalfMerge, Alive
<1> QED  BY <1>1, <1>3, <1>4 DEF IInv

-----------------------------------------------------------------------------
LEMMA NextInv == ASSUME IInv, [Next]_vars PROVE IInv'
<1>1. ASSUME NEW r \in Runs, RunStep(r) PROVE IInv'
  BY <1>1, CheckInv, AddInv, AgentInv, CommitInv, LockInv, CheckoutInv, MergeInv, AbortInv,
     UnlockInv, RecordInv, RemoveDirInv, DeleteBranchInv DEF RunStep
<1>2. CASE UNCHANGED vars
  BY <1>2 DEF vars, ledger, tree, worktrees, IInv, TypeOK, Placed, OneRunPerWorktree,
      Locked, Alone, Landed, work,
              WorkIsKept, Saved, Delivered, HalfMerge, Alive, RunsOf
<1> QED
  BY <1>1, <1>2, BeginInv, CrashInv, StopInv, DiscardInv, RecoverInv, SwitchInv, HumanMergeInv
  DEF Next

LEMMA Inductive == Spec => []IInv
  BY InitInv, NextInv, PTL DEF Spec

\* Every variable has the shape the code gives it, and every context a branch of
\* the user's to merge into.
THEOREM TypeCorrect == Spec => []TypeOK
  BY Inductive, PTL DEF IInv

\* What an agent did is never lost to failures, conflicts, crashes, retries and
\* cleanups: it is in the worktree, on the task's branch or on a branch of the
\* user's, unless a human discarded it or took HEAD off every branch between that
\* run's checkout and merge.
THEOREM WorkIsKeptAlways == Spec => []WorkIsKept
  BY Inductive, PTL DEF IInv

\* A COMPLETED run's work is on the branch the run was started from, with any
\* number of humans at the main tree, whom the lock does not bind; a switch that
\* falls between the run's checkout and its merge, and no other, sends it to what
\* was switched to.
THEOREM CompletedIsMergedAlways == Spec => []CompletedIsMerged
<1>1. IInv => CompletedIsMerged  BY DEF IInv, Delivered, CompletedIsMerged
<1> QED  BY <1>1, Inductive, PTL

\* Though git merge --abort may fail, and be somebody else's: the run whose merge is
\* unfinished in the main tree is at it, BLOCKED or FAILED, or its process died.
THEOREM HalfMergeIsReportedAlways == Spec => []HalfMergeIsReported
<1>1. IInv => HalfMergeIsReported  BY DEF IInv, HalfMerge, HalfMergeIsReported
<1> QED  BY <1>1, Inductive, PTL

\* Two live processes never have the same worktree.
THEOREM OneRunPerWorktreeAlways == Spec => []OneRunPerWorktree
  BY Inductive, PTL DEF IInv
=============================================================================
