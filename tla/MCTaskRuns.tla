----------------------------- MODULE MCTaskRuns -----------------------------
(* TaskRuns on instances TLC can enumerate: one task, and two processes       *)
(* whose duties are told apart by Ops.                                        *)
EXTENDS TaskRuns, TLC

CONSTANTS w1, h1

\* One worker, and one operator who may do anything, start runs included.
AnyOps == (w1 :> {"start", "retry", "leave", "crash"}) @@
          (h1 :> {"start", "stop", "resume", "answer", "resolve", "set", "reset", "crash"})

\* One worker at a time, given the task when it is READY or FAILED; the operator
\* only deals with the questions it leaves.
AnswerOps == (w1 :> {"pick"}) @@ (h1 :> {"answer", "resolve"})

\* A worker, and an operator who stops it and moves its task about meanwhile.
MeddlingOps == (w1 :> {"start"}) @@ (h1 :> {"stop", "set", "answer"})

\* A parent can be walked to whatever its children roll up to, by legal edges,
\* from every status but MERGED (core/task_tree.py propagate_status: "An empty
\* path means no route exists (the parent is MERGED)").
ASSUME RollUpsAreReachable ==
  \A parent \in Statuses \ {"MERGED"} : \A children \in SUBSET Statuses \ {{}} :
    LET walk == <<parent>> \o TransitionPath[parent, RolledUpStatus(children)]
    IN  /\ walk[Len(walk)] = RolledUpStatus(children)
        /\ \A i \in 1..(Len(walk) - 1) : CanTransition(walk[i], walk[i + 1])
=============================================================================
