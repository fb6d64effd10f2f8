-------------------------- MODULE MCBatchConductor --------------------------
(* Small batches for TLC.                                                     *)
EXTENDS BatchPlan, Relation

CONSTANTS t1, t2, t3, e1, e2

OneTask == {t1}
TwoTasks == {t1, t2}
ThreeTasks == {t1, t2, t3}
OneExecutor == {e1}
TwoExecutors == {e1, e2}

Independent == [t \in Tasks |-> <<>>]
\* A chain with a short cut: t3 depends on both, and is two levels above t1.
ShortCut == [t \in Tasks |-> CASE t = t1 -> <<>> [] t = t2 -> <<t1>> [] OTHER -> <<t1, t2>>]
Planned == ExecutionPlan(DependsOn, SetToSeq(Tasks))

Graphs == [ThreeTasks -> SUBSET ThreeTasks]

\* detect_cycle finds a task from which a path leads back to it (of all graphs of
\* three tasks).
ASSUME CyclesAreFound ==
  \A graph \in Graphs :
    LET reach == TransitiveClosure([a, b \in ThreeTasks |-> b \in graph[a]], ThreeTasks)
    IN  DetectCycle(graph) <=> \E t \in ThreeTasks : reach[t, t]

\* What PlanAssumption asks of a plan, of those of all graphs of three tasks, and
\* of a list that names a task twice.
ASSUME PlansInOrder ==
  /\ \A graph \in Graphs :
       LET dependsOn == [t \in ThreeTasks |-> SetToSeq(graph[t])]
       IN  \/ InOrder(ExecutionPlan(dependsOn, SetToSeq(ThreeTasks)), graph)
           \/ TopologicalSortFails(dependsOn, ThreeTasks) /\ DetectCycle(graph)
  /\ LET twice == [t \in ThreeTasks |-> IF t = t1 THEN <<t2, t2>> ELSE <<>>]
     IN  TopologicalSortFails(twice, ThreeTasks) /\ ~DetectCycle(BuildGraph(twice, ThreeTasks))

\* The tasks of one group are interchangeable.
Symmetric == Permutations(TwoTasks)
=============================================================================
