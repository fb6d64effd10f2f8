------------------------------ MODULE BatchPlan ------------------------------
(* The first pass of a parallel batch against the dependencies its plan was    *)
(* made from.                                                                  *)
EXTENDS BatchConductor, DependencyGraph

CONSTANT DependsOn       \* of each task, the list of tasks it declares to depend on

\* Every task comes after all that it depends on: what the levels of an acyclic
\* graph are for.
InOrder(groups, graph) ==
  \A i \in DOMAIN groups : \A t \in groups[i] : \A d \in graph[t] :
    \E j \in DOMAIN groups : j < i /\ d \in groups[j]

Graph == BuildGraph(DependsOn, Tasks)

\* What create_execution_plan promises of its groups.
ASSUME PlanAssumption == InOrder(Groups, Graph) \/ TopologicalSortFails(DependsOn, Tasks)

\* In the first pass a worker is at work on a task only when all that the task
\* depends on, at whatever distance, has had its turn: its worker is back and
\* its verdict counted.  (Also when the verdict is FAILED: what depends on it is
\* launched unless failures stop the batch.)
DependenciesFirst ==
  \A e \in Executors, t \in Tasks :
    (ctl[e].mode = "execute" /\ child[e][t] \in Alive) =>
      \A d \in Graph[t] :
        \/ child[e][d] = "out" /\ \A i \in DOMAIN ctl[e].plan : d \notin ctl[e].plan[i]
        \/ TopologicalSortFails(DependsOn, Tasks)
=============================================================================
