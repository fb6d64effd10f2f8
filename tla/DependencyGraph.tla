-------------------------- MODULE DependencyGraph --------------------------
(* core/dependency_graph.py: from the tasks' depends_on to the groups that a   *)
(* parallel batch executes one after another.  A graph maps each task of the   *)
(* batch to the set of tasks of the batch that it depends on; depends_on itself *)
(* is a list, and may name a task more than once.                              *)
EXTENDS Integers, FiniteSetsExt, Functions

\* build_graph: what lies outside the batch is filtered out.
BuildGraph(dependsOn, tasks) == [t \in tasks |-> Range(dependsOn[t]) \cap tasks]

\* detect_cycle: the depth-first search meets a task it is still visiting. It can
\* go on forever among tasks each of which depends on one of them.
DetectCycle(graph) ==
  \E tasks \in (SUBSET DOMAIN graph) \ {{}} : \A t \in tasks : graph[t] \cap tasks # {}

\* topological_sort: a dependency that is listed twice is counted twice and taken off
\* once, and its task never comes up.
TopologicalSortFails(dependsOn, tasks) ==
  \/ DetectCycle(BuildGraph(dependsOn, tasks))
  \/ \E t \in tasks : \E i, j \in DOMAIN dependsOn[t] :
        i # j /\ dependsOn[t][i] = dependsOn[t][j] /\ dependsOn[t][i] \in tasks

\* calculate_level: the longest path to a task without dependencies.
Levels(graph) ==
  LET level[t \in DOMAIN graph] == 1 + Max({-1} \cup { level[d] : d \in graph[t] })
  IN  level

\* group_by_level, of a graph without a cycle: no level up to the highest is empty,
\* and so there is nothing for the code's filter to remove.
GroupByLevel(graph) ==
  LET level == Levels(graph)
      highest == Max({-1} \cup { level[t] : t \in DOMAIN graph })
  IN  [i \in 1 .. highest + 1 |-> { t \in DOMAIN graph : level[t] = i - 1 }]

\* create_execution_plan; when it raises execute_batch falls back to one task after
\* another, in the order the batch lists them.
ExecutionPlan(dependsOn, order) ==
  IF TopologicalSortFails(dependsOn, Range(order))
  THEN [i \in DOMAIN order |-> {order[i]}]
  ELSE GroupByLevel(BuildGraph(dependsOn, Range(order)))
=============================================================================
