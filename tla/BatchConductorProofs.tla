------------------------ MODULE BatchConductorProofs ------------------------
(* What holds of every batch, for any number of tasks, any plan, any number of *)
(* executors and whatever may happen to them: its type and that a cancel       *)
(* stands; and, of what may happen, as much as each theorem names: that what a *)
(* task depends on has had its turn, that a COMPLETED stands, that the row     *)
(* claims no more than its results, and that a cancel noticed launches nothing.*)
(* Before that, that the plans of create_execution_plan are as assumed.        *)
EXTENDS BatchPlan, FiniteSetTheorems, SequenceTheorems, WellFoundedInduction, TLAPS

-----------------------------------------------------------------------------
(* The plans that create_execution_plan makes.                                *)

\* A level satisfies calculate_level's equation.
Rises(f, graph, T) == \A t \in T : f[t] = 1 + Max({-1} \cup { f[d] : d \in graph[t] })

LEMMA LeastNatural ==
  ASSUME NEW S \in SUBSET Nat, S # {}
  PROVE  \E n \in S : \A m \in S : n <= m
<1>1. IsWellFoundedOn(OpToRel(<, Nat), Nat) BY NatLessThanWellFounded
<1>2. PICK n \in S : \A m \in S : ~(<<m, n>> \in OpToRel(<, Nat)) BY <1>1, WFMin
<1>3. \A m \in S : ~(m < n) BY <1>2 DEF OpToRel
<1> QED BY <1>3

LEMMA HighestOfFinite ==
  ASSUME NEW S \in SUBSET Int, IsFiniteSet(S), S # {}
  PROVE  \E m \in S : \A x \in S : x <= m
<1> DEFINE Topped(T) == \E m \in T : \A x \in T : x <= m
           Bad == { n \in Nat : \E T \in SUBSET Int :
                                  IsFiniteSet(T) /\ Cardinality(T) = n /\ T # {} /\ ~Topped(T) }
<1>1. SUFFICES ASSUME Bad # {} PROVE FALSE
  <2>1. Topped(S) \/ Cardinality(S) \in Bad
    <3> HIDE DEF Topped
    <3> QED BY FS_CardinalityType
  <2> HIDE DEF Bad
  <2> QED BY <2>1
<1>2. PICK n \in Bad : \A m \in Bad : n <= m
  <2>1. Bad \subseteq Nat OBVIOUS
  <2> HIDE DEF Bad
  <2> QED BY <1>1, <2>1, LeastNatural
<1>3. PICK T \in SUBSET Int : IsFiniteSet(T) /\ Cardinality(T) = n /\ T # {} /\ ~Topped(T) BY <1>2
<1>4. PICK x \in T : TRUE BY <1>3
<1> DEFINE U == T \ {x}
<1>5. IsFiniteSet(U) /\ Cardinality(U) = n - 1 /\ Cardinality(U) \in Nat
  BY <1>3, <1>4, FS_RemoveElement, FS_CardinalityType
<1>6. CASE U = {}
  <2>1. \A y \in T : y = x BY <1>6
  <2> QED BY <1>3, <1>4, <2>1
<1>7. CASE U # {}
  <2>0. n \in Nat BY <1>2
  <2>1. Cardinality(U) \notin Bad
    <3> HIDE DEF Bad, U
    <3> QED BY <1>2, <1>5, <2>0
  <2>2. Topped(U) BY <1>5, <1>7, <2>1
  <2>3. PICK m \in U : \A y \in U : y <= m BY <2>2
  <2>4. \A y \in T : y = x \/ y \in U OBVIOUS
  <2>5. m \in T /\ m \in Int /\ x \in Int BY <1>4
  <2>6. CASE x <= m
    <3>1. \A y \in T : y <= m BY <2>3, <2>4, <2>6
    <3> QED BY <1>3, <2>5, <3>1
  <2>7. CASE ~(x <= m)
    <3>1. \A y \in T : y <= x
      <4> SUFFICES ASSUME NEW y \in T PROVE y <= x OBVIOUS
      <4>1. y \in Int /\ (y = x \/ y <= m) BY <2>3, <2>4
      <4> QED BY <2>5, <2>7, <4>1
    <3> QED BY <1>3, <1>4, <3>1
  <2> QED BY <2>6, <2>7
<1> QED BY <1>6, <1>7

\* The highest of the levels of finitely many tasks.
LEMMA HighestLevel ==
  ASSUME NEW S, IsFiniteSet(S), NEW f, \A d \in S : f[d] \in Nat
  PROVE  LET m == Max({-1} \cup { f[d] : d \in S })
         IN  /\ m \in Nat \cup {-1} /\ \A d \in S : f[d] <= m
             /\ m = -1 \/ \E d \in S : m = f[d]
<1> DEFINE R == { f[d] : d \in S }
           T == {-1} \cup R
           m == Max(T)
<1>1. IsFiniteSet(R)
  <2> DEFINE g == [d \in S |-> f[d]]
  <2>1. g \in Surjection(S, R) BY DEF Surjection
  <2> QED BY <2>1, FS_Surjection
<1>2. IsFiniteSet(T) /\ T \in SUBSET Int /\ T # {}
  <2>1. T = R \cup {-1} OBVIOUS
  <2>2. IsFiniteSet(T) BY <1>1, <2>1, FS_AddElement
  <2> QED BY <2>2
<1>3. \E k \in T : \A x \in T : x <= k
  <2> HIDE DEF T
  <2> QED BY <1>2, HighestOfFinite
<1>4. m \in T /\ \A x \in T : m >= x
  <2>1. \E k \in T : \A x \in T : k >= x BY <1>2, <1>3
  <2> HIDE DEF T
  <2> QED BY <2>1 DEF Max
<1>5. \A d \in S : f[d] <= m BY <1>2, <1>4
<1>6. m = -1 \/ \E d \in S : m = f[d] BY <1>4
<1> QED BY <1>5, <1>6

\* A graph without a cycle has levels: those of a largest set of tasks that is closed
\* under dependencies and has them.
LEMMA LevelsExist ==
  ASSUME NEW D, IsFiniteSet(D), NEW graph \in [D -> SUBSET D], ~DetectCycle(graph)
  PROVE  \E f \in [D -> Nat] : Rises(f, graph, D)
<1> DEFINE Closed(T) == \A t \in T : graph[t] \subseteq T
           Solved(T) == Closed(T) /\ \E f \in [T -> Nat] : Rises(f, graph, T)
           Open == { n \in Nat : \E T \in SUBSET D : Solved(T) /\ Cardinality(D \ T) = n }
<1>1. Cardinality(D) \in Open
  <2>1. Solved({})
    <3>1. [x \in {} |-> 0] \in [{} -> Nat] OBVIOUS
    <3> QED BY <3>1 DEF Rises
  <2>2. D \ {} = D /\ Cardinality(D) \in Nat BY FS_CardinalityType
  <2> HIDE DEF Solved
  <2> QED BY <2>1, <2>2
<1>2. PICK n \in Open : \A m \in Open : n <= m
  <2>1. Open \subseteq Nat OBVIOUS
  <2> HIDE DEF Open
  <2> QED BY <1>1, <2>1, LeastNatural
<1>3. PICK T \in SUBSET D : Solved(T) /\ Cardinality(D \ T) = n BY <1>2
<1>4. CASE D \ T = {}
  <2>1. T = D BY <1>4
  <2> QED BY <1>3, <2>1
<1>5. CASE D \ T # {}
  <2>1. PICK t \in D \ T : graph[t] \cap (D \ T) = {}
    BY <1>5 DEF DetectCycle
  <2>2. PICK f \in [T -> Nat] : Rises(f, graph, T) BY <1>3
  <2> DEFINE U == T \cup {t}
             top == Max({-1} \cup { f[d] : d \in graph[t] })
             g == [x \in U |-> IF x = t THEN 1 + top ELSE f[x]]
  <2>3. graph[t] \subseteq T /\ t \notin T /\ U \in SUBSET D BY <2>1
  <2>4. top \in Nat \cup {-1}
    <3>1. IsFiniteSet(graph[t]) BY <2>3, FS_Subset
    <3>2. \A d \in graph[t] : f[d] \in Nat BY <2>2, <2>3
    <3> QED BY <3>1, <3>2, HighestLevel
  <2>5. g \in [U -> Nat]
    <3> HIDE DEF top
    <3>1. 1 + top \in Nat BY <2>4
    <3> QED BY <2>2, <3>1
  <2>6. \A x \in U : { g[d] : d \in graph[x] } = { f[d] : d \in graph[x] }
    <3>1. \A x \in U : graph[x] \subseteq T BY <1>3, <2>3
    <3>2. \A d \in T : g[d] = f[d] BY <2>3
    <3> HIDE DEF g
    <3> QED BY <3>1, <3>2
  <2>7. Rises(g, graph, U)
    <3> SUFFICES ASSUME NEW x \in U
                 PROVE  g[x] = 1 + Max({-1} \cup { g[d] : d \in graph[x] })
      BY DEF Rises
    <3>1. { g[d] : d \in graph[x] } = { f[d] : d \in graph[x] } BY <2>6
    <3>2. CASE x = t BY <3>1, <3>2
    <3>3. CASE x \in T
      <4>1. g[x] = f[x] BY <2>3, <3>3
      <4>2. f[x] = 1 + Max({-1} \cup { f[d] : d \in graph[x] }) BY <2>2, <3>3 DEF Rises
      <4> HIDE DEF g
      <4> QED BY <3>1, <4>1, <4>2
    <3> QED BY <3>2, <3>3
  <2>8. Solved(U)
    <3>1. Closed(U) BY <1>3, <2>3
    <3> HIDE DEF g, U, Closed
    <3>2. \E h \in [U -> Nat] : Rises(h, graph, U) BY <2>5, <2>7
    <3> QED BY <3>1, <3>2
  <2>9. Cardinality(D \ U) = n - 1 /\ Cardinality(D \ U) \in Nat
    <3>1. D \ U = (D \ T) \ {t} OBVIOUS
    <3>2. IsFiniteSet(D \ T) BY FS_Subset
    <3>3. Cardinality(D \ T) = n BY <1>3
    <3> DEFINE R == D \ T
    <3>4. t \in R OBVIOUS
    <3> HIDE DEF Solved, U, R
    <3>5. IsFiniteSet(R \ {t}) /\ Cardinality(R \ {t}) = Cardinality(R) - 1
      BY <3>2, <3>4, FS_RemoveElement DEF R
    <3> QED BY <3>1, <3>3, <3>5, FS_CardinalityType DEF R
  <2>10. Cardinality(D \ U) \in Open
    <3> HIDE DEF Solved, U
    <3> QED BY <2>3, <2>8, <2>9
  <2>11. n \in Nat BY <1>2
  <2> HIDE DEF Open, U
  <2> QED BY <1>2, <2>9, <2>10, <2>11
<1> QED BY <1>4, <1>5

\* They are those that calculate_level computes.
LEMMA LevelsAre ==
  ASSUME NEW D, IsFiniteSet(D), NEW graph \in [D -> SUBSET D], ~DetectCycle(graph)
  PROVE  Levels(graph) \in [D -> Nat] /\ Rises(Levels(graph), graph, D)
<1> DEFINE Solves(g) == g = [t \in D |-> 1 + Max({-1} \cup { g[d] : d \in graph[t] })]
<1>1. PICK f \in [D -> Nat] : Rises(f, graph, D) BY LevelsExist
<1>2. Solves(f) BY <1>1 DEF Rises
<1>3. Solves(Levels(graph))
  <2>1. Levels(graph) = CHOOSE g : Solves(g) BY DEF Levels
  <2> HIDE DEF Solves
  <2> QED BY <1>2, <2>1
<1>4. Levels(graph) = f
  <2> DEFINE g == Levels(graph)
             Apart == { t \in D : g[t] # f[t] }
  <2>1. CASE Apart # {}
    <3>1. PICK t \in Apart : graph[t] \cap Apart = {} BY <2>1 DEF DetectCycle
    <3>2. \A d \in graph[t] : g[d] = f[d] BY <3>1
    <3>3. { g[d] : d \in graph[t] } = { f[d] : d \in graph[t] } BY <3>2
    <3>4. g[t] = 1 + Max({-1} \cup { g[d] : d \in graph[t] }) BY <1>3
    <3>5. f[t] = 1 + Max({-1} \cup { f[d] : d \in graph[t] }) BY <1>1 DEF Rises
    <3> QED BY <3>1, <3>3, <3>4, <3>5
  <2>2. CASE Apart = {}
    <3>1. \A t \in D : g[t] = f[t] BY <2>2
    <3>2. g = [t \in D |-> g[t]] BY <1>3
    <3>3. f = [t \in D |-> f[t]] OBVIOUS
    <3> HIDE DEF g
    <3> QED BY <3>1, <3>2, <3>3 DEF g
  <2> QED BY <2>1, <2>2
<1> QED BY <1>1, <1>4

\* A task is one level above the highest of those it depends on.
LEMMA LevelsRise ==
  ASSUME NEW D, IsFiniteSet(D), NEW graph \in [D -> SUBSET D], ~DetectCycle(graph), NEW t \in D
  PROVE  /\ \A d \in graph[t] : Levels(graph)[d] < Levels(graph)[t]
         /\ Levels(graph)[t] # 0 => \E d \in graph[t] : Levels(graph)[d] = Levels(graph)[t] - 1
<1> DEFINE level == Levels(graph)
           top == Max({-1} \cup { level[d] : d \in graph[t] })
<1>1. level \in [D -> Nat] /\ level[t] = 1 + top BY LevelsAre DEF Rises
<1>2. IsFiniteSet(graph[t]) BY FS_Subset
<1>3. \A d \in graph[t] : d \in D /\ level[d] \in Nat BY <1>1
<1> HIDE DEF level
<1>4. /\ top \in Nat \cup {-1} /\ \A d \in graph[t] : level[d] <= top
      /\ top = -1 \/ \E d \in graph[t] : top = level[d]
  BY <1>2, <1>3, HighestLevel
<1> HIDE DEF top
<1>5. \A d \in graph[t] : level[d] < level[t] BY <1>1, <1>3, <1>4
<1>6. level[t] # 0 => \E d \in graph[t] : level[d] = level[t] - 1 BY <1>1, <1>3, <1>4
<1> QED BY <1>5, <1>6 DEF level

\* group_by_level puts every task into one group, leaves no group empty, and puts a
\* task into a later group than all it depends on.
LEMMA GroupsByLevel ==
  ASSUME NEW D, IsFiniteSet(D), NEW graph \in [D -> SUBSET D], ~DetectCycle(graph)
  PROVE  LET groups == GroupByLevel(graph)
         IN  /\ groups \in Seq((SUBSET D) \ {{}})
             /\ \A t \in D : \E i \in DOMAIN groups : t \in groups[i]
             /\ \A i, j \in DOMAIN groups : i # j => groups[i] \cap groups[j] = {}
             /\ InOrder(groups, graph)
<1> DEFINE level == Levels(graph)
           highest == Max({-1} \cup { level[t] : t \in D })
           Level(i) == { t \in D : level[t] = i - 1 }
           groups == GroupByLevel(graph)
<1>1. level \in [D -> Nat] BY LevelsAre
<1>2. groups = [i \in 1 .. highest + 1 |-> Level(i)] BY DEF GroupByLevel
<1>3. ASSUME NEW t \in D
      PROVE  /\ \A d \in graph[t] : d \in D /\ level[d] < level[t]
             /\ level[t] # 0 => \E d \in graph[t] : d \in D /\ level[d] = level[t] - 1
  <2>1. graph[t] \subseteq D OBVIOUS
  <2> QED BY <2>1, LevelsRise
<1> HIDE DEF level, groups
<1>4. \A t \in D : level[t] \in Nat BY <1>1
<1>5. /\ highest \in Nat \cup {-1} /\ \A t \in D : level[t] <= highest
      /\ highest = -1 \/ \E t \in D : highest = level[t]
  BY <1>4, HighestLevel
<1> HIDE DEF highest
<1>6. DOMAIN groups = 1 .. highest + 1 /\ \A i \in 1 .. highest + 1 : groups[i] = Level(i)
  BY <1>2
<1>7. \A t \in D : level[t] + 1 \in DOMAIN groups /\ t \in groups[level[t] + 1]
  <2> SUFFICES ASSUME NEW t \in D
               PROVE  level[t] + 1 \in DOMAIN groups /\ t \in groups[level[t] + 1]
    OBVIOUS
  <2>1. level[t] \in Nat /\ level[t] <= highest BY <1>4, <1>5
  <2>2. level[t] + 1 \in 1 .. highest + 1 /\ level[t] = (level[t] + 1) - 1 BY <1>5, <2>1
  <2> QED BY <1>6, <2>2
<1>8. \A i \in DOMAIN groups : groups[i] # {}
  <2> DEFINE Gaps == { l \in Nat : l <= highest /\ \A t \in D : level[t] # l }
             Above(l) == { m \in Nat : m > l /\ \E t \in D : level[t] = m }
  <2>1. Gaps = {}
    <3> SUFFICES ASSUME NEW l \in Gaps PROVE FALSE OBVIOUS
    <3>1. l \in Nat /\ l <= highest /\ \A t \in D : level[t] # l OBVIOUS
    <3>2. highest \in Above(l) BY <1>5, <3>1
    <3>3. PICK m \in Above(l) : \A k \in Above(l) : m <= k
      <4>1. Above(l) \subseteq Nat OBVIOUS
      <4> HIDE DEF Above
      <4> QED BY <3>2, <4>1, LeastNatural
    <3>4. m \in Nat /\ m > l BY <3>3
    <3>5. PICK t \in D : level[t] = m BY <3>3
    <3>6. PICK d \in D : level[d] = m - 1
      <4>1. m # 0 BY <3>1, <3>4
      <4> QED BY <1>3, <3>5, <4>1
    <3>7. m - 1 \in Nat BY <3>1, <3>4
    <3>8. m - 1 # l BY <3>1, <3>6, <3>7
    <3>9. m - 1 > l BY <3>1, <3>4, <3>8
    <3>10. m - 1 \in Above(l) BY <3>1, <3>4, <3>6, <3>7, <3>9
    <3> QED BY <3>3, <3>4, <3>10
  <2> SUFFICES ASSUME NEW i \in 1 .. highest + 1 PROVE \E t \in D : level[t] = i - 1
    BY <1>6
  <2>2. i - 1 \in Nat /\ i - 1 <= highest BY <1>5
  <2> QED BY <2>1, <2>2
<1>9. groups \in Seq((SUBSET D) \ {{}})
  <2>1. highest + 1 \in Nat BY <1>5
  <2>2. \A i \in 1 .. highest + 1 : groups[i] \in (SUBSET D) \ {{}} BY <1>6, <1>8
  <2>3. groups = [i \in 1 .. highest + 1 |-> groups[i]] BY <1>2
  <2>4. groups \in [1 .. highest + 1 -> (SUBSET D) \ {{}}] BY <2>2, <2>3
  <2> QED BY <2>1, <2>4, SeqDef
<1>10. \A i, j \in DOMAIN groups : i # j => groups[i] \cap groups[j] = {}
  <2> SUFFICES ASSUME NEW i \in 1 .. highest + 1, NEW j \in 1 .. highest + 1, NEW t \in D,
                      level[t] = i - 1, level[t] = j - 1
               PROVE  i = j
    BY <1>6
  <2> QED BY <1>5
<1>11. InOrder(groups, graph)
  <2> SUFFICES ASSUME NEW i \in DOMAIN groups, NEW t \in groups[i], NEW d \in graph[t]
               PROVE  \E j \in DOMAIN groups : j < i /\ d \in groups[j]
    BY DEF InOrder
  <2>1. t \in D /\ level[t] = i - 1 BY <1>6
  <2>2. d \in D /\ level[d] < level[t] BY <1>3, <2>1
  <2>3. level[d] + 1 < i
    <3>1. i \in Int BY <1>5, <1>6
    <3>2. level[d] \in Nat BY <1>4, <2>2
    <3> QED BY <2>1, <2>2, <3>1, <3>2
  <2> QED BY <1>7, <2>2, <2>3
<1> QED BY <1>7, <1>9, <1>10, <1>11 DEF groups

\* A plan runs every task of its batch once, in groups none of which is empty, and, if
\* topological_sort does not raise, a task in a later group than all it depends on. So
\* what GroupsAssumption and PlanAssumption ask of a plan holds of what execute_batch has
\* create_execution_plan make, or falls back to, for any list of tasks and whatever lists
\* of dependencies they declare.
THEOREM PlanInOrder ==
  ASSUME NEW S, NEW order \in Seq(S), \A i, j \in DOMAIN order : order[i] = order[j] => i = j,
         NEW dependsOn
  PROVE  LET groups == ExecutionPlan(dependsOn, order)
             graph  == BuildGraph(dependsOn, Range(order))
         IN  /\ groups \in Seq((SUBSET Range(order)) \ {{}})
             /\ \A t \in Range(order) : \E i \in DOMAIN groups : t \in groups[i]
             /\ \A i, j \in DOMAIN groups : i # j => groups[i] \cap groups[j] = {}
             /\ InOrder(groups, graph) \/ TopologicalSortFails(dependsOn, Range(order))
<1> DEFINE D == Range(order)
           groups == ExecutionPlan(dependsOn, order)
           graph == BuildGraph(dependsOn, D)
           Fails == TopologicalSortFails(dependsOn, D)
<1>1. Len(order) \in Nat /\ DOMAIN order = 1 .. Len(order) BY LenProperties
<1>2. IsFiniteSet(D)
  <2> DEFINE g == [i \in 1 .. Len(order) |-> order[i]]
  <2>1. g \in Surjection(1 .. Len(order), D) BY <1>1 DEF Surjection, Range
  <2>2. IsFiniteSet(1 .. Len(order)) BY <1>1, FS_Interval
  <2> QED BY <2>1, <2>2, FS_Surjection
<1>3. graph \in [D -> SUBSET D] BY DEF BuildGraph
<1>4. CASE ~Fails
  <2>0. ~DetectCycle(graph) BY <1>4 DEF TopologicalSortFails
  <2>1. groups = GroupByLevel(graph) BY <1>4 DEF ExecutionPlan
  <2> HIDE DEF D, graph, groups
  <2>2. /\ groups \in Seq((SUBSET D) \ {{}})
        /\ \A t \in D : \E i \in DOMAIN groups : t \in groups[i]
        /\ \A i, j \in DOMAIN groups : i # j => groups[i] \cap groups[j] = {}
        /\ InOrder(groups, graph)
    BY <1>2, <1>3, <2>0, <2>1, GroupsByLevel
  <2> QED BY <2>2 DEF D, graph, groups
<1>5. CASE Fails
  <2>1. groups = [i \in DOMAIN order |-> {order[i]}] BY <1>5 DEF ExecutionPlan
  <2> HIDE DEF groups
  <2>2. \A i \in DOMAIN order : {order[i]} \in (SUBSET D) \ {{}} BY DEF Range
  <2>3. groups \in [1 .. Len(order) -> (SUBSET D) \ {{}}] BY <1>1, <2>1, <2>2
  <2>4. groups \in Seq((SUBSET D) \ {{}}) BY <1>1, <2>3, SeqDef
  <2>5. \A t \in D : \E i \in DOMAIN groups : t \in groups[i] BY <2>1 DEF Range
  <2>6. \A i, j \in DOMAIN groups : i # j => groups[i] \cap groups[j] = {} BY <2>1
  <2> QED BY <1>5, <2>4, <2>5, <2>6 DEF groups
<1> QED BY <1>4, <1>5

-----------------------------------------------------------------------------
(* The inductive invariant.                                                    *)

\* An executor works on a group only while its plan has one.
GroupHasPlan == \A e \in Executors : At(e, "group") => ctl[e].plan # <<>>

\* Between the verdict and the save the executor's copy says how the batch ended.
VerdictReached == \A e \in Executors : ctl[e].pc \in {"gates", "persist"} => batch[e].status \in Terminal

IInv == TypeOK /\ GroupHasPlan /\ VerdictReached

\* The move of e to a place where the invariant holds.
Moves(e) ==
  \E c \in Controls :
    /\ ctl' = [ctl EXCEPT ![e] = c]
    /\ c.pc = "group" => c.plan # <<>>
    /\ c.pc \in {"gates", "persist"} => batch'[e].status \in Terminal

\* The executors' copies keep their type, and all but e's their status.
Copies(e) ==
  /\ batch' \in [Executors -> Rows]
  /\ \A f \in Executors : batch'[f].status = batch[f].status \/ f = e

\* The variables other than the row, the copies and the control are of their type.
TablesTyped ==
  /\ saving \in [Executors -> SUBSET Saves]
  /\ child \in [Executors -> [Tasks -> Children]]
  /\ task \in [Tasks -> Statuses]
  /\ run \in [Tasks -> [status : RunStatuses \cup {"none"}, by : Executors]]
  /\ blocker \in [Tasks -> {"none", "OPEN", "ANSWERED"}]
  /\ closed \subseteq Tasks
  /\ findings \in [Executors -> SUBSET (Tasks \X {"completed", "requeue", "issue"})]
  /\ requeued \in [Executors -> SUBSET Tasks]
  /\ cancels \subseteq Rows
  /\ announced \in [Executors -> Terminal \cup {"none"}]

USE GroupsAssumption, BatchAssumption

-----------------------------------------------------------------------------
LEMMA RowFields ==
  /\ \A b \in Rows, s \in Live \cup Terminal :
       /\ [b EXCEPT !.status = s] \in Rows
       /\ [b EXCEPT !.status = s].status = s /\ [b EXCEPT !.status = s].results = b.results
  /\ \A b \in Rows : /\ b.status \in Live \cup Terminal
                     /\ b.results \in [Tasks -> RunStatuses \cup {"none"}]
  /\ \A b \in Rows, t \in Tasks, r \in RunStatuses \cup {"none"} :
       [b EXCEPT !.results[t] = r] \in Rows
  /\ \A b \in Rows, r \in [Tasks -> RunStatuses \cup {"none"}] : [b EXCEPT !.results = r] \in Rows
BY DEF Rows

\* Where the control moves like this and the rest keeps its type, so does the
\* invariant hold.
LEMMA MovesKeepControl ==
  ASSUME IInv, NEW e \in Executors, Moves(e), Copies(e)
  PROVE  ctl' \in [Executors -> Controls] /\ GroupHasPlan' /\ VerdictReached'
<1>1. PICK c \in Controls : /\ ctl' = [ctl EXCEPT ![e] = c]
                            /\ c.pc = "group" => c.plan # <<>>
                            /\ c.pc \in {"gates", "persist"} => batch'[e].status \in Terminal
  BY DEF Moves
<1>2. ctl \in [Executors -> Controls] BY DEF IInv, TypeOK
<1>3. ctl' \in [Executors -> Controls] BY <1>1, <1>2
<1>4. \A f \in Executors : ctl'[f] = IF f = e THEN c ELSE ctl[f] BY <1>1, <1>2
<1>5. GroupHasPlan' BY <1>1, <1>4 DEF IInv, GroupHasPlan, At
<1>6. VerdictReached' BY <1>1, <1>4 DEF IInv, VerdictReached, Copies
<1> QED BY <1>3, <1>5, <1>6

\* A plain jump of e: to a place with no duties, or from one group to itself.
LEMMA GotoMoves ==
  ASSUME IInv, NEW e \in Executors, NEW label \in Labels \ {"group", "gates", "persist"},
         Goto(e, label)
  PROVE  Moves(e)
<1>1. ctl[e] \in Controls BY DEF IInv, TypeOK
<1>2. [ctl[e] EXCEPT !.pc = label] \in Controls BY <1>1 DEF Controls
<1>3. ctl' = [ctl EXCEPT ![e] = [ctl[e] EXCEPT !.pc = label]] BY DEF Goto
<1>4. [ctl[e] EXCEPT !.pc = label].pc = label BY <1>1 DEF Controls
<1> QED BY <1>2, <1>3, <1>4 DEF Moves

\* It stands where it is, whatever its copy comes to say of the batch's end.
LEMMA StandMoves ==
  ASSUME IInv, NEW e \in Executors, ctl' = ctl, batch'[e].status \in {batch[e].status} \cup Terminal
  PROVE  Moves(e)
<1>1. ctl \in [Executors -> Controls] BY DEF IInv, TypeOK
<1>2. ctl' = [ctl EXCEPT ![e] = ctl[e]] BY <1>1
<1>3. ctl[e].pc = "group" => ctl[e].plan # <<>> BY DEF IInv, GroupHasPlan, At
<1>4. ctl[e].pc \in {"gates", "persist"} => batch'[e].status \in Terminal
  BY DEF IInv, VerdictReached
<1> QED BY <1>1, <1>2, <1>3, <1>4 DEF Moves

LEMMA SaveBatchTypes ==
  ASSUME IInv, NEW e \in Executors, NEW by \in SUBSET Tasks, NEW b \in Rows, SaveBatch(e, by, b)
  PROVE  /\ Copies(e) /\ batch'[e] = b /\ \A f \in Executors : f # e => batch'[f] = batch[f]
         /\ saving' \in [Executors -> SUBSET Saves]
<1> DEFINE save == [by |-> by, results |-> b.results, looked |-> FALSE]
<1>1. batch \in [Executors -> Rows] /\ saving \in [Executors -> SUBSET Saves]
  BY DEF IInv, TypeOK
<1>2. save \in Saves BY DEF Saves, Rows
<1>3. batch' = [batch EXCEPT ![e] = b] /\ saving' = [saving EXCEPT ![e] = @ \cup {save}]
  BY DEF SaveBatch
<1> HIDE DEF save
<1> QED BY <1>1, <1>2, <1>3 DEF Copies

LEMMA SingletonsType ==
  ASSUME NEW S \in SUBSET Tasks
  PROVE  Singletons(S) \in Seq(SUBSET Tasks)
<1> DEFINE n == Cardinality(S)
<1>1. IsFiniteSet(S) BY FS_Subset
<1>2. n \in Nat /\ ExistsBijection(1..n, S) BY <1>1, FS_CardinalityType
<1>3. \E f \in [1..n -> S] : IsInjective(f)
  BY <1>2 DEF ExistsBijection, Bijection, Injection
<1>4. SetToSeq(S) \in [1..n -> S] BY <1>3 DEF SetToSeq
<1>5. [i \in 1..n |-> {SetToSeq(S)[i]}] \in [1..n -> SUBSET Tasks] BY <1>4
<1> QED BY <1>2, <1>5, SMTT(30) DEF Singletons

-----------------------------------------------------------------------------
(* The two shapes of a step: it moves one executor, or none.                  *)

LEMMA MovingStep ==
  ASSUME IInv, NEW e \in Executors, Moves(e), Copies(e), row' \in Rows, TablesTyped'
  PROVE  IInv'
<1>1. ctl' \in [Executors -> Controls] /\ GroupHasPlan' /\ VerdictReached' BY MovesKeepControl
<1> QED BY <1>1 DEF IInv, TypeOK, TablesTyped, Copies

LEMMA StayingStep ==
  ASSUME IInv, ctl' = ctl, batch' \in [Executors -> Rows],
         \A f \in Executors : batch'[f].status = batch[f].status,
         row' \in Rows, TablesTyped'
  PROVE  IInv'
<1>1. GroupHasPlan' /\ VerdictReached' BY DEF IInv, GroupHasPlan, VerdictReached, At
<1> QED BY <1>1 DEF IInv, TypeOK, TablesTyped

\* What the conditions of the actions rest on.
LEMMA Typed == IInv => TablesTyped /\ row \in Rows /\ batch \in [Executors -> Rows]
                       /\ ctl \in [Executors -> Controls]
BY DEF IInv, TypeOK, TablesTyped

LEMMA CopiesStay == ASSUME IInv, NEW e \in Executors, batch' = batch PROVE Copies(e)
BY Typed DEF Copies

-----------------------------------------------------------------------------
LEMMA RunFailed ==
  ASSUME TablesTyped, NEW t \in Tasks, NEW s \in RunStatuses
  PROVE  [run EXCEPT ![t].status = s] \in
           [Tasks -> [status : RunStatuses \cup {"none"}, by : Executors]]
<1>1. run[t] \in [status : RunStatuses \cup {"none"}, by : Executors] BY DEF TablesTyped
<1>2. [run[t] EXCEPT !.status = s] \in [status : RunStatuses \cup {"none"}, by : Executors]
  BY <1>1
<1> QED BY <1>2 DEF TablesTyped

LEMMA StatusMoved ==
  ASSUME TablesTyped, NEW t \in Tasks, NEW s \in Statuses
  PROVE  [task EXCEPT ![t] = IF CanTransition(@, s) THEN s ELSE @] \in [Tasks -> Statuses]
BY DEF TablesTyped

LEMMA FailRunTypes ==
  ASSUME TablesTyped, NEW t \in Tasks, FailRun(t)
  PROVE  /\ task' \in [Tasks -> Statuses]
         /\ run' \in [Tasks -> [status : RunStatuses \cup {"none"}, by : Executors]]
<1>1. "FAILED" \in RunStatuses /\ "FAILED" \in Statuses BY DEF RunStatuses, Statuses
<1> QED BY <1>1, RunFailed, StatusMoved DEF FailRun

LEMMA FailOwnRunTypes ==
  ASSUME TablesTyped, NEW t \in Tasks, NEW e \in Executors, FailOwnRun(e, t)
  PROVE  /\ task' \in [Tasks -> Statuses]
         /\ run' \in [Tasks -> [status : RunStatuses \cup {"none"}, by : Executors]]
BY FailRunTypes DEF FailOwnRun, TablesTyped

LEMMA UnblockTypes ==
  ASSUME TablesTyped, NEW t \in Tasks, Unblock(t)
  PROVE  /\ task' \in [Tasks -> Statuses]
         /\ run' \in [Tasks -> [status : RunStatuses \cup {"none"}, by : Executors]]
<1>1. "FAILED" \in RunStatuses /\ "READY" \in Statuses BY DEF RunStatuses, Statuses
<1> DEFINE failed == [run EXCEPT ![t].status = "FAILED"]
           ready == [task EXCEPT ![t] = IF CanTransition(@, "READY") THEN "READY" ELSE @]
<1>2. CASE run[t].status = "BLOCKED"
  <2>1. run' = failed /\ task' = ready BY <1>2 DEF Unblock
  <2>2. failed \in [Tasks -> [status : RunStatuses \cup {"none"}, by : Executors]]
    BY <1>1, RunFailed
  <2>3. ready \in [Tasks -> Statuses] BY <1>1, StatusMoved
  <2> QED BY <2>1, <2>2, <2>3
<1>3. CASE run[t].status # "BLOCKED" BY <1>3 DEF Unblock, TablesTyped
<1> QED BY <1>2, <1>3

LEMMA ExitTypes ==
  ASSUME TablesTyped, NEW t \in Tasks, NEW e \in Executors, NEW code \in Children,
         Exit(e, t, code)
  PROVE  child' \in [Executors -> [Tasks -> Children]]
BY DEF Exit, TablesTyped

LEMMA ChangesTypes ==
  ASSUME NEW e \in Executors, NEW told \in SUBSET Tasks
  PROVE  Changes(e, told) \in SUBSET (Tasks \X {"completed", "requeue", "issue"})
BY DEF Changes

LEMMA ReportedTypes ==
  ASSUME NEW cs \in SUBSET (Tasks \X {"completed", "requeue", "issue"})
  PROVE  Reported(cs) \in SUBSET Tasks
BY DEF Reported

LEMMA ApplyChangesTypes ==
  ASSUME IInv, NEW e \in Executors, NEW cs, ApplyChanges(e, cs)
  PROVE  /\ task' \in [Tasks -> Statuses]
         /\ child' \in [Executors -> [Tasks -> Children]]
         /\ batch' \in [Executors -> Rows]
         /\ \A f \in Executors : batch'[f].status = batch[f].status
<1>1. task' \in [Tasks -> Statuses] BY Typed DEF ApplyChanges, TablesTyped, Statuses
<1>2. child' \in [Executors -> [Tasks -> Children]]
  BY Typed DEF ApplyChanges, TablesTyped, Children
<1> DEFINE results == [t \in Tasks |-> IF t \in Settled(cs) THEN "COMPLETED"
                                      ELSE IF t \in Reported(cs) THEN "none"
                                      ELSE batch[e].results[t]]
<1>3. results \in [Tasks -> RunStatuses \cup {"none"}] BY Typed DEF Rows, RunStatuses
<1>4. batch' = [batch EXCEPT ![e] = [batch[e] EXCEPT !.results = results]]
  BY Typed DEF ApplyChanges
<1> HIDE DEF results
<1>5. /\ [batch[e] EXCEPT !.results = results] \in Rows
      /\ [batch[e] EXCEPT !.results = results].status = batch[e].status
  BY <1>3, Typed DEF Rows
<1> QED BY <1>1, <1>2, <1>4, <1>5, Typed

LEMMA TalliedTypes ==
  ASSUME NEW c \in Controls, NEW result
  PROVE  /\ Tallied(c, result) \in Controls
         /\ Tallied(c, result).pc = c.pc /\ Tallied(c, result).plan = c.plan
<1> DEFINE a == [c EXCEPT !.completed = @ + 1]
           b == [c EXCEPT !.failed = @ + 1]
           d == [c EXCEPT !.blocked = @ + 1]
<1>1. c.completed + 1 \in Nat /\ c.failed + 1 \in Nat /\ c.blocked + 1 \in Nat BY DEF Controls
<1>4. \A n \in Nat : /\ [c EXCEPT !.completed = n] \in Controls
                     /\ [c EXCEPT !.failed = n] \in Controls
                     /\ [c EXCEPT !.blocked = n] \in Controls
  BY DEF Controls
<1>5. a \in Controls /\ b \in Controls /\ d \in Controls BY <1>1, <1>4
<1>2. /\ a.pc = c.pc /\ a.plan = c.plan
      /\ b.pc = c.pc /\ b.plan = c.plan
      /\ d.pc = c.pc /\ d.plan = c.plan
  BY DEF Controls
<1>3. Tallied(c, result) = IF result = "COMPLETED" THEN a ELSE IF result = "BLOCKED" THEN d ELSE b
  BY DEF Tallied
<1> HIDE DEF a, b, d
<1> QED BY <1>2, <1>3, <1>5

LEMMA IdleType == Idle \in Controls
<1>1. <<>> \in Seq(SUBSET Tasks) /\ 0 \in 0..MaxRetries /\ 0 \in Nat OBVIOUS
<1> QED BY <1>1 DEF Idle, Controls, Labels

LEMMA OutcomeTypes == ASSUME NEW e \in Executors PROVE Outcome(e) \in Terminal
BY DEF Outcome, Earned, Terminal

-----------------------------------------------------------------------------
(* Each action keeps the invariant.                                           *)

LEMMA ExecuteBatchKeeps ==
  ASSUME IInv, NEW e \in Executors, ExecuteBatch(e)
  PROVE  IInv'
<1> DEFINE c == [ctl[e] EXCEPT !.plan = Groups]
           b == [batch[e] EXCEPT !.status = "RUNNING"]
<1>1. c \in Controls /\ c.pc = "created"
  <2>1. Groups \in Seq(SUBSET Tasks) /\ ctl[e] \in Controls /\ ctl[e].pc = "created"
    BY Typed DEF ExecuteBatch, At
  <2> QED BY <2>1 DEF Controls
<1>2. ctl' = [ctl EXCEPT ![e] = c] BY Typed DEF ExecuteBatch
<1>3. b \in Rows BY Typed, RowFields DEF Live
<1>4. {} \in SUBSET Tasks /\ SaveBatch(e, {}, b) BY DEF ExecuteBatch
<1> HIDE DEF c, b
<1>5. Copies(e) /\ saving' \in [Executors -> SUBSET Saves] BY <1>3, <1>4, SaveBatchTypes
<1>6. Moves(e) BY <1>1, <1>2 DEF Moves
<1>7. TablesTyped' /\ row' = row BY <1>5, Typed DEF ExecuteBatch, TablesTyped
<1> QED BY <1>5, <1>6, <1>7, Typed, MovingStep

LEMMA SweepsKeep ==
  ASSUME IInv, NEW e \in Executors, FirstSweep(e) \/ ReconcileCheck(e) \/ ReconcileApply(e)
  PROVE  IInv'
<1>1. \A told \in SUBSET closed :
        /\ Changes(e, told) \in SUBSET (Tasks \X {"completed", "requeue", "issue"})
        /\ Reported(Changes(e, told)) \in SUBSET Tasks
  BY Typed, ChangesTypes, ReportedTypes DEF TablesTyped
<1>2. CASE FirstSweep(e)
  <2>1. PICK told \in SUBSET closed :
          /\ ApplyChanges(e, Changes(e, told))
          /\ requeued' = [requeued EXCEPT ![e] = @ \cup Reported(Changes(e, told))]
    BY <1>2 DEF FirstSweep
  <2>2. /\ task' \in [Tasks -> Statuses] /\ child' \in [Executors -> [Tasks -> Children]]
        /\ batch' \in [Executors -> Rows]
        /\ \A f \in Executors : batch'[f].status = batch[f].status
    BY <2>1, ApplyChangesTypes
  <2>3. requeued' \in [Executors -> SUBSET Tasks] BY <1>1, <2>1, Typed DEF TablesTyped
  <2>4. TablesTyped' BY <1>2, <2>2, <2>3, Typed DEF FirstSweep, TablesTyped
  <2>5. Goto(e, "loop") /\ "loop" \in Labels BY <1>2 DEF FirstSweep, Labels
  <2>6. Moves(e) BY <2>5, GotoMoves
  <2>7. Copies(e) /\ row' \in Rows BY <1>2, <2>2, Typed DEF Copies, FirstSweep
  <2> QED BY <2>4, <2>6, <2>7, MovingStep
<1>3. CASE ReconcileCheck(e)
  <2>1. PICK told \in SUBSET closed :
          /\ findings' = [findings EXCEPT ![e] = Changes(e, told)]
          /\ requeued' = [requeued EXCEPT ![e] = @ \cup Reported(Changes(e, told))]
    BY <1>3 DEF ReconcileCheck
  <2>2. TablesTyped' BY <1>1, <1>3, <2>1, Typed DEF ReconcileCheck, TablesTyped
  <2> QED BY <1>3, <2>2, Typed, StayingStep DEF ReconcileCheck
<1>4. CASE ReconcileApply(e)
  <2>1. /\ task' \in [Tasks -> Statuses] /\ child' \in [Executors -> [Tasks -> Children]]
        /\ batch' \in [Executors -> Rows]
        /\ \A f \in Executors : batch'[f].status = batch[f].status
    BY <1>4, ApplyChangesTypes DEF ReconcileApply
  <2>2. TablesTyped' BY <1>4, <2>1, Typed DEF ReconcileApply, TablesTyped
  <2> QED BY <1>4, <2>1, <2>2, Typed, StayingStep DEF ReconcileApply
<1> QED BY <1>2, <1>3, <1>4

LEMMA NextGroupKeeps ==
  ASSUME IInv, NEW e \in Executors, NextGroup(e)
  PROVE  IInv'
<1> DEFINE c == [ctl[e] EXCEPT !.pc = "group"]
<1>1. c \in Controls /\ c.pc = "group" /\ c.plan # <<>>
  <2>1. ctl[e] \in Controls /\ "group" \in Labels /\ ctl[e].plan # <<>>
    BY Typed DEF Labels, NextGroup
  <2> QED BY <2>1 DEF Controls
<1>2. ctl' = [ctl EXCEPT ![e] = c] BY DEF NextGroup, Goto
<1> HIDE DEF c
<1>3. Moves(e) BY <1>1, <1>2 DEF Moves
<1>4. child' \in [Executors -> [Tasks -> Children]]
  BY Typed DEF NextGroup, TablesTyped, Children
<1>5. TablesTyped' BY <1>4, Typed DEF NextGroup, aside, TablesTyped
<1>6. batch' = batch /\ row' = row BY DEF NextGroup
<1> QED BY <1>3, <1>5, <1>6, Typed, CopiesStay, MovingStep

LEMMA LoopEndsKeeps ==
  ASSUME IInv, NEW e \in Executors, LoopEnds(e)
  PROVE  IInv'
<1>1. \/ Goto(e, "verdict") \/ Goto(e, "ended") \/ Goto(e, "retries") BY DEF LoopEnds
<1>2. Moves(e) BY <1>1, GotoMoves DEF Labels
<1>3. TablesTyped' /\ batch' = batch /\ row' = row
  BY Typed DEF LoopEnds, aside, TablesTyped
<1> QED BY <1>2, <1>3, Typed, CopiesStay, MovingStep

\* Counting leaves an executor where it is.
LEMMA TallyMoves ==
  ASSUME IInv, NEW e \in Executors, NEW result, At(e, "group"),
         ctl' = [ctl EXCEPT ![e] = Tallied(@, result)]
  PROVE  Moves(e)
<1>1. ctl[e] \in Controls /\ ctl[e].pc = "group" /\ ctl[e].plan # <<>>
  BY Typed DEF At, IInv, GroupHasPlan
<1>2. /\ Tallied(ctl[e], result) \in Controls
      /\ Tallied(ctl[e], result).pc = "group" /\ Tallied(ctl[e], result).plan # <<>>
  BY <1>1, TalliedTypes
<1> QED BY <1>2 DEF Moves

LEMMA BreakMoves ==
  ASSUME IInv, NEW e \in Executors, At(e, "group"), ctl' = [ctl EXCEPT ![e].broken = TRUE]
  PROVE  Moves(e)
<1> DEFINE c == [ctl[e] EXCEPT !.broken = TRUE]
<1>1. ctl[e] \in Controls /\ ctl[e].pc = "group" /\ ctl[e].plan # <<>>
  BY Typed DEF At, IInv, GroupHasPlan
<1>2. c \in Controls /\ c.pc = "group" /\ c.plan # <<>> BY <1>1 DEF Controls
<1>3. ctl' = [ctl EXCEPT ![e] = c] BY Typed
<1> HIDE DEF c
<1> QED BY <1>2, <1>3 DEF Moves

LEMMA LaunchKeeps ==
  ASSUME IInv, NEW e \in Executors, NEW t \in Tasks, Launch(e, t) \/ LaunchRaises(e, t)
  PROVE  IInv'
<1>1. batch' = batch /\ row' = row /\ At(e, "group") BY DEF Launch, LaunchRaises
<1>2. child' \in [Executors -> [Tasks -> Children]]
  <2>1. child' = [child EXCEPT ![e][t] = "out"] \/ child' = [child EXCEPT ![e][t] = "started"]
    BY DEF Launch, LaunchRaises
  <2>2. \A code \in Children : [child EXCEPT ![e][t] = code] \in [Executors -> [Tasks -> Children]]
    BY Typed DEF TablesTyped
  <2>3. "out" \in Children /\ "started" \in Children BY DEF Children, Alive
  <2> QED BY <2>1, <2>2, <2>3, ZenonT(60)
<1>3. TablesTyped' BY <1>2, Typed DEF Launch, LaunchRaises, aside, TablesTyped
<1>4. \/ ctl' = [ctl EXCEPT ![e] = Tallied(@, "COMPLETED")]
      \/ ctl' = [ctl EXCEPT ![e].broken = TRUE]
      \/ ctl' = ctl
  BY DEF Launch, LaunchRaises
<1>5. CASE ctl' = ctl BY <1>1, <1>3, <1>5, Typed, StayingStep
<1>6. CASE ctl' # ctl
  <2>1. Moves(e) BY <1>1, <1>4, <1>6, TallyMoves, BreakMoves
  <2> QED BY <2>1, <1>1, <1>3, Typed, CopiesStay, MovingStep
<1> QED BY <1>5, <1>6

\* A step that moves one worker, and with it perhaps its task and its run.
LEMMA WorkerStep ==
  ASSUME IInv, NEW e \in Executors, NEW t \in Tasks, NEW code \in Children, Exit(e, t, code),
         task' \in [Tasks -> Statuses],
         run' \in [Tasks -> [status : RunStatuses \cup {"none"}, by : Executors]],
         blocker' \in [Tasks -> {"none", "OPEN", "ANSWERED"}],
         UNCHANGED <<row, batch, saving, ctl, announced, closed, findings, requeued, cancels>>
  PROVE  IInv'
<1>1. child' \in [Executors -> [Tasks -> Children]] BY Typed, ExitTypes
<1>2. TablesTyped' BY <1>1, Typed DEF TablesTyped
<1> QED BY <1>2, Typed, StayingStep

LEMMA WorkerKeeps ==
  ASSUME IInv, NEW e \in Executors, NEW t \in Tasks, Worker(e, t)
  PROVE  IInv'
<1>0. /\ {"agent", "closing", "exitOk", "exitBad"} \subseteq Children
      /\ task \in [Tasks -> Statuses] /\ run \in [Tasks -> [status : RunStatuses \cup {"none"}, by : Executors]]
      /\ blocker \in [Tasks -> {"none", "OPEN", "ANSWERED"}]
  BY Typed DEF Children, Alive, TablesTyped
<1>1. CASE StartRun(e, t)
  <2>1. Exit(e, t, "agent") \/ Exit(e, t, "exitBad") BY <1>1 DEF StartRun
  <2>2. task' \in [Tasks -> Statuses] BY <1>0, <1>1 DEF StartRun, Statuses
  <2>3. run' \in [Tasks -> [status : RunStatuses \cup {"none"}, by : Executors]]
    <3>1. [status |-> "RUNNING", by |-> e] \in [status : RunStatuses \cup {"none"}, by : Executors]
      BY DEF RunStatuses
    <3>2. run' = [run EXCEPT ![t] = [status |-> "RUNNING", by |-> e]] \/ run' = run
      BY <1>1 DEF StartRun
    <3> QED BY <1>0, <3>1, <3>2
  <2> QED BY <1>0, <1>1, <2>1, <2>2, <2>3, WorkerStep DEF StartRun, aside
<1>2. CASE AgentCompletes(e, t)
  <2>1. CASE OwnRun(e, t) /\ task[t] \in {"IN_PROGRESS", "DONE"}
    <3>1. Exit(e, t, "closing") /\ run' = run BY <1>2, <2>1 DEF AgentCompletes
    <3>2. task' \in [Tasks -> Statuses] BY <1>0, <1>2, <2>1 DEF AgentCompletes, Statuses
    <3> QED BY <1>0, <1>2, <3>1, <3>2, WorkerStep DEF AgentCompletes, aside
  <2>2. CASE ~(OwnRun(e, t) /\ task[t] \in {"IN_PROGRESS", "DONE"})
    <3>1. FailOwnRun(e, t) /\ Exit(e, t, "exitBad") BY <1>2, <2>2 DEF AgentCompletes
    <3> QED BY <1>0, <1>2, <3>1, Typed, FailOwnRunTypes, WorkerStep DEF AgentCompletes, aside
  <2> QED BY <2>1, <2>2
<1>3. CASE CloseRun(e, t)
  <2>1. run' \in [Tasks -> [status : RunStatuses \cup {"none"}, by : Executors]]
    <3>1. "COMPLETED" \in RunStatuses BY DEF RunStatuses
    <3>2. run' = [run EXCEPT ![t].status = "COMPLETED"] \/ run' = run BY <1>3 DEF CloseRun
    <3> QED BY <1>0, <3>1, <3>2, Typed, RunFailed
  <2> QED BY <1>0, <1>3, <2>1, WorkerStep DEF CloseRun, aside
<1>4. CASE AgentFails(e, t)
  BY <1>0, <1>4, Typed, FailOwnRunTypes, WorkerStep DEF AgentFails, aside
<1>5. CASE AgentBlocks(e, t)
  <2>1. blocker' \in [Tasks -> {"none", "OPEN", "ANSWERED"}] BY <1>0, <1>5 DEF AgentBlocks
  <2>2. /\ task' \in [Tasks -> Statuses]
        /\ run' \in [Tasks -> [status : RunStatuses \cup {"none"}, by : Executors]]
    <3>1. CASE OwnRun(e, t) /\ CanTransition(task[t], "BLOCKED")
      <4>1. /\ run' = [run EXCEPT ![t].status = "BLOCKED"]
            /\ task' = [task EXCEPT ![t] = "BLOCKED"]
        BY <1>5, <3>1 DEF AgentBlocks
      <4>2. "BLOCKED" \in RunStatuses /\ "BLOCKED" \in Statuses BY DEF RunStatuses, Statuses
      <4>3. run' \in [Tasks -> [status : RunStatuses \cup {"none"}, by : Executors]]
        BY <4>1, <4>2, Typed, RunFailed
      <4> QED BY <1>0, <4>1, <4>2, <4>3
    <3>2. CASE ~(OwnRun(e, t) /\ CanTransition(task[t], "BLOCKED"))
      BY <1>5, <3>2, Typed, FailOwnRunTypes DEF AgentBlocks
    <3> QED BY <3>1, <3>2
  <2> QED BY <1>0, <1>5, <2>1, <2>2, WorkerStep DEF AgentBlocks
<1>6. CASE WorkerCrashes(e, t) BY <1>0, <1>6, WorkerStep DEF WorkerCrashes, aside
<1> QED BY <1>1, <1>2, <1>3, <1>4, <1>5, <1>6 DEF Worker

LEMMA VerdictTypes ==
  ASSUME IInv, NEW e \in Executors, NEW t \in Tasks
  PROVE  Verdict(e, t) \in RunStatuses
<1>1. run[t].status \in RunStatuses \cup {"none"} BY Typed DEF TablesTyped
<1> QED BY <1>1 DEF Verdict, RunStatuses

LEMMA RecordTypes ==
  ASSUME IInv, NEW e \in Executors, NEW t \in Tasks, NEW verdict \in RunStatuses
  PROVE  RecordTaskResult(e, t, verdict) \in Rows
<1>1. batch[e] \in Rows BY Typed
<1>2. (IF batch[e].results[t] = "COMPLETED" THEN batch[e].results[t] ELSE verdict)
        \in RunStatuses \cup {"none"}
  BY DEF RunStatuses
<1> QED BY <1>1, <1>2, RowFields DEF RecordTaskResult

LEMMA CollectKeeps ==
  ASSUME IInv, NEW e \in Executors, NEW t \in Tasks, Collect(e, t)
  PROVE  IInv'
<1> DEFINE b == RecordTaskResult(e, t, Verdict(e, t))
<1>1. b \in Rows BY VerdictTypes, RecordTypes
<1>2. {t} \in SUBSET Tasks /\ SaveBatch(e, {t}, b) BY DEF Collect
<1>3. /\ task' \in [Tasks -> Statuses]
      /\ run' \in [Tasks -> [status : RunStatuses \cup {"none"}, by : Executors]]
  BY Typed, FailRunTypes DEF Collect, TablesTyped
<1>4. child' \in [Executors -> [Tasks -> Children]]
  <2>1. Exit(e, t, "saving") /\ "saving" \in Children BY DEF Collect, Children
  <2> QED BY <2>1, Typed, ExitTypes
<1>5. At(e, "group") /\ (ctl' = ctl \/ ctl' = [ctl EXCEPT ![e] = Tallied(@, b.results[t])])
  BY DEF Collect
<1> HIDE DEF b
<1>6. Copies(e) /\ saving' \in [Executors -> SUBSET Saves] BY <1>1, <1>2, SaveBatchTypes
<1>7. TablesTyped' /\ row' = row BY <1>3, <1>4, <1>6, Typed DEF Collect, TablesTyped
<1>8. Moves(e)
  <2>1. CASE ctl' = ctl
    <3>1. ctl' = [ctl EXCEPT ![e] = ctl[e]] BY <2>1, Typed
    <3> QED BY <1>5, <3>1, Typed DEF Moves, At, IInv, GroupHasPlan
  <2>2. CASE ctl' # ctl BY <1>5, <2>2, TallyMoves
  <2> QED BY <2>1, <2>2
<1> QED BY <1>6, <1>7, <1>8, Typed, MovingStep

LEMMA CountKeeps ==
  ASSUME IInv, NEW e \in Executors, NEW t \in Tasks, Count(e, t)
  PROVE  IInv'
<1>1. Exit(e, t, "out") /\ "out" \in Children BY DEF Count, Children
<1>2. child' \in [Executors -> [Tasks -> Children]] BY <1>1, Typed, ExitTypes
<1>3. TablesTyped' /\ batch' = batch /\ row' = row
  BY <1>2, Typed DEF Count, aside, TablesTyped
<1>4. \/ ctl' = [ctl EXCEPT ![e].broken = TRUE]
      \/ ctl' = [ctl EXCEPT ![e] = Tallied(@, batch[e].results[t])]
  BY DEF Count
<1>5. Moves(e) BY <1>4, TallyMoves, BreakMoves DEF Count
<1> QED BY <1>3, <1>5, Typed, CopiesStay, MovingStep

LEMMA SuperviseKeeps ==
  ASSUME IInv, NEW e \in Executors, NEW t \in Tasks, Supervise(e, t)
  PROVE  IInv'
<1>1. Exit(e, t, "supervised") /\ "supervised" \in Children BY DEF Supervise, Children
<1>2. child' \in [Executors -> [Tasks -> Children]] BY <1>1, Typed, ExitTypes
<1>3. TablesTyped' /\ batch' = batch /\ row' = row
  BY <1>2, Typed DEF Supervise, TablesTyped
<1> DEFINE c == [ctl[e] EXCEPT !.supervised = TRUE]
<1>4. ctl[e] \in Controls /\ ctl[e].pc = "group" /\ ctl[e].plan # <<>>
  BY Typed DEF Supervise, At, IInv, GroupHasPlan
<1>5. c \in Controls /\ c.pc = "group" /\ c.plan # <<>> BY <1>4 DEF Controls
<1>6. ctl' = [ctl EXCEPT ![e] = c] BY Typed DEF Supervise
<1> HIDE DEF c
<1>7. Moves(e) BY <1>5, <1>6 DEF Moves
<1> QED BY <1>3, <1>7, Typed, CopiesStay, MovingStep

LEMMA SuperviseEndsKeeps ==
  ASSUME IInv, NEW e \in Executors, NEW t \in Tasks, SuperviseEnds(e, t)
  PROVE  IInv'
<1>1. "started" \in Children /\ blocker \in [Tasks -> {"none", "OPEN", "ANSWERED"}]
  BY Typed DEF Children, Alive, TablesTyped
<1> QED BY <1>1, Typed, UnblockTypes, WorkerStep DEF SuperviseEnds, aside

LEMMA GroupDoneKeeps ==
  ASSUME IInv, NEW e \in Executors, GroupDone(e)
  PROVE  IInv'
<1> DEFINE label == IF ctl[e].broken THEN "handler" ELSE "loop"
           c == [ctl[e] EXCEPT !.pc = label, !.plan = Tail(ctl[e].plan), !.supervised = FALSE]
<1>1. ctl[e] \in Controls /\ ctl[e].plan # <<>> BY Typed DEF GroupDone, At, IInv, GroupHasPlan
<1>2. Tail(ctl[e].plan) \in Seq(SUBSET Tasks) BY <1>1 DEF Controls
<1>3. label \in Labels \ {"group", "gates", "persist"} BY DEF Labels
<1>4. ctl' = [ctl EXCEPT ![e] = c] BY Typed DEF GroupDone
<1> HIDE DEF label
<1>5. c \in Controls /\ c.pc = label BY <1>1, <1>2, <1>3 DEF Controls
<1> HIDE DEF c
<1>6. Moves(e) BY <1>3, <1>4, <1>5 DEF Moves
<1>7. TablesTyped' /\ batch' = batch /\ row' = row
  BY Typed DEF GroupDone, aside, TablesTyped
<1> QED BY <1>6, <1>7, Typed, CopiesStay, MovingStep

LEMMA FinalizeKeeps ==
  ASSUME IInv, NEW e \in Executors, Finalize(e)
  PROVE  IInv'
<1> DEFINE label == IF Outcome(e) = "COMPLETED" THEN "gates" ELSE "persist"
           c == [ctl[e] EXCEPT !.pc = label]
           b == [batch[e] EXCEPT !.status = Outcome(e)]
<1>1. batch[e] \in Rows /\ ctl[e] \in Controls BY Typed
<1>2. Outcome(e) \in Terminal BY OutcomeTypes
<1>3. b \in Rows BY <1>1, <1>2, RowFields
<1>4. b.status = Outcome(e) BY <1>1 DEF Rows
<1>5. batch' = [batch EXCEPT ![e] = b] BY <1>1 DEF Finalize
<1>6. ctl' = [ctl EXCEPT ![e] = c] BY DEF Finalize, Goto
<1>7. label \in Labels /\ label # "group" BY DEF Labels
<1> HIDE DEF label, b
<1>8. c \in Controls /\ c.pc = label BY <1>1, <1>7 DEF Controls
<1> HIDE DEF c
<1>9. batch'[e].status \in Terminal /\ Copies(e) BY <1>2, <1>3, <1>4, <1>5, Typed DEF Copies
<1>10. Moves(e) BY <1>6, <1>7, <1>8, <1>9 DEF Moves
<1>11. TablesTyped' /\ row' = row BY Typed DEF Finalize, aside, TablesTyped
<1> QED BY <1>9, <1>10, <1>11, Typed, MovingStep

\* A jump to "persist" of an executor whose copy says how the batch ended.
LEMMA PersistMoves ==
  ASSUME IInv, NEW e \in Executors, Goto(e, "persist"), batch'[e].status \in Terminal
  PROVE  Moves(e)
<1> DEFINE c == [ctl[e] EXCEPT !.pc = "persist"]
<1>1. ctl[e] \in Controls /\ "persist" \in Labels BY Typed DEF Labels
<1>2. c \in Controls /\ c.pc = "persist" BY <1>1 DEF Controls
<1>3. ctl' = [ctl EXCEPT ![e] = c] BY DEF Goto
<1> HIDE DEF c
<1> QED BY <1>2, <1>3 DEF Moves

LEMMA GatesEndKeeps ==
  ASSUME IInv, NEW e \in Executors, GatesEnd(e)
  PROVE  IInv'
<1>1. TablesTyped' /\ row' = row BY Typed DEF GatesEnd, aside, TablesTyped
<1>2. batch[e].status \in Terminal BY DEF GatesEnd, At, IInv, VerdictReached
<1>3. CASE Goto(e, "persist") /\ batch' = batch
  BY <1>1, <1>2, <1>3, Typed, CopiesStay, PersistMoves, MovingStep
<1>4. CASE Goto(e, "persist") /\ batch' = [batch EXCEPT ![e].status = "PARTIAL"]
  <2> DEFINE b == [batch[e] EXCEPT !.status = "PARTIAL"]
  <2>1. b \in Rows BY Typed, RowFields DEF Terminal
  <2>2. b.status = "PARTIAL" BY Typed DEF Rows
  <2>3. batch' = [batch EXCEPT ![e] = b] BY <1>4, Typed
  <2> HIDE DEF b
  <2>4. batch'[e].status \in Terminal /\ Copies(e)
    BY <2>1, <2>2, <2>3, Typed DEF Copies, Terminal
  <2> QED BY <1>1, <1>4, <2>4, Typed, PersistMoves, MovingStep
<1>5. CASE ctl' = [ctl EXCEPT ![e].pc = "handler", ![e].broken = TRUE] /\ batch' = batch
  <2> DEFINE c == [ctl[e] EXCEPT !.pc = "handler", !.broken = TRUE]
  <2>1. ctl[e] \in Controls /\ "handler" \in Labels BY Typed DEF Labels
  <2>2. c \in Controls /\ c.pc = "handler" BY <2>1 DEF Controls
  <2>3. ctl' = [ctl EXCEPT ![e] = c] BY <1>5, Typed
  <2> HIDE DEF c
  <2>4. Moves(e) BY <2>2, <2>3 DEF Moves
  <2> QED BY <1>1, <1>5, <2>4, Typed, CopiesStay, MovingStep
<1> QED BY <1>3, <1>4, <1>5 DEF GatesEnd

LEMMA PersistKeeps ==
  ASSUME IInv, NEW e \in Executors, Persist(e)
  PROVE  IInv'
<1>1. batch[e] \in Rows /\ {} \in SUBSET Tasks BY Typed
<1>2. Copies(e) /\ batch'[e] = batch[e] /\ saving' \in [Executors -> SUBSET Saves]
  BY <1>1, SaveBatchTypes DEF Persist
<1>3. batch[e].status \in Terminal BY DEF Persist, At, IInv, VerdictReached
<1>4. announced' \in [Executors -> Terminal \cup {"none"}] BY <1>3, Typed DEF Persist, TablesTyped
<1>5. TablesTyped' /\ row' = row /\ ctl' = ctl BY <1>2, <1>4, Typed DEF Persist, TablesTyped
<1>6. Moves(e) BY <1>2, <1>5, StandMoves
<1> QED BY <1>2, <1>5, <1>6, Typed, MovingStep

LEMMA HandleErrorKeeps ==
  ASSUME IInv, NEW e \in Executors, HandleError(e)
  PROVE  IInv'
<1> DEFINE b == [batch[e] EXCEPT !.status = "FAILED"]
<1>1. b \in Rows /\ b.status = "FAILED" BY Typed, RowFields DEF Terminal
<1>2. CASE ctl[e].mode = "retry"
  <2>1. batch' = batch /\ row' = row /\ Goto(e, "ended") /\ "ended" \in Labels
    BY <1>2 DEF HandleError, Labels
  <2>2. TablesTyped' BY <1>2, Typed DEF HandleError, TablesTyped
  <2> QED BY <2>1, <2>2, Typed, CopiesStay, GotoMoves, MovingStep
<1>3. CASE ctl[e].mode # "retry"
  <2>0. {} \in SUBSET Tasks OBVIOUS
  <2>1. SaveBatch(e, {}, b) /\ ctl' = ctl /\ row' = row BY <1>3 DEF HandleError
  <2> HIDE DEF b
  <2>2. Copies(e) /\ batch'[e] = b /\ saving' \in [Executors -> SUBSET Saves]
    BY <1>1, <2>0, <2>1, SaveBatchTypes
  <2>3. announced' \in [Executors -> Terminal \cup {"none"}]
    BY <1>3, Typed DEF HandleError, TablesTyped, Terminal
  <2>4. TablesTyped' BY <2>2, <2>3, Typed DEF HandleError, TablesTyped
  <2>5. Moves(e) BY <1>1, <2>1, <2>2, StandMoves DEF Terminal
  <2> QED BY <2>1, <2>2, <2>4, <2>5, Typed, MovingStep
<1> QED BY <1>2, <1>3

LEMMA SavedTypes ==
  ASSUME IInv, NEW e \in Executors, NEW save \in saving[e], Saved(e, save),
         batch'[e].status \in {batch[e].status} \cup Terminal
  PROVE  /\ child' \in [Executors -> [Tasks -> Children]]
         /\ saving' \in [Executors -> SUBSET Saves] /\ Moves(e)
<1>1. child' \in [Executors -> [Tasks -> Children]]
  <2>1. "recorded" \in Children /\ "out" \in Children BY DEF Children
  <2> QED BY <2>1, Typed DEF Saved, TablesTyped
<1>2. saving' \in [Executors -> SUBSET Saves] BY Typed DEF Saved, TablesTyped
<1>3. ctl' = ctl \/ Goto(e, "sweep") \/ Goto(e, "retries") \/ Goto(e, "ended")
  BY DEF Saved
<1>4. Moves(e) BY <1>3, GotoMoves, StandMoves DEF Labels
<1> QED BY <1>1, <1>2, <1>4

LEMMA SavesKeep ==
  ASSUME IInv, NEW e \in Executors, LookAtStored(e) \/ ReplaceRow(e)
  PROVE  IInv'
<1>0. batch \in [Executors -> Rows] /\ saving \in [Executors -> SUBSET Saves]
  BY Typed DEF TablesTyped
<1>1. ASSUME NEW save \in saving[e], Saved(e, save), batch' = [batch EXCEPT ![e].status = "CANCELLED"],
             LookAtStored(e)
      PROVE  IInv'
  <2> DEFINE b == [batch[e] EXCEPT !.status = "CANCELLED"]
  <2>1. b \in Rows /\ b.status = "CANCELLED" BY <1>0, RowFields DEF Terminal
  <2>2. batch' = [batch EXCEPT ![e] = b] BY <1>0, <1>1
  <2> HIDE DEF b
  <2>3. Copies(e) /\ batch'[e].status \in Terminal BY <1>0, <2>1, <2>2 DEF Copies, Terminal
  <2>4. /\ child' \in [Executors -> [Tasks -> Children]]
        /\ saving' \in [Executors -> SUBSET Saves] /\ Moves(e)
    BY <1>1, <2>3, SavedTypes
  <2>5. TablesTyped' /\ row' = row BY <1>1, <2>4, Typed DEF LookAtStored, TablesTyped
  <2> QED BY <2>3, <2>4, <2>5, Typed, MovingStep
<1>2. ASSUME NEW save \in saving[e], LookAtStored(e),
             saving' = [saving EXCEPT ![e] = (@ \ {save}) \cup {[save EXCEPT !.looked = TRUE]}],
             UNCHANGED <<batch, ctl, child>>
      PROVE  IInv'
  <2>1. [save EXCEPT !.looked = TRUE] \in Saves
    <3>1. save \in Saves BY <1>0
    <3> QED BY <3>1 DEF Saves
  <2>2. saving' \in [Executors -> SUBSET Saves] BY <1>0, <1>2, <2>1
  <2>3. TablesTyped' /\ row' = row BY <1>2, <2>2, Typed DEF LookAtStored, TablesTyped
  <2> QED BY <1>2, <2>3, Typed, StayingStep
<1>3. CASE LookAtStored(e) BY <1>1, <1>2, <1>3 DEF LookAtStored
<1>4. CASE ReplaceRow(e)
  <2>1. PICK save \in InLock(e) :
          row' = [status |-> batch[e].status, results |-> save.results] /\ Saved(e, save)
    BY <1>4 DEF ReplaceRow
  <2>2. save \in saving[e] /\ save \in Saves BY <1>0 DEF InLock
  <2>3. row' \in Rows BY <1>0, <2>1, <2>2 DEF Rows, Saves
  <2>4. batch' = batch BY <1>4 DEF ReplaceRow
  <2>5. /\ child' \in [Executors -> [Tasks -> Children]]
        /\ saving' \in [Executors -> SUBSET Saves] /\ Moves(e)
    BY <2>1, <2>2, <2>4, SavedTypes
  <2>6. TablesTyped' BY <1>4, <2>5, Typed DEF ReplaceRow, TablesTyped
  <2> QED BY <2>3, <2>4, <2>5, <2>6, CopiesStay, MovingStep
<1> QED BY <1>3, <1>4

LEMMA NextRoundKeeps ==
  ASSUME IInv, NEW e \in Executors, NextRound(e)
  PROVE  IInv'
<1> DEFINE again == { t \in Tasks : batch[e].results[t] = "FAILED" }
           c == [ctl[e] EXCEPT !.pc = "verdict", !.mode = "retry"]
           d == [ctl[e] EXCEPT !.pc = "loop", !.mode = "retry", !.round = @ + 1,
                               !.plan = Singletons(again)]
<1>1. ctl[e] \in Controls /\ {"verdict", "loop"} \subseteq Labels BY Typed DEF Labels
<1>2. TablesTyped' /\ batch' = batch /\ row' = row BY Typed DEF NextRound, aside, TablesTyped
<1>3. CASE again = {} \/ ctl[e].round = MaxRetries
  <2>1. c \in Controls /\ c.pc = "verdict" BY <1>1 DEF Controls
  <2>2. ctl' = [ctl EXCEPT ![e] = c] BY <1>3, Typed DEF NextRound
  <2> HIDE DEF c
  <2>3. Moves(e) BY <2>1, <2>2 DEF Moves
  <2> QED BY <1>2, <2>3, Typed, CopiesStay, MovingStep
<1>4. CASE ~(again = {} \/ ctl[e].round = MaxRetries)
  <2>1. Singletons(again) \in Seq(SUBSET Tasks) BY SingletonsType
  <2>2. ctl[e].round + 1 \in 0..MaxRetries
    <3>1. ctl[e].round \in 0..MaxRetries BY <1>1 DEF Controls
    <3> QED BY <3>1, <1>4
  <2>3. \A r \in 0..MaxRetries, p \in Seq(SUBSET Tasks) :
          LET x == [ctl[e] EXCEPT !.pc = "loop", !.mode = "retry", !.round = r, !.plan = p]
          IN  x \in Controls /\ x.pc = "loop"
    BY <1>1 DEF Controls
  <2>4. d \in Controls /\ d.pc = "loop" BY <2>1, <2>2, <2>3
  <2>5. ctl' = [ctl EXCEPT ![e] = d] BY <1>4, Typed DEF NextRound
  <2> HIDE DEF d
  <2>6. Moves(e) BY <2>4, <2>5 DEF Moves
  <2> QED BY <1>2, <2>6, Typed, CopiesStay, MovingStep
<1> QED BY <1>3, <1>4

LEMMA ExecutorDiesKeeps ==
  ASSUME IInv, NEW e \in Executors, ExecutorDies(e)
  PROVE  IInv'
<1>1. TablesTyped' /\ batch' = batch /\ row' = row BY Typed DEF ExecutorDies, TablesTyped
<1>2. Goto(e, "ended") /\ "ended" \in Labels BY DEF ExecutorDies, Labels
<1> QED BY <1>1, <1>2, Typed, GotoMoves, CopiesStay, MovingStep

LEMMA ResumeKeeps ==
  ASSUME IInv, NEW e \in Executors, Resume(e)
  PROVE  IInv'
<1>1. PICK force \in BOOLEAN :
        LET again == { t \in Tasks : force \/ row.results[t] # "COMPLETED" } IN
        /\ ctl' = [ctl EXCEPT ![e] = [Idle EXCEPT !.pc = "reopen", !.mode = "resume",
                                                  !.plan = Singletons(again)]]
        /\ batch' = [batch EXCEPT ![e] = [status |-> "RUNNING",
             results |-> [t \in Tasks |-> IF t \in again THEN "none" ELSE row.results[t]]]]
        /\ task' = [t \in Tasks |-> IF t \in again /\ task[t] = "DONE" THEN "READY" ELSE task[t]]
  BY DEF Resume
<1> DEFINE again == { t \in Tasks : force \/ row.results[t] # "COMPLETED" }
           c == [Idle EXCEPT !.pc = "reopen", !.mode = "resume", !.plan = Singletons(again)]
           b == [status |-> "RUNNING",
                 results |-> [t \in Tasks |-> IF t \in again THEN "none" ELSE row.results[t]]]
<1>2. /\ ctl' = [ctl EXCEPT ![e] = c]
      /\ batch' = [batch EXCEPT ![e] = b]
      /\ task' = [t \in Tasks |-> IF t \in again /\ task[t] = "DONE" THEN "READY" ELSE task[t]]
  BY <1>1
<1>3. Singletons(again) \in Seq(SUBSET Tasks) BY SingletonsType
<1>4. \A p \in Seq(SUBSET Tasks) :
        LET x == [Idle EXCEPT !.pc = "reopen", !.mode = "resume", !.plan = p]
        IN  x \in Controls /\ x.pc = "reopen"
  <2>1. Idle \in Controls /\ "reopen" \in Labels BY IdleType DEF Labels
  <2> QED BY <2>1 DEF Controls
<1>5. c \in Controls /\ c.pc = "reopen" BY <1>3, <1>4
<1>6. b \in Rows BY Typed DEF Rows, Live
<1>7. task' \in [Tasks -> Statuses] BY <1>2, Typed DEF TablesTyped, Statuses
<1>8. TablesTyped' BY <1>7, Typed DEF Resume, aside, TablesTyped
<1> HIDE DEF c, b, again
<1>9. Moves(e) BY <1>2, <1>5 DEF Moves
<1>10. Copies(e) BY <1>2, <1>6, Typed DEF Copies
<1>11. row' = row BY DEF Resume
<1> QED BY <1>8, <1>9, <1>10, <1>11, Typed, MovingStep

LEMMA ReopenKeeps ==
  ASSUME IInv, NEW e \in Executors, Reopen(e)
  PROVE  IInv'
<1>1. TablesTyped' /\ batch' = batch /\ row' \in Rows
  BY Typed DEF Reopen, aside, TablesTyped
<1>2. Goto(e, "loop") /\ "loop" \in Labels BY DEF Reopen, Labels
<1> QED BY <1>1, <1>2, GotoMoves, CopiesStay, MovingStep

LEMMA CancelKeeps ==
  ASSUME IInv, Cancel \/ CancelWrites
  PROVE  IInv'
<1>1. CASE Cancel
  <2>1. TablesTyped' BY <1>1, Typed DEF Cancel, TablesTyped
  <2> QED BY <1>1, <2>1, Typed, StayingStep DEF Cancel
<1>2. CASE CancelWrites
  <2>1. PICK c \in cancels : row' = [c EXCEPT !.status = "CANCELLED"] BY <1>2 DEF CancelWrites
  <2>2. row' \in Rows BY <2>1, Typed, RowFields DEF TablesTyped, Terminal
  <2>3. child' \in [Executors -> [Tasks -> Children]]
    <3>1. CASE child' = child BY <3>1, Typed DEF TablesTyped
    <3>2. CASE child' # child
      <4>1. \E spared \in SUBSET { w \in Executors \X Tasks : child[w[1]][w[2]] = "started" } :
              child' = [e \in Executors |-> [t \in Tasks |->
                          IF At(e, "group") /\ child[e][t] \in Alive /\ <<e, t>> \notin spared
                          THEN "exitBad" ELSE child[e][t]]]
        BY <1>2, <3>2, Zenon DEF CancelWrites
      <4>2. "exitBad" \in Children /\ child \in [Executors -> [Tasks -> Children]]
        BY Typed DEF TablesTyped, Children
      <4> QED BY <4>1, <4>2
    <3> QED BY <3>1, <3>2
  <2>4. TablesTyped' BY <1>2, <2>3, Typed DEF CancelWrites, TablesTyped
  <2> QED BY <1>2, <2>2, <2>4, Typed, StayingStep DEF CancelWrites
<1> QED BY <1>1, <1>2

LEMMA OutsidersKeep ==
  ASSUME IInv, NEW t \in Tasks, MarkDone(t) \/ CloseIssue(t) \/ Answer(t) \/ AnswerEnds(t)
  PROVE  IInv'
<1>1. UNCHANGED <<row, batch, ctl>>
  BY DEF MarkDone, CloseIssue, Answer, AnswerEnds
<1>2. CASE MarkDone(t)
  <2>1. task' \in [Tasks -> Statuses] BY <1>2, Typed DEF MarkDone, TablesTyped, Statuses
  <2> QED BY <1>1, <1>2, <2>1, Typed, StayingStep DEF MarkDone, aside, TablesTyped
<1>3. CASE CloseIssue(t)
  <2>1. TablesTyped' BY <1>3, Typed DEF CloseIssue, TablesTyped
  <2> QED BY <1>1, <2>1, Typed, StayingStep
<1>4. CASE Answer(t)
  <2>1. TablesTyped' BY <1>4, Typed DEF Answer, TablesTyped
  <2> QED BY <1>1, <2>1, Typed, StayingStep
<1>5. CASE AnswerEnds(t)
  <2>1. TablesTyped' BY <1>5, Typed, UnblockTypes DEF AnswerEnds, aside, TablesTyped
  <2> QED BY <1>1, <2>1, Typed, StayingStep
<1> QED BY <1>2, <1>3, <1>4, <1>5

-----------------------------------------------------------------------------
LEMMA InitInv == Init => IInv
<1> SUFFICES ASSUME Init PROVE IInv OBVIOUS
<1>1. row \in Rows BY DEF Init, Rows, Live
<1>2. batch \in [Executors -> Rows] BY <1>1 DEF Init
<1>3. [Idle EXCEPT !.pc = "created"] \in Controls /\ [Idle EXCEPT !.pc = "created"].pc = "created"
  <2>1. Idle \in Controls /\ "created" \in Labels BY IdleType DEF Labels
  <2> QED BY <2>1 DEF Controls
<1>4. Idle.pc = "idle" BY DEF Idle
<1>5. ctl \in [Executors -> Controls] BY <1>3, IdleType DEF Init
<1>6. \A e \in Executors : ctl[e].pc \in {"idle", "created"} BY <1>3, <1>4 DEF Init
<1>7. GroupHasPlan /\ VerdictReached BY <1>6 DEF GroupHasPlan, VerdictReached, At
<1>8. run \in [Tasks -> [status : RunStatuses \cup {"none"}, by : Executors]]
  BY DEF Init, NoRun
<1>9. child \in [Executors -> [Tasks -> Children]] /\ task \in [Tasks -> Statuses]
  BY DEF Init, Children, Statuses
<1>10. /\ findings \in [Executors -> SUBSET (Tasks \X {"completed", "requeue", "issue"})]
       /\ requeued \in [Executors -> SUBSET Tasks]
       /\ announced \in [Executors -> Terminal \cup {"none"}]
       /\ blocker \in [Tasks -> {"none", "OPEN", "ANSWERED"}]
       /\ closed \subseteq Tasks /\ cancels \subseteq Rows
       /\ saving \in [Executors -> SUBSET Saves]
  BY DEF Init
<1> QED BY <1>1, <1>2, <1>5, <1>7, <1>8, <1>9, <1>10 DEF IInv, TypeOK

LEMMA StepInv ==
  ASSUME IInv, [Next]_vars
  PROVE  IInv'
<1>1. CASE UNCHANGED vars
  BY <1>1 DEF vars, IInv, TypeOK, GroupHasPlan, VerdictReached, At
<1>2. ASSUME NEW e \in Executors, Work(e) PROVE IInv'
  <2>1. ASSUME NEW t \in Tasks,
               \/ Launch(e, t) \/ LaunchRaises(e, t) \/ Collect(e, t) \/ Count(e, t)
               \/ Supervise(e, t) \/ SuperviseEnds(e, t)
        PROVE  IInv'
    BY <2>1, LaunchKeeps, CollectKeeps, CountKeeps, SuperviseKeeps, SuperviseEndsKeeps
  <2>2. CASE ExecuteBatch(e) \/ FirstSweep(e) \/ NextGroup(e) \/ LoopEnds(e) \/ GroupDone(e)
    BY <2>2, ExecuteBatchKeeps, SweepsKeep, NextGroupKeeps, LoopEndsKeeps, GroupDoneKeeps
  <2>3. CASE Finalize(e) \/ GatesEnd(e) \/ Persist(e) \/ HandleError(e) \/ NextRound(e) \/ Reopen(e)
    BY <2>3, FinalizeKeeps, GatesEndKeeps, PersistKeeps, HandleErrorKeeps, NextRoundKeeps,
       ReopenKeeps
  <2>4. CASE LookAtStored(e) \/ ReplaceRow(e) BY <2>4, SavesKeep
  <2> QED BY <1>2, <2>1, <2>2, <2>3, <2>4 DEF Work
<1>3. ASSUME NEW e \in Executors,
             \/ ReconcileCheck(e) \/ ReconcileApply(e) \/ ExecutorDies(e) \/ Resume(e)
             \/ \E t \in Tasks : Worker(e, t)
      PROVE  IInv'
  BY <1>3, SweepsKeep, ExecutorDiesKeeps, ResumeKeeps, WorkerKeeps
<1>4. CASE Cancel \/ CancelWrites BY <1>4, CancelKeeps
<1>5. ASSUME NEW t \in Tasks, MarkDone(t) \/ CloseIssue(t) \/ Answer(t) \/ AnswerEnds(t)
      PROVE  IInv'
  BY <1>5, OutsidersKeep
<1> QED BY <1>1, <1>2, <1>3, <1>4, <1>5 DEF Next

LEMMA Invariant == Spec => []IInv
BY InitInv, StepInv, PTL DEF Spec

\* The row, the executors' copies, the results and the tasks' rows hold only words
\* of their vocabularies, whatever core/conductor.py and core/reconciliation.py do
\* to them and in whatever order; in particular what a batch announces at its end
\* is a terminal status.
THEOREM TypeCorrect == Spec => []TypeOK
<1>1. IInv => TypeOK BY DEF IInv
<1> QED BY <1>1, Invariant, PTL

-----------------------------------------------------------------------------
(* Where the saves of an executor belong, and that one at a time is in its lock. *)

\* The batch saves itself where it begins and ends, a worker's verdict is saved while
\* its group is at work.
Pending(e, save) ==
  \/ save.by = {} /\ ctl[e].pc \in {"created", "persist", "handler"}
  \/ \E t \in Tasks : save.by = {t} /\ At(e, "group") /\ child[e][t] = "saving"

InPlace(e) ==
  /\ \A save \in saving[e] : Pending(e, save)
  /\ \A s1, s2 \in saving[e] : s1.by = s2.by \/ (s1.looked /\ s2.looked) => s1 = s2

SavesInPlace == \A e \in Executors : InPlace(e)

\* A step that the saves of e, if it has any, do not notice.
Quiet(e) ==
  /\ saving'[e] = saving[e]
  /\ saving[e] # {} => /\ ctl'[e].pc = ctl[e].pc
                       /\ \A t \in Tasks : child[e][t] = "saving" => child'[e][t] = "saving"

LEMMA GotoFields ==
  ASSUME IInv, NEW e \in Executors, NEW label, Goto(e, label)
  PROVE  /\ ctl'[e].mode = ctl[e].mode /\ ctl'[e].plan = ctl[e].plan
         /\ ctl'[e].completed = ctl[e].completed /\ ctl'[e].pc = label
         /\ \A f \in Executors : f # e => ctl'[f] = ctl[f]
<1>1. ctl[e] \in Controls /\ ctl \in [Executors -> Controls] BY Typed
<1>2. ctl'[e] = [ctl[e] EXCEPT !.pc = label] BY <1>1 DEF Goto
<1>3. \A f \in Executors : f # e => ctl'[f] = ctl[f] BY <1>1 DEF Goto
<1> QED BY <1>1, <1>2, <1>3 DEF Controls

\* A worker of e for t gets from one label to another.
LEMMA ExitFields ==
  ASSUME IInv, NEW e \in Executors, NEW t \in Tasks, NEW code, Exit(e, t, code)
  PROVE  /\ child'[e][t] = code
         /\ \A f \in Executors, u \in Tasks : (f # e \/ u # t) => child'[f][u] = child[f][u]
BY Typed DEF Exit, TablesTyped

LEMMA QuietInPlace == ASSUME NEW e \in Executors, InPlace(e), Quiet(e) PROVE InPlace(e)'
<1>1. ASSUME NEW save \in saving'[e] PROVE Pending(e, save)'
  <2>1. save \in saving[e] /\ Pending(e, save) BY <1>1 DEF Quiet, InPlace
  <2>2. /\ ctl'[e].pc = ctl[e].pc
        /\ \A t \in Tasks : child[e][t] = "saving" => child'[e][t] = "saving"
    BY <2>1 DEF Quiet
  <2> QED BY <2>1, <2>2 DEF Pending, At
<1> QED BY <1>1 DEF InPlace, Quiet

\* Elsewhere there are none.
LEMMA NoSaves ==
  ASSUME NEW e \in Executors, InPlace(e), ctl[e].pc \notin {"created", "persist", "handler"},
         At(e, "group") => \A t \in Tasks : child[e][t] # "saving"
  PROVE  saving[e] = {}
BY DEF InPlace, Pending

\* A save returns: the executor goes on, or the worker's slot does.
LEMMA SavedMoves ==
  ASSUME IInv, NEW e \in Executors, InPlace(e), NEW save \in saving[e], Saved(e, save)
  PROVE  /\ saving'[e] = saving[e] \ {save} /\ \A f \in Executors : f # e => saving'[f] = saving[f]
         /\ \/ /\ child' = child /\ save.by = {}
               /\ \/ At(e, "created") /\ Goto(e, "sweep")
                  \/ At(e, "persist") /\ MaxRetries > 0 /\ Goto(e, "retries")
                  \/ ctl[e].pc \in {"persist", "handler"} /\ Goto(e, "ended")
            \/ /\ ctl' = ctl /\ At(e, "group")
               /\ \E t \in Tasks : /\ save.by = {t} /\ child[e][t] = "saving"
                                   /\ Exit(e, t, IF Pooled(e) THEN "recorded" ELSE "out")
<1>0. child \in [Executors -> [Tasks -> Children]] /\ saving \in [Executors -> SUBSET Saves]
  BY Typed DEF TablesTyped
<1>1. saving'[e] = saving[e] \ {save} /\ \A f \in Executors : f # e => saving'[f] = saving[f]
  BY <1>0 DEF Saved
<1>2. Pending(e, save) BY DEF InPlace
<1> DEFINE code == IF Pooled(e) THEN "recorded" ELSE "out"
<1>3. child' = [child EXCEPT ![e] = [t \in Tasks |-> IF t \notin save.by THEN child[e][t] ELSE code]]
  BY <1>0 DEF Saved
<1> HIDE DEF code
<1>4. CASE save.by = {} /\ ctl[e].pc \in {"created", "persist", "handler"}
  <2>1. child' = child BY <1>0, <1>3, <1>4
  <2>2. Goto(e, IF At(e, "created") THEN "sweep"
                ELSE IF At(e, "persist") /\ ctl[e].mode = "execute" /\ MaxRetries > 0
                THEN "retries" ELSE "ended")
    BY <1>4 DEF Saved
  <2>3. CASE At(e, "created") BY <1>1, <1>4, <2>1, <2>2, <2>3
  <2>4. CASE At(e, "persist") BY <1>1, <1>4, <2>1, <2>2, <2>4 DEF At
  <2>5. CASE At(e, "handler") BY <1>1, <1>4, <2>1, <2>2, <2>5 DEF At
  <2> QED BY <1>4, <2>3, <2>4, <2>5 DEF At
<1>5. ASSUME NEW t \in Tasks, save.by = {t}, At(e, "group"), child[e][t] = "saving"
      PROVE  ctl' = ctl /\ Exit(e, t, code)
  <2>1. ctl' = ctl BY <1>5 DEF Saved
  <2>2. [u \in Tasks |-> IF u \notin save.by THEN child[e][u] ELSE code] = [child[e] EXCEPT ![t] = code]
    BY <1>0, <1>5
  <2> QED BY <1>0, <1>3, <2>1, <2>2 DEF Exit
<1> QED BY <1>1, <1>2, <1>4, <1>5 DEF Pending, code

LEMMA SavedInPlace ==
  ASSUME IInv, NEW e \in Executors, InPlace(e), NEW save \in saving[e], Saved(e, save)
  PROVE  InPlace(e)'
<1>1. saving'[e] = saving[e] \ {save} BY SavedMoves
<1>2. \A s1, s2 \in saving[e] : s1.by = s2.by \/ (s1.looked /\ s2.looked) => s1 = s2
  BY DEF InPlace
<1>3. CASE save.by = {}
  <2>1. ctl[e].pc \in {"created", "persist", "handler"} BY <1>3 DEF InPlace, Pending
  <2>2. \A s \in saving[e] : s.by = {} BY <2>1 DEF InPlace, Pending, At
  <2>3. saving'[e] = {} BY <1>1, <1>2, <1>3, <2>2
  <2> QED BY <2>3 DEF InPlace
<1>4. CASE save.by # {}
  <2>1. PICK t \in Tasks : /\ save.by = {t} /\ child[e][t] = "saving"
                           /\ Exit(e, t, IF Pooled(e) THEN "recorded" ELSE "out")
    BY <1>4, SavedMoves
  <2>2. ctl' = ctl /\ At(e, "group") BY <1>4, SavedMoves
  <2>3. ASSUME NEW s \in saving'[e] PROVE Pending(e, s)'
    <3>1. s \in saving[e] /\ s # save BY <1>1, <2>3
    <3>2. PICK u \in Tasks : s.by = {u} /\ child[e][u] = "saving"
      BY <2>2, <3>1 DEF InPlace, Pending, At
    <3>3. u # t BY <1>2, <2>1, <3>1, <3>2
    <3>4. child'[e][u] = child[e][u] BY <2>1, <3>3, ExitFields
    <3> QED BY <2>2, <3>2, <3>4 DEF Pending, At
  <2> QED BY <1>1, <1>2, <2>3 DEF InPlace
<1> QED BY <1>3, <1>4

\* A look or a replacement.
LEMMA LooksInPlace ==
  ASSUME IInv, SavesInPlace, NEW e \in Executors, LookAtStored(e) \/ ReplaceRow(e), NEW f \in Executors
  PROVE  InPlace(f)'
<1>0. saving \in [Executors -> SUBSET Saves] /\ InPlace(e) /\ InPlace(f)
  BY Typed DEF TablesTyped, SavesInPlace
<1>1. ASSUME NEW save \in saving[e], Saved(e, save) PROVE InPlace(f)'
  <2>1. CASE f = e BY <1>0, <1>1, <2>1, SavedInPlace
  <2>2. CASE f # e
    <3>1. saving'[f] = saving[f] BY <1>0, <1>1, <2>2, SavedMoves
    <3>2. ctl'[f] = ctl[f] /\ child'[f] = child[f]
      <4>1. child' = [child EXCEPT ![e] = child'[e]] BY <1>1, Typed DEF Saved, TablesTyped
      <4>2. ctl' = ctl \/ \E label : Goto(e, label) BY <1>1 DEF Saved
      <4> QED BY <2>2, <4>1, <4>2, GotoFields, Typed DEF TablesTyped
    <3> QED BY <1>0, <3>1, <3>2, QuietInPlace DEF Quiet
  <2> QED BY <2>1, <2>2
<1>2. ASSUME NEW save \in saving[e], InLock(e) = {}, UNCHANGED <<batch, ctl, child>>,
             saving' = [saving EXCEPT ![e] = (@ \ {save}) \cup {[save EXCEPT !.looked = TRUE]}]
      PROVE  InPlace(f)'
  <2> DEFINE new == [save EXCEPT !.looked = TRUE]
  <2>0. save \in Saves BY <1>0
  <2>1. new.by = save.by BY <2>0 DEF Saves
  <2> HIDE DEF new
  <2>2. saving'[e] = (saving[e] \ {save}) \cup {new} /\ (f # e => saving'[f] = saving[f])
    BY <1>0, <1>2 DEF new
  <2>3. CASE f # e BY <1>0, <1>2, <2>2, <2>3, QuietInPlace DEF Quiet
  <2>4. CASE f = e
    <3>1. \A s \in saving[e] : ~s.looked BY <1>2 DEF InLock
    <3>2. \A s1, s2 \in saving[e] : s1.by = s2.by => s1 = s2 BY <1>0 DEF InPlace
    <3>3. ASSUME NEW s1 \in saving'[e], NEW s2 \in saving'[e],
                 s1.by = s2.by \/ (s1.looked /\ s2.looked)
          PROVE  s1 = s2
      BY <2>1, <2>2, <3>1, <3>2, <3>3
    <3>4. ASSUME NEW s \in saving'[e] PROVE Pending(e, s)'
      <4>1. PICK s0 \in saving[e] : s0.by = s.by BY <2>1, <2>2, <3>4
      <4>2. Pending(e, s0) BY <1>0 DEF InPlace
      <4> QED BY <1>2, <4>1, <4>2 DEF Pending, At
    <3> QED BY <2>4, <3>3, <3>4 DEF InPlace
  <2> QED BY <2>3, <2>4
<1>3. CASE LookAtStored(e)
  <2>1. PICK save \in saving[e] :
          \/ Saved(e, save)
          \/ /\ UNCHANGED <<batch, ctl, child>>
             /\ saving' = [saving EXCEPT ![e] = (@ \ {save}) \cup {[save EXCEPT !.looked = TRUE]}]
    BY <1>3 DEF LookAtStored
  <2> QED BY <1>1, <1>2, <1>3, <2>1 DEF LookAtStored
<1>4. CASE ReplaceRow(e)
  <2>1. PICK save \in InLock(e) : Saved(e, save) BY <1>4 DEF ReplaceRow
  <2>2. save \in saving[e] BY DEF InLock
  <2> QED BY <1>1, <2>1, <2>2
<1> QED BY <1>3, <1>4

\* A save begins.
LEMMA BeginsInPlace ==
  ASSUME IInv, SavesInPlace, NEW e \in Executors, NEW f \in Executors,
         \/ ExecuteBatch(e) \/ Persist(e) \/ HandleError(e)
         \/ \E t \in Tasks : Collect(e, t)
  PROVE  InPlace(f)'
<1>0. /\ saving \in [Executors -> SUBSET Saves] /\ ctl \in [Executors -> Controls]
      /\ child \in [Executors -> [Tasks -> Children]] /\ InPlace(e) /\ InPlace(f)
  BY Typed DEF TablesTyped, SavesInPlace
<1>1. ASSUME f # e, saving'[f] = saving[f], ctl'[f] = ctl[f], child'[f] = child[f] PROVE InPlace(f)'
  BY <1>0, <1>1, QuietInPlace DEF Quiet
<1>2. ASSUME NEW b, SaveBatch(e, {}, b), saving[e] = {}, child' = child,
             ctl'[e].pc \in {"created", "persist", "handler"}, f # e => ctl'[f] = ctl[f]
      PROVE  InPlace(f)'
  <2>1. /\ saving'[e] = {[by |-> {}, results |-> b.results, looked |-> FALSE]}
        /\ f # e => saving'[f] = saving[f]
    BY <1>0, <1>2 DEF SaveBatch
  <2> DEFINE new == [by |-> {}, results |-> b.results, looked |-> FALSE]
  <2>2. new.by = {} OBVIOUS
  <2>3. saving'[e] = {new} BY <2>1
  <2> HIDE DEF new
  <2>4. Pending(e, new)' BY <1>2, <2>2 DEF Pending
  <2>5. \A s \in saving'[e] : s = new BY <2>3
  <2>6. InPlace(e)' BY <2>4, <2>5 DEF InPlace
  <2>7. CASE f = e BY <2>6, <2>7
  <2> QED BY <1>1, <1>2, <2>1, <2>7
<1>3. CASE ExecuteBatch(e)
  <2>1. \E b : SaveBatch(e, {}, b) BY <1>3 DEF ExecuteBatch
  <2>2. saving[e] = {} /\ child' = child /\ ctl[e].pc = "created" BY <1>3 DEF ExecuteBatch, At
  <2>3. ctl'[e] = [ctl[e] EXCEPT !.plan = Groups] /\ (f # e => ctl'[f] = ctl[f])
    BY <1>0, <1>3 DEF ExecuteBatch
  <2>4. ctl'[e].pc = "created" BY <1>0, <2>2, <2>3 DEF Controls
  <2> QED BY <1>2, <2>1, <2>2, <2>3, <2>4
<1>4. CASE Persist(e)
  BY <1>2, <1>4 DEF Persist, At
<1>5. CASE HandleError(e)
  <2>1. CASE ctl[e].mode # "retry" BY <1>2, <1>5, <2>1 DEF HandleError, At
  <2>2. CASE ctl[e].mode = "retry"
    <3>1. saving' = saving /\ child' = child /\ Goto(e, "ended") /\ saving[e] = {}
      BY <1>5, <2>2 DEF HandleError
    <3>2. Quiet(f) BY <3>1, GotoFields DEF Quiet
    <3> QED BY <1>0, <3>2, QuietInPlace
  <2> QED BY <2>1, <2>2
<1>6. ASSUME NEW t \in Tasks, Collect(e, t) PROVE InPlace(f)'
  <2>1. PICK b : SaveBatch(e, {t}, b) BY <1>6 DEF Collect
  <2> DEFINE new == [by |-> {t}, results |-> b.results, looked |-> FALSE]
  <2>2. saving'[e] = saving[e] \cup {new} /\ (f # e => saving'[f] = saving[f])
    BY <1>0, <2>1 DEF SaveBatch
  <2>3. new.by = {t} /\ ~new.looked OBVIOUS
  <2> HIDE DEF new
  <2>4. Exit(e, t, "saving") /\ At(e, "group") /\ child[e][t] # "saving" BY <1>6 DEF Collect
  <2>5. ctl'[e].pc = "group" /\ (f # e => ctl'[f] = ctl[f])
    <3>1. ctl' = ctl \/ \E r : ctl' = [ctl EXCEPT ![e] = Tallied(@, r)] BY <1>6 DEF Collect
    <3>2. CASE ctl' = ctl BY <2>4, <3>2 DEF At
    <3>3. ASSUME NEW r, ctl' = [ctl EXCEPT ![e] = Tallied(@, r)]
          PROVE  ctl'[e].pc = "group" /\ (f # e => ctl'[f] = ctl[f])
      BY <2>4, <3>3, <1>0, TalliedTypes DEF At
    <3> QED BY <3>1, <3>2, <3>3
  <2>6. /\ child'[e][t] = "saving" /\ \A u \in Tasks : u # t => child'[e][u] = child[e][u]
        /\ f # e => child'[f] = child[f]
    BY <1>0, <2>4 DEF Exit
  <2>7. CASE f = e
    <3>1. ASSUME NEW s \in saving[e] PROVE Pending(e, s)' /\ s.by # {t}
      <4>1. PICK u \in Tasks : s.by = {u} /\ child[e][u] = "saving"
        BY <1>0, <2>4 DEF InPlace, Pending, At
      <4>2. u # t /\ child'[e][u] = "saving" BY <2>4, <2>6, <4>1
      <4> QED BY <2>5, <4>1, <4>2 DEF Pending, At
    <3>2. Pending(e, new)' BY <2>3, <2>5, <2>6 DEF Pending, At
    <3>3. \A s1, s2 \in saving[e] : s1.by = s2.by \/ (s1.looked /\ s2.looked) => s1 = s2
      BY <1>0 DEF InPlace
    <3> QED BY <2>2, <2>3, <2>7, <3>1, <3>2, <3>3 DEF InPlace
  <2> QED BY <1>1, <2>2, <2>5, <2>6, <2>7
<1> QED BY <1>3, <1>4, <1>5, <1>6

\* The other steps of an executor.
LEMMA QuietWork ==
  ASSUME IInv, SavesInPlace, NEW e \in Executors, NEW f \in Executors,
         \/ FirstSweep(e) \/ NextGroup(e) \/ LoopEnds(e) \/ GroupDone(e) \/ Finalize(e)
         \/ GatesEnd(e) \/ NextRound(e) \/ Reopen(e) \/ Resume(e)
  PROVE  Quiet(f)
<1>0. /\ ctl \in [Executors -> Controls] /\ child \in [Executors -> [Tasks -> Children]]
  BY Typed DEF TablesTyped
<1>1. saving' = saving
  BY DEF FirstSweep, NextGroup, LoopEnds, GroupDone, Finalize, GatesEnd, NextRound, Reopen,
         Resume, aside
<1>2. CASE f # e
  <2>1. child'[f] = child[f]
    <3>1. FirstSweep(e) => \E cs : ApplyChanges(e, cs) BY DEF FirstSweep
    <3>2. (\E cs : ApplyChanges(e, cs)) => child'[f] = child[f] BY <1>0, <1>2 DEF ApplyChanges
    <3>3. NextGroup(e) => child'[f] = child[f] BY <1>0, <1>2 DEF NextGroup
    <3>4. (\/ LoopEnds(e) \/ GroupDone(e) \/ Finalize(e) \/ GatesEnd(e) \/ NextRound(e)
           \/ Reopen(e) \/ Resume(e)) => child' = child
      BY DEF LoopEnds, GroupDone, Finalize, GatesEnd, NextRound, Reopen, Resume
    <3> QED BY <3>1, <3>2, <3>3, <3>4
  <2>2. ctl'[f] = ctl[f]
    BY <1>0, <1>2 DEF FirstSweep, NextGroup, LoopEnds, GroupDone, Finalize, GatesEnd, NextRound,
                      Reopen, Resume, Goto
  <2> QED BY <1>1, <2>1, <2>2 DEF Quiet
<1>3. CASE f = e
  <2>1. ctl[e].pc \in {"sweep", "loop", "group", "verdict", "gates", "retries", "reopen", "idle"}
    BY DEF FirstSweep, NextGroup, LoopEnds, GroupDone, Finalize, GatesEnd, NextRound, Reopen,
           Resume, At
  <2>2. At(e, "group") => \A t \in Tasks : child[e][t] # "saving"
    BY DEF FirstSweep, NextGroup, LoopEnds, GroupDone, Finalize, GatesEnd, NextRound, Reopen,
           Resume, At
  <2>3. saving[e] = {} BY <2>1, <2>2, NoSaves DEF SavesInPlace
  <2> QED BY <1>1, <1>3, <2>3 DEF Quiet
<1> QED BY <1>2, <1>3

\* The steps that move one worker, and those of the others.
LEMMA QuietRest ==
  ASSUME IInv, NEW f \in Executors,
         \/ \E e \in Executors, t \in Tasks :
              \/ Launch(e, t) \/ LaunchRaises(e, t) \/ Count(e, t)
              \/ Supervise(e, t) \/ SuperviseEnds(e, t) \/ Worker(e, t)
         \/ \E e \in Executors : ReconcileCheck(e) \/ ReconcileApply(e)
         \/ Cancel \/ CancelWrites \/ UNCHANGED vars
         \/ \E t \in Tasks : MarkDone(t) \/ CloseIssue(t) \/ Answer(t) \/ AnswerEnds(t)
  PROVE  Quiet(f)
<1>0. /\ ctl \in [Executors -> Controls] /\ child \in [Executors -> [Tasks -> Children]]
  BY Typed DEF TablesTyped
<1>1. ASSUME NEW e \in Executors, NEW t \in Tasks,
             \/ Launch(e, t) \/ LaunchRaises(e, t) \/ Count(e, t)
             \/ Supervise(e, t) \/ SuperviseEnds(e, t) \/ Worker(e, t)
      PROVE  Quiet(f)
  <2>1. child[e][t] # "saving"
    BY <1>1 DEF Launch, LaunchRaises, Count, Supervise, SuperviseEnds, Worker, StartRun,
                AgentCompletes, CloseRun, AgentFails, AgentBlocks, WorkerCrashes, Alive
  <2>2. \E code : Exit(e, t, code)
    BY <1>1 DEF Launch, LaunchRaises, Count, Supervise, SuperviseEnds, Worker, StartRun,
                AgentCompletes, CloseRun, AgentFails, AgentBlocks, WorkerCrashes, Exit
  <2>3. \A u \in Tasks : child[f][u] = "saving" => child'[f][u] = "saving"
    BY <2>1, <2>2, ExitFields
  <2>4. saving' = saving
    BY <1>1 DEF Launch, LaunchRaises, Count, Supervise, SuperviseEnds, Worker, StartRun,
                AgentCompletes, CloseRun, AgentFails, AgentBlocks, WorkerCrashes, aside
  <2>5. \/ ctl' = ctl \/ \E r : ctl' = [ctl EXCEPT ![e] = Tallied(@, r)]
        \/ ctl' = [ctl EXCEPT ![e].broken = TRUE] \/ ctl' = [ctl EXCEPT ![e].supervised = TRUE]
    BY <1>1 DEF Launch, LaunchRaises, Count, Supervise, SuperviseEnds, Worker, StartRun,
                AgentCompletes, CloseRun, AgentFails, AgentBlocks, WorkerCrashes
  <2>6. ctl'[f].pc = ctl[f].pc
    <3>1. ASSUME NEW r, ctl' = [ctl EXCEPT ![e] = Tallied(@, r)] PROVE ctl'[f].pc = ctl[f].pc
      BY <1>0, <3>1, TalliedTypes
    <3>2. ASSUME ctl' = [ctl EXCEPT ![e].broken = TRUE] \/ ctl' = [ctl EXCEPT ![e].supervised = TRUE]
          PROVE  ctl'[f].pc = ctl[f].pc
      <4>1. f # e => ctl'[f] = ctl[f] BY <1>0, <3>2
      <4>2. \/ ctl'[e] = [ctl[e] EXCEPT !.broken = TRUE]
            \/ ctl'[e] = [ctl[e] EXCEPT !.supervised = TRUE]
        BY <1>0, <3>2
      <4>3. ctl[e] \in Controls BY <1>0
      <4>4. ctl'[e].pc = ctl[e].pc BY <4>2, <4>3 DEF Controls
      <4> QED BY <4>1, <4>4
    <3> QED BY <2>5, <3>1, <3>2
  <2> QED BY <2>3, <2>4, <2>6 DEF Quiet
<1>2. ASSUME NEW e \in Executors, ReconcileApply(e) PROVE Quiet(f)
  <2>1. ApplyChanges(e, findings[e]) /\ ctl' = ctl /\ saving' = saving BY <1>2 DEF ReconcileApply
  <2>2. \A u \in Tasks : child[f][u] = "saving" => child'[f][u] = "saving"
    BY <1>0, <2>1 DEF ApplyChanges, Alive
  <2> QED BY <2>1, <2>2 DEF Quiet
<1>3. CASE CancelWrites
  <2>1. ctl' = ctl /\ saving' = saving BY <1>3 DEF CancelWrites
  <2>2. ASSUME child' # child, NEW u \in Tasks, child[f][u] = "saving" PROVE child'[f][u] = "saving"
    <3>1. \E spared \in SUBSET { w \in Executors \X Tasks : child[w[1]][w[2]] = "started" } :
            child' = [e \in Executors |-> [t \in Tasks |->
                        IF At(e, "group") /\ child[e][t] \in Alive /\ <<e, t>> \notin spared
                        THEN "exitBad" ELSE child[e][t]]]
      BY <1>3, <2>2, Zenon DEF CancelWrites
    <3> QED BY <2>2, <3>1 DEF Alive
  <2> QED BY <2>1, <2>2 DEF Quiet
<1>4. CASE \/ \E e \in Executors : ReconcileCheck(e)
           \/ Cancel \/ UNCHANGED vars
           \/ \E t \in Tasks : MarkDone(t) \/ CloseIssue(t) \/ Answer(t) \/ AnswerEnds(t)
  <2>1. saving' = saving /\ child' = child /\ ctl' = ctl
    BY <1>4 DEF ReconcileCheck, Cancel, vars, MarkDone, CloseIssue, Answer, AnswerEnds, aside
  <2> QED BY <2>1 DEF Quiet
<1> QED BY <1>1, <1>2, <1>3, <1>4

LEMMA StepSaves ==
  ASSUME IInv, SavesInPlace, [Next]_vars
  PROVE  SavesInPlace'
<1> SUFFICES ASSUME NEW f \in Executors PROVE InPlace(f)' BY DEF SavesInPlace
<1>0. InPlace(f) BY DEF SavesInPlace
<1>1. ASSUME NEW e \in Executors, Work(e) PROVE InPlace(f)'
  BY <1>0, <1>1, LooksInPlace, BeginsInPlace, QuietWork, QuietRest, QuietInPlace DEF Work
<1>2. ASSUME NEW e \in Executors, ExecutorDies(e) PROVE InPlace(f)'
  <2>1. saving'[e] = {} /\ (f # e => saving'[f] = saving[f])
    BY <1>2, Typed DEF ExecutorDies, TablesTyped
  <2>2. child' = child /\ (f # e => ctl'[f] = ctl[f]) BY <1>2, GotoFields DEF ExecutorDies
  <2>3. CASE f = e BY <2>1, <2>3 DEF InPlace
  <2>4. CASE f # e BY <1>0, <2>1, <2>2, <2>4, QuietInPlace DEF Quiet
  <2> QED BY <2>3, <2>4
<1> QED BY <1>0, <1>1, <1>2, QuietWork, QuietRest, QuietInPlace DEF Next

LEMMA InitSaves == Init => SavesInPlace
BY DEF Init, SavesInPlace, InPlace

LEMMA SavesInvariant == Spec => [](IInv /\ SavesInPlace)
BY InitInv, StepInv, InitSaves, StepSaves, PTL DEF Spec

-----------------------------------------------------------------------------
(* What takes the CANCELLED off a row.                                         *)

\* A resume that reopens the batch, or a save that had looked at the row before.
LEMMA Uncancelled ==
  ASSUME IInv, [Next]_vars, row.status = "CANCELLED", row'.status # "CANCELLED"
  PROVE  \E e \in Executors : Reopens(e) \/ (ReplaceRow(e) /\ batch[e].status # "CANCELLED")
<1>1. row' # row /\ Next BY DEF vars
<1>2. ASSUME CancelWrites PROVE FALSE
  <2>1. PICK c \in cancels : row' = [c EXCEPT !.status = "CANCELLED"] BY <1>2 DEF CancelWrites
  <2> QED BY <2>1, Typed DEF TablesTyped, Rows
<1>3. ASSUME NEW e \in Executors, ReplaceRow(e) PROVE batch[e].status # "CANCELLED"
  BY <1>3 DEF ReplaceRow
<1>4. ASSUME NEW e \in Executors, NEW t \in Tasks, Collect(e, t) PROVE row' = row
  BY <1>4 DEF Collect
<1>5. ASSUME NEW e \in Executors, Reopen(e) PROVE Reopens(e)
  BY <1>5, GotoFields DEF Reopen, Reopens
<1>6. ASSUME NEW e \in Executors, Work(e)
      PROVE  row' = row \/ Reopen(e) \/ ReplaceRow(e)
  <2>1. \A t \in Tasks : (\/ Launch(e, t) \/ LaunchRaises(e, t) \/ Count(e, t)
                          \/ Supervise(e, t) \/ SuperviseEnds(e, t)) => row' = row
    BY DEF Launch, LaunchRaises, Count, Supervise, SuperviseEnds
  <2>2. (FirstSweep(e) \/ NextGroup(e) \/ LoopEnds(e) \/ GroupDone(e)) => row' = row
    BY DEF FirstSweep, NextGroup, LoopEnds, GroupDone
  <2>3. (Finalize(e) \/ GatesEnd(e) \/ NextRound(e)) => row' = row
    BY DEF Finalize, GatesEnd, NextRound
  <2>4. (ExecuteBatch(e) \/ Persist(e) \/ HandleError(e) \/ LookAtStored(e)) => row' = row
    BY DEF ExecuteBatch, Persist, HandleError, LookAtStored
  <2> QED BY <1>4, <1>6, <2>1, <2>2, <2>3, <2>4 DEF Work
<1>7. ASSUME NEW e \in Executors,
             \/ ReconcileCheck(e) \/ ReconcileApply(e) \/ ExecutorDies(e) \/ Resume(e)
      PROVE  row' = row
  BY <1>7 DEF ReconcileCheck, ReconcileApply, ExecutorDies, Resume
<1>8. ASSUME NEW e \in Executors, NEW t \in Tasks, Worker(e, t) PROVE row' = row
  BY <1>8 DEF Worker, StartRun, AgentCompletes, CloseRun, AgentFails, AgentBlocks, WorkerCrashes
<1>9. ASSUME NEW t \in Tasks, MarkDone(t) \/ CloseIssue(t) \/ Answer(t) \/ AnswerEnds(t)
      PROVE  row' = row
  BY <1>9 DEF MarkDone, CloseIssue, Answer, AnswerEnds
<1>10. Cancel => row' = row BY DEF Cancel
<1> QED BY <1>1, <1>2, <1>3, <1>5, <1>6, <1>7, <1>8, <1>9, <1>10 DEF Next

\* A save gets past its look in LookAtStored alone, and where its copy is not CANCELLED
\* only if the row is not.
LEMMA Overtakers ==
  ASSUME IInv, SavesInPlace, [Next]_vars, row.status = "CANCELLED", NEW e \in Executors,
         NEW save \in Overtaking(e)'
  PROVE  save \in Overtaking(e)
<1>0. /\ saving \in [Executors -> SUBSET Saves] /\ batch \in [Executors -> Rows]
      /\ save \in saving'[e] /\ save.looked /\ batch'[e].status # "CANCELLED" /\ InPlace(e)
  BY Typed DEF TablesTyped, Overtaking, InLock, SavesInPlace
<1>1. ASSUME save \in saving[e], batch'[e].status = batch[e].status PROVE save \in Overtaking(e)
  BY <1>0, <1>1 DEF Overtaking, InLock
<1>2. ASSUME NEW g \in Executors, NEW b, NEW by, SaveBatch(g, by, b)
      PROVE  save \in saving[e] /\ (g # e => batch'[e] = batch[e]) /\ batch'[g] = b
  BY <1>0, <1>2 DEF SaveBatch
<1>3. ASSUME NEW g \in Executors, ExecuteBatch(g) \/ Persist(g) \/ HandleError(g)
      PROVE  save \in Overtaking(e)
  <2>1. saving[g] = {} BY <1>3 DEF ExecuteBatch, Persist, HandleError
  <2>2. (\E b : SaveBatch(g, {}, b)) \/ (batch' = batch /\ saving' = saving)
    BY <1>3 DEF ExecuteBatch, Persist, HandleError
  <2>3. save \in saving[e] /\ (g # e => batch'[e] = batch[e]) BY <1>0, <1>2, <2>2
  <2> QED BY <1>1, <2>1, <2>3
<1>4. ASSUME NEW g \in Executors, NEW t \in Tasks, Collect(g, t) PROVE save \in Overtaking(e)
  <2> DEFINE b == RecordTaskResult(g, t, Verdict(g, t))
  <2>1. SaveBatch(g, {t}, b) BY <1>4 DEF Collect
  <2>2. b.status = batch[g].status
    <3>1. batch[g] \in Rows BY <1>0
    <3> QED BY <3>1 DEF RecordTaskResult, Rows
  <2> HIDE DEF b
  <2> QED BY <1>1, <1>2, <2>1, <2>2
<1>5. ASSUME NEW g \in Executors, LookAtStored(g) PROVE save \in Overtaking(e)
  <2>1. PICK s \in saving[g] :
          IF batch[g].status # "CANCELLED" /\ row.status = "CANCELLED"
          THEN batch' = [batch EXCEPT ![g].status = "CANCELLED"] /\ Saved(g, s)
          ELSE /\ saving' = [saving EXCEPT ![g] = (@ \ {s}) \cup {[s EXCEPT !.looked = TRUE]}]
               /\ UNCHANGED <<batch, ctl, child>>
    BY <1>5 DEF LookAtStored
  <2>2. CASE g # e
    <3>1. saving'[e] = saving[e] /\ batch'[e] = batch[e]
      <4>1. saving' = [saving EXCEPT ![g] = saving'[g]] BY <1>0, <2>1 DEF Saved
      <4> QED BY <1>0, <2>1, <2>2, <4>1
    <3> QED BY <1>0, <1>1, <3>1
  <2>3. CASE g = e
    <3>1. batch[e].status # "CANCELLED"
      => batch'[e] = [batch[e] EXCEPT !.status = "CANCELLED"]
      BY <1>0, <2>1, <2>3
    <3>2. batch[e].status # "CANCELLED" => batch'[e].status = "CANCELLED"
      <4>1. batch[e] \in Rows BY <1>0
      <4> QED BY <3>1, <4>1 DEF Rows
    <3>3. batch[e].status = "CANCELLED" => batch' = batch BY <2>1, <2>3
    <3> QED BY <1>0, <3>2, <3>3
  <2> QED BY <2>2, <2>3
<1>6. ASSUME NEW g \in Executors, ReplaceRow(g) PROVE save \in Overtaking(e)
  <2>1. batch' = batch /\ \E s \in InLock(g) : Saved(g, s) BY <1>6 DEF ReplaceRow
  <2>2. saving'[e] \subseteq saving[e] BY <1>0, <2>1 DEF Saved
  <2> QED BY <1>0, <1>1, <2>1, <2>2
<1>7. ASSUME NEW g \in Executors, Finalize(g) \/ GatesEnd(g) \/ Resume(g) PROVE save \in Overtaking(e)
  <2>1. saving' = saving /\ (g # e => batch'[e] = batch[e])
    BY <1>0, <1>7 DEF Finalize, GatesEnd, Resume, aside
  <2>2. ctl[g].pc \in {"verdict", "gates", "idle"} BY <1>7 DEF Finalize, GatesEnd, Resume, At
  <2>3. g = e => saving[e] = {} BY <1>0, <2>2, NoSaves DEF At
  <2> QED BY <1>0, <1>1, <2>1, <2>3
<1>8. ASSUME NEW g \in Executors, FirstSweep(g) \/ ReconcileApply(g) PROVE save \in Overtaking(e)
  <2>1. \E cs : ApplyChanges(g, cs) BY <1>8 DEF FirstSweep, ReconcileApply
  <2>2. batch'[e].status = batch[e].status BY <2>1, ApplyChangesTypes
  <2>3. saving' = saving BY <1>8 DEF FirstSweep, ReconcileApply
  <2> QED BY <1>0, <1>1, <2>2, <2>3
<1>9. ASSUME NEW g \in Executors, ExecutorDies(g) PROVE save \in Overtaking(e)
  <2>1. batch' = batch /\ saving'[e] \subseteq saving[e] BY <1>0, <1>9 DEF ExecutorDies
  <2> QED BY <1>0, <1>1, <2>1
<1>10. ASSUME batch' = batch, saving' = saving PROVE save \in Overtaking(e)
  BY <1>0, <1>1, <1>10
<1>11. \A g \in Executors :
        (\/ NextGroup(g) \/ LoopEnds(g) \/ GroupDone(g) \/ NextRound(g) \/ Reopen(g)
         \/ \E u \in Tasks : \/ Launch(g, u) \/ LaunchRaises(g, u) \/ Count(g, u)
                             \/ Supervise(g, u) \/ SuperviseEnds(g, u))
        => batch' = batch /\ saving' = saving
  BY DEF NextGroup, LoopEnds, GroupDone, NextRound, Reopen, Launch, LaunchRaises,
         Count, Supervise, SuperviseEnds, aside
<1>12. \A g \in Executors :
        (ReconcileCheck(g) \/ \E u \in Tasks : Worker(g, u)) => batch' = batch /\ saving' = saving
  BY DEF ReconcileCheck, Worker, StartRun, AgentCompletes, CloseRun, AgentFails,
         AgentBlocks, WorkerCrashes, aside
<1>13. (\/ Cancel \/ CancelWrites \/ UNCHANGED vars
        \/ \E u \in Tasks : MarkDone(u) \/ CloseIssue(u) \/ Answer(u) \/ AnswerEnds(u))
       => batch' = batch /\ saving' = saving
  BY DEF Cancel, CancelWrites, MarkDone, CloseIssue, Answer, AnswerEnds, vars, aside
<1>14. \A g \in Executors : Work(g) =>
         \/ ExecuteBatch(g) \/ Persist(g) \/ HandleError(g) \/ Finalize(g) \/ GatesEnd(g)
         \/ FirstSweep(g) \/ (\E u \in Tasks : Collect(g, u)) \/ LookAtStored(g) \/ ReplaceRow(g)
         \/ batch' = batch /\ saving' = saving
  BY <1>11 DEF Work
<1> QED BY <1>3, <1>4, <1>5, <1>6, <1>7, <1>8, <1>9, <1>10, <1>12, <1>13, <1>14 DEF Next

LEMMA StepCancelled ==
  ASSUME IInv, SavesInPlace, [Next]_vars, row.status = "CANCELLED"
  PROVE  /\ \A e \in Executors : /\ Overtaking(e)' \subseteq Overtaking(e)
                                 /\ \A s1, s2 \in Overtaking(e) : s1 = s2
         /\ row'.status # "CANCELLED" =>
              \E e \in Executors : Reopens(e) \/ Overtaking(e)' # Overtaking(e)
<1>1. \A e \in Executors : Overtaking(e)' \subseteq Overtaking(e) BY Overtakers
<1>2. \A e \in Executors : \A s1, s2 \in Overtaking(e) : s1 = s2
  BY DEF SavesInPlace, InPlace, Overtaking, InLock
<1>3. ASSUME NEW e \in Executors, ReplaceRow(e), batch[e].status # "CANCELLED"
      PROVE  Overtaking(e)' # Overtaking(e)
  <2>1. PICK save \in InLock(e) : Saved(e, save) BY <1>3 DEF ReplaceRow
  <2>2. save \notin saving'[e] BY <2>1, Typed DEF Saved, TablesTyped
  <2>3. save \in Overtaking(e) /\ save \notin Overtaking(e)'
    BY <1>3, <2>2 DEF Overtaking, InLock
  <2> QED BY <2>3
<1> QED BY <1>1, <1>2, <1>3, Uncancelled

\* A batch that was cancelled stays cancelled, whatever its executors, with their
\* stale copies of the row, save afterwards, but for an operator's resume and for the
\* saves, at most one of each executor's process, that had looked at the row before
\* the cancel: the refusal in _save_batch (#726), for any number of executors and tasks.
THEOREM CancelStandsAlways == Spec => CancelStands
<1> DEFINE Stands == row.status = "CANCELLED" =>
              /\ \A e \in Executors : /\ Overtaking(e)' \subseteq Overtaking(e)
                                      /\ \A s1, s2 \in Overtaking(e) : s1 = s2
              /\ row'.status # "CANCELLED" =>
                   \E e \in Executors : Reopens(e) \/ Overtaking(e)' # Overtaking(e)
<1>1. IInv /\ SavesInPlace /\ [Next]_vars => [Stands]_vars BY StepCancelled
<1>2. CancelStands <=> [][Stands]_vars BY DEF CancelStands
<1> HIDE DEF Stands
<1> QED BY <1>1, <1>2, SavesInvariant, PTL DEF Spec


-----------------------------------------------------------------------------
(* The pass of an executor through its plan: whom it has workers for, what is  *)
(* left to do, and what one step can do to that.                               *)

\* Only tasks of the group an executor is at have a worker of its.
Gathered ==
  \A e \in Executors, t \in Tasks :
    child[e][t] # "out" => /\ ctl[e].pc \in {"group", "ended"}
                           /\ ctl[e].plan # <<>> /\ t \in Head(ctl[e].plan)

\* A first pass has some last groups of the plan before it.
PlanLeft ==
  \A e \in Executors : ctl[e].mode = "execute" =>
    \/ ctl[e].plan = <<>>
    \/ \E n \in 1..Len(Groups) : ctl[e].plan = SubSeq(Groups, n, Len(Groups))

ReopenResumes == \A e \in Executors : At(e, "reopen") => ctl[e].mode # "execute"

PassInv == Gathered /\ PlanLeft /\ ReopenResumes /\ SavesInPlace

\* The turn of t in the pass of e has come.
Turn(e, t) ==
  /\ ctl[e].pc \notin {"idle", "created", "sweep"}
  /\ ctl[e].pc \in {"loop", "group"} =>
       \A i \in DOMAIN ctl[e].plan : t \in ctl[e].plan[i] => At(e, "group") /\ i = 1

\* The shapes a step can have, for an executor e.
KeepsOut(e) ==
  \A t \in Tasks : /\ child[e][t] = "out" => child'[e][t] = "out"
                   /\ child[e][t] = "saving" /\ ~Pooled(e) => child'[e][t] \in {"saving", "out"}
SamePass(e) ==
  /\ ctl'[e].mode = ctl[e].mode /\ ctl'[e].plan = ctl[e].plan
  /\ ctl'[e].completed = ctl[e].completed

Stays(e) == SamePass(e) /\ KeepsOut(e) /\ ctl'[e].pc = ctl[e].pc

\* The worker's verdict is in the tally: but for the pool, before it is saved.
Counted(e, t) == child[e][t] = "out" \/ (child[e][t] = "saving" /\ ~Pooled(e))

Counts(e) ==
  /\ At(e, "group") /\ ctl'[e].pc = "group" /\ KeepsOut(e)
  /\ ctl'[e].mode = ctl[e].mode /\ ctl'[e].plan = ctl[e].plan
  /\ ctl'[e].completed = ctl[e].completed + 1
  /\ \E t \in Tasks : /\ ~Counted(e, t) /\ batch'[e].results[t] = "COMPLETED"
                      /\ child'[e][t] = "out" \/ (child'[e][t] = "saving" /\ ~Pooled(e))

Begins(e) ==
  /\ At(e, "created") /\ ctl'[e].pc \in {"created", "sweep"} /\ KeepsOut(e)
  /\ ctl'[e].mode = ctl[e].mode /\ ctl'[e].plan \in {ctl[e].plan, Groups}
  /\ ctl'[e].completed = ctl[e].completed

Sweeps(e) == At(e, "sweep") /\ ctl'[e].pc = "loop" /\ SamePass(e) /\ KeepsOut(e)

Enters(e) ==
  /\ At(e, "loop") /\ ctl'[e].pc = "group" /\ SamePass(e) /\ ctl[e].plan # <<>>
  /\ \A t \in Tasks : child'[e][t] # "out" => child[e][t] # "out" \/ t \in Head(ctl[e].plan)

Leaves(e) ==
  /\ SamePass(e) /\ KeepsOut(e)
  /\ ctl[e].pc \notin {"idle", "created", "ended"}
  /\ ctl'[e].pc \in {"verdict", "retries", "gates", "persist", "handler", "ended"}
  /\ At(e, "group") => ctl'[e].pc = "ended"
  /\ ctl'[e].pc = "retries" => \/ At(e, "loop") /\ ctl[e].mode = "retry"
                               \/ At(e, "persist") /\ MaxRetries > 0
  /\ At(e, "persist") /\ ctl'[e].pc # "ended" => LookAtStored(e) \/ ReplaceRow(e)

Finishes(e) ==
  /\ At(e, "group") /\ ctl'[e].pc \in {"loop", "handler"}
  /\ ctl'[e].mode = ctl[e].mode /\ ctl'[e].plan = Tail(ctl[e].plan)
  /\ ctl'[e].completed = ctl[e].completed
  /\ \A t \in Tasks : child[e][t] = "out" /\ child'[e][t] = "out"

Restarts(e) ==
  /\ ctl[e].pc \in {"retries", "idle", "reopen"} /\ ctl'[e].pc \in {"loop", "verdict", "reopen"}
  /\ ctl'[e].pc = "reopen" => At(e, "idle")
  /\ ctl'[e].mode # "execute" /\ KeepsOut(e)
  /\ \/ ctl'[e].plan = ctl[e].plan
     \/ \E S \in SUBSET Tasks : ctl'[e].plan = Singletons(S)

Shape(e) == \/ Stays(e) \/ Counts(e) \/ Begins(e) \/ Sweeps(e) \/ Enters(e) \/ Leaves(e)
            \/ Finishes(e) \/ Restarts(e)

LEMMA TallyFields ==
  ASSUME IInv, NEW e \in Executors, NEW result, ctl' = [ctl EXCEPT ![e] = Tallied(@, result)]
  PROVE  /\ ctl'[e].pc = ctl[e].pc /\ ctl'[e].mode = ctl[e].mode /\ ctl'[e].plan = ctl[e].plan
         /\ ctl'[e].completed = IF result = "COMPLETED" THEN ctl[e].completed + 1
                                                        ELSE ctl[e].completed
         /\ \A f \in Executors : f # e => ctl'[f] = ctl[f]
<1>1. ctl[e] \in Controls /\ ctl \in [Executors -> Controls] BY Typed
<1>2. ctl'[e] = Tallied(ctl[e], result) BY <1>1
<1>3. \A f \in Executors : f # e => ctl'[f] = ctl[f] BY <1>1
<1>4. \A c \in Controls :
        /\ Tallied(c, result).pc = c.pc /\ Tallied(c, result).mode = c.mode
        /\ Tallied(c, result).plan = c.plan
        /\ Tallied(c, result).completed = IF result = "COMPLETED" THEN c.completed + 1
                                                                  ELSE c.completed
  <2> TAKE c \in Controls
  <2>1. CASE result = "COMPLETED" BY <2>1 DEF Tallied, Controls
  <2>2. CASE result = "BLOCKED" BY <2>2 DEF Tallied, Controls
  <2>3. CASE result \notin {"COMPLETED", "BLOCKED"} BY <2>3 DEF Tallied, Controls
  <2> QED BY <2>1, <2>2, <2>3
<1> QED BY <1>1, <1>2, <1>3, <1>4

LEMMA WorkersStay ==
  ASSUME IInv, NEW e \in Executors, NEW t \in Tasks, NEW code, Exit(e, t, code),
         child[e][t] # "out", child[e][t] = "saving" => Pooled(e) \/ code = "out",
         ctl' = ctl, NEW f \in Executors
  PROVE  Stays(f)
BY ExitFields DEF Stays, SamePass, KeepsOut

LEMMA UntouchedStays ==
  ASSUME NEW f \in Executors, ctl'[f] = ctl[f], child'[f] = child[f]
  PROVE  Stays(f)
BY DEF Stays, SamePass, KeepsOut

LEMMA ApplyKeepsOut ==
  ASSUME IInv, NEW e \in Executors, NEW cs, ApplyChanges(e, cs), NEW f \in Executors
  PROVE  KeepsOut(f) /\ (f # e => child'[f] = child[f])
BY Typed DEF ApplyChanges, TablesTyped, KeepsOut, Alive

LEMMA SerialShapes ==
  ASSUME IInv, PassInv, NEW e \in Executors, NEW f \in Executors,
         ExecuteBatch(e) \/ FirstSweep(e) \/ LoopEnds(e) \/ Finalize(e) \/ GatesEnd(e)
         \/ Persist(e) \/ HandleError(e) \/ ExecutorDies(e)
  PROVE  Shape(f)
<1>1. CASE ExecuteBatch(e)
  <2>1. ctl[e] \in Controls /\ ctl \in [Executors -> Controls] BY Typed
  <2>2. ctl' = [ctl EXCEPT ![e] = [ctl[e] EXCEPT !.plan = Groups]]
    BY <1>1, <2>1 DEF ExecuteBatch
  <2>3. ctl'[e] = [ctl[e] EXCEPT !.plan = Groups]
        /\ \A g \in Executors : g # e => ctl'[g] = ctl[g]
    BY <2>1, <2>2
  <2>4. child' = child /\ At(e, "created") BY <1>1 DEF ExecuteBatch
  <2>5. Begins(e) BY <2>1, <2>3, <2>4 DEF Begins, KeepsOut, Controls, At
  <2> QED BY <2>3, <2>4, <2>5, UntouchedStays DEF Shape
<1>2. CASE FirstSweep(e)
  <2>1. \E cs : ApplyChanges(e, cs) BY <1>2 DEF FirstSweep
  <2>2. Goto(e, "loop") /\ At(e, "sweep") BY <1>2 DEF FirstSweep
  <2>3. KeepsOut(f) /\ (f # e => child'[f] = child[f]) BY <2>1, ApplyKeepsOut
  <2>4. CASE f = e BY <2>2, <2>3, <2>4, GotoFields DEF Sweeps, Shape, SamePass
  <2>5. CASE f # e BY <2>2, <2>3, <2>5, GotoFields, UntouchedStays DEF Shape
  <2> QED BY <2>4, <2>5
<1>3. ASSUME NEW label \in {"verdict", "retries", "gates", "persist", "handler", "ended"},
             Goto(e, label), child' = child, ctl[e].pc \notin {"idle", "created", "ended"},
             At(e, "group") => label = "ended",
             label = "retries" => \/ At(e, "loop") /\ ctl[e].mode = "retry"
                                  \/ At(e, "persist") /\ MaxRetries > 0,
             At(e, "persist") /\ label # "ended" => LookAtStored(e) \/ ReplaceRow(e)
      PROVE  Shape(f)
  <2>1. CASE f = e BY <1>3, <2>1, GotoFields DEF Leaves, Shape, KeepsOut, SamePass
  <2>2. CASE f # e BY <1>3, <2>2, GotoFields, UntouchedStays DEF Shape
  <2> QED BY <2>1, <2>2
<1>4. CASE LoopEnds(e)
  <2>1. \/ Goto(e, "verdict") \/ Goto(e, "ended")
        \/ Goto(e, "retries") /\ ctl[e].mode = "retry"
    BY <1>4 DEF LoopEnds
  <2>2. child' = child /\ At(e, "loop") BY <1>4 DEF LoopEnds
  <2> QED BY <1>3, <2>1, <2>2 DEF At
<1>5. CASE Finalize(e)
  <2>1. (Goto(e, "gates") \/ Goto(e, "persist")) /\ child' = child /\ At(e, "verdict")
    BY <1>5 DEF Finalize
  <2> QED BY <1>3, <2>1 DEF At
<1>6. CASE GatesEnd(e)
  <2>1. child' = child /\ At(e, "gates") BY <1>6 DEF GatesEnd
  <2>2. CASE Goto(e, "persist") BY <1>3, <2>1, <2>2 DEF At
  <2>3. CASE ctl' = [ctl EXCEPT ![e].pc = "handler", ![e].broken = TRUE]
    <3>1. ctl[e] \in Controls /\ ctl \in [Executors -> Controls] BY Typed
    <3>2. ctl'[e] = [ctl[e] EXCEPT !.pc = "handler", !.broken = TRUE]
          /\ \A g \in Executors : g # e => ctl'[g] = ctl[g]
      BY <2>3, <3>1
    <3>3. Leaves(e) BY <2>1, <3>1, <3>2 DEF Leaves, SamePass, KeepsOut, At, Controls
    <3> QED BY <2>1, <3>2, <3>3, UntouchedStays DEF Shape
  <2> QED BY <1>6, <2>2, <2>3 DEF GatesEnd
<1>7. CASE Persist(e)
  <2>1. ctl' = ctl /\ child' = child BY <1>7 DEF Persist
  <2> QED BY <2>1, UntouchedStays DEF Shape
<1>8. CASE HandleError(e)
  <2>1. ctl' = ctl \/ Goto(e, "ended") BY <1>8 DEF HandleError
  <2>2. child' = child /\ At(e, "handler") BY <1>8 DEF HandleError
  <2>3. CASE ctl' = ctl BY <2>2, <2>3, UntouchedStays DEF Shape
  <2>4. CASE Goto(e, "ended") BY <1>3, <2>2, <2>4 DEF At
  <2> QED BY <2>1, <2>3, <2>4
<1>9. CASE ExecutorDies(e)
  <2>1. Goto(e, "ended") /\ child' = child /\ ctl[e].pc \notin {"idle", "created", "ended"}
    BY <1>9 DEF ExecutorDies
  <2> QED BY <1>3, <2>1 DEF At
<1> QED BY <1>1, <1>2, <1>4, <1>5, <1>6, <1>7, <1>8, <1>9

\* A look at the stored row or a replacement of it: a save may return.
LEMMA SaveShapes ==
  ASSUME IInv, PassInv, NEW e \in Executors, NEW f \in Executors, LookAtStored(e) \/ ReplaceRow(e)
  PROVE  Shape(f)
<1>0. InPlace(e) BY DEF PassInv, SavesInPlace
<1>1. ASSUME NEW save \in saving[e], Saved(e, save) PROVE Shape(f)
  <2>1. ASSUME NEW label \in {"sweep", "retries", "ended"}, Goto(e, label), child' = child,
               \/ At(e, "created") /\ label = "sweep"
               \/ At(e, "persist") /\ MaxRetries > 0 /\ label = "retries"
               \/ ctl[e].pc \in {"persist", "handler"} /\ label = "ended"
        PROVE  Shape(f)
    <3>1. CASE f # e BY <2>1, <3>1, GotoFields, UntouchedStays DEF Shape
    <3>2. CASE At(e, "created") /\ label = "sweep"
      <4>1. Begins(e) BY <2>1, <3>2, GotoFields DEF Begins, KeepsOut
      <4> QED BY <3>1, <4>1 DEF Shape
    <3>3. CASE label # "sweep"
      <4>1. Leaves(e) BY <2>1, <3>3, GotoFields DEF Leaves, KeepsOut, SamePass, At
      <4> QED BY <3>1, <4>1 DEF Shape
    <3> QED BY <2>1, <3>2, <3>3
  <2>2. CASE ctl' = ctl /\ \E t \in Tasks :
               child[e][t] = "saving" /\ Exit(e, t, IF Pooled(e) THEN "recorded" ELSE "out")
    <3>1. PICK t \in Tasks :
            child[e][t] = "saving" /\ Exit(e, t, IF Pooled(e) THEN "recorded" ELSE "out")
      BY <2>2
    <3> DEFINE code == IF Pooled(e) THEN "recorded" ELSE "out"
    <3>2. Exit(e, t, code) /\ (Pooled(e) \/ code = "out") BY <3>1
    <3> HIDE DEF code
    <3>3. Stays(f) BY <2>2, <3>1, <3>2, WorkersStay
    <3> QED BY <3>3 DEF Shape
  <2> QED BY <1>0, <1>1, <2>1, <2>2, SavedMoves
<1>2. CASE UNCHANGED <<batch, ctl, child>> BY <1>2, UntouchedStays DEF Shape
<1>3. \/ UNCHANGED <<batch, ctl, child>> \/ \E save \in saving[e] : Saved(e, save)
  BY DEF LookAtStored, ReplaceRow, InLock
<1> QED BY <1>1, <1>2, <1>3

LEMMA GroupShapes ==
  ASSUME IInv, PassInv, NEW e \in Executors, NEW f \in Executors, NextGroup(e) \/ GroupDone(e)
  PROVE  Shape(f)
<1>0. ctl[e] \in Controls /\ ctl \in [Executors -> Controls] BY Typed
<1>1. CASE NextGroup(e)
  <2>1. /\ Goto(e, "group") /\ At(e, "loop") /\ ctl[e].plan # <<>>
        /\ child' = [child EXCEPT ![e] = [t \in Tasks |->
                       IF t \in Head(ctl[e].plan) THEN "queued" ELSE @[t]]]
    BY <1>1 DEF NextGroup
  <2>2. \A t \in Tasks : child'[e][t] # "out" => child[e][t] # "out" \/ t \in Head(ctl[e].plan)
    BY <2>1, Typed DEF TablesTyped
  <2>3. f # e => child'[f] = child[f] BY <2>1, Typed DEF TablesTyped
  <2>4. CASE f = e BY <2>1, <2>2, <2>4, GotoFields DEF Enters, Shape, SamePass
  <2>5. CASE f # e BY <2>1, <2>3, <2>5, GotoFields, UntouchedStays DEF Shape
  <2> QED BY <2>4, <2>5
<1>2. CASE GroupDone(e)
  <2>1. /\ At(e, "group") /\ \A t \in Tasks : child[e][t] = "out"
        /\ child' = child
        /\ ctl' = [ctl EXCEPT ![e].pc = IF ctl[e].broken THEN "handler" ELSE "loop",
                              ![e].plan = Tail(@), ![e].supervised = FALSE]
    BY <1>2 DEF GroupDone
  <2> DEFINE label == IF ctl[e].broken THEN "handler" ELSE "loop"
  <2>2. ctl'[e] = [ctl[e] EXCEPT !.pc = label, !.plan = Tail(ctl[e].plan), !.supervised = FALSE]
    BY <2>1, <1>0
  <2>3. f # e => ctl'[f] = ctl[f] BY <2>1, <1>0
  <2>4. label \in {"loop", "handler"} OBVIOUS
  <2> HIDE DEF label
  <2>5. Finishes(e) BY <2>1, <2>2, <2>4, <1>0 DEF Finishes, Controls
  <2>6. CASE f = e BY <2>5, <2>6 DEF Shape
  <2>7. CASE f # e BY <2>1, <2>3, <2>7, UntouchedStays DEF Shape
  <2> QED BY <2>6, <2>7
<1> QED BY <1>1, <1>2

LEMMA RestartShapes ==
  ASSUME IInv, PassInv, NEW e \in Executors, NEW f \in Executors,
         NextRound(e) \/ Resume(e) \/ Reopen(e)
  PROVE  Restarts(e) /\ (f # e => Stays(f))
<1>0. ctl[e] \in Controls /\ ctl \in [Executors -> Controls] BY Typed
<1>1. child' = child BY DEF NextRound, Resume, Reopen
<1>2. ASSUME f # e, NEW c, ctl' = [ctl EXCEPT ![e] = c] PROVE Stays(f)
  BY <1>0, <1>1, <1>2, UntouchedStays
<1>3. CASE NextRound(e)
  <2> DEFINE again == { t \in Tasks : batch[e].results[t] = "FAILED" }
  <2>1. CASE again = {} \/ ctl[e].round = MaxRetries
    <3>1. ctl' = [ctl EXCEPT ![e] = [ctl[e] EXCEPT !.pc = "verdict", !.mode = "retry"]]
      BY <1>3, <2>1, <1>0 DEF NextRound
    <3>2. ctl'[e] = [ctl[e] EXCEPT !.pc = "verdict", !.mode = "retry"] BY <1>0, <3>1
    <3>3. At(e, "retries") BY <1>3 DEF NextRound
    <3>4. Restarts(e) BY <1>0, <1>1, <3>2, <3>3 DEF Restarts, KeepsOut, At, Controls
    <3> QED BY <1>2, <3>1, <3>4
  <2>2. CASE ~(again = {} \/ ctl[e].round = MaxRetries)
    <3>1. ctl' = [ctl EXCEPT ![e] = [ctl[e] EXCEPT !.pc = "loop", !.mode = "retry",
                                       !.round = @ + 1, !.plan = Singletons(again)]]
      BY <1>3, <2>2, <1>0 DEF NextRound
    <3> HIDE DEF again
    <3>2. ctl'[e] = [ctl[e] EXCEPT !.pc = "loop", !.mode = "retry",
                                       !.round = @ + 1, !.plan = Singletons(again)]
      BY <1>0, <3>1
    <3>3. At(e, "retries") BY <1>3 DEF NextRound
    <3>4. again \in SUBSET Tasks BY DEF again
    <3>5. ctl'[e].pc = "loop" /\ ctl'[e].mode = "retry" /\ ctl'[e].plan = Singletons(again)
      BY <1>0, <3>2 DEF Controls
    <3>6. Restarts(e) BY <1>1, <3>3, <3>4, <3>5 DEF Restarts, KeepsOut, At
    <3> QED BY <1>2, <3>1, <3>6
  <2> QED BY <2>1, <2>2
<1>4. CASE Resume(e)
  <2>1. PICK force \in BOOLEAN :
          ctl' = [ctl EXCEPT ![e] = [Idle EXCEPT !.pc = "reopen", !.mode = "resume",
                    !.plan = Singletons({ t \in Tasks : force \/ row.results[t] # "COMPLETED" })]]
    BY <1>4 DEF Resume
  <2> DEFINE again == { t \in Tasks : force \/ row.results[t] # "COMPLETED" }
             p == Singletons(again)
  <2>2. again \in SUBSET Tasks OBVIOUS
  <2> HIDE DEF again
  <2>3. ctl'[e] = [Idle EXCEPT !.pc = "reopen", !.mode = "resume", !.plan = p]
    BY <2>1, <1>0 DEF again
  <2> HIDE DEF p
  <2>4. ctl'[e].pc = "reopen" /\ ctl'[e].mode = "resume" /\ ctl'[e].plan = p
    BY <2>3, IdleType DEF Controls
  <2>5. At(e, "idle") BY <1>4 DEF Resume
  <2>6. Restarts(e) BY <1>1, <2>2, <2>4, <2>5 DEF Restarts, KeepsOut, At, p
  <2> QED BY <1>2, <2>1, <2>6
<1>5. CASE Reopen(e)
  <2>1. At(e, "reopen") /\ Goto(e, "loop") BY <1>5 DEF Reopen
  <2>2. Restarts(e)
    BY <1>1, <2>1, GotoFields DEF Restarts, KeepsOut, At, SamePass, PassInv, ReopenResumes
  <2>3. f # e => ctl'[f] = ctl[f] BY <2>1, GotoFields
  <2> QED BY <1>1, <2>2, <2>3, UntouchedStays
<1> QED BY <1>3, <1>4, <1>5

\* What is saved is what the copy then holds.
LEMMA SavedResults ==
  ASSUME IInv, NEW e \in Executors, NEW by, NEW b, SaveBatch(e, by, b)
  PROVE  batch'[e] = b /\ \A f \in Executors : f # e => batch'[f] = batch[f]
BY Typed DEF SaveBatch

LEMMA RecordedRow ==
  ASSUME IInv, NEW e \in Executors, NEW t \in Tasks, NEW verdict \in RunStatuses
  PROVE  /\ RecordTaskResult(e, t, verdict) \in Rows
         /\ RecordTaskResult(e, t, verdict).status = batch[e].status
         /\ RecordTaskResult(e, t, verdict).results[t] =
              IF batch[e].results[t] = "COMPLETED" THEN "COMPLETED" ELSE verdict
         /\ \A u \in Tasks : u # t =>
              RecordTaskResult(e, t, verdict).results[u] = batch[e].results[u]
<1>1. batch[e] \in Rows BY Typed
<1> DEFINE r == IF batch[e].results[t] = "COMPLETED" THEN "COMPLETED" ELSE verdict
           b == [batch[e] EXCEPT !.results[t] = r]
<1>2. r \in RunStatuses \cup {"none"} BY DEF RunStatuses
<1>3. RecordTaskResult(e, t, verdict) = b
  <2>1. b = [batch[e] EXCEPT !.results = [batch[e].results EXCEPT ![t] = r]] OBVIOUS
  <2>2. RecordTaskResult(e, t, verdict) = [batch[e] EXCEPT !.results[t] =
                                             IF @ = "COMPLETED" THEN @ ELSE verdict]
    BY DEF RecordTaskResult
  <2>3. CASE batch[e].results[t] = "COMPLETED" BY <2>2, <2>3
  <2>4. CASE batch[e].results[t] # "COMPLETED" BY <2>2, <2>4
  <2> QED BY <2>3, <2>4
<1> HIDE DEF r
<1>4. b \in Rows BY <1>1, <1>2, RowFields
<1>5. b = [batch[e] EXCEPT !.results = [batch[e].results EXCEPT ![t] = r]] OBVIOUS
<1>6. b.status = batch[e].status /\ b.results = [batch[e].results EXCEPT ![t] = r]
  BY <1>1, <1>5 DEF Rows
<1>7. b.results[t] = r /\ \A u \in Tasks : u # t => b.results[u] = batch[e].results[u]
  BY <1>1, <1>6 DEF Rows
<1> QED BY <1>3, <1>4, <1>6, <1>7 DEF r

LEMMA CollectFields ==
  ASSUME IInv, NEW e \in Executors, NEW t \in Tasks, Collect(e, t)
  PROVE  /\ batch'[e].results[t] = IF batch[e].results[t] = "COMPLETED" THEN "COMPLETED"
                                                                        ELSE Verdict(e, t)
         /\ \A u \in Tasks : u # t => batch'[e].results[u] = batch[e].results[u]
         /\ \A f \in Executors : f # e => batch'[f] = batch[f]
         /\ ~Pooled(e) => ctl' = [ctl EXCEPT ![e] = Tallied(@, batch'[e].results[t])]
<1> DEFINE b == RecordTaskResult(e, t, Verdict(e, t))
<1>1. /\ b \in Rows
      /\ b.results[t] = IF batch[e].results[t] = "COMPLETED" THEN "COMPLETED" ELSE Verdict(e, t)
      /\ \A u \in Tasks : u # t => b.results[u] = batch[e].results[u]
  BY VerdictTypes, RecordedRow
<1>2. SaveBatch(e, {t}, b) BY DEF Collect
<1>3. ~Pooled(e) => ctl' = [ctl EXCEPT ![e] = Tallied(@, b.results[t])] BY DEF Collect
<1> HIDE DEF b
<1>4. batch'[e] = b /\ \A f \in Executors : f # e => batch'[f] = batch[f]
  BY <1>2, SavedResults
<1> QED BY <1>1, <1>3, <1>4

LEMMA TallyShapes ==
  ASSUME IInv, NEW e \in Executors, NEW t \in Tasks, NEW result, NEW code, NEW f \in Executors,
         At(e, "group"), child[e][t] \notin {"out", "saving"}, Exit(e, t, code),
         code = "out" \/ (code = "saving" /\ ~Pooled(e)),
         ctl' = [ctl EXCEPT ![e] = Tallied(@, result)],
         result = "COMPLETED" => batch'[e].results[t] = "COMPLETED"
  PROVE  Shape(f)
<1>0. /\ ctl'[e].pc = ctl[e].pc /\ ctl'[e].mode = ctl[e].mode /\ ctl'[e].plan = ctl[e].plan
      /\ ctl'[e].completed = IF result = "COMPLETED" THEN ctl[e].completed + 1
                                                     ELSE ctl[e].completed
      /\ \A g \in Executors : g # e => ctl'[g] = ctl[g]
  BY TallyFields, Zenon
<1>1. CASE f # e BY <1>0, <1>1, UntouchedStays, Typed DEF Shape, Exit, TablesTyped
<1>2. KeepsOut(e) BY ExitFields DEF KeepsOut
<1>3. CASE result = "COMPLETED"
  <2>1. ~Counted(e, t) /\ child'[e][t] = code BY ExitFields DEF Counted
  <2>2. Counts(e) BY <1>0, <1>2, <1>3, <2>1 DEF Counts, At
  <2> QED BY <1>1, <2>2 DEF Shape
<1>4. CASE result # "COMPLETED"
  <2>1. Stays(e) BY <1>0, <1>2, <1>4 DEF Stays, SamePass
  <2> QED BY <1>1, <2>1 DEF Shape
<1> QED BY <1>3, <1>4

LEMMA BrokenShapes ==
  ASSUME IInv, NEW e \in Executors, NEW t \in Tasks, NEW f \in Executors, Exit(e, t, "out"),
         ctl' = [ctl EXCEPT ![e].broken = TRUE] \/ ctl' = [ctl EXCEPT ![e].supervised = TRUE]
  PROVE  Stays(f)
<1>1. ctl[e] \in Controls /\ ctl \in [Executors -> Controls] BY Typed
<1>2. \/ ctl'[e] = [ctl[e] EXCEPT !.broken = TRUE]
      \/ ctl'[e] = [ctl[e] EXCEPT !.supervised = TRUE]
  BY <1>1
<1>3. SamePass(e) /\ ctl'[e].pc = ctl[e].pc BY <1>1, <1>2 DEF SamePass, Controls
<1>4. KeepsOut(f) BY ExitFields, SMTT(30) DEF KeepsOut
<1>5. f # e => ctl'[f] = ctl[f] BY <1>1
<1> QED BY <1>3, <1>4, <1>5 DEF Stays, SamePass

LEMMA LaunchShapes ==
  ASSUME IInv, NEW e \in Executors, NEW t \in Tasks, NEW f \in Executors,
         \/ Launch(e, t) \/ LaunchRaises(e, t) \/ Collect(e, t) \/ Count(e, t)
         \/ Supervise(e, t) \/ SuperviseEnds(e, t)
  PROVE  Shape(f)
<1>1. CASE Launch(e, t)
  <2>1. At(e, "group") /\ child[e][t] = "queued" /\ batch' = batch BY <1>1 DEF Launch
  <2>2. CASE ctl[e].mode = "execute" /\ batch[e].results[t] = "COMPLETED"
    <3>1. Exit(e, t, "out") /\ ctl' = [ctl EXCEPT ![e] = Tallied(@, "COMPLETED")]
      BY <1>1, <2>2 DEF Launch, Exit
    <3> QED BY <2>1, <2>2, <3>1, TallyShapes
  <2>3. CASE ~(ctl[e].mode = "execute" /\ batch[e].results[t] = "COMPLETED")
    <3>1. Exit(e, t, "started") /\ ctl' = ctl BY <1>1, <2>3 DEF Launch, Exit
    <3> QED BY <2>1, <3>1, WorkersStay DEF Shape
  <2> QED BY <2>2, <2>3
<1>2. CASE LaunchRaises(e, t)
  BY <1>2, BrokenShapes DEF LaunchRaises, Exit, Shape
<1>3. CASE Collect(e, t)
  <2>1. At(e, "group") /\ child[e][t] \in {"exitOk", "exitBad"} BY <1>3 DEF Collect
  <2>2. CASE Pooled(e)
    <3>1. Exit(e, t, "saving") /\ ctl' = ctl BY <1>3, <2>2 DEF Collect
    <3> QED BY <2>1, <3>1, WorkersStay DEF Shape
  <2>3. CASE ~Pooled(e)
    <3>1. Exit(e, t, "saving") /\ ctl' = [ctl EXCEPT ![e] = Tallied(@, batch'[e].results[t])]
      BY <1>3, <2>3, CollectFields, ZenonT(60) DEF Collect
    <3>2. child[e][t] \notin {"out", "saving"} BY <2>1
    <3> QED BY <2>1, <2>3, <3>1, <3>2, TallyShapes
  <2> QED BY <2>2, <2>3
<1>4. CASE Count(e, t)
  <2>1. At(e, "group") /\ child[e][t] = "recorded" /\ Exit(e, t, "out") /\ batch' = batch
    BY <1>4 DEF Count
  <2>2. CASE ctl' = [ctl EXCEPT ![e].broken = TRUE] BY <2>1, <2>2, BrokenShapes DEF Shape
  <2>3. CASE ctl' = [ctl EXCEPT ![e] = Tallied(@, batch[e].results[t])]
    BY <2>1, <2>3, TallyShapes
  <2> QED BY <1>4, <2>2, <2>3 DEF Count
<1>5. CASE Supervise(e, t)
  <2>1. ctl[e] \in Controls /\ ctl \in [Executors -> Controls] BY Typed
  <2>2. ctl' = [ctl EXCEPT ![e].supervised = TRUE] BY <1>5 DEF Supervise
  <2>3. ctl'[e] = [ctl[e] EXCEPT !.supervised = TRUE] /\ (f # e => ctl'[f] = ctl[f])
    BY <2>1, <2>2
  <2>4. SamePass(e) /\ ctl'[e].pc = ctl[e].pc BY <2>1, <2>3 DEF SamePass, Controls
  <2>5. Exit(e, t, "supervised") /\ child[e][t] \notin {"out", "saving"} BY <1>5 DEF Supervise
  <2>6. KeepsOut(f) BY <2>5, ExitFields DEF KeepsOut
  <2> QED BY <2>3, <2>4, <2>6 DEF Stays, SamePass, Shape
<1>6. CASE SuperviseEnds(e, t)
  BY <1>6, WorkersStay DEF SuperviseEnds, Shape
<1> QED BY <1>1, <1>2, <1>3, <1>4, <1>5, <1>6

LEMMA WorkerShapes ==
  ASSUME IInv, NEW e \in Executors, NEW t \in Tasks, NEW f \in Executors, Worker(e, t)
  PROVE  Shape(f)
<1>1. ctl' = ctl /\ child[e][t] \in Alive
  BY DEF Worker, StartRun, AgentCompletes, CloseRun, AgentFails, AgentBlocks, WorkerCrashes, Alive
<1>2. \E code : Exit(e, t, code)
  BY DEF Worker, StartRun, AgentCompletes, CloseRun, AgentFails, AgentBlocks, WorkerCrashes
<1>3. child[e][t] # "out" /\ child[e][t] # "saving" BY <1>1 DEF Alive
<1> QED BY <1>1, <1>2, <1>3, WorkersStay DEF Shape

LEMMA OutsideShapes ==
  ASSUME IInv, NEW f \in Executors,
         \/ \E e \in Executors : ReconcileCheck(e) \/ ReconcileApply(e)
         \/ Cancel \/ CancelWrites
         \/ \E t \in Tasks : MarkDone(t) \/ CloseIssue(t) \/ Answer(t) \/ AnswerEnds(t)
         \/ UNCHANGED vars
  PROVE  Shape(f)
<1>1. ctl' = ctl
  BY DEF ReconcileCheck, ReconcileApply, Cancel, CancelWrites, MarkDone, CloseIssue, Answer,
         AnswerEnds, vars
<1>2. ASSUME NEW e \in Executors, ReconcileApply(e) PROVE KeepsOut(f)
  BY <1>2, ApplyKeepsOut DEF ReconcileApply
<1>3. CASE CancelWrites
  <2>1. ASSUME child' = child PROVE KeepsOut(f) BY <2>1 DEF KeepsOut
  <2>2. ASSUME child' # child PROVE KeepsOut(f)
    <3>1. \E spared \in SUBSET { w \in Executors \X Tasks : child[w[1]][w[2]] = "started" } :
            child' = [e \in Executors |-> [t \in Tasks |->
                        IF At(e, "group") /\ child[e][t] \in Alive /\ <<e, t>> \notin spared
                        THEN "exitBad" ELSE child[e][t]]]
      BY <1>3, <2>2, Zenon DEF CancelWrites
    <3> QED BY <3>1 DEF KeepsOut, Alive
  <2>3. KeepsOut(f) BY <2>1, <2>2
  <2> QED BY <1>1, <2>3 DEF Shape, Stays, SamePass
<1>4. CASE child' = child BY <1>1, <1>4, UntouchedStays DEF Shape
<1>5. \/ child' = child \/ CancelWrites \/ \E e \in Executors : ReconcileApply(e)
  BY DEF ReconcileCheck, ReconcileApply, Cancel, CancelWrites, MarkDone, CloseIssue, Answer,
         AnswerEnds, vars, aside
<1>6. CASE \E e \in Executors : ReconcileApply(e) BY <1>1, <1>2, <1>6 DEF Shape, Stays, SamePass
<1> QED BY <1>3, <1>4, <1>5, <1>6

\* Every step has one of these shapes for every executor.
LEMMA Shapes ==
  ASSUME IInv, PassInv, [Next]_vars, NEW f \in Executors
  PROVE  Shape(f)
<1>1. ASSUME NEW e \in Executors, Work(e) PROVE Shape(f)
  BY <1>1, SerialShapes, SaveShapes, GroupShapes, RestartShapes, LaunchShapes DEF Work, Shape
<1>2. ASSUME NEW e \in Executors, ExecutorDies(e) \/ Resume(e) \/ \E t \in Tasks : Worker(e, t)
      PROVE  Shape(f)
  BY <1>2, SerialShapes, RestartShapes, WorkerShapes DEF Shape
<1> QED BY <1>1, <1>2, OutsideShapes DEF Next

-----------------------------------------------------------------------------
(* What is left of the plan in a first pass is some last groups of it.         *)

\* What is left of the plan after its first n - 1 groups.
LEMMA LastGroups ==
  ASSUME NEW n \in 1..Len(Groups)
  PROVE  /\ SubSeq(Groups, n, Len(Groups)) # <<>>
         /\ Head(SubSeq(Groups, n, Len(Groups))) = Groups[n]
         /\ DOMAIN SubSeq(Groups, n, Len(Groups)) = 1..(Len(Groups) - n + 1)
         /\ \A i \in 1..(Len(Groups) - n + 1) : SubSeq(Groups, n, Len(Groups))[i] = Groups[n + i - 1]
         /\ Tail(SubSeq(Groups, n, Len(Groups))) = SubSeq(Groups, n + 1, Len(Groups))
<1> DEFINE p == SubSeq(Groups, n, Len(Groups))
<1>1. PICK S : Groups \in Seq(S) OBVIOUS
<1>2. Len(Groups) \in Nat /\ n \in Int /\ Len(Groups) \in n..Len(Groups) BY <1>1
<1>3. \A i \in n..Len(Groups) : Groups[i] \in S BY <1>1, ElementOfSeq
<1>4. /\ p \in Seq(S) /\ Len(p) = Len(Groups) - n + 1
      /\ \A i \in 1..(Len(Groups) - n + 1) : p[i] = Groups[n + i - 1]
  BY <1>1, <1>2, <1>3, SubSeqProperties
<1>5. Head(p) = Groups[n] /\ Tail(p) = SubSeq(Groups, n + 1, Len(Groups))
  BY <1>1, <1>2, HeadTailOfSubSeq
<1> HIDE DEF p
<1>6. DOMAIN p = 1..(Len(Groups) - n + 1) /\ p # <<>> BY <1>2, <1>4
<1> QED BY <1>4, <1>5, <1>6 DEF p

LEMMA AllGroups == Groups # <<>> => 1 \in 1..Len(Groups) /\ Groups = SubSeq(Groups, 1, Len(Groups))
<1>1. PICK S : Groups \in Seq(S) OBVIOUS
<1>2. Groups # <<>> => 1 \in 1..Len(Groups) BY <1>1
<1> QED BY <1>1, <1>2, SubSeqFull

\* The groups an executor has before it in a first pass have no task in common.
LEMMA PlanDisjoint ==
  ASSUME PassInv, NEW e \in Executors, ctl[e].mode = "execute",
         NEW i \in DOMAIN ctl[e].plan, NEW j \in DOMAIN ctl[e].plan, NEW t \in Tasks,
         t \in ctl[e].plan[i], t \in ctl[e].plan[j]
  PROVE  i = j
<1>1. ctl[e].plan # <<>> OBVIOUS
<1>2. PICK n \in 1..Len(Groups) : ctl[e].plan = SubSeq(Groups, n, Len(Groups))
  BY <1>1 DEF PassInv, PlanLeft
<1>3. i \in 1..(Len(Groups) - n + 1) /\ j \in 1..(Len(Groups) - n + 1) BY <1>2, LastGroups
<1>5. \A k \in 1..(Len(Groups) - n + 1) : ctl[e].plan[k] = Groups[n + k - 1] BY <1>2, LastGroups
<1>6. Len(Groups) \in Nat /\ DOMAIN Groups = 1..Len(Groups) OBVIOUS
<1>8. \A l \in Nat : \A m \in 1..l : \A k \in 1..(l - m + 1) : m + k - 1 \in 1..l /\ k \in Nat
  OBVIOUS
<1>7. /\ n + i - 1 \in DOMAIN Groups /\ n + j - 1 \in DOMAIN Groups
      /\ i \in Nat /\ j \in Nat
  BY <1>3, <1>6, <1>8
<1>9. t \in Groups[n + i - 1] /\ t \in Groups[n + j - 1] BY <1>3, <1>5
<1>4. n + i - 1 = n + j - 1 BY <1>7, <1>9
<1> QED BY <1>4, <1>7

LEMMA InitPass == Init => PassInv
<1> SUFFICES ASSUME Init PROVE PassInv OBVIOUS
<1>1. \A e \in Executors : ctl[e].plan = <<>> /\ ctl[e].pc # "reopen"
  <2>1. \A e \in Executors : ctl[e] \in {Idle, [Idle EXCEPT !.pc = "created"]} BY DEF Init
  <2> QED BY <2>1 DEF Idle
<1>2. \A e \in Executors, t \in Tasks : child[e][t] = "out" BY DEF Init
<1> QED BY <1>1, <1>2, InitSaves DEF PassInv, Gathered, PlanLeft, ReopenResumes, At

LEMMA StepPass ==
  ASSUME IInv, PassInv, [Next]_vars
  PROVE  PassInv'
<1>1. \A f \in Executors : Shape(f) BY Shapes
<1>2. ASSUME NEW f \in Executors, NEW t \in Tasks, child'[f][t] # "out"
      PROVE  ctl'[f].pc \in {"group", "ended"} /\ ctl'[f].plan # <<>> /\ t \in Head(ctl'[f].plan)
  <2>1. child[f][t] # "out" => /\ ctl[f].pc \in {"group", "ended"}
                               /\ ctl[f].plan # <<>> /\ t \in Head(ctl[f].plan)
    BY DEF PassInv, Gathered
  <2>2. CASE Stays(f) BY <1>2, <2>1, <2>2 DEF Stays, SamePass, KeepsOut
  <2>3. CASE Counts(f) BY <1>2, <2>1, <2>3 DEF Counts, KeepsOut
  <2>4. CASE Begins(f) \/ Sweeps(f) BY <1>2, <2>1, <2>4 DEF Begins, Sweeps, KeepsOut, At
  <2>5. CASE Enters(f) BY <1>2, <2>1, <2>5 DEF Enters, SamePass, At
  <2>6. CASE Leaves(f) BY <1>2, <2>1, <2>6 DEF Leaves, SamePass, KeepsOut, At
  <2>7. CASE Finishes(f) BY <1>2, <2>7 DEF Finishes
  <2>8. CASE Restarts(f) BY <1>2, <2>1, <2>8 DEF Restarts, KeepsOut
  <2> QED BY <1>1, <2>2, <2>3, <2>4, <2>5, <2>6, <2>7, <2>8 DEF Shape
<1>3. ASSUME NEW f \in Executors, ctl'[f].mode = "execute"
      PROVE  \/ ctl'[f].plan = <<>>
             \/ \E n \in 1..Len(Groups) : ctl'[f].plan = SubSeq(Groups, n, Len(Groups))
  <2>1. CASE ctl'[f].mode = ctl[f].mode /\ ctl'[f].plan = ctl[f].plan
    BY <1>3, <2>1 DEF PassInv, PlanLeft
  <2>2. CASE ctl'[f].plan = Groups BY <2>2, AllGroups
  <2>3. CASE Finishes(f)
    <3>1. ctl[f].mode = "execute" /\ ctl'[f].plan = Tail(ctl[f].plan) BY <1>3, <2>3 DEF Finishes
    <3>2. ctl[f].plan # <<>> BY <2>3 DEF Finishes, IInv, GroupHasPlan
    <3>3. PICK n \in 1..Len(Groups) : ctl[f].plan = SubSeq(Groups, n, Len(Groups))
      BY <3>1, <3>2 DEF PassInv, PlanLeft
    <3>4. CASE n = Len(Groups)
      <4>1. Len(Groups) \in Int /\ n + 1 \in Int /\ Len(Groups) < n + 1 BY <3>4
      <4> QED BY <3>1, <3>3, <4>1, LastGroups, SubSeqEmpty
    <3>5. CASE n # Len(Groups)
      <4>1. n + 1 \in 1..Len(Groups) BY <3>5
      <4> QED BY <3>1, <3>3, <3>5, <4>1, LastGroups
    <3> QED BY <3>4, <3>5
  <2>4. ~Restarts(f) BY <1>3 DEF Restarts
  <2> QED BY <1>1, <2>1, <2>2, <2>3, <2>4
          DEF Shape, Stays, Counts, Begins, Sweeps, Enters, Leaves, SamePass
<1>4. ASSUME NEW f \in Executors, ctl'[f].pc = "reopen" PROVE ctl'[f].mode # "execute"
  <2>1. CASE Stays(f) BY <1>4, <2>1 DEF Stays, SamePass, PassInv, ReopenResumes, At
  <2>2. CASE Restarts(f) BY <2>2 DEF Restarts
  <2> QED BY <1>1, <1>4, <2>1, <2>2
          DEF Shape, Counts, Begins, Sweeps, Enters, Leaves, Finishes
<1>5. SavesInPlace' BY StepSaves DEF PassInv
<1> QED BY <1>2, <1>3, <1>4, <1>5 DEF PassInv, Gathered, PlanLeft, ReopenResumes, At

LEMMA PassInvariant == Spec => [](IInv /\ PassInv)
BY InitInv, StepInv, InitPass, StepPass, PTL DEF Spec

\* Once the turn of a task has come in a first pass, it is over for that pass.
LEMMA TurnStays ==
  ASSUME IInv, PassInv, [Next]_vars, NEW e \in Executors, NEW t \in Tasks,
         ctl'[e].mode = "execute", Turn(e, t)
  PROVE  Turn(e, t)'
<1>1. Shape(e) BY Shapes
<1>2. ctl[e].pc \notin {"idle", "created", "sweep"} BY DEF Turn
<1>3. CASE Stays(e) \/ Counts(e) BY <1>3 DEF Stays, Counts, SamePass, Turn, At
<1>4. CASE Begins(e) \/ Sweeps(e) BY <1>2, <1>4 DEF Begins, Sweeps, At
<1>5. CASE Enters(e)
  <2>1. \A i \in DOMAIN ctl'[e].plan : t \notin ctl'[e].plan[i]
    BY <1>5 DEF Enters, SamePass, Turn, At
  <2> QED BY <1>5, <2>1 DEF Enters, Turn, At
<1>6. CASE Leaves(e) BY <1>6 DEF Leaves, Turn
<1>7. CASE Finishes(e)
  <2>1. ctl[e].plan # <<>> /\ ctl'[e].plan = Tail(ctl[e].plan) /\ ctl'[e].pc \in {"loop", "handler"}
    BY <1>7 DEF Finishes, IInv, GroupHasPlan
  <2>2. ctl[e].plan \in Seq(SUBSET Tasks) BY Typed DEF Controls
  <2> DEFINE p == ctl[e].plan
  <2>3. \A i \in DOMAIN Tail(p) : i + 1 \in DOMAIN p /\ i + 1 # 1 /\ Tail(p)[i] = p[i + 1]
    <3> HIDE DEF p
    <3>1. p \in Seq(SUBSET Tasks) /\ p # <<>> BY <2>1, <2>2 DEF p
    <3> QED BY <3>1
  <2>4. \A i \in DOMAIN p : t \in p[i] => i = 1 BY <1>7 DEF Turn, Finishes, At
  <2>5. \A i \in DOMAIN ctl'[e].plan : t \notin ctl'[e].plan[i] BY <2>1, <2>3, <2>4
  <2> QED BY <2>1, <2>5 DEF Turn
<1>8. ~Restarts(e) BY DEF Restarts
<1> QED BY <1>1, <1>3, <1>4, <1>5, <1>6, <1>7, <1>8 DEF Shape

\* What a task depends on has had its turn before a worker is at work on it, for
\* any plan whose groups are in the order of the dependencies: the workers of
\* _execute_parallel are those of the group at the head of what is left of the plan.
THEOREM DependenciesFirstAlways == Spec => []DependenciesFirst
<1> DEFINE Unsorted == TopologicalSortFails(DependsOn, Tasks)
<1> HIDE DEF Unsorted
<1>0. InOrder(Groups, Graph) \/ Unsorted BY PlanAssumption DEF Unsorted
<1>1. PassInv => DependenciesFirst
  <2> SUFFICES ASSUME PassInv, ~Unsorted, NEW e \in Executors, NEW t \in Tasks,
                      ctl[e].mode = "execute", child[e][t] \in Alive, NEW d \in Graph[t]
               PROVE  child[e][d] = "out" /\ \A i \in DOMAIN ctl[e].plan : d \notin ctl[e].plan[i]
    BY DEF DependenciesFirst, Unsorted
  <2>1. d \in Tasks BY DEF Graph, BuildGraph
  <2>2. ctl[e].plan # <<>> /\ t \in Head(ctl[e].plan) BY DEF PassInv, Gathered, Alive
  <2>3. PICK n \in 1..Len(Groups) : ctl[e].plan = SubSeq(Groups, n, Len(Groups))
    BY <2>2 DEF PassInv, PlanLeft
  <2>4. Len(Groups) \in Nat /\ DOMAIN Groups = 1..Len(Groups) OBVIOUS
  <2>5. t \in Groups[n] /\ Head(ctl[e].plan) = Groups[n] BY <2>2, <2>3, LastGroups
  <2>6. PICK j \in DOMAIN Groups : j < n /\ d \in Groups[j] BY <1>0, <2>4, <2>5 DEF InOrder
  <2>7. \A i \in DOMAIN Groups : d \in Groups[i] => i = j BY <2>1, <2>6
  <2>8. child[e][d] = "out" BY <2>1, <2>4, <2>5, <2>6, <2>7 DEF PassInv, Gathered
  <2>9. ASSUME NEW i \in DOMAIN ctl[e].plan, d \in ctl[e].plan[i] PROVE FALSE
    <3>1. i \in 1..(Len(Groups) - n + 1) BY <2>3, LastGroups
    <3>2. ctl[e].plan[i] = Groups[n + i - 1] BY <2>3, <3>1, LastGroups, SMTT(30)
    <3>3. \A l \in Nat : \A m \in 1..l : \A k \in 1..(l - m + 1) :
            m + k - 1 \in 1..l /\ (m + k - 1 >= m)
      BY SMTT(30)
    <3>4. n + i - 1 \in DOMAIN Groups /\ n + i - 1 >= n BY <2>4, <3>1, <3>3
    <3>5. n + i - 1 = j BY <2>7, <2>9, <3>2, <3>4
    <3>6. j \in Nat /\ n \in Nat BY <2>4
    <3> QED BY <2>6, <3>4, <3>5, <3>6
  <2> QED BY <2>8, <2>9
<1> QED BY <1>1, PassInvariant, PTL


-----------------------------------------------------------------------------
(* What a step does to the executors' copies and to the row.                   *)

\* Nothing that has a COMPLETED is about to be forgotten.
FindingsFresh ==
  \A e \in Executors, t \in Tasks :
    <<t, "requeue">> \in findings[e] => batch[e].results[t] # "COMPLETED"

Kept(e) == \A t \in Tasks : batch[e].results[t] = "COMPLETED" => batch'[e].results[t] = "COMPLETED"

\* What a step does to the copy of e: it keeps the COMPLETEDs, and moves the status
\* only by a save, a resume, the verdict or the gates.
CopyStep(e) ==
  \/ /\ Kept(e) /\ batch'[e].status = batch[e].status
     /\ ctl'[e].pc = "gates" => At(e, "gates")
  \/ /\ Kept(e) \/ At(e, "idle")
     /\ batch'[e].status \in {"CANCELLED", "RUNNING", "FAILED"} /\ ctl'[e].pc # "gates"
  \/ Finalize(e)
  \/ /\ At(e, "gates") /\ ctl'[e].pc = "persist"
     /\ batch'[e].results = batch[e].results /\ batch'[e].status = "PARTIAL"

LEMMA ApplyResults ==
  ASSUME IInv, NEW e \in Executors, NEW cs, ApplyChanges(e, cs)
  PROVE  /\ \A f \in Executors : f # e => batch'[f] = batch[f]
         /\ batch'[e].status = batch[e].status
         /\ \A t \in Tasks : batch'[e].results[t] = IF t \in Settled(cs) THEN "COMPLETED"
              ELSE IF t \in Reported(cs) THEN "none" ELSE batch[e].results[t]
<1> DEFINE results == [t \in Tasks |-> IF t \in Settled(cs) THEN "COMPLETED"
                                      ELSE IF t \in Reported(cs) THEN "none"
                                      ELSE batch[e].results[t]]
<1>1. batch' = [batch EXCEPT ![e] = [batch[e] EXCEPT !.results = results]]
  BY Typed DEF ApplyChanges
<1>2. \A t \in Tasks : results[t] = IF t \in Settled(cs) THEN "COMPLETED"
              ELSE IF t \in Reported(cs) THEN "none" ELSE batch[e].results[t]
  OBVIOUS
<1> HIDE DEF results
<1>3. /\ [batch[e] EXCEPT !.results = results].status = batch[e].status
      /\ [batch[e] EXCEPT !.results = results].results = results
  BY Typed DEF Rows
<1> QED BY <1>1, <1>2, <1>3, Typed

LEMMA ApplyKept ==
  ASSUME IInv, NEW e \in Executors, NEW cs, ApplyChanges(e, cs),
         \A t \in Tasks : <<t, "requeue">> \in cs => batch[e].results[t] # "COMPLETED",
         cs \subseteq Tasks \X {"completed", "requeue", "issue"},
         NEW f \in Executors
  PROVE  Kept(f) /\ batch'[f].status = batch[f].status
<1>0. \A c \in cs : c = <<c[1], c[2]>> OBVIOUS
<1>1. \A t \in Reported(cs) : <<t, "requeue">> \in cs BY <1>0 DEF Reported
<1>2. \A t \in Tasks : t \in Reported(cs) => batch[e].results[t] # "COMPLETED" BY <1>1
<1>3. Kept(e) BY <1>2, ApplyResults DEF Kept
<1> QED BY <1>3, ApplyResults DEF Kept

LEMMA SaveStep ==
  ASSUME IInv, NEW e \in Executors, NEW by, NEW b, SaveBatch(e, by, b),
         b.results = batch[e].results, NEW f \in Executors
  PROVE  /\ Kept(f) /\ (f # e => batch'[f] = batch[f])
         /\ batch'[e].status = b.status
BY SavedResults DEF Kept

LEMMA ChangesFresh ==
  ASSUME NEW e \in Executors, NEW told \in SUBSET Tasks, NEW t \in Tasks,
         <<t, "requeue">> \in Changes(e, told)
  PROVE  /\ batch[e].results[t] \in {"none", "RUNNING", "BLOCKED"}
         /\ task[t] = "BLOCKED" /\ blocker[t] = "ANSWERED"
BY DEF Changes

LEMMA SavingCopies ==
  ASSUME IInv, NEW e \in Executors, NEW f \in Executors,
         \/ ExecuteBatch(e) \/ Persist(e) \/ HandleError(e)
         \/ \E t \in Tasks : Collect(e, t)
  PROVE  CopyStep(f)
<1>0. batch[e] \in Rows /\ \A s \in Live \cup Terminal :
        /\ [batch[e] EXCEPT !.status = s].status = s
        /\ [batch[e] EXCEPT !.status = s].results = batch[e].results
  BY Typed, RowFields DEF Rows
<1>1. CASE ExecuteBatch(e)
  <2> DEFINE b == [batch[e] EXCEPT !.status = "RUNNING"]
  <2>0. b.status = "RUNNING" /\ b.results = batch[e].results BY <1>0 DEF Live
  <2>1. SaveBatch(e, {}, b) BY <1>1 DEF ExecuteBatch
  <2> HIDE DEF b
  <2>2. Kept(f) /\ (f # e => batch'[f] = batch[f]) /\ batch'[e].status = "RUNNING"
    BY <2>0, <2>1, SaveStep
  <2>3. ctl[e] \in Controls /\ ctl \in [Executors -> Controls] BY Typed
  <2>4. ctl' = [ctl EXCEPT ![e] = [ctl[e] EXCEPT !.plan = Groups]]
    BY <1>1, <2>3 DEF ExecuteBatch
  <2>5. ctl'[e] = [ctl[e] EXCEPT !.plan = Groups] /\ (f # e => ctl'[f] = ctl[f])
    BY <2>3, <2>4
  <2>6. ctl'[e].pc = ctl[e].pc BY <2>3, <2>5 DEF Controls
  <2>7. ctl'[e].pc = "created" BY <1>1, <2>6 DEF ExecuteBatch, At
  <2> QED BY <2>2, <2>5, <2>7 DEF CopyStep, At
<1>2. CASE Persist(e)
  <2>1. SaveBatch(e, {}, batch[e]) BY <1>2 DEF Persist
  <2>2. Kept(f) /\ (f # e => batch'[f] = batch[f]) /\ batch'[e].status = batch[e].status
    BY <2>1, SaveStep
  <2>3. ctl' = ctl BY <1>2 DEF Persist
  <2> QED BY <2>2, <2>3 DEF CopyStep, At
<1>3. CASE HandleError(e)
  <2> DEFINE b == [batch[e] EXCEPT !.status = "FAILED"]
  <2>0. b.status = "FAILED" /\ b.results = batch[e].results BY <1>0 DEF Terminal
  <2>1. batch' = batch \/ SaveBatch(e, {}, b) BY <1>3 DEF HandleError
  <2> HIDE DEF b
  <2>2. /\ Kept(f) /\ (f # e => batch'[f] = batch[f])
        /\ batch'[e].status \in {batch[e].status, "FAILED"}
    BY <2>0, <2>1, SaveStep DEF Kept
  <2>3. ctl' = ctl \/ Goto(e, "ended") BY <1>3 DEF HandleError
  <2>4. ctl[e].pc = "handler" BY <1>3 DEF HandleError, At
  <2>5. ctl'[e].pc \in {"handler", "ended"} /\ (f # e => ctl'[f] = ctl[f])
    BY <2>3, <2>4, GotoFields
  <2> QED BY <2>2, <2>5 DEF CopyStep, At
<1>4. ASSUME NEW t \in Tasks, Collect(e, t) PROVE CopyStep(f)
  <2>1. Kept(f) /\ (f # e => batch'[f] = batch[f]) BY <1>4, CollectFields DEF Kept
  <2> DEFINE b == RecordTaskResult(e, t, Verdict(e, t))
  <2>2. b.status = batch[e].status BY VerdictTypes, RecordedRow
  <2>3. SaveBatch(e, {t}, b) BY <1>4 DEF Collect
  <2> HIDE DEF b
  <2>4. batch'[e].status = batch[e].status BY <2>2, <2>3, SavedResults
  <2>5. ctl'[e].pc = ctl[e].pc /\ ctl[e].pc = "group" /\ (f # e => ctl'[f] = ctl[f])
    <3>1. ctl' = ctl \/ ctl' = [ctl EXCEPT ![e] = Tallied(@, batch'[e].results[t])]
      BY <1>4, CollectFields, ZenonT(60) DEF Collect
    <3>2. At(e, "group") BY <1>4 DEF Collect
    <3>3. CASE ctl' = ctl BY <3>2, <3>3 DEF At
    <3>4. CASE ctl' = [ctl EXCEPT ![e] = Tallied(@, batch'[e].results[t])]
      BY <3>2, <3>4, TallyFields, ZenonT(60) DEF At
    <3> QED BY <3>1, <3>3, <3>4
  <2> QED BY <2>1, <2>4, <2>5 DEF CopyStep, At
<1> QED BY <1>1, <1>2, <1>3, <1>4

\* Where an executor is that looks at the stored row or replaces it.
LEMMA SavesWhere ==
  ASSUME SavesInPlace, NEW e \in Executors, LookAtStored(e) \/ ReplaceRow(e)
  PROVE  \/ ctl[e].pc \in {"created", "persist", "handler"}
         \/ At(e, "group") /\ \E t \in Tasks : child[e][t] = "saving"
<1>1. \E save \in saving[e] : Pending(e, save)
  BY DEF LookAtStored, ReplaceRow, InLock, SavesInPlace, InPlace
<1> QED BY <1>1 DEF Pending

\* A look or a replacement: the copy stays, or is flipped.
LEMMA LookingCopies ==
  ASSUME IInv, PassInv, NEW e \in Executors, NEW f \in Executors, LookAtStored(e) \/ ReplaceRow(e)
  PROVE  /\ CopyStep(f) /\ batch'[f].results = batch[f].results
         /\ batch'[f].status # batch[f].status =>
              f = e /\ LookAtStored(e) /\ row.status = "CANCELLED" /\ row' = row
<1>1. ctl[e].pc # "gates" /\ (ctl'[e].pc = "gates" => ctl[e].pc = "gates")
  <2>1. Shape(e) BY SaveShapes
  <2>2. ctl[e].pc \in {"created", "persist", "handler", "group"}
    BY SavesWhere DEF PassInv, At
  <2>3. ctl'[e].pc # "gates"
    <3>1. ASSUME NEW save \in saving[e], Saved(e, save) PROVE ctl'[e].pc # "gates"
      <4>1. InPlace(e) BY DEF PassInv, SavesInPlace
      <4>2. \/ ctl' = ctl \/ Goto(e, "sweep") \/ Goto(e, "retries") \/ Goto(e, "ended")
        BY <3>1, <4>1, SavedMoves
      <4> QED BY <2>2, <4>2, GotoFields
    <3>2. UNCHANGED <<batch, ctl, child>> \/ \E save \in saving[e] : Saved(e, save)
      BY DEF LookAtStored, ReplaceRow, InLock
    <3> QED BY <2>2, <3>1, <3>2
  <2> QED BY <2>2, <2>3
<1>2. f # e => ctl'[f].pc = ctl[f].pc
  <2>1. ASSUME NEW save \in saving[e], Saved(e, save), f # e PROVE ctl'[f].pc = ctl[f].pc
    <3>1. ctl' = ctl \/ \E label : Goto(e, label) BY <2>1 DEF Saved
    <3> QED BY <2>1, <3>1, GotoFields
  <2>2. UNCHANGED <<batch, ctl, child>> \/ \E save \in saving[e] : Saved(e, save)
    BY DEF LookAtStored, ReplaceRow, InLock
  <2> QED BY <2>1, <2>2
<1>3. ctl'[f].pc = "gates" => At(f, "gates") BY <1>1, <1>2 DEF At
<1>4. CASE batch' = batch BY <1>3, <1>4 DEF CopyStep, Kept
<1>5. CASE batch' # batch
  <2>1. LookAtStored(e) /\ row.status = "CANCELLED" /\ row' = row
        /\ batch' = [batch EXCEPT ![e].status = "CANCELLED"]
    BY <1>5 DEF LookAtStored, ReplaceRow
  <2>2. batch'[e] = [batch[e] EXCEPT !.status = "CANCELLED"] /\ (f # e => batch'[f] = batch[f])
    BY <2>1, Typed
  <2>3. batch'[e].status = "CANCELLED" /\ batch'[e].results = batch[e].results
    BY <2>2, Typed, RowFields DEF Rows
  <2>4. CASE f # e BY <1>3, <2>2, <2>4 DEF CopyStep, Kept
  <2>5. CASE f = e BY <1>1, <2>1, <2>3, <2>5 DEF CopyStep, Kept
  <2> QED BY <2>4, <2>5
<1> QED BY <1>4, <1>5

LEMMA WorkersCopies ==
  ASSUME IInv, PassInv, NEW e \in Executors, NEW f \in Executors,
         \/ NextGroup(e) \/ LoopEnds(e) \/ GroupDone(e) \/ NextRound(e) \/ Reopen(e) \/ ExecutorDies(e)
         \/ \E t \in Tasks : \/ Launch(e, t) \/ LaunchRaises(e, t) \/ Count(e, t)
                             \/ Supervise(e, t) \/ SuperviseEnds(e, t)
  PROVE  CopyStep(f)
<1>1. batch' = batch
  BY DEF NextGroup, LoopEnds, GroupDone, NextRound, Reopen, ExecutorDies, Launch, LaunchRaises,
         Count, Supervise, SuperviseEnds
<1>2. Kept(f) /\ batch'[f].status = batch[f].status BY <1>1 DEF Kept
<1>3. ASSUME NEW label, Goto(e, label), label # "gates" PROVE CopyStep(f)
  BY <1>2, <1>3, GotoFields DEF CopyStep, At
<1>4. CASE NextGroup(e) \/ LoopEnds(e) \/ Reopen(e) \/ ExecutorDies(e)
  <2>1. Goto(e, "group") \/ Goto(e, "verdict") \/ Goto(e, "ended") \/ Goto(e, "retries") \/ Goto(e, "loop")
    BY <1>4 DEF NextGroup, LoopEnds, Reopen, ExecutorDies
  <2> QED BY <1>3, <2>1
<1>5. CASE GroupDone(e) \/ NextRound(e)
  <2>1. CASE f # e
    <3>1. ctl'[f] = ctl[f] BY <1>5, <2>1, Typed DEF GroupDone, NextRound
    <3> QED BY <1>2, <3>1 DEF CopyStep, At
  <2>2. CASE f = e
    <3>2. ASSUME GroupDone(e) PROVE ctl'[e].pc # "gates"
      <4>1. Shape(e) /\ At(e, "group") BY <3>2, GroupShapes DEF GroupDone
      <4> QED BY <4>1 DEF Shape, At, Stays, Counts, Begins, Sweeps, Enters, Leaves, Finishes, Restarts
    <3>3. NextRound(e) => ctl'[e].pc # "gates" BY RestartShapes DEF Restarts
    <3> QED BY <1>2, <1>5, <2>2, <3>2, <3>3 DEF CopyStep
  <2> QED BY <2>1, <2>2
<1>6. CASE \E t \in Tasks : \/ Launch(e, t) \/ LaunchRaises(e, t) \/ Count(e, t)
                            \/ Supervise(e, t) \/ SuperviseEnds(e, t)
  <2>1. At(e, "group") BY <1>6 DEF Launch, LaunchRaises, Count, Supervise, SuperviseEnds
  <2>2. CASE f # e
    <3>1. ctl'[f] = ctl[f]
      BY <1>6, <2>2, Typed DEF Launch, LaunchRaises, Count, Supervise, SuperviseEnds
    <3> QED BY <1>2, <3>1 DEF CopyStep, At
  <2>3. CASE f = e
    <3>1. Shape(e) BY <1>6, LaunchShapes
    <3>2. ctl'[e].pc # "gates"
      BY <2>1, <3>1 DEF Shape, At, Stays, Counts, Begins, Sweeps, Enters, Leaves, Finishes, Restarts
    <3> QED BY <1>2, <2>3, <3>2 DEF CopyStep
  <2> QED BY <2>2, <2>3
<1> QED BY <1>4, <1>5, <1>6

LEMMA VerdictCopies ==
  ASSUME IInv, PassInv, NEW e \in Executors, NEW f \in Executors,
         Finalize(e) \/ GatesEnd(e) \/ Resume(e)
  PROVE  CopyStep(f)
<1>0. batch \in [Executors -> Rows] /\ ctl \in [Executors -> Controls] BY Typed
<1>1. CASE Finalize(e)
  <2>1. f # e => batch'[f] = batch[f] /\ ctl'[f] = ctl[f] BY <1>0, <1>1, GotoFields DEF Finalize
  <2> QED BY <1>1, <2>1 DEF CopyStep, Kept, At
<1>2. CASE GatesEnd(e)
  <2>1. f # e => batch'[f] = batch[f] /\ ctl'[f] = ctl[f] BY <1>0, <1>2 DEF GatesEnd, Goto
  <2>2. CASE f # e BY <2>1, <2>2 DEF CopyStep, Kept, At
  <2>3. CASE batch' = batch BY <1>2, <2>1, <2>3 DEF GatesEnd, CopyStep, Kept, At
  <2>4. CASE Goto(e, "persist") /\ batch' = [batch EXCEPT ![e].status = "PARTIAL"]
    <3>1. batch'[e] = [batch[e] EXCEPT !.status = "PARTIAL"] BY <1>0, <2>4
    <3>2. batch'[e].status = "PARTIAL" /\ batch'[e].results = batch[e].results
      BY <1>0, <3>1 DEF Rows
    <3>3. ctl'[e].pc = "persist" /\ At(e, "gates") BY <1>2, <2>4, GotoFields DEF GatesEnd
    <3> QED BY <2>2, <3>2, <3>3 DEF CopyStep
  <2> QED BY <1>2, <2>3, <2>4 DEF GatesEnd
<1>3. CASE Resume(e)
  <2>1. f # e => batch'[f] = batch[f] /\ ctl'[f] = ctl[f] BY <1>0, <1>3 DEF Resume
  <2>2. CASE f # e BY <2>1, <2>2 DEF CopyStep, Kept, At
  <2>3. batch'[e].status = "RUNNING"
    <3>1. \E r : batch' = [batch EXCEPT ![e] = [status |-> "RUNNING", results |-> r]]
      BY <1>3 DEF Resume
    <3> QED BY <1>0, <3>1
  <2>5. ctl'[e].pc # "gates" /\ At(e, "idle") BY <1>3, RestartShapes DEF Restarts, Resume
  <2> QED BY <2>2, <2>3, <2>5 DEF CopyStep
<1> QED BY <1>1, <1>2, <1>3

LEMMA SweepCopies ==
  ASSUME IInv, FindingsFresh, NEW e \in Executors, NEW f \in Executors,
         FirstSweep(e) \/ ReconcileApply(e)
  PROVE  CopyStep(f)
<1>1. CASE FirstSweep(e)
  <2>1. PICK told \in SUBSET closed : ApplyChanges(e, Changes(e, told)) BY <1>1 DEF FirstSweep
  <2>2. told \in SUBSET Tasks BY Typed DEF TablesTyped
  <2>3. Changes(e, told) \subseteq Tasks \X {"completed", "requeue", "issue"} BY <2>2, ChangesTypes
  <2>4. \A t \in Tasks : <<t, "requeue">> \in Changes(e, told) => batch[e].results[t] # "COMPLETED"
    BY <2>2, ChangesFresh
  <2>5. Kept(f) /\ batch'[f].status = batch[f].status BY <2>1, <2>3, <2>4, ApplyKept
  <2>6. ctl'[e].pc = "loop" /\ (f # e => ctl'[f] = ctl[f]) BY <1>1, GotoFields DEF FirstSweep
  <2> QED BY <2>5, <2>6 DEF CopyStep, At
<1>2. CASE ReconcileApply(e)
  <2>1. ApplyChanges(e, findings[e]) /\ ctl' = ctl BY <1>2 DEF ReconcileApply
  <2>2. findings[e] \subseteq Tasks \X {"completed", "requeue", "issue"}
    BY Typed DEF TablesTyped
  <2>3. \A t \in Tasks : <<t, "requeue">> \in findings[e] => batch[e].results[t] # "COMPLETED"
    BY DEF FindingsFresh
  <2>4. Kept(f) /\ batch'[f].status = batch[f].status BY <2>1, <2>2, <2>3, ApplyKept
  <2> QED BY <2>1, <2>4 DEF CopyStep, At
<1> QED BY <1>1, <1>2

LEMMA CopySteps ==
  ASSUME IInv, PassInv, FindingsFresh, [Next]_vars, NEW f \in Executors
  PROVE  CopyStep(f)
<1>1. ASSUME NEW e \in Executors, Work(e) PROVE CopyStep(f)
  BY <1>1, SavingCopies, LookingCopies, WorkersCopies, VerdictCopies, SweepCopies DEF Work
<1>2. ASSUME NEW e \in Executors, ReconcileApply(e) \/ ExecutorDies(e) \/ Resume(e)
      PROVE  CopyStep(f)
  BY <1>2, WorkersCopies, VerdictCopies, SweepCopies
<1>3. ASSUME NEW e \in Executors, ReconcileCheck(e) \/ \E t \in Tasks : Worker(e, t)
      PROVE  batch' = batch /\ ctl' = ctl
  BY <1>3 DEF ReconcileCheck, Worker, StartRun, AgentCompletes, CloseRun, AgentFails, AgentBlocks,
              WorkerCrashes
<1>4. ASSUME \/ Cancel \/ CancelWrites \/ UNCHANGED vars
             \/ \E t \in Tasks : MarkDone(t) \/ CloseIssue(t) \/ Answer(t) \/ AnswerEnds(t)
      PROVE  batch' = batch /\ ctl' = ctl
  BY <1>4 DEF Cancel, CancelWrites, MarkDone, CloseIssue, Answer, AnswerEnds, vars
<1>5. CASE batch' = batch /\ ctl' = ctl BY <1>5 DEF CopyStep, Kept, At
<1> QED BY <1>1, <1>2, <1>3, <1>4, <1>5 DEF Next

\* The row as it was, a cancelled one, the copy of an executor that takes it up again, or
\* what a save brings: the status as it is, the results as they were dumped.
LEMMA RowSteps ==
  ASSUME IInv, [Next]_vars
  PROVE  \/ row' = row \/ row'.status = "CANCELLED"
         \/ \E e \in Executors : Reopen(e) /\ row' = batch'[e]
         \/ \E e \in Executors : \E save \in saving[e] :
              row' = [status |-> batch[e].status, results |-> save.results]
<1> DEFINE Written(e) == \/ row' = row
                         \/ Reopen(e) /\ row' = batch'[e]
                         \/ \E save \in saving[e] :
                              row' = [status |-> batch[e].status, results |-> save.results]
<1>2. ASSUME NEW e \in Executors, Work(e)
      PROVE  Written(e)
  <2>1. CASE Reopen(e) BY <2>1 DEF Reopen
  <2>2. CASE ReplaceRow(e) BY <2>2 DEF ReplaceRow, InLock
  <2>3. LookAtStored(e) => row' = row BY DEF LookAtStored
  <2>4. \A t \in Tasks : (\/ Launch(e, t) \/ LaunchRaises(e, t) \/ Collect(e, t) \/ Count(e, t)
                          \/ Supervise(e, t) \/ SuperviseEnds(e, t)) => row' = row
    BY DEF Launch, LaunchRaises, Collect, Count, Supervise, SuperviseEnds
  <2>5. (FirstSweep(e) \/ NextGroup(e) \/ LoopEnds(e) \/ GroupDone(e)) => row' = row
    BY DEF FirstSweep, NextGroup, LoopEnds, GroupDone
  <2>6. (Finalize(e) \/ GatesEnd(e) \/ NextRound(e)) => row' = row
    BY DEF Finalize, GatesEnd, NextRound
  <2>7. (ExecuteBatch(e) \/ Persist(e) \/ HandleError(e)) => row' = row
    BY DEF ExecuteBatch, Persist, HandleError
  <2> QED BY <1>2, <2>1, <2>2, <2>3, <2>4, <2>5, <2>6, <2>7 DEF Work
<1>3. ASSUME NEW e \in Executors,
             \/ ReconcileCheck(e) \/ ReconcileApply(e) \/ ExecutorDies(e) \/ Resume(e)
             \/ \E t \in Tasks : Worker(e, t)
      PROVE  row' = row
  BY <1>3 DEF ReconcileCheck, ReconcileApply, ExecutorDies, Resume, Worker, StartRun,
              AgentCompletes, CloseRun, AgentFails, AgentBlocks, WorkerCrashes
<1>4. CASE CancelWrites
  <2>1. PICK c \in cancels : row' = [c EXCEPT !.status = "CANCELLED"] BY <1>4 DEF CancelWrites
  <2> QED BY <2>1, Typed DEF TablesTyped, Rows
<1>5. (Cancel \/ UNCHANGED vars
       \/ \E t \in Tasks : MarkDone(t) \/ CloseIssue(t) \/ Answer(t) \/ AnswerEnds(t)) => row' = row
  BY DEF Cancel, MarkDone, CloseIssue, Answer, AnswerEnds, vars
<1> QED BY <1>2, <1>3, <1>4, <1>5 DEF Next

\* What is being saved was dumped in this step or is left from the one before.
LEMMA SaveSteps ==
  ASSUME IInv, [Next]_vars, NEW e \in Executors, NEW s \in saving'[e]
  PROVE  s.results = batch'[e].results \/ \E s0 \in saving[e] : s.results = s0.results
<1>0. saving \in [Executors -> SUBSET Saves] BY Typed DEF TablesTyped
<1>1. ASSUME NEW g \in Executors, NEW by, NEW b, SaveBatch(g, by, b)
      PROVE  s.results = batch'[e].results \/ \E s0 \in saving[e] : s.results = s0.results
  <2>1. batch'[g] = b BY <1>1, SavedResults
  <2> DEFINE new == [by |-> by, results |-> b.results, looked |-> FALSE]
  <2>2. new.results = b.results OBVIOUS
  <2>3. saving' = [saving EXCEPT ![g] = @ \cup {new}] BY <1>1 DEF SaveBatch
  <2> HIDE DEF new
  <2>4. s \in saving[e] \/ (g = e /\ s = new) BY <1>0, <2>3
  <2> QED BY <2>1, <2>2, <2>4
<1>2. ASSUME NEW g \in Executors, NEW save, Saved(g, save) PROVE s \in saving[e]
  BY <1>0, <1>2 DEF Saved
<1>3. ASSUME NEW g \in Executors, NEW save \in saving[g],
             saving' = [saving EXCEPT ![g] = (@ \ {save}) \cup {[save EXCEPT !.looked = TRUE]}]
      PROVE  \E s0 \in saving[e] : s.results = s0.results
  <2> DEFINE new == [save EXCEPT !.looked = TRUE]
  <2>1. save \in Saves BY <1>0
  <2>2. new.results = save.results BY <2>1 DEF Saves
  <2> HIDE DEF new
  <2>3. s \in saving[e] \/ (g = e /\ s = new) BY <1>0, <1>3 DEF new
  <2> QED BY <2>2, <2>3
<1>4. ASSUME saving' = saving \/ \E g \in Executors : saving' = [saving EXCEPT ![g] = {}]
      PROVE  s \in saving[e]
  BY <1>0, <1>4
<1>5. ASSUME NEW g \in Executors, Work(g)
      PROVE  s.results = batch'[e].results \/ \E s0 \in saving[e] : s.results = s0.results
  <2>1. CASE LookAtStored(g) BY <1>2, <1>3, <2>1 DEF LookAtStored
  <2>2. CASE ReplaceRow(g) BY <1>2, <2>2 DEF ReplaceRow
  <2>3. CASE ExecuteBatch(g) \/ Persist(g) \/ HandleError(g)
    BY <1>1, <1>4, <2>3 DEF ExecuteBatch, Persist, HandleError
  <2>4. ASSUME NEW t \in Tasks, Collect(g, t)
        PROVE  s.results = batch'[e].results \/ \E s0 \in saving[e] : s.results = s0.results
    <3>1. \E by, b : SaveBatch(g, by, b) BY <2>4 DEF Collect
    <3> QED BY <1>1, <3>1
  <2>5. ASSUME \/ FirstSweep(g) \/ NextGroup(g) \/ LoopEnds(g) \/ GroupDone(g)
               \/ Finalize(g) \/ GatesEnd(g) \/ NextRound(g) \/ Reopen(g)
               \/ \E t \in Tasks : \/ Launch(g, t) \/ LaunchRaises(g, t) \/ Count(g, t)
                                   \/ Supervise(g, t) \/ SuperviseEnds(g, t)
        PROVE  saving' = saving
    BY <2>5 DEF FirstSweep, NextGroup, LoopEnds, GroupDone, Finalize, GatesEnd, NextRound, Reopen,
                Launch, LaunchRaises, Count, Supervise, SuperviseEnds, aside
  <2> QED BY <1>4, <1>5, <2>1, <2>2, <2>3, <2>4, <2>5 DEF Work
<1>6. ASSUME NEW g \in Executors,
             \/ ReconcileCheck(g) \/ ReconcileApply(g) \/ Resume(g)
             \/ \E t \in Tasks : Worker(g, t)
      PROVE  saving' = saving
  BY <1>6 DEF ReconcileCheck, ReconcileApply, Resume, Worker, StartRun, AgentCompletes, CloseRun,
              AgentFails, AgentBlocks, WorkerCrashes, aside
<1>7. (\/ Cancel \/ CancelWrites \/ UNCHANGED vars
       \/ \E t \in Tasks : MarkDone(t) \/ CloseIssue(t) \/ Answer(t) \/ AnswerEnds(t))
      => saving' = saving
  BY DEF Cancel, CancelWrites, MarkDone, CloseIssue, Answer, AnswerEnds, vars, aside
<1>8. \A g \in Executors : ExecutorDies(g) => saving' = [saving EXCEPT ![g] = {}]
  BY DEF ExecutorDies
<1> QED BY <1>4, <1>5, <1>6, <1>7, <1>8 DEF Next

-----------------------------------------------------------------------------
(* When a recorded COMPLETED is forgotten: a pass of the reconciler has found  *)
(* the task's blocker answered, and is applied after a worker recorded that    *)
(* the task is COMPLETED. Without supervision, nothing of this kind is found   *)
(* where nobody answers; and what is found of a task in a batch's one and only *)
(* pass is found after its turn.                                               *)

\* No operator takes the batch up again.
NobodyResumes == {"resume", "forceResume"} \cap Ops = {}

\* Where no finding can forget a verdict that was recorded after it was made.
VerdictsStand ==
  /\ "supervise" \notin Ops
  /\ "answer" \notin Ops \/ (MaxRetries = 0 /\ NobodyResumes)

\* Nobody has answered, and nothing was found to be answered.
NoAnswers ==
  /\ \A t \in Tasks : blocker[t] # "ANSWERED"
  /\ \A e \in Executors, t \in Tasks : <<t, "requeue">> \notin findings[e]

\* What a pass of the reconciler leaves pending.
LEMMA FindingSteps ==
  ASSUME IInv, [Next]_vars, NEW e \in Executors, NEW t \in Tasks,
         <<t, "requeue">> \in findings'[e], <<t, "requeue">> \notin findings[e]
  PROVE  /\ batch[e].results[t] # "COMPLETED" /\ task[t] = "BLOCKED" /\ blocker[t] = "ANSWERED"
         /\ batch' = batch /\ blocker' = blocker /\ run' = run /\ ctl' = ctl
         /\ child' = child
<1>1. findings \in [Executors -> SUBSET (Tasks \X {"completed", "requeue", "issue"})]
  BY Typed DEF TablesTyped
<1>2. ASSUME NEW g \in Executors, ReconcileCheck(g)
      PROVE  /\ batch[e].results[t] # "COMPLETED" /\ task[t] = "BLOCKED" /\ blocker[t] = "ANSWERED"
             /\ batch' = batch /\ blocker' = blocker /\ run' = run /\ ctl' = ctl
             /\ child' = child
  <2>1. PICK told \in SUBSET closed : findings' = [findings EXCEPT ![g] = Changes(g, told)]
    BY <1>2 DEF ReconcileCheck
  <2>2. told \in SUBSET Tasks BY Typed DEF TablesTyped
  <2>3. g = e /\ <<t, "requeue">> \in Changes(e, told) BY <1>1, <2>1
  <2>4. batch[e].results[t] # "COMPLETED" /\ task[t] = "BLOCKED" /\ blocker[t] = "ANSWERED"
    BY <2>2, <2>3, ChangesFresh
  <2> QED BY <1>2, <2>4 DEF ReconcileCheck
<1>3. ASSUME NEW g \in Executors,
             \/ Work(g) \/ ReconcileApply(g) \/ ExecutorDies(g) \/ Resume(g)
             \/ \E u \in Tasks : Worker(g, u)
      PROVE  findings' = findings \/ findings' = [findings EXCEPT ![g] = {}]
  <2>1. Work(g) => findings' = findings
    BY DEF Work, ExecuteBatch, FirstSweep, NextGroup, LoopEnds, GroupDone, Launch, LaunchRaises,
           Collect, Count, Supervise, SuperviseEnds, Finalize, GatesEnd, Persist, HandleError,
           NextRound, Reopen, LookAtStored, ReplaceRow, aside
  <2>2. (ReconcileApply(g) \/ ExecutorDies(g)) => findings' = [findings EXCEPT ![g] = {}]
    BY DEF ReconcileApply, ExecutorDies
  <2>3. (Resume(g) \/ \E u \in Tasks : Worker(g, u)) => findings' = findings
    BY DEF Resume, Worker, StartRun, AgentCompletes, CloseRun, AgentFails, AgentBlocks,
           WorkerCrashes, aside
  <2> QED BY <1>3, <2>1, <2>2, <2>3
<1>4. (\/ Cancel \/ CancelWrites \/ UNCHANGED vars
       \/ \E u \in Tasks : MarkDone(u) \/ CloseIssue(u) \/ Answer(u) \/ AnswerEnds(u))
      => findings' = findings
  BY DEF Cancel, CancelWrites, MarkDone, CloseIssue, Answer, AnswerEnds, vars, aside
<1>5. ASSUME NEW g \in Executors, findings' = findings \/ findings' = [findings EXCEPT ![g] = {}]
      PROVE  FALSE
  BY <1>1, <1>5
<1> QED BY <1>2, <1>3, <1>4, <1>5 DEF Next

LEMMA BlockerSteps ==
  ASSUME IInv, [Next]_vars, NEW t \in Tasks
  PROVE  \/ blocker'[t] = blocker[t]
         \/ /\ blocker[t] = "OPEN" /\ blocker'[t] = "ANSWERED"
            /\ "answer" \in Ops \/ "supervise" \in Ops
         \/ blocker'[t] = "OPEN" /\ \E e \in Executors : AgentBlocks(e, t)
<1>1. blocker \in [Tasks -> {"none", "OPEN", "ANSWERED"}] BY Typed, SMTT(30) DEF TablesTyped
<1>2. ASSUME NEW e \in Executors, Work(e)
      PROVE  blocker' = blocker \/ \E u \in Tasks : Supervise(e, u)
  BY <1>2 DEF Work, ExecuteBatch, FirstSweep, NextGroup, LoopEnds, GroupDone, Launch, LaunchRaises,
           Collect, Count, SuperviseEnds, Finalize, GatesEnd, Persist, HandleError,
           NextRound, Reopen, LookAtStored, ReplaceRow, aside
<1>3. ASSUME NEW e \in Executors,
             \/ ReconcileCheck(e) \/ ReconcileApply(e) \/ ExecutorDies(e) \/ Resume(e)
             \/ \E u \in Tasks : Worker(e, u)
      PROVE  blocker' = blocker \/ \E u \in Tasks : AgentBlocks(e, u)
  BY <1>3 DEF ReconcileCheck, ReconcileApply, ExecutorDies, Resume, Worker, StartRun,
              AgentCompletes, CloseRun, AgentFails, WorkerCrashes, aside
<1>4. ASSUME \/ Cancel \/ CancelWrites \/ UNCHANGED vars
             \/ \E u \in Tasks : MarkDone(u) \/ CloseIssue(u) \/ Answer(u) \/ AnswerEnds(u)
      PROVE  blocker' = blocker \/ \E u \in Tasks : Answer(u)
  BY <1>4 DEF Cancel, CancelWrites, MarkDone, CloseIssue, AnswerEnds, vars, aside
<1>5. ASSUME NEW u \in Tasks, Answer(u) \/ \E e \in Executors : Supervise(e, u)
      PROVE  \/ blocker'[t] = blocker[t]
             \/ /\ blocker[t] = "OPEN" /\ blocker'[t] = "ANSWERED"
                /\ "answer" \in Ops \/ "supervise" \in Ops
  BY <1>1, <1>5 DEF Answer, Supervise
<1>6. ASSUME NEW u \in Tasks, NEW e \in Executors, AgentBlocks(e, u)
      PROVE  \/ blocker'[t] = blocker[t]
             \/ blocker'[t] = "OPEN" /\ AgentBlocks(e, t)
  BY <1>1, <1>6 DEF AgentBlocks
<1> QED BY <1>2, <1>3, <1>4, <1>5, <1>6 DEF Next

LEMMA StepNoAnswers ==
  ASSUME IInv, NoAnswers, [Next]_vars, "answer" \notin Ops, "supervise" \notin Ops
  PROVE  NoAnswers'
<1>1. \A t \in Tasks : blocker'[t] # "ANSWERED" BY BlockerSteps DEF NoAnswers
<1>2. \A e \in Executors, t \in Tasks : <<t, "requeue">> \notin findings'[e]
  BY FindingSteps DEF NoAnswers
<1> QED BY <1>1, <1>2 DEF NoAnswers

LEMMA IdleStays ==
  ASSUME IInv, PassInv, NobodyResumes, [Next]_vars, NEW e \in Executors, At(e, "idle")
  PROVE  ctl'[e] = ctl[e]
<1>1. ctl \in [Executors -> Controls] BY Typed, SMTT(30)
<1>2. ASSUME NEW g \in Executors, Work(g)
      PROVE  g # e
  <2>1. LookAtStored(g) \/ ReplaceRow(g) => g # e BY SavesWhere DEF PassInv, At
  <2> QED
    BY <1>2, <2>1 DEF Work, ExecuteBatch, FirstSweep, NextGroup, LoopEnds, GroupDone, Launch,
           LaunchRaises, Collect, Count, Supervise, SuperviseEnds, Finalize, GatesEnd, Persist,
           HandleError, NextRound, Reopen, At
<1>3. ASSUME NEW g \in Executors, g # e, Work(g)
      PROVE  ctl'[e] = ctl[e]
  <2>1. CASE ExecuteBatch(g) \/ FirstSweep(g) \/ NextGroup(g) \/ LoopEnds(g) \/ GroupDone(g)
    BY <1>1, <1>3, <2>1 DEF ExecuteBatch, FirstSweep, NextGroup, LoopEnds, GroupDone, Goto
  <2>2. CASE Finalize(g) \/ GatesEnd(g) \/ Persist(g) \/ HandleError(g) \/ NextRound(g) \/ Reopen(g)
    BY <1>1, <1>3, <2>2 DEF Finalize, GatesEnd, Persist, HandleError, NextRound, Reopen, Goto
  <2>3. ASSUME NEW t \in Tasks, \/ Launch(g, t) \/ LaunchRaises(g, t) \/ Count(g, t)
                                \/ Supervise(g, t) \/ SuperviseEnds(g, t)
        PROVE  ctl'[e] = ctl[e]
    BY <1>1, <1>3, <2>3 DEF Launch, LaunchRaises, Count, Supervise, SuperviseEnds
  <2>4. ASSUME NEW t \in Tasks, Collect(g, t) PROVE ctl'[e] = ctl[e]
    <3>1. ctl' = ctl \/ \E c : ctl' = [ctl EXCEPT ![g] = c] BY <2>4 DEF Collect
    <3> QED BY <1>1, <1>3, <3>1
  <2>5. CASE LookAtStored(g) \/ ReplaceRow(g)
    <3>1. UNCHANGED <<batch, ctl, child>> \/ \E save \in saving[g] : Saved(g, save)
      BY <2>5 DEF LookAtStored, ReplaceRow, InLock
    <3>2. ctl' = ctl \/ \E label : Goto(g, label) BY <3>1 DEF Saved
    <3> QED BY <1>3, <3>2, GotoFields
  <2> QED BY <1>3, <2>1, <2>2, <2>3, <2>4, <2>5 DEF Work
<1>4. ASSUME NEW g \in Executors, ExecutorDies(g) PROVE ctl'[e] = ctl[e]
  BY <1>1, <1>4 DEF ExecutorDies, Goto, At
<1>5. ASSUME NEW g \in Executors,
             ReconcileCheck(g) \/ ReconcileApply(g) \/ \E t \in Tasks : Worker(g, t)
      PROVE  ctl' = ctl
  BY <1>5 DEF ReconcileCheck, ReconcileApply, Worker, StartRun, AgentCompletes, CloseRun,
              AgentFails, AgentBlocks, WorkerCrashes
<1>6. \A g \in Executors : ~Resume(g) BY DEF Resume, NobodyResumes
<1>7. (\/ Cancel \/ CancelWrites \/ UNCHANGED vars
       \/ \E t \in Tasks : MarkDone(t) \/ CloseIssue(t) \/ Answer(t) \/ AnswerEnds(t))
      => ctl' = ctl
  BY DEF Cancel, CancelWrites, MarkDone, CloseIssue, Answer, AnswerEnds, vars
<1> QED BY <1>2, <1>3, <1>4, <1>5, <1>6, <1>7 DEF Next

\* A task with a blocker has had its worker, and its run will not complete; a run
\* that an agent is at work on is the executor's.
BlockersSettle ==
  \A t \in Tasks :
    /\ blocker[t] # "none" => /\ Turn(First, t)
                              /\ child[First][t] \in {"exitOk", "exitBad", "saving", "recorded", "out"}
                              /\ run[t].status \in {"BLOCKED", "FAILED"}
    /\ child[First][t] \in {"agent", "closing"} => run[t].status = "RUNNING" /\ run[t].by = First
    /\ child[First][t] # "supervised"

\* The batch has one pass, and what was found answered has no COMPLETED.
OnePass ==
  /\ \A e \in Executors \ {First} : At(e, "idle")
  /\ ctl[First].mode = "execute" /\ ctl[First].pc \notin {"idle", "retries", "reopen"}
  /\ BlockersSettle
  /\ \A e \in Executors, t \in Tasks : <<t, "requeue">> \in findings[e] =>
       blocker[t] # "none" /\ batch[e].results[t] # "COMPLETED"

\* What a step of a first pass does to the worker and to the run of a task.
TaskStep(t) ==
  LET c == child[First][t]
      d == child'[First][t]
  IN  \/ (d = c \/ (c \in Alive /\ d = "exitBad")) /\ run'[t] = run[t]
      \/ d = c /\ run[t].status = "BLOCKED" /\ run'[t].status = "FAILED"
      \/ /\ At(First, "loop") /\ ctl[First].plan # <<>> /\ t \in Head(ctl[First].plan)
         /\ d = "queued" /\ run'[t] = run[t]
      \/ c = "queued" /\ d \in {"started", "out"} /\ run'[t] = run[t]
      \/ c = "started" /\ d = "agent" /\ run'[t] = [status |-> "RUNNING", by |-> First]
      \/ c = "agent" /\ d = "exitBad"
      \/ c = "agent" /\ d = "closing" /\ run'[t] = run[t]
      \/ c = "closing" /\ d = "exitOk"
      \/ /\ c \in {"exitOk", "exitBad"} /\ d = "saving"
         /\ run'[t] = run[t] \/ run'[t].status = "FAILED"
      \/ c = "saving" /\ d \in {"recorded", "out"} /\ run'[t] = run[t]
      \/ c = "recorded" /\ d = "out" /\ run'[t] = run[t]

LEMMA OnlyFirst ==
  ASSUME PassInv, OnePass, NEW e \in Executors
  PROVE  /\ Work(e) => e = First
         /\ \A t \in Tasks : child[e][t] # "out" => e = First
<1>1. e # First => At(e, "idle") BY SMTT(30) DEF OnePass
<1>2. Work(e) => ~At(e, "idle")
  <2>1. LookAtStored(e) \/ ReplaceRow(e) => ~At(e, "idle") BY SavesWhere DEF PassInv, At
  <2> QED
    BY <2>1 DEF Work, ExecuteBatch, FirstSweep, NextGroup, LoopEnds, GroupDone, Launch, LaunchRaises,
         Collect, Count, Supervise, SuperviseEnds, Finalize, GatesEnd, Persist, HandleError,
         NextRound, Reopen, At
<1>3. \A t \in Tasks : child[e][t] # "out" => ~At(e, "idle") BY DEF PassInv, Gathered, At
<1> QED BY <1>1, <1>2, <1>3

LEMMA FailRunFields ==
  ASSUME IInv, NEW t \in Tasks, FailRun(t)
  PROVE  /\ run'[t].status = "FAILED" /\ \A u \in Tasks : u # t => run'[u] = run[u]
<1>1. run \in [Tasks -> [status : RunStatuses \cup {"none"}, by : Executors]]
  BY Typed DEF TablesTyped
<1>2. run'[t] = [run[t] EXCEPT !.status = "FAILED"] /\ \A u \in Tasks : u # t => run'[u] = run[u]
  BY <1>1 DEF FailRun
<1> QED BY <1>1, <1>2

LEMMA WorkerTaskSteps ==
  ASSUME IInv, PassInv, OnePass, NEW e \in Executors, NEW u \in Tasks, Worker(e, u), NEW t \in Tasks
  PROVE  TaskStep(t)
<1>0. run \in [Tasks -> [status : RunStatuses \cup {"none"}, by : Executors]]
  BY Typed DEF TablesTyped
<1>1. child[e][u] \in Alive
  BY DEF Worker, StartRun, AgentCompletes, CloseRun, AgentFails, AgentBlocks, WorkerCrashes, Alive
<1>2. e = First BY <1>1, OnlyFirst DEF Alive
<1>3. ASSUME NEW code, Exit(e, u, code)
      PROVE  /\ child'[First][u] = code
             /\ (t # u => child'[First][t] = child[First][t])
  BY <1>2, <1>3, Typed DEF Exit, TablesTyped
<1>4. t # u => run'[t] = run[t]
  <2>1. FailOwnRun(e, u) => (t # u => run'[t] = run[t]) BY FailRunFields DEF FailOwnRun
  <2>2. StartRun(e, u) \/ CloseRun(e, u) => (t # u => run'[t] = run[t])
    BY <1>0 DEF StartRun, CloseRun
  <2>3. AgentCompletes(e, u) \/ AgentFails(e, u) \/ WorkerCrashes(e, u) => (t # u => run'[t] = run[t])
    BY <2>1 DEF AgentCompletes, AgentFails, WorkerCrashes
  <2>4. AgentBlocks(e, u) => (t # u => run'[t] = run[t])
    BY <1>0, <2>1 DEF AgentBlocks
  <2> QED BY <2>2, <2>3, <2>4 DEF Worker
<1>5. CASE t # u
  <2>1. \E code : Exit(e, u, code)
    BY DEF Worker, StartRun, AgentCompletes, CloseRun, AgentFails, AgentBlocks, WorkerCrashes
  <2> QED BY <1>3, <1>4, <1>5, <2>1 DEF TaskStep
<1>6. CASE t = u
  <2>1. CASE StartRun(e, u)
    <3>1. child[First][t] = "started" BY <1>2, <1>6, <2>1 DEF StartRun
    <3>2. \/ /\ run' = [run EXCEPT ![t] = [status |-> "RUNNING", by |-> First]]
             /\ Exit(e, t, "agent")
          \/ run' = run /\ Exit(e, t, "exitBad")
      BY <1>2, <1>6, <2>1 DEF StartRun
    <3> QED BY <1>0, <1>2, <1>3, <1>6, <3>1, <3>2 DEF TaskStep, Alive
  <2>2. CASE AgentCompletes(e, u)
    <3>1. child[First][t] = "agent" BY <1>2, <1>6, <2>2 DEF AgentCompletes
    <3>2. (run' = run /\ Exit(e, t, "closing")) \/ Exit(e, t, "exitBad")
      BY <1>6, <2>2 DEF AgentCompletes
    <3> QED BY <1>2, <1>3, <1>6, <3>1, <3>2 DEF TaskStep
  <2>3. CASE CloseRun(e, u) BY <1>2, <1>3, <1>6, <2>3 DEF CloseRun, TaskStep
  <2>4. CASE AgentFails(e, u) \/ AgentBlocks(e, u)
    BY <1>2, <1>3, <1>6, <2>4 DEF AgentFails, AgentBlocks, TaskStep
  <2>5. CASE WorkerCrashes(e, u)
    BY <1>2, <1>3, <1>6, <2>5 DEF WorkerCrashes, TaskStep
  <2> QED BY <2>1, <2>2, <2>3, <2>4, <2>5 DEF Worker
<1> QED BY <1>5, <1>6

LEMMA WorkTaskSteps ==
  ASSUME IInv, PassInv, OnePass, "supervise" \notin Ops, NEW e \in Executors, Work(e), NEW t \in Tasks
  PROVE  TaskStep(t)
<1>1. e = First BY OnlyFirst
<1>2. ASSUME NEW u \in Tasks, NEW code, Exit(e, u, code)
      PROVE  /\ child'[First][u] = code
             /\ (t # u => child'[First][t] = child[First][t])
  BY <1>1, <1>2, Typed DEF Exit, TablesTyped
<1>3. \A u \in Tasks : ~Supervise(e, u) BY DEF Supervise
<1>4. CASE ExecuteBatch(e) \/ LoopEnds(e) \/ GroupDone(e) \/ Finalize(e) \/ GatesEnd(e)
           \/ Persist(e) \/ HandleError(e) \/ NextRound(e) \/ Reopen(e)
  BY <1>4 DEF ExecuteBatch, LoopEnds, GroupDone, Finalize, GatesEnd, Persist, HandleError, NextRound,
              Reopen, TaskStep
<1>5. CASE FirstSweep(e)
  <2>1. \E cs : ApplyChanges(e, cs) BY <1>5 DEF FirstSweep
  <2>2. child'[First][t] = child[First][t]
        \/ (child[First][t] \in Alive /\ child'[First][t] = "exitBad")
    BY <1>1, <2>1, Typed DEF ApplyChanges, TablesTyped
  <2> QED BY <1>5, <2>2 DEF FirstSweep, TaskStep
<1>6. CASE NextGroup(e)
  <2>1. child'[First][t] = IF t \in Head(ctl[First].plan) THEN "queued" ELSE child[First][t]
    BY <1>1, <1>6, Typed DEF NextGroup, TablesTyped
  <2> QED BY <1>1, <1>6, <2>1 DEF NextGroup, TaskStep
<1>7. ASSUME NEW u \in Tasks, Launch(e, u) \/ LaunchRaises(e, u) PROVE TaskStep(t)
  <2>1. child[First][u] = "queued" /\ run' = run BY <1>1, <1>7 DEF Launch, LaunchRaises
  <2>2. Exit(e, u, "out") \/ Exit(e, u, "started") BY <1>7 DEF Launch, LaunchRaises, Exit
  <2> QED BY <1>2, <2>1, <2>2 DEF TaskStep
<1>8. ASSUME NEW u \in Tasks, Collect(e, u) PROVE TaskStep(t)
  <2>1. child[First][u] \in {"exitOk", "exitBad"} BY <1>1, <1>8 DEF Collect
  <2>2. Exit(e, u, "saving") BY <1>8 DEF Collect
  <2>3. (run' = run) \/ (run'[u].status = "FAILED" /\ \A v \in Tasks : v # u => run'[v] = run[v])
    BY <1>8, FailRunFields DEF Collect
  <2> QED BY <1>2, <2>1, <2>2, <2>3 DEF TaskStep
<1>9. ASSUME NEW u \in Tasks, Count(e, u) PROVE TaskStep(t)
  BY <1>1, <1>2, <1>9 DEF Count, TaskStep
<1>10. ASSUME NEW u \in Tasks, SuperviseEnds(e, u) PROVE TaskStep(t)
  BY <1>1, <1>10 DEF SuperviseEnds, OnePass, BlockersSettle
<1>11. CASE LookAtStored(e) \/ ReplaceRow(e)
  <2>1. run' = run BY <1>11 DEF LookAtStored, ReplaceRow
  <2>2. ASSUME NEW save \in saving[e], Saved(e, save) PROVE TaskStep(t)
    <3>1. InPlace(e) BY DEF PassInv, SavesInPlace
    <3>2. \/ child' = child
          \/ \E u \in Tasks : /\ child[e][u] = "saving"
                              /\ Exit(e, u, "recorded") \/ Exit(e, u, "out")
      BY <2>2, <3>1, SavedMoves
    <3> QED BY <1>1, <1>2, <2>1, <3>2 DEF TaskStep
  <2>3. UNCHANGED <<batch, ctl, child>> \/ \E save \in saving[e] : Saved(e, save)
    BY <1>11 DEF LookAtStored, ReplaceRow, InLock
  <2> QED BY <2>1, <2>2, <2>3 DEF TaskStep
<1> QED BY <1>3, <1>4, <1>5, <1>6, <1>7, <1>8, <1>9, <1>10, <1>11 DEF Work

LEMMA TaskSteps ==
  ASSUME IInv, PassInv, OnePass, NobodyResumes, "supervise" \notin Ops, [Next]_vars, NEW t \in Tasks
  PROVE  TaskStep(t)
<1>0. /\ child \in [Executors -> [Tasks -> Children]]
      /\ run \in [Tasks -> [status : RunStatuses \cup {"none"}, by : Executors]]
  BY Typed DEF TablesTyped
<1>1. ASSUME NEW e \in Executors, ReconcileApply(e) PROVE TaskStep(t)
  <2>1. ApplyChanges(e, findings[e]) /\ run' = run BY <1>1 DEF ReconcileApply
  <2>2. child'[First][t] = child[First][t]
        \/ (child[First][t] \in Alive /\ child'[First][t] = "exitBad")
    BY <1>0, <2>1 DEF ApplyChanges
  <2> QED BY <2>1, <2>2 DEF TaskStep
<1>2. CASE CancelWrites
  <2>1. run' = run BY <1>2 DEF CancelWrites
  <2>2. ASSUME child' # child
        PROVE  child'[First][t] = child[First][t]
               \/ (child[First][t] \in Alive /\ child'[First][t] = "exitBad")
    <3>1. PICK spared \in SUBSET { w \in Executors \X Tasks : child[w[1]][w[2]] = "started" } :
            child' = [e \in Executors |-> [u \in Tasks |->
                        IF At(e, "group") /\ child[e][u] \in Alive /\ <<e, u>> \notin spared
                        THEN "exitBad" ELSE child[e][u]]]
      BY <1>2, <2>2, Zenon DEF CancelWrites
    <3> QED BY <3>1
  <2> QED BY <2>1, <2>2 DEF TaskStep
<1>3. ASSUME NEW u \in Tasks, AnswerEnds(u) PROVE TaskStep(t)
  <2>1. child' = child /\ run[u].status = "BLOCKED" BY <1>3 DEF AnswerEnds
  <2>2. run' = [run EXCEPT ![u].status = "FAILED"] BY <1>3, <2>1 DEF AnswerEnds, Unblock
  <2>3. run'[u] = [run[u] EXCEPT !.status = "FAILED"] /\ (t # u => run'[t] = run[t])
    BY <1>0, <2>2
  <2>4. run'[u].status = "FAILED" BY <1>0, <2>3
  <2> QED BY <2>1, <2>3, <2>4 DEF TaskStep
<1>4. ASSUME \/ \E e \in Executors : ReconcileCheck(e) \/ ExecutorDies(e)
             \/ Cancel \/ UNCHANGED vars
             \/ \E u \in Tasks : MarkDone(u) \/ CloseIssue(u) \/ Answer(u)
      PROVE  TaskStep(t)
  <2>1. child' = child /\ run' = run
    BY <1>4 DEF ReconcileCheck, ExecutorDies, Cancel, vars, MarkDone, CloseIssue, Answer
  <2> QED BY <2>1 DEF TaskStep
<1>5. \A e \in Executors : ~Resume(e) BY DEF Resume, NobodyResumes
<1> QED BY <1>1, <1>2, <1>3, <1>4, <1>5, WorkTaskSteps, WorkerTaskSteps DEF Next

LEMMA Gained ==
  ASSUME IInv, PassInv, NobodyResumes, [Next]_vars, NEW e \in Executors, NEW t \in Tasks,
         batch[e].results[t] # "COMPLETED", batch'[e].results[t] = "COMPLETED"
  PROVE  FirstSweep(e) \/ ReconcileApply(e) \/ (Collect(e, t) /\ Verdict(e, t) = "COMPLETED")
<1>0. batch \in [Executors -> Rows] /\ \A s \in Live \cup Terminal, g \in Executors :
        [batch[g] EXCEPT !.status = s].results = batch[g].results
  BY Typed, RowFields DEF Rows
<1>1. ASSUME NEW g \in Executors, ExecuteBatch(g) \/ Persist(g) \/ HandleError(g) PROVE FALSE
  <2>1. \/ SaveBatch(g, {}, [batch[g] EXCEPT !.status = "RUNNING"]) \/ SaveBatch(g, {}, batch[g])
        \/ SaveBatch(g, {}, [batch[g] EXCEPT !.status = "FAILED"]) \/ batch' = batch
    BY <1>1 DEF ExecuteBatch, Persist, HandleError
  <2>2. batch'[e].results = batch[e].results
    <3>1. ASSUME NEW b, b.results = batch[g].results, SaveBatch(g, {}, b)
          PROVE  batch'[e].results = batch[e].results
      BY <3>1, SavedResults
    <3> QED BY <1>0, <2>1, <3>1 DEF Live, Terminal
  <2> QED BY <2>2
<1>2. ASSUME NEW g \in Executors, Finalize(g) \/ GatesEnd(g) PROVE FALSE
  <2>1. batch' = batch \/ \E s : batch' = [batch EXCEPT ![g].status = s]
    BY <1>2 DEF Finalize, GatesEnd
  <2>2. batch'[e].results = batch[e].results
    <3>1. ASSUME NEW s, batch' = [batch EXCEPT ![g].status = s]
          PROVE  batch'[e].results = batch[e].results
      <4>1. batch'[g] = [batch[g] EXCEPT !.status = s] /\ (e # g => batch'[e] = batch[e])
        BY <1>0, <3>1
      <4> QED BY <1>0, <4>1 DEF Rows
    <3> QED BY <2>1, <3>1
  <2> QED BY <2>2
<1>3. ASSUME NEW g \in Executors, FirstSweep(g) \/ ReconcileApply(g)
      PROVE  FirstSweep(e) \/ ReconcileApply(e)
  <2>1. \E cs : ApplyChanges(g, cs) BY <1>3 DEF FirstSweep, ReconcileApply
  <2>2. g # e => batch'[e] = batch[e] BY <2>1, ApplyResults
  <2> QED BY <1>3, <2>2
<1>4. ASSUME NEW g \in Executors, NEW u \in Tasks, Collect(g, u)
      PROVE  Collect(e, t) /\ Verdict(e, t) = "COMPLETED"
  BY <1>4, CollectFields
<1>5. ASSUME batch' = batch PROVE FALSE BY <1>5
<1>6. \A g \in Executors : ~Resume(g) BY DEF Resume, NobodyResumes
<1>7. \A g \in Executors :
        (\/ NextGroup(g) \/ LoopEnds(g) \/ GroupDone(g) \/ NextRound(g) \/ Reopen(g)
         \/ \E u \in Tasks : \/ Launch(g, u) \/ LaunchRaises(g, u) \/ Count(g, u)
                             \/ Supervise(g, u) \/ SuperviseEnds(g, u))
        => batch' = batch
  BY DEF NextGroup, LoopEnds, GroupDone, NextRound, Reopen, Launch, LaunchRaises,
         Count, Supervise, SuperviseEnds
<1>8. \A g \in Executors :
        (ReconcileCheck(g) \/ ExecutorDies(g) \/ \E u \in Tasks : Worker(g, u)) => batch' = batch
  BY DEF ReconcileCheck, ExecutorDies, Worker, StartRun, AgentCompletes, CloseRun, AgentFails,
         AgentBlocks, WorkerCrashes
<1>9. (\/ Cancel \/ CancelWrites \/ UNCHANGED vars
       \/ \E u \in Tasks : MarkDone(u) \/ CloseIssue(u) \/ Answer(u) \/ AnswerEnds(u))
      => batch' = batch
  BY DEF Cancel, CancelWrites, MarkDone, CloseIssue, Answer, AnswerEnds, vars
<1>10. \A g \in Executors : Work(g) =>
         \/ ExecuteBatch(g) \/ Persist(g) \/ HandleError(g) \/ Finalize(g) \/ GatesEnd(g)
         \/ FirstSweep(g) \/ (\E u \in Tasks : Collect(g, u)) \/ batch' = batch
         \/ LookAtStored(g) \/ ReplaceRow(g)
  BY <1>7 DEF Work
<1>11. ASSUME NEW g \in Executors, LookAtStored(g) \/ ReplaceRow(g) PROVE FALSE
  BY <1>11, LookingCopies
<1> QED BY <1>1, <1>2, <1>3, <1>4, <1>5, <1>6, <1>8, <1>9, <1>10, <1>11 DEF Next

\* A question that has just been asked is asked in the turn of its task.
LEMMA AskedInTurn ==
  ASSUME IInv, PassInv, OnePass, NEW e \in Executors, NEW t \in Tasks, AgentBlocks(e, t)
  PROVE  /\ Turn(First, t)' /\ child'[First][t] = "exitBad"
         /\ run'[t].status \in {"BLOCKED", "FAILED"}
<1>0. /\ child \in [Executors -> [Tasks -> Children]]
      /\ run \in [Tasks -> [status : RunStatuses \cup {"none"}, by : Executors]]
      /\ ctl[First] \in Controls
  BY Typed DEF TablesTyped
<1>1. child[e][t] = "agent" /\ Exit(e, t, "exitBad") /\ ctl' = ctl BY DEF AgentBlocks
<1>2. e = First BY <1>1, OnlyFirst
<1>3. run[t].status = "RUNNING" /\ run[t].by = First BY <1>1, <1>2 DEF OnePass, BlockersSettle
<1>4. /\ ctl[First].pc \in {"group", "ended"} /\ ctl[First].plan # <<>>
      /\ t \in Head(ctl[First].plan)
  BY <1>1, <1>2 DEF PassInv, Gathered
<1>5. ctl[First].plan \in Seq(SUBSET Tasks) BY <1>0 DEF Controls
<1>6. 1 \in DOMAIN ctl[First].plan /\ t \in ctl[First].plan[1]
  <2> DEFINE p == ctl[First].plan
  <2> HIDE DEF p
  <2>1. p \in Seq(SUBSET Tasks) /\ p # <<>> /\ t \in Head(p) BY <1>4, <1>5 DEF p
  <2>2. 1 \in DOMAIN p /\ t \in p[1] BY <2>1
  <2> QED BY <2>2 DEF p
<1>7. Turn(First, t)' BY <1>1, <1>4, <1>6, PlanDisjoint DEF Turn, At, OnePass
<1>8. child'[First][t] = "exitBad" BY <1>1, <1>2, ExitFields
<1>9. FailRun(t) => run'[t].status = "FAILED" BY FailRunFields
<1>10. run' = [run EXCEPT ![t].status = "BLOCKED"] \/ FailRun(t)
  BY <1>2, <1>3 DEF AgentBlocks, FailOwnRun
<1>11. run' = [run EXCEPT ![t].status = "BLOCKED"] => run'[t].status = "BLOCKED" BY <1>0
<1> QED BY <1>7, <1>8, <1>9, <1>10, <1>11

LEMMA StepBlockers ==
  ASSUME IInv, PassInv, OnePass, NobodyResumes, "supervise" \notin Ops, [Next]_vars,
         ctl'[First].mode = "execute"
  PROVE  BlockersSettle'
<1> SUFFICES ASSUME NEW t \in Tasks
             PROVE  /\ blocker'[t] # "none" =>
                         /\ Turn(First, t)'
                         /\ child'[First][t] \in {"exitOk", "exitBad", "saving", "recorded", "out"}
                         /\ run'[t].status \in {"BLOCKED", "FAILED"}
                    /\ child'[First][t] \in {"agent", "closing"} =>
                         run'[t].status = "RUNNING" /\ run'[t].by = First
                    /\ child'[First][t] # "supervised"
  BY DEF BlockersSettle
<1>1. TaskStep(t) BY TaskSteps
<1>2. BlockersSettle BY DEF OnePass
<1>3. child'[First][t] # "supervised" BY <1>1, <1>2 DEF TaskStep, BlockersSettle
<1>4. child'[First][t] \in {"agent", "closing"} => run'[t].status = "RUNNING" /\ run'[t].by = First
  BY <1>1, <1>2 DEF TaskStep, BlockersSettle
<1>5. ASSUME blocker'[t] # "none", blocker[t] = "none"
      PROVE  /\ Turn(First, t)' /\ child'[First][t] = "exitBad"
             /\ run'[t].status \in {"BLOCKED", "FAILED"}
  <2>1. \E e \in Executors : AgentBlocks(e, t) BY <1>5, BlockerSteps
  <2> QED BY <2>1, AskedInTurn
<1>6. ASSUME blocker[t] # "none"
      PROVE  /\ Turn(First, t)'
             /\ child'[First][t] \in {"exitOk", "exitBad", "saving", "recorded", "out"}
             /\ run'[t].status \in {"BLOCKED", "FAILED"}
  <2>1. /\ Turn(First, t) /\ child[First][t] \in {"exitOk", "exitBad", "saving", "recorded", "out"}
        /\ run[t].status \in {"BLOCKED", "FAILED"}
    BY <1>2, <1>6 DEF BlockersSettle
  <2>2. Turn(First, t)' BY <2>1, TurnStays
  <2>3. At(First, "loop") /\ ctl[First].plan # <<>> => t \notin Head(ctl[First].plan)
    <3> DEFINE p == ctl[First].plan
    <3>1. p \in Seq(SUBSET Tasks) BY Typed DEF Controls
    <3>2. At(First, "loop") => \A i \in DOMAIN p : t \notin p[i] BY <2>1 DEF Turn, At
    <3> HIDE DEF p
    <3>3. p # <<>> => 1 \in DOMAIN p /\ Head(p) = p[1] BY <3>1
    <3> QED BY <3>2, <3>3 DEF p
  <2>4. /\ child'[First][t] \in {"exitOk", "exitBad", "saving", "recorded", "out"}
        /\ run'[t].status \in {"BLOCKED", "FAILED"}
    BY <1>1, <2>1, <2>3 DEF TaskStep, Alive
  <2> QED BY <2>2, <2>4
<1> QED BY <1>3, <1>4, <1>5, <1>6

LEMMA StepOnePass ==
  ASSUME IInv, PassInv, OnePass, NobodyResumes, MaxRetries = 0, "supervise" \notin Ops, [Next]_vars
  PROVE  OnePass'
<1>1. \A e \in Executors \ {First} : At(e, "idle")' BY IdleStays DEF OnePass, At
<1>2. ctl'[First].mode = "execute" /\ ctl'[First].pc \notin {"idle", "retries", "reopen"}
  <2>1. Shape(First) BY Shapes
  <2>2. ctl[First].mode = "execute" /\ ctl[First].pc \notin {"idle", "retries", "reopen"}
    BY DEF OnePass
  <2> QED BY <2>1, <2>2 DEF Shape, Stays, Counts, Begins, Sweeps, Enters, Leaves, Finishes,
                            Restarts, SamePass
<1>3. BlockersSettle' BY <1>2, StepBlockers
<1>4. ASSUME NEW e \in Executors, NEW t \in Tasks, <<t, "requeue">> \in findings'[e]
      PROVE  blocker'[t] # "none" /\ batch'[e].results[t] # "COMPLETED"
  <2>1. CASE <<t, "requeue">> \notin findings[e] BY <1>4, <2>1, FindingSteps
  <2>2. CASE <<t, "requeue">> \in findings[e]
    <3>1. blocker[t] # "none" /\ batch[e].results[t] # "COMPLETED" BY <2>2 DEF OnePass
    <3>2. blocker'[t] # "none" BY <3>1, BlockerSteps
    <3>3. Turn(First, t) /\ run[t].status \in {"BLOCKED", "FAILED"}
      BY <3>1 DEF OnePass, BlockersSettle
    <3>4. ~FirstSweep(e) BY <3>3 DEF FirstSweep, Turn, OnePass, At
    <3>5. findings'[e] # {} BY <1>4
    <3>6. ~ReconcileApply(e) BY <3>5, Typed DEF ReconcileApply, TablesTyped
    <3>7. Verdict(e, t) # "COMPLETED" BY <3>3 DEF Verdict
    <3>8. batch'[e].results[t] # "COMPLETED" BY <3>1, <3>4, <3>6, <3>7, Gained
    <3> QED BY <3>2, <3>8
  <2> QED BY <2>1, <2>2
<1> QED BY <1>1, <1>2, <1>3, <1>4 DEF OnePass

LEMMA InitOnePass == Init => OnePass
<1> SUFFICES ASSUME Init PROVE OnePass OBVIOUS
<1>1. /\ \A e \in Executors, t \in Tasks : child[e][t] = "out"
      /\ \A t \in Tasks : blocker[t] = "none"
      /\ \A e \in Executors : findings[e] = {}
  BY DEF Init
<1>2. \A e \in Executors \ {First} : ctl[e] = Idle BY DEF Init
<1>3. ctl[First] = [Idle EXCEPT !.pc = "created"] BY DEF Init
<1>4. \A e \in Executors \ {First} : At(e, "idle") BY <1>2 DEF At, Idle
<1>5. ctl[First].mode = "execute" /\ ctl[First].pc = "created" BY <1>3 DEF Idle
<1> QED BY <1>1, <1>4, <1>5 DEF OnePass, BlockersSettle

LEMMA InitNoAnswers == Init => NoAnswers
BY DEF Init, NoAnswers

\* Under VerdictsStand no finding that would forget a verdict outlives it.
LEMMA FindingsInvariant ==
  ASSUME VerdictsStand
  PROVE  Spec => [](IInv /\ PassInv /\ FindingsFresh)
<1>1. CASE "answer" \notin Ops
  <2>1. Init => NoAnswers BY InitNoAnswers
  <2>2. IInv /\ NoAnswers /\ [Next]_vars => NoAnswers'
    BY <1>1, StepNoAnswers DEF VerdictsStand
  <2>3. NoAnswers => FindingsFresh BY DEF NoAnswers, FindingsFresh
  <2> QED BY <2>1, <2>2, <2>3, PassInvariant, PTL DEF Spec
<1>2. CASE MaxRetries = 0 /\ NobodyResumes
  <2>1. Init => OnePass BY InitOnePass
  <2>2. IInv /\ PassInv /\ OnePass /\ [Next]_vars => OnePass'
    BY <1>2, StepOnePass DEF VerdictsStand
  <2>3. OnePass => FindingsFresh BY DEF OnePass, FindingsFresh
  <2> QED BY <2>1, <2>2, <2>3, PassInvariant, PTL DEF Spec
<1> QED BY <1>1, <1>2 DEF VerdictsStand

LEMMA VerdictKept ==
  ASSUME IInv, PassInv, FindingsFresh, [Next]_vars, NEW e \in Executors, NEW t \in Tasks,
         batch[e].results[t] = "COMPLETED"
  PROVE  batch'[e].results[t] = "COMPLETED" \/ At(e, "idle")
<1>1. CopyStep(e) BY CopySteps
<1>2. Finalize(e) => batch'[e].results = batch[e].results
  <2>1. batch[e] \in Rows /\ batch \in [Executors -> Rows] BY Typed
  <2>2. Finalize(e) => batch'[e] = [batch[e] EXCEPT !.status = Outcome(e)]
    BY <2>1 DEF Finalize
  <2> QED BY <2>1, <2>2 DEF Rows
<1> QED BY <1>1, <1>2 DEF CopyStep, Kept

\* A recorded COMPLETED survives every later verdict and every reconciliation
\* (_record_task_result and apply_changes, #921, #1032): in a batch without
\* supervision in which nobody answers, whoever resumes and retries it, and in one
\* without retries and resumes, whoever answers.
THEOREM CompletionStandsAlways ==
  ASSUME VerdictsStand
  PROVE  Spec => CompletionStands
<1> DEFINE Stand == \A e \in Executors, t \in Tasks :
                      batch[e].results[t] = "COMPLETED" => \/ batch'[e].results[t] = "COMPLETED"
                                                           \/ At(e, "idle")
<1>1. IInv /\ PassInv /\ FindingsFresh /\ [Next]_vars => [Stand]_vars BY VerdictKept
<1>2. CompletionStands <=> [][Stand]_vars BY DEF CompletionStands
<1>3. Spec => [](IInv /\ PassInv /\ FindingsFresh) BY FindingsInvariant
<1> HIDE DEF Stand
<1> QED BY <1>1, <1>2, <1>3, PTL DEF Spec

-----------------------------------------------------------------------------
(* The tally of a first pass is backed by so many results, and no copy claims  *)
(* more than its results.                                                      *)

\* A row, or a copy, that does not claim more than its results.
Claims(b) ==
  /\ b.status = "COMPLETED" => \A t \in Tasks : b.results[t] = "COMPLETED"
  /\ b.status = "PARTIAL" => \E t \in Tasks : b.results[t] = "COMPLETED"

\* What a save would make of the row.
Brings(e, save) == [status |-> batch[e].status, results |-> save.results]

HonestCopies ==
  /\ Claims(row)
  /\ \A e \in Executors : /\ Claims(batch[e])
                          /\ At(e, "gates") => batch[e].status = "COMPLETED"
                          /\ \A save \in saving[e] : Claims(Brings(e, save))

\* The tasks C, all with their turn behind them, are those that e has tallied.
Backs(e, C) ==
  /\ Cardinality(C) = ctl[e].completed
  /\ \A t \in C : Turn(e, t) /\ Counted(e, t) /\ batch[e].results[t] = "COMPLETED"

TallyBacked ==
  \A e \in Executors : ctl[e].mode = "execute" => \E C \in SUBSET Tasks : Backs(e, C)

\* A task that e has a worker for has its turn and keeps it while e works on the group.
LEMMA AtHand ==
  ASSUME IInv, PassInv, NEW e \in Executors, NEW t \in Tasks, ctl[e].mode = "execute",
         child[e][t] # "out", ctl'[e].plan = ctl[e].plan, ctl'[e].pc \in {"group", "ended"}
  PROVE  Turn(e, t)'
<1>1. ctl[e].plan # <<>> /\ t \in Head(ctl[e].plan) BY DEF PassInv, Gathered
<1>2. 1 \in DOMAIN ctl[e].plan /\ t \in ctl[e].plan[1]
  <2> DEFINE p == ctl[e].plan
  <2>1. p \in Seq(SUBSET Tasks) BY Typed DEF Controls
  <2> HIDE DEF p
  <2>2. p # <<>> => 1 \in DOMAIN p /\ Head(p) = p[1] BY <2>1
  <2> QED BY <1>1, <2>2 DEF p
<1> QED BY <1>2, PlanDisjoint DEF Turn, At

LEMMA StepTally ==
  ASSUME IInv, PassInv, FindingsFresh, TallyBacked, [Next]_vars, NEW e \in Executors,
         ctl'[e].mode = "execute"
  PROVE  \E C \in SUBSET Tasks : Backs(e, C)'
<1>1. Shape(e) BY Shapes
<1>2. ~Restarts(e) BY DEF Restarts
<1>3. ctl[e].mode = "execute"
  BY <1>1, <1>2 DEF Shape, Stays, Counts, Begins, Sweeps, Enters, Leaves, Finishes, SamePass
<1>4. PICK C \in SUBSET Tasks : Backs(e, C) BY <1>3 DEF TallyBacked
<1>5. ASSUME NEW t \in C PROVE Turn(e, t)' /\ batch'[e].results[t] = "COMPLETED"
  <2>1. Turn(e, t) /\ batch[e].results[t] = "COMPLETED" BY <1>4 DEF Backs
  <2>2. Turn(e, t)' BY <2>1, TurnStays
  <2>3. ~At(e, "idle") BY <2>1 DEF Turn, At
  <2> QED BY <2>1, <2>2, <2>3, VerdictKept
<1>6. ASSUME NEW t \in C PROVE Counted(e, t)'
  <2>1. Counted(e, t) BY <1>4 DEF Backs
  <2>2. CASE Enters(e)
    <3>1. Turn(e, t) /\ At(e, "loop") /\ ctl[e].plan # <<>> BY <1>4, <2>2 DEF Backs, Enters
    <3>2. t \notin Head(ctl[e].plan)
      <4> DEFINE p == ctl[e].plan
      <4>1. p \in Seq(SUBSET Tasks) BY Typed DEF Controls
      <4>2. \A i \in DOMAIN p : t \notin p[i] BY <3>1 DEF Turn, At
      <4> HIDE DEF p
      <4>3. p # <<>> => 1 \in DOMAIN p /\ Head(p) = p[1] BY <4>1
      <4> QED BY <3>1, <4>2, <4>3 DEF p
    <3>3. child[e][t] = "out" BY <3>1 DEF PassInv, Gathered, At
    <3> QED BY <2>2, <3>2, <3>3 DEF Enters, Counted
  <2>3. CASE Begins(e)
    <3>1. child[e][t] = "out" BY <2>3 DEF Begins, PassInv, Gathered, At
    <3> QED BY <2>3, <3>1 DEF Begins, KeepsOut, Counted
  <2>4. CASE Finishes(e) BY <2>4 DEF Finishes, Counted
  <2>5. CASE /\ KeepsOut(e)
             /\ ctl'[e].mode = ctl[e].mode /\ ctl'[e].plan = ctl[e].plan
    BY <2>1, <2>5 DEF KeepsOut, Counted, Pooled
  <2> QED BY <1>1, <1>2, <2>2, <2>3, <2>4, <2>5
          DEF Shape, Stays, Counts, Sweeps, Leaves, SamePass
<1>7. CASE ctl'[e].completed = ctl[e].completed
  BY <1>4, <1>5, <1>6, <1>7 DEF Backs
<1>8. CASE Counts(e)
  <2>1. PICK t \in Tasks : /\ ~Counted(e, t) /\ batch'[e].results[t] = "COMPLETED"
                           /\ child'[e][t] = "out" \/ (child'[e][t] = "saving" /\ ~Pooled(e))
    BY <1>8 DEF Counts
  <2>2. t \notin C /\ child[e][t] # "out" BY <1>4, <2>1 DEF Backs, Counted
  <2>3. Turn(e, t)' BY <1>3, <1>8, <2>2, AtHand DEF Counts
  <2>9. Counted(e, t)' BY <1>8, <2>1 DEF Counts, Counted, Pooled
  <2>4. IsFiniteSet(C) BY FS_Subset
  <2>5. Cardinality(C \cup {t}) = Cardinality(C) + 1 BY <2>2, <2>4, FS_AddElement
  <2>6. Cardinality(C \cup {t}) = ctl'[e].completed BY <1>4, <1>8, <2>5 DEF Backs, Counts
  <2>7. \A u \in C \cup {t} :
          Turn(e, u)' /\ Counted(e, u)' /\ batch'[e].results[u] = "COMPLETED"
    BY <1>5, <1>6, <2>1, <2>3, <2>9
  <2>8. C \cup {t} \in SUBSET Tasks OBVIOUS
  <2> QED BY <2>6, <2>7, <2>8 DEF Backs
<1> QED BY <1>1, <1>2, <1>7, <1>8
        DEF Shape, Stays, Begins, Sweeps, Enters, Leaves, Finishes, SamePass

LEMMA AllOfThem ==
  ASSUME NEW C \in SUBSET Tasks
  PROVE  /\ Cardinality(C) = Cardinality(Tasks) => C = Tasks
         /\ Cardinality(C) > 0 => C # {}
<1>1. IsFiniteSet(C) /\ (Cardinality(Tasks) = Cardinality(C) => Tasks = C) BY FS_Subset
<1>2. Cardinality({}) = 0 BY FS_EmptySet
<1>3. ~(0 > 0) OBVIOUS
<1> QED BY <1>1, <1>2, <1>3

LEMMA EarnedSays ==
  ASSUME NEW c \in Nat, NEW f \in Nat, NEW b \in Nat
  PROVE  /\ Earned(c, f, b) = "COMPLETED" => c = Cardinality(Tasks)
         /\ Earned(c, f, b) = "PARTIAL" => c > 0
<1>1. CASE c = Cardinality(Tasks) BY <1>1 DEF Earned
<1>2. CASE c # Cardinality(Tasks) /\ c > 0 BY <1>2 DEF Earned
<1>3. CASE c # Cardinality(Tasks) /\ ~(c > 0) /\ f + b > 0 BY <1>3 DEF Earned
<1>4. CASE c # Cardinality(Tasks) /\ ~(c > 0) /\ ~(f + b > 0) BY <1>4 DEF Earned
<1> QED BY <1>1, <1>2, <1>3, <1>4

LEMMA HavingType == \A results, status : Having(results, status) \in Nat
<1> SUFFICES ASSUME NEW results, NEW status PROVE Having(results, status) \in Nat OBVIOUS
<1>1. { t \in Tasks : results[t] = status } \subseteq Tasks OBVIOUS
<1> QED BY <1>1, FS_Subset, FS_CardinalityType DEF Having

LEMMA OutcomeHonest ==
  ASSUME IInv, TallyBacked, NEW e \in Executors
  PROVE  /\ Outcome(e) = "COMPLETED" => \A t \in Tasks : batch[e].results[t] = "COMPLETED"
         /\ Outcome(e) = "PARTIAL" => \E t \in Tasks : batch[e].results[t] = "COMPLETED"
<1>1. CASE ctl[e].mode = "execute"
  <2>1. PICK C \in SUBSET Tasks : Backs(e, C) BY <1>1 DEF TallyBacked
  <2>2. ctl[e].completed \in Nat /\ ctl[e].failed \in Nat /\ ctl[e].blocked \in Nat
    BY Typed DEF Controls
  <2>3. Outcome(e) = Earned(ctl[e].completed, ctl[e].failed, ctl[e].blocked)
    BY <1>1 DEF Outcome
  <2>4. /\ Outcome(e) = "COMPLETED" => ctl[e].completed = Cardinality(Tasks)
        /\ Outcome(e) = "PARTIAL" => ctl[e].completed > 0
    BY <2>2, <2>3, EarnedSays, Zenon
  <2>5. /\ Cardinality(C) = Cardinality(Tasks) => C = Tasks
        /\ Cardinality(C) > 0 => C # {}
    BY AllOfThem
  <2> QED BY <2>1, <2>4, <2>5 DEF Backs
<1>2. CASE ctl[e].mode # "execute"
  <2> DEFINE C == { t \in Tasks : batch[e].results[t] = "COMPLETED" }
  <2>1. Outcome(e) = Earned(Having(batch[e].results, "COMPLETED"), Having(batch[e].results, "FAILED"),
                            Having(batch[e].results, "BLOCKED"))
    BY <1>2 DEF Outcome
  <2>2. Having(batch[e].results, "COMPLETED") = Cardinality(C) BY DEF Having
  <2>3. C \in SUBSET Tasks OBVIOUS
  <2>4. /\ Having(batch[e].results, "COMPLETED") \in Nat
        /\ Having(batch[e].results, "FAILED") \in Nat
        /\ Having(batch[e].results, "BLOCKED") \in Nat
    BY HavingType
  <2>5. Outcome(e) = "COMPLETED" => Cardinality(C) = Cardinality(Tasks)
    BY <2>1, <2>2, <2>4, EarnedSays
  <2>6. Outcome(e) = "PARTIAL" => Cardinality(C) > 0 BY <2>1, <2>2, <2>4, EarnedSays
  <2>7. (Cardinality(C) = Cardinality(Tasks) => C = Tasks) /\ (Cardinality(C) > 0 => C # {})
    BY <2>3, AllOfThem
  <2> QED BY <2>5, <2>6, <2>7
<1> QED BY <1>1, <1>2

LEMMA StepCopies ==
  ASSUME IInv, PassInv, FindingsFresh, TallyBacked, HonestCopies, [Next]_vars, NEW e \in Executors
  PROVE  Claims(batch[e])' /\ (ctl'[e].pc = "gates" => batch'[e].status = "COMPLETED")
<1>1. CopyStep(e) BY CopySteps
<1>2. Claims(batch[e]) /\ (At(e, "gates") => batch[e].status = "COMPLETED") BY DEF HonestCopies
<1>3. CASE /\ Kept(e) /\ batch'[e].status = batch[e].status
           /\ ctl'[e].pc = "gates" => At(e, "gates")
  BY <1>2, <1>3 DEF Claims, Kept
<1>4. CASE batch'[e].status \in {"CANCELLED", "RUNNING", "FAILED"} /\ ctl'[e].pc # "gates"
  BY <1>4 DEF Claims
<1>5. CASE Finalize(e)
  <2>1. batch'[e].status = Outcome(e) /\ batch'[e].results = batch[e].results
    <3>1. batch[e] \in Rows /\ batch \in [Executors -> Rows] BY Typed
    <3>2. batch'[e] = [batch[e] EXCEPT !.status = Outcome(e)] BY <1>5, <3>1 DEF Finalize
    <3> QED BY <3>1, <3>2 DEF Rows
  <2>2. ctl'[e].pc = "gates" => Outcome(e) = "COMPLETED"
    <3>1. Goto(e, IF Outcome(e) = "COMPLETED" THEN "gates" ELSE "persist") BY <1>5 DEF Finalize
    <3>2. ctl'[e].pc = IF Outcome(e) = "COMPLETED" THEN "gates" ELSE "persist" BY <3>1, GotoFields
    <3> QED BY <3>2
  <2> QED BY <2>1, <2>2, OutcomeHonest DEF Claims
<1>6. CASE /\ At(e, "gates") /\ ctl'[e].pc = "persist"
           /\ batch'[e].results = batch[e].results /\ batch'[e].status = "PARTIAL"
  BY <1>2, <1>6 DEF Claims
<1> QED BY <1>1, <1>3, <1>4, <1>5, <1>6 DEF CopyStep

\* Whatever is dumped is dumped with a status it can bear, and the status moves while
\* nothing is being saved, or to one that claims nothing.
LEMMA StepSavesHonest ==
  ASSUME IInv, PassInv, FindingsFresh, TallyBacked, HonestCopies, [Next]_vars, NEW e \in Executors,
         NEW save \in saving'[e]
  PROVE  Claims(Brings(e, save))'
<1>0. Claims(batch[e])' BY StepCopies
<1>1. CASE save.results = batch'[e].results BY <1>0, <1>1 DEF Claims, Brings
<1>2. ASSUME NEW s0 \in saving[e], save.results = s0.results PROVE Claims(Brings(e, save))'
  <2>1. Claims(Brings(e, s0)) BY DEF HonestCopies
  <2>2. CopyStep(e) BY CopySteps
  <2>3. CASE batch'[e].status = batch[e].status BY <1>2, <2>1, <2>3 DEF Claims, Brings
  <2>4. CASE batch'[e].status \in {"CANCELLED", "RUNNING", "FAILED"} BY <2>4 DEF Claims, Brings
  <2>5. ~Finalize(e) /\ ~At(e, "gates")
    BY DEF PassInv, SavesInPlace, InPlace, Pending, Finalize, At
  <2> QED BY <2>2, <2>3, <2>4, <2>5 DEF CopyStep
<1> QED BY <1>1, <1>2, SaveSteps

LEMMA StepHonest ==
  ASSUME IInv, PassInv, FindingsFresh, TallyBacked, HonestCopies, [Next]_vars
  PROVE  TallyBacked' /\ HonestCopies'
<1>1. TallyBacked' BY StepTally DEF TallyBacked
<1>2. \A e \in Executors :
        Claims(batch[e])' /\ (At(e, "gates") => batch[e].status = "COMPLETED")'
  BY StepCopies DEF At
<1>3. Claims(row)'
  <2>1. \/ row' = row \/ row'.status = "CANCELLED"
        \/ \E e \in Executors : row' = batch'[e]
        \/ \E e \in Executors : \E save \in saving[e] : row' = Brings(e, save)
    BY RowSteps DEF Brings
  <2>2. CASE row' = row BY <2>2 DEF HonestCopies, Claims
  <2>3. CASE row'.status = "CANCELLED" BY <2>3 DEF Claims
  <2>4. CASE \E e \in Executors : row' = batch'[e] BY <1>2, <2>4 DEF Claims
  <2>5. ASSUME NEW e \in Executors, NEW save \in saving[e], row' = Brings(e, save)
        PROVE  Claims(row)'
    <3>1. Claims(Brings(e, save)) BY DEF HonestCopies
    <3> QED BY <2>5, <3>1 DEF Claims
  <2> QED BY <2>1, <2>2, <2>3, <2>4, <2>5
<1>4. \A e \in Executors : \A save \in saving'[e] : Claims(Brings(e, save))' BY StepSavesHonest
<1> QED BY <1>1, <1>2, <1>3, <1>4 DEF HonestCopies

LEMMA InitHonest == Init => TallyBacked /\ HonestCopies
<1> SUFFICES ASSUME Init PROVE TallyBacked /\ HonestCopies OBVIOUS
<1>1. row.status = "PENDING" /\ \A e \in Executors : batch[e] = row /\ saving[e] = {} BY DEF Init
<1>2. \A e \in Executors : ctl[e].completed = 0 /\ ~At(e, "gates")
  <2>1. \A e \in Executors : ctl[e] \in {Idle, [Idle EXCEPT !.pc = "created"]} BY DEF Init
  <2> QED BY <2>1 DEF Idle, At
<1>3. HonestCopies BY <1>1, <1>2 DEF HonestCopies, Claims
<1>4. \A e \in Executors : Backs(e, {}) BY <1>2, FS_EmptySet DEF Backs
<1> QED BY <1>3, <1>4 DEF TallyBacked

\* In the same batches the stored row never says more than its results: the tally
\* of a first pass, which _execute_serial and _execute_parallel keep apart from the
\* results, and the recount of a resume and of the retries.
THEOREM RowHonestAlways ==
  ASSUME VerdictsStand
  PROVE  Spec => []RowHonest
<1>1. Claims(row) => RowHonest
  <2> SUFFICES ASSUME Claims(row) PROVE RowHonest OBVIOUS
  <2> DEFINE C == { t \in Tasks : row.results[t] = "COMPLETED" }
  <2>1. Having(row.results, "COMPLETED") = Cardinality(C) BY DEF Having
  <2>2. row.status = "COMPLETED" => C = Tasks BY DEF Claims
  <2>3. row.status = "PARTIAL" => C # {} BY DEF Claims
  <2>4. C \subseteq Tasks OBVIOUS
  <2> HIDE DEF C
  <2>5. IsFiniteSet(C) BY <2>4, FS_Subset
  <2>6. C # {} => Cardinality(C) > 0 BY <2>5, FS_EmptySet, FS_CardinalityType
  <2> QED BY <2>1, <2>2, <2>3, <2>6 DEF RowHonest
<1>2. HonestCopies => RowHonest BY <1>1 DEF HonestCopies
<1>3. Init => TallyBacked /\ HonestCopies BY InitHonest
<1>4. IInv /\ PassInv /\ FindingsFresh /\ TallyBacked /\ HonestCopies /\ [Next]_vars
      => TallyBacked' /\ HonestCopies'
  BY StepHonest
<1>5. Spec => [](IInv /\ PassInv /\ FindingsFresh) BY FindingsInvariant
<1> QED BY <1>2, <1>3, <1>4, <1>5, PTL DEF Spec

-----------------------------------------------------------------------------
(* Whoever has noticed a cancel.                                              *)

\* The plan of a serial batch.
OneByOne == \A i \in DOMAIN Groups : \E t \in Tasks : Groups[i] = {t}

\* How the copy of an executor comes to say CANCELLED.
CopyFlips(e) ==
  \/ batch[e].status = "CANCELLED"
  \/ LookAtStored(e) /\ row'.status = "CANCELLED"
  \/ At(e, "verdict") /\ ctl'[e].pc = "persist"

LEMMA CopyCancels ==
  ASSUME IInv, PassInv, NobodyResumes, [Next]_vars, NEW e \in Executors,
         batch'[e].status = "CANCELLED"
  PROVE  CopyFlips(e)
<1>0. batch \in [Executors -> Rows] /\ \A s \in Live \cup Terminal, g \in Executors :
        [batch[g] EXCEPT !.status = s].status = s
  BY Typed, RowFields DEF Rows
<1>1. ASSUME NEW g \in Executors, NEW by, NEW b, SaveBatch(g, by, b),
             b.status \in {batch[g].status, "RUNNING", "FAILED"}
      PROVE  CopyFlips(e)
  <2>1. batch'[g] = b /\ (e # g => batch'[e] = batch[e]) BY <1>1, SavedResults
  <2> QED BY <1>1, <2>1 DEF CopyFlips
<1>2. ASSUME NEW g \in Executors, ExecuteBatch(g) PROVE CopyFlips(e)
  <2> DEFINE b == [batch[g] EXCEPT !.status = "RUNNING"]
  <2>1. SaveBatch(g, {}, b) BY <1>2 DEF ExecuteBatch
  <2>2. b.status = "RUNNING" BY <1>0 DEF Live
  <2> HIDE DEF b
  <2> QED BY <1>1, <2>1, <2>2
<1>3. ASSUME NEW g \in Executors, HandleError(g) PROVE CopyFlips(e)
  <2> DEFINE b == [batch[g] EXCEPT !.status = "FAILED"]
  <2>1. batch' = batch \/ SaveBatch(g, {}, b) BY <1>3 DEF HandleError
  <2>2. b.status = "FAILED" BY <1>0 DEF Terminal
  <2> HIDE DEF b
  <2> QED BY <1>1, <2>1, <2>2 DEF CopyFlips
<1>4. ASSUME NEW g \in Executors, Persist(g) PROVE CopyFlips(e)
  <2>1. SaveBatch(g, {}, batch[g]) BY <1>4 DEF Persist
  <2> QED BY <1>1, <2>1
<1>5. ASSUME NEW g \in Executors, NEW u \in Tasks, Collect(g, u) PROVE CopyFlips(e)
  <2> DEFINE b == RecordTaskResult(g, u, Verdict(g, u))
  <2>1. b.status = batch[g].status BY VerdictTypes, RecordedRow
  <2>2. SaveBatch(g, {u}, b) BY <1>5 DEF Collect
  <2> HIDE DEF b
  <2> QED BY <1>1, <2>1, <2>2
<1>15. ASSUME NEW g \in Executors, LookAtStored(g) \/ ReplaceRow(g) PROVE CopyFlips(e)
  BY <1>15, LookingCopies DEF CopyFlips
<1>6. ASSUME NEW g \in Executors, FirstSweep(g) \/ ReconcileApply(g) PROVE CopyFlips(e)
  <2>1. \E cs : ApplyChanges(g, cs) BY <1>6 DEF FirstSweep, ReconcileApply
  <2>2. batch'[e].status = batch[e].status BY <2>1, ApplyResults
  <2> QED BY <2>2 DEF CopyFlips
<1>7. ASSUME NEW g \in Executors, Finalize(g) PROVE CopyFlips(e)
  <2>1. CASE g # e BY <1>0, <1>7, <2>1 DEF Finalize, CopyFlips
  <2>2. CASE g = e
    <3>1. batch'[e] = [batch[e] EXCEPT !.status = Outcome(e)] BY <1>0, <1>7, <2>2 DEF Finalize
    <3>2. Outcome(e) = "CANCELLED" BY <1>0, <3>1 DEF Rows
    <3>3. Goto(e, "persist") /\ At(e, "verdict") BY <1>7, <2>2, <3>2 DEF Finalize
    <3> QED BY <3>3, GotoFields DEF CopyFlips
  <2> QED BY <2>1, <2>2
<1>8. ASSUME NEW g \in Executors, GatesEnd(g) PROVE CopyFlips(e)
  <2>1. batch' = batch \/ batch' = [batch EXCEPT ![g].status = "PARTIAL"] BY <1>8 DEF GatesEnd
  <2>2. ASSUME batch' = [batch EXCEPT ![g].status = "PARTIAL"] PROVE CopyFlips(e)
    <3>1. batch'[g] = [batch[g] EXCEPT !.status = "PARTIAL"] /\ (e # g => batch'[e] = batch[e])
      BY <1>0, <2>2
    <3>2. batch'[g].status = "PARTIAL" BY <1>0, <3>1 DEF Terminal
    <3> QED BY <3>1, <3>2 DEF CopyFlips
  <2> QED BY <2>1, <2>2 DEF CopyFlips
<1>9. ASSUME batch' = batch PROVE CopyFlips(e) BY <1>9 DEF CopyFlips
<1>10. \A g \in Executors : ~Resume(g) BY DEF Resume, NobodyResumes
<1>11. \A g \in Executors :
        (\/ NextGroup(g) \/ LoopEnds(g) \/ GroupDone(g) \/ NextRound(g) \/ Reopen(g)
         \/ \E u \in Tasks : \/ Launch(g, u) \/ LaunchRaises(g, u) \/ Count(g, u)
                             \/ Supervise(g, u) \/ SuperviseEnds(g, u))
        => batch' = batch
  BY DEF NextGroup, LoopEnds, GroupDone, NextRound, Reopen, Launch, LaunchRaises,
         Count, Supervise, SuperviseEnds
<1>12. \A g \in Executors :
        (ReconcileCheck(g) \/ ExecutorDies(g) \/ \E u \in Tasks : Worker(g, u)) => batch' = batch
  BY DEF ReconcileCheck, ExecutorDies, Worker, StartRun, AgentCompletes, CloseRun, AgentFails,
         AgentBlocks, WorkerCrashes
<1>13. (\/ Cancel \/ CancelWrites \/ UNCHANGED vars
        \/ \E u \in Tasks : MarkDone(u) \/ CloseIssue(u) \/ Answer(u) \/ AnswerEnds(u))
       => batch' = batch
  BY DEF Cancel, CancelWrites, MarkDone, CloseIssue, Answer, AnswerEnds, vars
<1>14. \A g \in Executors : Work(g) =>
         \/ ExecuteBatch(g) \/ Persist(g) \/ HandleError(g) \/ Finalize(g) \/ GatesEnd(g)
         \/ FirstSweep(g) \/ (\E u \in Tasks : Collect(g, u)) \/ batch' = batch
         \/ LookAtStored(g) \/ ReplaceRow(g)
  BY <1>11 DEF Work
<1> QED BY <1>2, <1>3, <1>4, <1>5, <1>6, <1>7, <1>8, <1>9, <1>10, <1>12, <1>13, <1>14, <1>15 DEF Next

\* The moves of a worker's slot that have to do with the queue.
QueueStep(e, t) ==
  /\ child'[e][t] = "queued" => child[e][t] = "queued" \/ NextGroup(e)
  /\ child[e][t] = "queued" /\ child'[e][t] = "started" => At(e, "group")

LEMMA QueueSteps ==
  ASSUME IInv, PassInv, [Next]_vars, NEW e \in Executors, NEW t \in Tasks
  PROVE  QueueStep(e, t)
<1>0. child \in [Executors -> [Tasks -> Children]] BY Typed DEF TablesTyped
<1>1. ASSUME NEW g \in Executors, NEW u \in Tasks, NEW code, Exit(g, u, code), code # "queued",
             At(g, "group") \/ child[g][u] # "queued"
      PROVE  QueueStep(e, t)
  BY <1>1, ExitFields DEF QueueStep
<1>2. ASSUME NEW g \in Executors, NEW u \in Tasks,
             \/ Launch(g, u) \/ LaunchRaises(g, u) \/ Collect(g, u) \/ Count(g, u)
             \/ Supervise(g, u) \/ SuperviseEnds(g, u)
      PROVE  QueueStep(e, t)
  <2>1. At(g, "group")
    BY <1>2 DEF Launch, LaunchRaises, Collect, Count, Supervise, SuperviseEnds
  <2>2. \/ Exit(g, u, "out") \/ Exit(g, u, "started") \/ Exit(g, u, "saving")
        \/ Exit(g, u, "supervised")
    BY <1>2 DEF Launch, LaunchRaises, Collect, Count, Supervise, SuperviseEnds, Exit
  <2> QED BY <1>1, <2>1, <2>2
<1>3. ASSUME NEW g \in Executors, NEW u \in Tasks, Worker(g, u) PROVE QueueStep(e, t)
  <2>1. child[g][u] # "queued"
    BY <1>3 DEF Worker, StartRun, AgentCompletes, CloseRun, AgentFails, AgentBlocks,
                WorkerCrashes, Alive
  <2>2. \/ Exit(g, u, "agent") \/ Exit(g, u, "closing") \/ Exit(g, u, "exitOk")
        \/ Exit(g, u, "exitBad")
    BY <1>3 DEF Worker, StartRun, AgentCompletes, CloseRun, AgentFails, AgentBlocks, WorkerCrashes
  <2> QED BY <1>1, <2>1, <2>2
<1>4. ASSUME NEW g \in Executors, FirstSweep(g) \/ ReconcileApply(g) PROVE QueueStep(e, t)
  <2>1. \E cs : ApplyChanges(g, cs) BY <1>4 DEF FirstSweep, ReconcileApply
  <2>2. child'[e][t] = child[e][t] \/ (child[e][t] \in Alive /\ child'[e][t] = "exitBad")
    BY <1>0, <2>1 DEF ApplyChanges
  <2> QED BY <2>2 DEF QueueStep, Alive
<1>5. ASSUME CancelWrites, child' # child PROVE QueueStep(e, t)
  <2>1. PICK spared \in SUBSET { w \in Executors \X Tasks : child[w[1]][w[2]] = "started" } :
          child' = [f \in Executors |-> [u \in Tasks |->
                      IF At(f, "group") /\ child[f][u] \in Alive /\ <<f, u>> \notin spared
                      THEN "exitBad" ELSE child[f][u]]]
    BY <1>5, Zenon DEF CancelWrites
  <2>2. child'[e][t] = child[e][t] \/ (child[e][t] \in Alive /\ child'[e][t] = "exitBad") BY <2>1
  <2> QED BY <2>2 DEF QueueStep, Alive
<1>6. ASSUME NEW g \in Executors, NextGroup(g) PROVE QueueStep(e, t)
  <2>1. child' = [child EXCEPT ![g] = [u \in Tasks |->
                    IF u \in Head(ctl[g].plan) THEN "queued" ELSE @[u]]]
    BY <1>6 DEF NextGroup
  <2>2. child'[e][t] = child[e][t] \/ (g = e /\ child'[e][t] = "queued") BY <1>0, <2>1
  <2> QED BY <1>6, <2>2 DEF QueueStep
<1>7. ASSUME child' = child PROVE QueueStep(e, t) BY <1>7 DEF QueueStep
<1>8. \A g \in Executors : Work(g) =>
        \/ FirstSweep(g) \/ NextGroup(g) \/ child' = child \/ LookAtStored(g) \/ ReplaceRow(g)
        \/ \E u \in Tasks : \/ Launch(g, u) \/ LaunchRaises(g, u) \/ Collect(g, u) \/ Count(g, u)
                            \/ Supervise(g, u) \/ SuperviseEnds(g, u)
  BY DEF Work, ExecuteBatch, LoopEnds, GroupDone, Finalize, GatesEnd, Persist, HandleError,
         NextRound, Reopen
<1>9. \A g \in Executors : (ReconcileCheck(g) \/ ExecutorDies(g) \/ Resume(g)) => child' = child
  BY DEF ReconcileCheck, ExecutorDies, Resume
<1>10. (\/ Cancel \/ UNCHANGED vars
        \/ \E u \in Tasks : MarkDone(u) \/ CloseIssue(u) \/ Answer(u) \/ AnswerEnds(u))
       => child' = child
  BY DEF Cancel, MarkDone, CloseIssue, Answer, AnswerEnds, vars
<1>11. ASSUME NEW g \in Executors, LookAtStored(g) \/ ReplaceRow(g) PROVE QueueStep(e, t)
  <2>1. ASSUME NEW save \in saving[g], Saved(g, save) PROVE QueueStep(e, t)
    <3>1. InPlace(g) BY DEF PassInv, SavesInPlace
    <3>2. \/ child' = child
          \/ /\ At(g, "group")
             /\ \E u \in Tasks : Exit(g, u, "recorded") \/ Exit(g, u, "out")
      BY <2>1, <3>1, SavedMoves
    <3> QED BY <1>1, <1>7, <3>2
  <2>2. UNCHANGED <<batch, ctl, child>> \/ \E save \in saving[g] : Saved(g, save)
    BY <1>11 DEF LookAtStored, ReplaceRow, InLock
  <2> QED BY <1>7, <2>1, <2>2
<1> QED BY <1>2, <1>3, <1>4, <1>5, <1>6, <1>7, <1>8, <1>9, <1>10, <1>11 DEF Next

\* Every plan goes one task after the other.
Lone(plan) == \A i \in DOMAIN plan : \E t : plan[i] = {t}
Alone == \A e \in Executors : Lone(ctl[e].plan)

NoReopen == \A e \in Executors : ~At(e, "reopen")

OthersIdle == \A e \in Executors \ {First} : At(e, "idle")

\* A copy that says CANCELLED says what the row says, or what it will say.
Noticed ==
  batch[First].status = "CANCELLED" =>
    row.status = "CANCELLED" \/ ctl[First].pc \in {"persist", "ended"}

QueuedFree ==
  \A t \in Tasks :
    At(First, "group") /\ child[First][t] = "queued" => batch[First].status # "CANCELLED"

NoticeInv == Alone /\ NoReopen /\ OthersIdle /\ Noticed /\ QueuedFree

LEMMA StepAlone ==
  ASSUME IInv, PassInv, Alone, OneByOne, [Next]_vars
  PROVE  Alone'
<1> SUFFICES ASSUME NEW e \in Executors
             PROVE  Lone(ctl'[e].plan)
  BY DEF Alone
<1>1. Shape(e) BY Shapes
<1>2. CASE ctl'[e].plan = ctl[e].plan BY <1>2 DEF Alone
<1>3. CASE ctl'[e].plan = Groups BY <1>3 DEF OneByOne, Lone
<1>4. CASE Finishes(e)
  <2> DEFINE p == ctl[e].plan
  <2>1. p \in Seq(SUBSET Tasks) BY Typed DEF Controls
  <2>2. p # <<>> /\ ctl'[e].plan = Tail(p) BY <1>4 DEF Finishes, IInv, GroupHasPlan
  <2>3. \A i \in DOMAIN p : \E t : p[i] = {t} BY DEF Alone, Lone
  <2> HIDE DEF p
  <2>4. \A i \in DOMAIN Tail(p) : i + 1 \in DOMAIN p /\ Tail(p)[i] = p[i + 1]
    <3>1. p \in Seq(SUBSET Tasks) /\ p # <<>> BY <2>1, <2>2
    <3> QED BY <3>1
  <2> QED BY <2>2, <2>3, <2>4 DEF Lone
<1>5. ASSUME NEW S \in SUBSET Tasks, ctl'[e].plan = Singletons(S)
      PROVE  Lone(ctl'[e].plan)
  BY <1>5 DEF Singletons, Lone
<1> QED BY <1>1, <1>2, <1>3, <1>4, <1>5
        DEF Shape, Stays, Counts, Begins, Sweeps, Enters, Leaves, Restarts, SamePass

LEMMA StepNoReopen ==
  ASSUME IInv, PassInv, NoReopen, NobodyResumes, [Next]_vars
  PROVE  NoReopen'
<1> SUFFICES ASSUME NEW e \in Executors, ctl'[e].pc = "reopen" PROVE FALSE BY DEF NoReopen, At
<1>1. ~At(e, "idle") BY IdleStays DEF At
<1>2. ~At(e, "reopen") BY DEF NoReopen
<1>3. Shape(e) BY Shapes
<1>4. Restarts(e) BY <1>2, <1>3 DEF Shape, Stays, Counts, Begins, Sweeps, Enters, Leaves, Finishes, At
<1> QED BY <1>1, <1>4 DEF Restarts

LEMMA StepOthersIdle ==
  ASSUME IInv, PassInv, OthersIdle, NobodyResumes, [Next]_vars
  PROVE  OthersIdle'
BY IdleStays DEF OthersIdle, At

\* A CANCELLED copy that is written back is written as it is.
LEMMA PersistSaves ==
  ASSUME IInv, PassInv, [Next]_vars, NEW e \in Executors, At(e, "persist"),
         batch[e].status = "CANCELLED", ctl'[e].pc \notin {"persist", "ended"}
  PROVE  row'.status = "CANCELLED"
<1>1. Shape(e) BY Shapes
<1>2. Leaves(e)
  BY <1>1 DEF Shape, Stays, Counts, Begins, Sweeps, Enters, Finishes, Restarts, At
<1>3. LookAtStored(e) \/ ReplaceRow(e) BY <1>2 DEF Leaves
<1>4. ~LookAtStored(e) BY DEF LookAtStored, At
<1> QED BY <1>3, <1>4 DEF ReplaceRow

LEMMA StepNoticed ==
  ASSUME IInv, PassInv, NoReopen, OthersIdle, Noticed, NobodyResumes, [Next]_vars
  PROVE  Noticed'
<1> SUFFICES ASSUME batch'[First].status = "CANCELLED"
             PROVE  row'.status = "CANCELLED" \/ ctl'[First].pc \in {"persist", "ended"}
  BY DEF Noticed
<1>0. First \in Executors BY BatchAssumption
<1>1. CopyFlips(First) BY <1>0, CopyCancels
<1>2. ASSUME row.status = "CANCELLED", batch[First].status = "CANCELLED"
      PROVE  row'.status = "CANCELLED"
  <2>1. \A f \in Executors : ~Reopen(f) BY DEF Reopen, NoReopen
  <2>2. \A f \in Executors : saving[f] # {} => f = First
    BY DEF OthersIdle, PassInv, SavesInPlace, InPlace, Pending, At
  <2>3. ASSUME NEW f \in Executors, NEW save \in saving[f],
               row' = [status |-> batch[f].status, results |-> save.results]
        PROVE  row'.status = "CANCELLED"
    <3>1. f = First BY <2>2
    <3>2. row'.status = batch[f].status BY <2>3
    <3> QED BY <1>2, <3>1, <3>2
  <2> QED BY <1>2, <2>1, <2>3, RowSteps
<1>3. CASE batch[First].status = "CANCELLED" /\ row.status # "CANCELLED"
  <2>1. ctl[First].pc \in {"persist", "ended"} BY <1>3 DEF Noticed
  <2>2. CASE At(First, "persist") BY <1>0, <1>3, <2>2, PersistSaves
  <2>3. CASE At(First, "ended")
    <3>1. Shape(First) BY <1>0, Shapes
    <3> QED BY <2>3, <3>1
            DEF Shape, Stays, Counts, Begins, Sweeps, Enters, Leaves, Finishes, Restarts, At
  <2> QED BY <2>1, <2>2, <2>3 DEF At
<1> QED BY <1>1, <1>2, <1>3 DEF CopyFlips

LEMMA StepQueuedFree ==
  ASSUME IInv, PassInv, Alone, Noticed, QueuedFree, NobodyResumes, [Next]_vars
  PROVE  QueuedFree'
<1> SUFFICES ASSUME NEW t \in Tasks, ctl'[First].pc = "group",
                    child'[First][t] = "queued", batch'[First].status = "CANCELLED"
             PROVE  FALSE
  BY DEF QueuedFree, At
<1> DEFINE e == First
<1>0. e \in Executors BY BatchAssumption
<1> HIDE DEF e
<1>1. CASE NextGroup(e)
  <2>1. batch' = batch /\ row.status # "CANCELLED" /\ At(e, "loop") BY <1>1 DEF NextGroup
  <2> QED BY <2>1 DEF Noticed, At, e
<1>2. CASE child[e][t] = "queued"
  <2>1. ctl[e].pc \in {"group", "ended"} /\ t \in Head(ctl[e].plan) /\ ctl[e].plan # <<>>
    BY <1>0, <1>2 DEF PassInv, Gathered
  <2>2. At(e, "group")
    <3>1. Shape(e) BY <1>0, Shapes
    <3> QED BY <2>1, <3>1
            DEF Shape, Stays, Counts, Begins, Sweeps, Enters, Leaves, Finishes, Restarts, At, e
  <2>3. batch[e].status # "CANCELLED" BY <1>2, <2>2 DEF QueuedFree, e
  <2>4. CopyFlips(e) BY <1>0, CopyCancels DEF e
  <2>5. LookAtStored(e) BY <2>2, <2>3, <2>4 DEF CopyFlips, At
  <2>6. PICK u \in Tasks : child[e][u] = "saving"
    BY <1>0, <2>2, <2>5, SavesWhere DEF PassInv, At
  <2>8. u \in Head(ctl[e].plan) BY <1>0, <2>6 DEF PassInv, Gathered
  <2>9. \E v : Head(ctl[e].plan) = {v}
    <3> DEFINE p == ctl[e].plan
    <3>1. p \in Seq(SUBSET Tasks) /\ Lone(p) BY <1>0, Typed DEF Controls, Alone
    <3> HIDE DEF p
    <3>2. p # <<>> => 1 \in DOMAIN p /\ Head(p) = p[1] BY <3>1
    <3> QED BY <2>1, <3>1, <3>2, ZenonT(60) DEF p, Lone
  <2>10. u = t BY <2>1, <2>8, <2>9
  <2> QED BY <1>2, <2>6, <2>10
<1>3. QueueStep(e, t) BY <1>0, QueueSteps
<1> QED BY <1>1, <1>2, <1>3 DEF QueueStep, e

LEMMA InitNotice == Init => NoticeInv
<1> SUFFICES ASSUME Init PROVE NoticeInv OBVIOUS
<1>1. \A e \in Executors : ctl[e].plan = <<>> /\ ctl[e].pc \in {"idle", "created"}
  <2>1. \A e \in Executors : ctl[e] \in {Idle, [Idle EXCEPT !.pc = "created"]} BY DEF Init
  <2> QED BY <2>1 DEF Idle
<1>2. \A e \in Executors : batch[e].status = "PENDING" BY DEF Init
<1>3. \A e \in Executors \ {First} : ctl[e].pc = "idle" BY DEF Init, Idle
<1>4. First \in Executors BY BatchAssumption
<1> QED BY <1>1, <1>2, <1>3, <1>4 DEF NoticeInv, Alone, Lone, NoReopen, OthersIdle, Noticed, QueuedFree, At

\* An executor whose copy a save has flipped to CANCELLED launches no worker any
\* more, in its first pass or in its retries: where its plan goes one task after
\* the other, and nobody takes the batch up again meanwhile.
THEOREM NoLaunchOnceNoticedAlways ==
  ASSUME NobodyResumes, OneByOne
  PROVE  Spec => NoLaunchOnceNoticed
<1> DEFINE Held == \A e \in Executors, t \in Tasks :
                     (batch[e].status = "CANCELLED" /\ child[e][t] = "queued")
                     => child'[e][t] # "started"
<1>1. IInv /\ PassInv /\ NoticeInv /\ [Next]_vars => [Held]_vars
  <2> SUFFICES ASSUME IInv, PassInv, NoticeInv, [Next]_vars, NEW e \in Executors, NEW t \in Tasks,
                      batch[e].status = "CANCELLED", child[e][t] = "queued"
               PROVE  child'[e][t] # "started"
    OBVIOUS
  <2>1. e = First BY DEF PassInv, Gathered, NoticeInv, OthersIdle, At
  <2>2. QueueStep(e, t) BY QueueSteps
  <2> QED BY <2>1, <2>2 DEF NoticeInv, QueuedFree, QueueStep
<1>2. NoLaunchOnceNoticed <=> [][Held]_vars BY DEF NoLaunchOnceNoticed
<1>3. IInv /\ PassInv /\ NoticeInv /\ [Next]_vars => NoticeInv'
  BY StepAlone, StepNoReopen, StepOthersIdle, StepNoticed, StepQueuedFree DEF NoticeInv
<1> HIDE DEF Held
<1> QED BY <1>1, <1>2, <1>3, InitNotice, PassInvariant, PTL DEF Spec

=============================================================================
