--------------------------- MODULE WorkOrder_proofs ---------------------------
(***************************************************************************)
(* The ordering of work is right for every finite set of ids and every     *)
(* work list.  The inductive invariant adds four facts to the checked      *)
(* ones: what the visited nodes are (OutputOnce, OutputClosed), that no    *)
(* member of a cycle is ever visited (NoCycleVisited, which makes the      *)
(* verdict exact without an induction along paths), and which items the    *)
(* plan holds after each pass (PlanSoFar).  That the plan is the least     *)
(* order needs one more: each node visited was the least that could be     *)
(* (Greedy); another order is compared at the first place it differs.      *)
(***************************************************************************)
EXTENDS WorkOrder, FiniteSetTheorems, SequenceTheorems, WellFoundedInduction, TLAPS

\* The work under way has passed the checks.
Admitted == status \in {"ordering", "ordered"} => Admissible(work)

\* No node is visited twice.
OutputOnce == status = "ordering" => Len(output) = Cardinality(Placed)

\* A visited node's predecessors are visited, and earlier.
OutputClosed ==
    status = "ordering" =>
        \A i \in DOMAIN output : \A m \in Predecessors(work, pass, output[i]) :
            \E j \in 1 .. i - 1 : output[j] = m

\* A set of items that wait for one another is never entered, and the first
\* pass ends with an error if there is one.
NoCycleVisited ==
    status = "ordering" =>
        \A S \in SUBSET DOMAIN work :
            Cyclic(work, S) => pass = 0 /\ S \cap Placed = {}

\* The plan holds the barriers that are finished, in order.
PlanSoFar ==
    status = "ordering" =>
        /\ Planned = {i \in DOMAIN work : work[i].rank < pass - 1}
        /\ Len(plan) = Cardinality(Planned)
        /\ \A i, j \in DOMAIN plan : i < j => work[plan[i]].rank <= work[plan[j]].rank
        /\ \A i \in DOMAIN plan : \A d \in work[plan[i]].dependsOn :
              \/ work[plan[i]].lag > 0 /\ work[d].rank = work[plan[i]].rank
              \/ \E j \in 1 .. i - 1 : plan[j] = d

\* Item n could have been taken where position i of a list was: it is not before it,
\* and everything of waits is.
Candidate(list, i, n, waits) ==
    /\ \A j \in 1 .. i - 1 : list[j] # n
    /\ \A d \in waits : \E j \in 1 .. i - 1 : list[j] = d

\* Each node visited was the least of those that could be.
OutputGreedy ==
    status = "ordering" =>
        \A i \in DOMAIN output : \A n \in Nodes(work, pass) :
            Candidate(output, i, n, Predecessors(work, pass, n)) => output[i] <= n

\* So is each item of the plan, among those of its barrier.
PlanGreedy ==
    status \in {"ordering", "ordered"} =>
        \A i \in DOMAIN plan : \A n \in DOMAIN work :
            work[n].rank = work[plan[i]].rank
                /\ Candidate(plan, i, n, Predecessors(work, 0, n)) => plan[i] <= n

Greedy == OutputGreedy /\ PlanGreedy

IInv ==
    /\ TypeOK
    /\ Admitted
    /\ IndegreeCounts
    /\ OutputOnce
    /\ OutputClosed
    /\ NoCycleVisited
    /\ PlanSoFar
    /\ DependenciesFirst
    /\ EveryItemOnce
    /\ CycleVerdict

-----------------------------------------------------------------------------
(* Work lists and their graphs *)

\* A work list is a function from finitely many ids to items.
LEMMA PlanType ==
    ASSUME NEW w \in Plans
    PROVE  /\ w \in [DOMAIN w -> Item]
           /\ DOMAIN w \subseteq Ids
           /\ IsFiniteSet(DOMAIN w)
<1>1. PICK ids \in SUBSET Ids : w \in [ids -> Item]
  BY DEF Plans
<1>2. IsFiniteSet(ids)
  BY IdsAssumption, FS_Subset
<1> QED BY <1>1, <1>2

\* The graph of every pass is finite.
LEMMA GraphFinite ==
    ASSUME NEW w \in Plans, NEW p
    PROVE  /\ Nodes(w, p) \subseteq DOMAIN w
           /\ IsFiniteSet(Nodes(w, p))
           /\ \A n : /\ Predecessors(w, p, n) \subseteq Nodes(w, p)
                     /\ IsFiniteSet(Predecessors(w, p, n))
<1>1. Nodes(w, p) \subseteq DOMAIN w
  BY DEF Nodes
<1>2. IsFiniteSet(Nodes(w, p))
  BY <1>1, PlanType, FS_Subset
<1>3. ASSUME NEW n
      PROVE  Predecessors(w, p, n) \subseteq Nodes(w, p)
  BY DEF Predecessors
<1>4. ASSUME NEW n
      PROVE  IsFiniteSet(Predecessors(w, p, n))
  BY <1>2, <1>3, FS_Subset
<1> QED BY <1>1, <1>2, <1>3, <1>4

\* The empty call frame is a legal one.
LEMMA EmptyPlan ==
    /\ << >> \in Plans
    /\ DOMAIN << >> = {}
    /\ \A p : << >> \in [Nodes(<< >>, p) -> Nat]
<1>1. DOMAIN << >> = {}
  OBVIOUS
<1>2. << >> \in [{} -> Item]
  OBVIOUS
<1>3. << >> \in Plans
  BY <1>2 DEF Plans
<1>4. \A p : Nodes(<< >>, p) = {}
  BY <1>1 DEF Nodes
<1>5. << >> \in [{} -> Nat]
  OBVIOUS
<1> QED BY <1>1, <1>3, <1>4, <1>5

\* A pass starts with nothing visited, right counters and the right list.
LEMMA PassStarts ==
    ASSUME NEW w \in Plans, NEW p \in 0 .. 3, StartPass(w, p), work' = w
    PROVE  /\ pass' = p
           /\ indegree' \in [Nodes(w, p) -> Nat]
           /\ ready' \in SUBSET Nodes(w, p)
           /\ output' = << >>
           /\ Placed' = {}
           /\ IndegreeCounts'
           /\ OutputOnce'
           /\ OutputClosed'
<1>1. pass' = p /\ output' = << >>
  BY DEF StartPass
<1>2. \A n \in Nodes(w, p) : Cardinality(Predecessors(w, p, n)) \in Nat
  BY GraphFinite, FS_CardinalityType
<1>3. /\ indegree' \in [Nodes(w, p) -> Nat]
      /\ \A n \in Nodes(w, p) : indegree'[n] = Cardinality(Predecessors(w, p, n))
      /\ ready' = {n \in Nodes(w, p) : indegree'[n] = 0}
  BY <1>2 DEF StartPass
<1>4. DOMAIN output' = {}
  BY <1>1
<1>5. Placed' = {}
  BY <1>4 DEF Placed
<1>6. \A n \in Nodes(w, p) : Predecessors(w, p, n) \ Placed' = Predecessors(w, p, n)
  BY <1>5
<1>7. IndegreeCounts'
  BY <1>1, <1>3, <1>5, <1>6 DEF IndegreeCounts
<1>8. OutputOnce'
  BY <1>1, <1>5, FS_EmptySet DEF OutputOnce
<1>9. OutputClosed'
  BY <1>4 DEF OutputClosed
<1> QED BY <1>1, <1>3, <1>5, <1>7, <1>8, <1>9

-----------------------------------------------------------------------------
(* Visiting a node *)

\* The node taken waits for nothing, was not visited, and is now.
LEMMA VisitPlaces ==
    ASSUME IInv, NEW n, Visit(n)
    PROVE  /\ n \in Nodes(work, pass) /\ n \notin Placed
           /\ Predecessors(work, pass, n) \subseteq Placed
           /\ output' \in Seq(Nodes(work, pass))
           /\ DOMAIN output' = 1 .. Len(output) + 1
           /\ \A i \in DOMAIN output : output'[i] = output[i]
           /\ output'[Len(output) + 1] = n
           /\ Placed' = Placed \cup {n}
           /\ Placed \subseteq Nodes(work, pass)
<1>1. status = "ordering" /\ n \in ready /\ output' = Append(output, n)
  BY DEF Visit, IsFirst
<1>2. /\ n \in Nodes(work, pass) \ Placed /\ indegree[n] = 0
      /\ indegree[n] = Cardinality(Predecessors(work, pass, n) \ Placed)
  BY <1>1 DEF IInv, IndegreeCounts
<1>3. Predecessors(work, pass, n) \ Placed = {}
  <2>1. work \in Plans
    BY DEF IInv, TypeOK
  <2>2. IsFiniteSet(Predecessors(work, pass, n) \ Placed)
    BY <2>1, GraphFinite, FS_Difference
  <2> QED BY <2>2, <1>2, FS_EmptySet
<1>4. output \in Seq(Nodes(work, pass))
  BY DEF IInv, TypeOK
<1>5. /\ output' \in Seq(Nodes(work, pass))
      /\ Len(output') = Len(output) + 1
      /\ \A i \in 1 .. Len(output) : output'[i] = output[i]
      /\ output'[Len(output) + 1] = n
  BY <1>1, <1>2, <1>4, AppendProperties
<1>6. /\ DOMAIN output = 1 .. Len(output)
      /\ DOMAIN output' = 1 .. Len(output) + 1
      /\ Len(output) \in Nat
      /\ \A i \in DOMAIN output : output[i] \in Nodes(work, pass)
  BY <1>4, <1>5, LenProperties
<1>7. Placed' = Placed \cup {n}
  BY <1>5, <1>6 DEF Placed
<1>8. Placed \subseteq Nodes(work, pass)
  BY <1>6 DEF Placed
<1> QED BY <1>2, <1>3, <1>5, <1>6, <1>7, <1>8

\* The counters and the list stay right.
LEMMA VisitCounts ==
    ASSUME IInv, NEW n, Visit(n)
    PROVE  /\ indegree' \in [Nodes(work, pass) -> Nat]
           /\ ready' \in SUBSET Nodes(work, pass)
           /\ IndegreeCounts'
<1> USE VisitPlaces
<1> DEFINE Left(t) == Predecessors(work, pass, t) \ Placed
<1>1. /\ status = "ordering" /\ status' = status /\ work' = work /\ pass' = pass
      /\ indegree' = Decremented(n) /\ ready' = Released(n)
  BY DEF Visit
<1>2. /\ indegree \in [Nodes(work, pass) -> Nat]
      /\ \A t \in Nodes(work, pass) : indegree[t] = Cardinality(Left(t))
      /\ ready = {t \in Nodes(work, pass) \ Placed : indegree[t] = 0}
      /\ work \in Plans
  BY <1>1 DEF IInv, TypeOK, IndegreeCounts
<1>3. \A t \in Nodes(work, pass) : IsFiniteSet(Left(t)) /\ Cardinality(Left(t)) \in Nat
  BY <1>2, GraphFinite, FS_Difference, FS_CardinalityType
<1>4. \A t \in Nodes(work, pass) :
         /\ Cardinality(Left(t) \ {n}) =
               IF n \in Left(t) THEN Cardinality(Left(t)) - 1 ELSE Cardinality(Left(t))
         /\ Cardinality(Left(t) \ {n}) \in Nat
  BY <1>3, FS_RemoveElement, FS_CardinalityType
<1>5. \A t \in Nodes(work, pass) : t \in Targets(n) <=> n \in Left(t)
  BY DEF Targets
<1>6. \A t \in Nodes(work, pass) :
         Predecessors(work, pass, t) \ (Placed \cup {n}) = Left(t) \ {n}
  OBVIOUS
<1>7. /\ indegree' \in [Nodes(work, pass) -> Nat]
      /\ \A t \in Nodes(work, pass) :
            /\ indegree'[t] = Cardinality(Left(t) \ {n})
            /\ indegree'[t] = IF t \in Targets(n) THEN indegree[t] - 1 ELSE indegree[t]
  <2>1. DOMAIN indegree = Nodes(work, pass)
    BY <1>2
  <2>2. \A t \in Nodes(work, pass) :
          indegree'[t] = IF t \in Targets(n) THEN indegree[t] - 1 ELSE indegree[t]
    BY <1>1, <2>1 DEF Decremented
  <2> HIDE DEF Left
  <2>3. \A t \in Nodes(work, pass) : indegree'[t] = Cardinality(Left(t) \ {n})
    BY <2>2, <1>2, <1>4, <1>5
  <2>4. \A t \in Nodes(work, pass) : indegree'[t] \in Nat
    BY <2>3, <1>4
  <2>5. indegree' = [t \in Nodes(work, pass) |->
                        IF t \in Targets(n) THEN indegree[t] - 1 ELSE indegree[t]]
    BY <1>1, <2>1 DEF Decremented
  <2> QED BY <2>2, <2>3, <2>4, <2>5
<1>8. \A t \in Targets(n) : t \in Nodes(work, pass) /\ t # n /\ t \notin Placed
  <2> SUFFICES ASSUME NEW t \in Targets(n)
               PROVE  t \in Nodes(work, pass) /\ t # n /\ t \notin Placed
    OBVIOUS
  <2>1. t \in Nodes(work, pass) /\ n \in Predecessors(work, pass, t)
    BY DEF Targets
  <2>2. t # n
    BY <2>1
  <2>3. ASSUME t \in Placed PROVE FALSE
    <3>1. PICK i \in DOMAIN output : output[i] = t
      BY <2>3 DEF Placed
    <3>2. PICK j \in 1 .. i - 1 : output[j] = n
      BY <1>1, <2>1, <3>1 DEF IInv, OutputClosed
    <3>3. j \in DOMAIN output
      <4>1. output \in Seq(Nodes(work, pass))
        BY DEF IInv, TypeOK
      <4>2. DOMAIN output = 1 .. Len(output) /\ Len(output) \in Nat
        BY <4>1, LenProperties
      <4> QED BY <4>2, <3>1, <3>2
    <3> QED BY <3>2, <3>3 DEF Placed
  <2> QED BY <2>1, <2>2, <2>3
<1>9. ready' = {t \in Nodes(work, pass) \ (Placed \cup {n}) : indegree'[t] = 0}
  <2> HIDE DEF Left
  <2>1. ready' = (ready \ {n}) \cup {t \in Targets(n) : indegree[t] = 1}
    BY <1>1 DEF Released
  <2>2. \A t \in Nodes(work, pass) : indegree[t] \in Nat /\ indegree'[t] \in Nat
    BY <1>2, <1>7
  <2>3. ASSUME NEW t \in Targets(n)
        PROVE  (indegree'[t] = 0 <=> indegree[t] = 1) /\ indegree[t] # 0
    <3>1. t \in Nodes(work, pass)
      BY <1>8
    <3>2. indegree'[t] = indegree[t] - 1
      BY <3>1, <1>7
    <3>3. indegree[t] \in Nat /\ indegree'[t] \in Nat
      BY <3>1, <2>2
    <3> QED BY <3>2, <3>3
  <2>4. \A t \in Nodes(work, pass) \ Targets(n) : indegree'[t] = indegree[t]
    BY <1>7
  <2> QED BY <2>1, <2>3, <2>4, <1>2, <1>8
<1>10. IndegreeCounts'
  BY <1>1, <1>6, <1>7, <1>9 DEF IndegreeCounts
<1> QED BY <1>7, <1>9, <1>10

\* Visiting a node preserves the invariant.
LEMMA VisitPreserves ==
    ASSUME IInv, NEW n, Visit(n)
    PROVE  IInv'
<1>1. /\ status = "ordering" /\ status' = status
      /\ work' = work /\ pass' = pass /\ plan' = plan
  BY DEF Visit
<1>2. /\ n \in Nodes(work, pass) /\ n \notin Placed
      /\ Predecessors(work, pass, n) \subseteq Placed
      /\ output' \in Seq(Nodes(work, pass))
      /\ DOMAIN output' = 1 .. Len(output) + 1
      /\ \A i \in DOMAIN output : output'[i] = output[i]
      /\ output'[Len(output) + 1] = n
      /\ Placed' = Placed \cup {n}
      /\ Placed \subseteq Nodes(work, pass)
  BY VisitPlaces
<1>3. /\ work \in Plans /\ output \in Seq(Nodes(work, pass))
      /\ DOMAIN output = 1 .. Len(output) /\ Len(output) \in Nat
  BY LenProperties DEF IInv, TypeOK
<1>4. TypeOK'
  BY <1>1, <1>2, VisitCounts DEF IInv, TypeOK
<1>5. IndegreeCounts'
  BY VisitCounts
<1>6. OutputOnce'
  <2>1. IsFiniteSet(Placed)
    BY <1>2, <1>3, GraphFinite, FS_Subset
  <2>2. Cardinality(Placed') = Cardinality(Placed) + 1
    BY <2>1, <1>2, FS_AddElement
  <2>3. Len(output') = Len(output) + 1
    BY <1>2, <1>3, LenProperties
  <2> QED BY <1>1, <2>2, <2>3 DEF IInv, OutputOnce
<1>7. OutputClosed'
  <2> SUFFICES ASSUME NEW i \in DOMAIN output',
                      NEW m \in Predecessors(work, pass, output'[i])
               PROVE  \E j \in 1 .. i - 1 : output'[j] = m
    BY <1>1 DEF OutputClosed
  <2>1. CASE i \in DOMAIN output
    <3>1. PICK j \in 1 .. i - 1 : output[j] = m
      BY <1>1, <1>2, <2>1 DEF IInv, OutputClosed
    <3>2. j \in DOMAIN output
      BY <1>3, <2>1, <3>1
    <3> QED BY <1>2, <3>1, <3>2
  <2>2. CASE i = Len(output) + 1
    <3>1. m \in Placed
      BY <1>2, <2>2
    <3>2. PICK j \in DOMAIN output : output[j] = m
      BY <3>1 DEF Placed
    <3>3. j \in 1 .. i - 1
      BY <1>3, <2>2, <3>2
    <3> QED BY <1>2, <3>2, <3>3
  <2> QED BY <1>2, <1>3, <2>1, <2>2
<1>8. NoCycleVisited'
  <2> SUFFICES ASSUME NEW S \in SUBSET DOMAIN work, Cyclic(work, S)
               PROVE  pass = 0 /\ S \cap Placed' = {}
    BY <1>1 DEF NoCycleVisited, Cyclic, Predecessors, Nodes
  <2>1. pass = 0 /\ S \cap Placed = {}
    BY <1>1 DEF IInv, NoCycleVisited
  <2>2. ASSUME n \in S PROVE FALSE
    <3>1. PICK m \in S : m \in Predecessors(work, 0, n)
      BY <2>2 DEF Cyclic
    <3> QED BY <1>2, <2>1, <3>1
  <2> QED BY <1>2, <2>1, <2>2
<1>9. Admitted' /\ PlanSoFar'
  BY <1>1 DEF IInv, Admitted, PlanSoFar, Planned
<1>10. DependenciesFirst' /\ EveryItemOnce' /\ CycleVerdict'
  BY <1>1 DEF DependenciesFirst, EveryItemOnce, CycleVerdict
<1> QED BY <1>4, <1>5, <1>6, <1>7, <1>8, <1>9, <1>10 DEF IInv

-----------------------------------------------------------------------------
(* The end of a pass *)

\* The nodes a pass could not visit wait for one another.
LEMMA UnvisitedIsCyclic ==
    ASSUME IInv, status = "ordering", ready = {}, Incomplete
    PROVE  Cyclic(work, Nodes(work, pass) \ Placed)
<1> DEFINE U == Nodes(work, pass) \ Placed
<1>1. /\ work \in Plans /\ output \in Seq(Nodes(work, pass))
      /\ DOMAIN indegree = Nodes(work, pass)
      /\ \A n \in Nodes(work, pass) :
            indegree[n] = Cardinality(Predecessors(work, pass, n) \ Placed)
      /\ \A n \in U : indegree[n] # 0
      /\ Len(output) = Cardinality(Placed)
  BY DEF IInv, TypeOK, IndegreeCounts, OutputOnce
<1>2. Placed \subseteq Nodes(work, pass)
  BY <1>1, LenProperties DEF Placed
<1>3. U # {}
  <2>1. Placed # Nodes(work, pass)
    BY <1>1 DEF Incomplete
  <2> QED BY <2>1, <1>2
<1>4. ASSUME NEW n \in U
      PROVE  \E m \in U : m \in Predecessors(work, 0, n)
  <2>1. Cardinality(Predecessors(work, pass, n) \ Placed) # 0
    BY <1>1
  <2>2. Predecessors(work, pass, n) \ Placed # {}
    BY <2>1, FS_EmptySet
  <2>3. PICK m \in Predecessors(work, pass, n) : m \notin Placed
    BY <2>2
  <2>4. m \in U
    BY <2>3 DEF Predecessors
  <2>5. m \in Predecessors(work, 0, n)
    BY <2>3 DEF Predecessors, Nodes
  <2> QED BY <2>4, <2>5
<1> QED BY <1>3, <1>4 DEF Cyclic

\* A pass that visited as many nodes as there are visited them all, and then
\* the work has no cycle.
LEMMA CompleteIsAcyclic ==
    ASSUME IInv, status = "ordering", ~Incomplete
    PROVE  /\ Placed = Nodes(work, pass)
           /\ \A S \in SUBSET DOMAIN work : ~Cyclic(work, S)
<1>1. /\ work \in Plans /\ output \in Seq(Nodes(work, pass))
      /\ DOMAIN indegree = Nodes(work, pass)
      /\ Len(output) = Cardinality(Placed)
  BY DEF IInv, TypeOK, OutputOnce
<1>2. Placed \subseteq Nodes(work, pass)
  BY <1>1, LenProperties DEF Placed
<1>3. Placed = Nodes(work, pass)
  BY <1>1, <1>2, GraphFinite, FS_Subset DEF Incomplete
<1>4. ASSUME NEW S \in SUBSET DOMAIN work, Cyclic(work, S)
      PROVE  FALSE
  <2>1. pass = 0 /\ S \cap Placed = {}
    BY <1>4 DEF IInv, NoCycleVisited
  <2>2. Nodes(work, 0) = DOMAIN work
    BY DEF Nodes
  <2>3. S = {}
    BY <1>3, <2>1, <2>2
  <2> QED BY <1>4, <2>3 DEF Cyclic
<1> QED BY <1>3, <1>4

\* The plan with this pass's output is the plan of the barriers up to this one.
LEMMA GatheredIsSorted ==
    ASSUME IInv, status = "ordering", ~Incomplete, plan' = Gathered, work' = work
    PROVE  /\ plan' \in Seq(DOMAIN work)
           /\ Planned' = {i \in DOMAIN work : work[i].rank < pass}
           /\ Len(plan') = Cardinality(Planned')
           /\ \A i, j \in DOMAIN plan' :
                 i < j => work[plan'[i]].rank <= work[plan'[j]].rank
           /\ \A i \in DOMAIN plan' : \A d \in work[plan'[i]].dependsOn :
                 \/ work[plan'[i]].lag > 0 /\ work[d].rank = work[plan'[i]].rank
                 \/ \E j \in 1 .. i - 1 : plan'[j] = d
<1> DEFINE Rank(i) == work[i].rank
           Met(p, i, d) == \/ work[p[i]].lag > 0 /\ work[d].rank = work[p[i]].rank
                           \/ \E j \in 1 .. i - 1 : p[j] = d
<1>1. /\ work \in Plans /\ pass \in 0 .. 3 /\ plan \in Seq(DOMAIN work)
      /\ output \in Seq(Nodes(work, pass))
      /\ Planned = {i \in DOMAIN work : work[i].rank < pass - 1}
      /\ Len(plan) = Cardinality(Planned)
      /\ \A i, j \in DOMAIN plan : i < j => work[plan[i]].rank <= work[plan[j]].rank
      /\ \A i \in DOMAIN plan : \A d \in work[plan[i]].dependsOn : Met(plan, i, d)
      /\ Len(output) = Cardinality(Placed)
  BY DEF IInv, TypeOK, PlanSoFar, OutputOnce
<1>2. \A i \in DOMAIN work :
        /\ work[i].rank \in 0 .. 2 /\ work[i].lag \in Nat
        /\ \A d \in work[i].dependsOn : d \in DOMAIN work /\ work[d].rank <= work[i].rank
  <2>1. Admissible(work)
    BY DEF IInv, Admitted
  <2>2. \A i \in DOMAIN work : work[i] \in Item
    BY <1>1, PlanType
  <2> QED BY <2>1, <2>2, RanksAssumption, LagsAssumption DEF Admissible, Item
<1>3. CASE pass = 0
  <2>1. plan' = plan
    BY <1>3 DEF Gathered
  <2>2. Planned = {i \in DOMAIN work : work[i].rank < pass}
    BY <1>1, <1>2, <1>3
  <2> QED BY <1>1, <2>1, <2>2 DEF Planned
<1>4. CASE pass # 0
  <2>1. plan' = plan \o output
    BY <1>4 DEF Gathered
  <2>2. Nodes(work, pass) = {i \in DOMAIN work : work[i].rank = pass - 1}
    BY <1>4 DEF Nodes
  <2>3. Placed = Nodes(work, pass)
    BY CompleteIsAcyclic
  <2>4. output \in Seq(DOMAIN work)
    BY <1>1, <2>2
  <2>5. /\ plan' \in Seq(DOMAIN work)
        /\ Len(plan) \in Nat /\ Len(output) \in Nat
        /\ DOMAIN plan = 1 .. Len(plan)
        /\ DOMAIN output = 1 .. Len(output)
        /\ DOMAIN plan' = 1 .. Len(plan) + Len(output)
        /\ Len(plan') = Len(plan) + Len(output)
        /\ \A i \in DOMAIN plan : plan'[i] = plan[i]
        /\ \A i \in DOMAIN output : plan'[Len(plan) + i] = output[i]
    <3>0. plan \in Seq(DOMAIN work) /\ output \in Seq(DOMAIN work)
      BY <1>1, <2>4
    <3>1. /\ plan' \in Seq(DOMAIN work)
          /\ Len(plan') = Len(plan) + Len(output)
          /\ \A i \in 1 .. Len(plan) + Len(output) :
                plan'[i] = IF i <= Len(plan) THEN plan[i] ELSE output[i - Len(plan)]
      BY <2>1, <3>0, ConcatProperties
    <3>2. /\ Len(plan) \in Nat /\ DOMAIN plan = 1 .. Len(plan)
          /\ Len(output) \in Nat /\ DOMAIN output = 1 .. Len(output)
          /\ DOMAIN plan' = 1 .. Len(plan')
      BY <1>1, <2>4, <3>1, LenProperties
    <3>3. \A i \in DOMAIN output : plan'[Len(plan) + i] = output[i]
      BY <3>1, <3>2
    <3> QED BY <3>1, <3>2, <3>3
  <2>6. \A i \in DOMAIN plan' :
          \/ i \in DOMAIN plan
          \/ i - Len(plan) \in DOMAIN output /\ plan'[i] = output[i - Len(plan)]
    BY <2>5
  <2>7. Planned' = Planned \cup Placed
    BY <2>5, <2>6 DEF Planned, Placed
  <2>8. Planned' = {i \in DOMAIN work : work[i].rank < pass}
    BY <2>7, <2>2, <2>3, <1>1, <1>2
  <2>9. Len(plan') = Cardinality(Planned')
    <3>1. IsFiniteSet(Planned) /\ IsFiniteSet(Placed)
      BY <1>1, <2>2, <2>3, PlanType, FS_Subset
    <3>2. Planned \cap Placed = {}
      BY <1>1, <1>2, <2>2, <2>3
    <3>3. Cardinality(Planned \cup Placed) =
              Cardinality(Planned) + Cardinality(Placed) - Cardinality(Planned \cap Placed)
      BY <3>1, FS_Union
    <3>4. Cardinality(Planned \cap Placed) = 0
      BY <3>2, FS_EmptySet
    <3> QED BY <3>3, <3>4, <1>1, <2>5, <2>7
  <2>10. /\ \A i \in DOMAIN plan : work[plan'[i]].rank < pass - 1
         /\ \A i \in DOMAIN plan' \ DOMAIN plan : work[plan'[i]].rank = pass - 1
    <3>1. \A i \in DOMAIN plan : plan[i] \in Planned
      BY DEF Planned
    <3>2. \A i \in DOMAIN output : output[i] \in Placed
      BY DEF Placed
    <3> QED BY <3>1, <3>2, <1>1, <2>2, <2>3, <2>5, <2>6
  <2>11. ASSUME NEW i \in DOMAIN plan', NEW j \in DOMAIN plan', i < j
         PROVE  work[plan'[i]].rank <= work[plan'[j]].rank
    <3>0. /\ work[plan'[i]].rank \in Int /\ work[plan'[j]].rank \in Int
          /\ i \in Nat /\ j \in Nat
      BY <2>5, <1>2, LenProperties
    <3>1. CASE j \in DOMAIN plan
      BY <3>1, <1>1, <2>5, <2>11
    <3>2. CASE j \notin DOMAIN plan
      <4>1. work[plan'[j]].rank = pass - 1
        BY <3>2, <2>10
      <4>2. work[plan'[i]].rank < pass - 1 \/ work[plan'[i]].rank = pass - 1
        BY <2>10
      <4>3. pass \in Int
        BY <1>1
      <4> QED BY <3>0, <4>1, <4>2, <4>3
    <3> QED BY <3>1, <3>2
  <2>12. ASSUME NEW i \in DOMAIN plan', NEW d \in work[plan'[i]].dependsOn
         PROVE  Met(plan', i, d)
    <3>1. CASE i \in DOMAIN plan
      <4>1. Met(plan, i, d)
        BY <1>1, <2>5, <3>1
      <4>2. \A j \in 1 .. i - 1 : plan'[j] = plan[j]
        BY <2>5, <3>1
      <4> QED BY <2>5, <3>1, <4>1, <4>2
    <3>2. CASE i \notin DOMAIN plan
      <4> DEFINE k == i - Len(plan)
      <4>1. k \in DOMAIN output /\ plan'[i] = output[k] /\ i = Len(plan) + k
        BY <2>5, <2>6, <3>2
      <4>2. /\ plan'[i] \in DOMAIN work /\ work[plan'[i]].rank = pass - 1
            /\ d \in DOMAIN work /\ work[d].rank <= pass - 1
            /\ work[d].rank \in 0 .. 2 /\ work[plan'[i]].lag \in Nat
        BY <2>5, <3>2, <2>10, <1>2, LenProperties
      <4>3. CASE work[d].rank < pass - 1
        <5>1. d \in Planned
          BY <4>2, <4>3, <1>1
        <5>2. PICK j \in DOMAIN plan : plan[j] = d
          BY <5>1 DEF Planned
        <5>3. j \in 1 .. i - 1 /\ plan'[j] = d
          BY <5>2, <4>1, <2>5
        <5> QED BY <5>3
      <4>4. CASE work[d].rank = pass - 1 /\ work[plan'[i]].lag = 0
        <5>1. d \in Predecessors(work, pass, output[k])
          BY <4>1, <4>2, <4>4, <2>2 DEF Predecessors
        <5>2. PICK j \in 1 .. k - 1 : output[j] = d
          BY <5>1, <4>1 DEF IInv, OutputClosed
        <5>3. j \in DOMAIN output
          BY <5>2, <4>1, <2>5
        <5>4. Len(plan) + j \in 1 .. i - 1 /\ plan'[Len(plan) + j] = d
          BY <5>2, <5>3, <4>1, <2>5
        <5> QED BY <5>4
      <4>5. CASE work[d].rank = pass - 1 /\ work[plan'[i]].lag > 0
        BY <4>2, <4>5
      <4> QED BY <4>2, <4>3, <4>4, <4>5, <1>1
    <3> QED BY <3>1, <3>2
  <2> QED BY <2>5, <2>8, <2>9, <2>11, <2>12
<1> QED BY <1>3, <1>4

\* Ending a pass preserves the invariant.
LEMMA EndPassPreserves ==
    ASSUME IInv, EndPass
    PROVE  IInv'
<1>1. status = "ordering" /\ ready = {} /\ work \in Plans /\ pass \in 0 .. 3
  BY DEF EndPass, IInv, TypeOK
<1>2. CASE Incomplete
  <2>1. /\ status' = "cyclic"
        /\ UNCHANGED <<work, pass, indegree, ready, output, plan>>
    BY <1>2 DEF EndPass
  <2>2. Cyclic(work, Nodes(work, pass) \ Placed)
    BY <1>1, <1>2, UnvisitedIsCyclic
  <2>3. Nodes(work, pass) \ Placed \in SUBSET DOMAIN work
    BY DEF Nodes
  <2>4. pass = 0
    BY <1>1, <2>2, <2>3 DEF IInv, NoCycleVisited
  <2>5. CycleVerdict'
    BY <2>1, <2>2, <2>3, <2>4 DEF CycleVerdict, Cyclic, Predecessors, Nodes
  <2>6. TypeOK'
    BY <2>1 DEF IInv, TypeOK
  <2> QED
    BY <2>1, <2>5, <2>6
    DEF IInv, Admitted, IndegreeCounts, OutputOnce, OutputClosed, NoCycleVisited,
        PlanSoFar, DependenciesFirst, EveryItemOnce
<1>3. CASE ~Incomplete /\ pass = 3
  <2>1. /\ status' = "ordered" /\ plan' = Gathered
        /\ UNCHANGED <<work, pass, indegree, ready, output>>
    BY <1>3 DEF EndPass
  <2>2. /\ plan' \in Seq(DOMAIN work)
        /\ Planned' = {i \in DOMAIN work : work[i].rank < pass}
        /\ Len(plan') = Cardinality(Planned')
    BY <1>1, <1>3, <2>1, GatheredIsSorted
  <2>9. /\ \A i, j \in DOMAIN plan' :
              i < j => work[plan'[i]].rank <= work[plan'[j]].rank
        /\ \A i \in DOMAIN plan' : \A d \in work[plan'[i]].dependsOn :
              \/ work[plan'[i]].lag > 0 /\ work[d].rank = work[plan'[i]].rank
              \/ \E j \in 1 .. i - 1 : plan'[j] = d
    BY <1>1, <1>3, <2>1, GatheredIsSorted
  <2>3. Planned' = DOMAIN work
    <3>1. \A i \in DOMAIN work : work[i] \in Item
      BY <1>1, PlanType
    <3>2. \A i \in DOMAIN work : work[i].rank \in 0 .. 2
      BY <3>1, RanksAssumption DEF Item
    <3>3. {i \in DOMAIN work : work[i].rank < 3} = DOMAIN work
      BY <3>2
    <3>4. Planned' = {i \in DOMAIN work : work[i].rank < 3}
      BY <1>3, <2>2
    <3> QED BY <3>3, <3>4
  <2>4. EveryItemOnce' /\ DependenciesFirst'
    <3>1. Len(plan') = Cardinality(DOMAIN work)
      BY <2>2, <2>3
    <3>2. EveryItemOnce'
      BY <2>1, <2>3, <2>9, <3>1 DEF EveryItemOnce
    <3>3. DependenciesFirst'
      BY <2>1, <2>9 DEF DependenciesFirst
    <3> QED BY <3>2, <3>3
  <2>5. \A S \in SUBSET DOMAIN work : ~Cyclic(work, S)
    BY <1>1, <1>3, CompleteIsAcyclic
  <2>6. CycleVerdict'
    BY <2>1, <2>5 DEF CycleVerdict, Cyclic, Predecessors, Nodes
  <2>7. TypeOK'
    BY <2>1, <2>2 DEF IInv, TypeOK
  <2>8. Admitted'
    BY <1>1, <2>1 DEF IInv, Admitted, Admissible
  <2> QED
    BY <2>1, <2>4, <2>6, <2>7, <2>8
    DEF IInv, IndegreeCounts, OutputOnce, OutputClosed, NoCycleVisited, PlanSoFar
<1>4. CASE ~Incomplete /\ pass # 3
  <2>1. /\ status' = status /\ work' = work /\ plan' = Gathered
        /\ StartPass(work, pass + 1)
    BY <1>4 DEF EndPass
  <2>2. pass + 1 \in 0 .. 3
    BY <1>1, <1>4
  <2>3. /\ pass' = pass + 1
        /\ indegree' \in [Nodes(work, pass + 1) -> Nat]
        /\ ready' \in SUBSET Nodes(work, pass + 1)
        /\ output' = << >>
        /\ IndegreeCounts' /\ OutputOnce' /\ OutputClosed'
    BY <1>1, <2>1, <2>2, PassStarts
  <2>4. /\ plan' \in Seq(DOMAIN work)
        /\ Planned' = {i \in DOMAIN work : work[i].rank < pass}
        /\ Len(plan') = Cardinality(Planned')
        /\ \A i, j \in DOMAIN plan' :
              i < j => work[plan'[i]].rank <= work[plan'[j]].rank
        /\ \A i \in DOMAIN plan' : \A d \in work[plan'[i]].dependsOn :
              \/ work[plan'[i]].lag > 0 /\ work[d].rank = work[plan'[i]].rank
              \/ \E j \in 1 .. i - 1 : plan'[j] = d
    BY <1>1, <1>4, <2>1, GatheredIsSorted
  <2>5. TypeOK'
    <3>1. output' \in Seq(Nodes(work, pass + 1))
      BY <2>3, EmptySeq
    <3> QED BY <1>1, <2>1, <2>2, <2>3, <2>4, <3>1 DEF TypeOK
  <2>6. PlanSoFar'
    <3>1. pass' - 1 = pass
      BY <1>1, <2>3
    <3> QED BY <2>1, <2>4, <3>1 DEF PlanSoFar
  <2>7. NoCycleVisited'
    <3>1. \A S \in SUBSET DOMAIN work : ~Cyclic(work, S)
      BY <1>1, <1>4, CompleteIsAcyclic
    <3> QED BY <2>1, <3>1 DEF NoCycleVisited, Cyclic, Predecessors, Nodes
  <2>8. Admitted'
    BY <1>1, <2>1 DEF IInv, Admitted, Admissible
  <2>9. DependenciesFirst' /\ EveryItemOnce' /\ CycleVerdict'
    BY <1>1, <2>1 DEF DependenciesFirst, EveryItemOnce, CycleVerdict
  <2> QED BY <2>3, <2>5, <2>6, <2>7, <2>8, <2>9 DEF IInv
<1> QED BY <1>2, <1>3, <1>4

-----------------------------------------------------------------------------
(* Entering and leaving *)

\* A call that is idle, refused or over satisfies the invariant if its frame
\* is typed and its verdict right.
LEMMA NothingUnderWay ==
    ASSUME TypeOK, status \in {"idle", "rejected"}
    PROVE  IInv
BY DEF IInv, Admitted, IndegreeCounts, OutputOnce, OutputClosed, NoCycleVisited,
       PlanSoFar, DependenciesFirst, EveryItemOnce, CycleVerdict

\* Submitting work preserves the invariant.
LEMMA SubmitPreserves ==
    ASSUME IInv, status = "idle", NEW w \in Plans, NEW malformed \in BOOLEAN,
           Submit(w, malformed)
    PROVE  IInv'
<1>1. CASE malformed \/ ~Admissible(w)
  <2>1. /\ status' = "rejected"
        /\ UNCHANGED <<work, pass, indegree, ready, output, plan>>
    BY <1>1 DEF Submit
  <2>2. TypeOK'
    BY <2>1 DEF IInv, TypeOK
  <2> QED
    BY <2>1, <2>2
    DEF IInv, Admitted, IndegreeCounts, OutputOnce, OutputClosed, NoCycleVisited,
        PlanSoFar, DependenciesFirst, EveryItemOnce, CycleVerdict
<1>2. CASE ~malformed /\ Admissible(w)
  <2>1. /\ status' = "ordering" /\ work' = w /\ plan' = << >>
        /\ StartPass(w, 0)
    BY <1>2 DEF Submit
  <2>2. /\ pass' = 0
        /\ indegree' \in [Nodes(w, 0) -> Nat]
        /\ ready' \in SUBSET Nodes(w, 0)
        /\ output' = << >> /\ Placed' = {}
        /\ IndegreeCounts' /\ OutputOnce' /\ OutputClosed'
    BY <2>1, PassStarts
  <2>3. TypeOK'
    <3>1. output' \in Seq(Nodes(w, 0)) /\ plan' \in Seq(DOMAIN w)
      BY <2>1, <2>2, EmptySeq
    <3> QED BY <2>1, <2>2, <3>1 DEF TypeOK
  <2>4. Admitted'
    BY <1>2, <2>1 DEF Admitted, Admissible
  <2>5. NoCycleVisited'
    BY <2>1, <2>2 DEF NoCycleVisited
  <2>6. PlanSoFar'
    <3>1. DOMAIN plan' = {} /\ Len(plan') = 0
      BY <2>1, EmptySeq
    <3>2. Planned' = {}
      BY <3>1 DEF Planned
    <3>3. {i \in DOMAIN w : w[i].rank < 0 - 1} = {}
      BY PlanType, RanksAssumption DEF Item
    <3> QED BY <2>1, <2>2, <3>1, <3>2, <3>3, FS_EmptySet DEF PlanSoFar
  <2>7. DependenciesFirst' /\ EveryItemOnce' /\ CycleVerdict'
    BY <2>1 DEF DependenciesFirst, EveryItemOnce, CycleVerdict
  <2> QED BY <2>2, <2>3, <2>4, <2>5, <2>6, <2>7 DEF IInv
<1> QED BY <1>1, <1>2

\* The initial frame, which is also the one a call leaves behind, is typed.
LEMMA InitTyped ==
    Init => TypeOK
BY EmptyPlan, EmptySeq DEF Init, TypeOK

LEMMA ReturnPreserves ==
    ASSUME IInv, Return
    PROVE  IInv'
<1>1. /\ work' = << >> /\ pass' = 0 /\ indegree' = << >> /\ ready' = {}
      /\ output' = << >> /\ plan' = << >> /\ status' = "idle"
  BY DEF Return
<1>2. TypeOK'
  BY <1>1, EmptyPlan, EmptySeq DEF TypeOK
<1> QED
  BY <1>1, <1>2
  DEF IInv, Admitted, IndegreeCounts, OutputOnce, OutputClosed, NoCycleVisited,
      PlanSoFar, DependenciesFirst, EveryItemOnce, CycleVerdict

-----------------------------------------------------------------------------
\* IInv holds initially and every step of orderWork preserves it.
THEOREM Inductive == Spec => []IInv
<1>1. Init => IInv
  BY InitTyped, NothingUnderWay DEF Init
<1>2. IInv /\ [Next]_vars => IInv'
  <2> SUFFICES ASSUME IInv, [Next]_vars PROVE IInv'
    OBVIOUS
  <2>1. CASE status = "idle" /\ \E w \in Plans, malformed \in BOOLEAN : Submit(w, malformed)
    BY <2>1, SubmitPreserves
  <2>2. CASE \E n \in Ids : Visit(n)
    BY <2>2, VisitPreserves
  <2>3. CASE EndPass
    BY <2>3, EndPassPreserves
  <2>4. CASE Return
    BY <2>4, ReturnPreserves
  <2>5. CASE UNCHANGED vars
    <3>1. UNCHANGED <<work, pass, indegree, ready, output, plan, status>>
      BY <2>5 DEF vars
    <3>2. TypeOK' /\ Admitted'
      BY <3>1 DEF IInv, TypeOK, Admitted, Admissible, Nodes
    <3>3. IndegreeCounts' /\ OutputOnce' /\ OutputClosed'
      <4>1. Placed' = Placed
        BY <3>1 DEF Placed
      <4>2. IndegreeCounts'
        BY <3>1, <4>1 DEF IInv, IndegreeCounts
      <4>3. OutputOnce'
        BY <3>1, <4>1 DEF IInv, OutputOnce
      <4>4. OutputClosed'
        BY <3>1, <4>1 DEF IInv, OutputClosed
      <4> QED BY <4>2, <4>3, <4>4
    <3>4. NoCycleVisited' /\ CycleVerdict'
      <4>1. Placed' = Placed
        BY <3>1 DEF Placed
      <4> QED BY <3>1, <4>1 DEF IInv, NoCycleVisited, CycleVerdict
    <3>5. PlanSoFar' /\ EveryItemOnce'
      BY <3>1 DEF IInv, PlanSoFar, EveryItemOnce, Planned
    <3>6. DependenciesFirst'
      BY <3>1 DEF IInv, DependenciesFirst
    <3> QED BY <3>2, <3>3, <3>4, <3>5, <3>6 DEF IInv
  <2> QED BY <2>1, <2>2, <2>3, <2>4, <2>5 DEF Next
<1> QED BY <1>1, <1>2, PTL DEF Spec

-----------------------------------------------------------------------------
(* The order is the least one *)

LEMMA VisitGreedy ==
    ASSUME IInv, Greedy, NEW n, Visit(n)
    PROVE  Greedy'
<1>1. /\ status = "ordering" /\ status' = status
      /\ work' = work /\ pass' = pass /\ plan' = plan
      /\ n \in ready /\ \A m \in ready : n <= m
  BY DEF Visit, IsFirst
<1>2. /\ DOMAIN output' = 1 .. Len(output) + 1
      /\ \A i \in DOMAIN output : output'[i] = output[i]
      /\ output'[Len(output) + 1] = n
  BY VisitPlaces
<1>3. DOMAIN output = 1 .. Len(output) /\ Len(output) \in Nat
  BY LenProperties DEF IInv, TypeOK
<1>4. PlanGreedy'
  BY <1>1 DEF Greedy, PlanGreedy, Candidate
<1>5. OutputGreedy'
  <2> SUFFICES ASSUME NEW i \in DOMAIN output', NEW m \in Nodes(work, pass),
                      Candidate(output', i, m, Predecessors(work, pass, m))
               PROVE  output'[i] <= m
    BY <1>1 DEF OutputGreedy, Candidate
  <2>1. i \in Nat /\ \A j \in 1 .. i - 1 : j \in DOMAIN output /\ output'[j] = output[j]
    BY <1>2, <1>3
  <2>2. Candidate(output, i, m, Predecessors(work, pass, m))
    BY <2>1 DEF Candidate
  <2>3. CASE i \in DOMAIN output
    BY <1>1, <1>2, <2>2, <2>3 DEF Greedy, OutputGreedy
  <2>4. CASE i = Len(output) + 1
    <3>1. m \notin Placed
      BY <1>3, <2>2, <2>4 DEF Candidate, Placed
    <3>2. Predecessors(work, pass, m) \subseteq Placed
      BY <1>3, <2>2, <2>4 DEF Candidate, Placed
    <3>3. Predecessors(work, pass, m) \ Placed = {}
      BY <3>2
    <3>4. m \in ready
      BY <1>1, <3>1, <3>3, FS_EmptySet DEF IInv, IndegreeCounts
    <3> QED BY <1>1, <1>2, <2>4, <3>4
  <2> QED BY <1>2, <1>3, <2>3, <2>4
<1> QED BY <1>4, <1>5 DEF Greedy

LEMMA EndPassGreedy ==
    ASSUME IInv, Greedy, EndPass
    PROVE  Greedy'
<1>1. status = "ordering" /\ ready = {} /\ work \in Plans /\ pass \in 0 .. 3 /\ work' = work
  BY DEF EndPass, IInv, TypeOK
<1>2. CASE Incomplete
  <2>1. status' = "cyclic"
    BY <1>2 DEF EndPass
  <2> QED BY <2>1 DEF Greedy, OutputGreedy, PlanGreedy
<1>3. CASE ~Incomplete
  <2>1. plan' = Gathered
    BY <1>3 DEF EndPass
  <2>2. OutputGreedy'
    <3>1. CASE pass = 3
      BY <1>3, <3>1 DEF EndPass, OutputGreedy
    <3>2. CASE pass # 3
      <4>1. output' = << >>
        BY <1>3, <3>2 DEF EndPass, StartPass
      <4> QED BY <4>1 DEF OutputGreedy
    <3> QED BY <3>1, <3>2
  <2>3. /\ plan \in Seq(DOMAIN work) /\ output \in Seq(Nodes(work, pass))
        /\ Len(plan) \in Nat /\ Len(output) \in Nat
        /\ DOMAIN plan = 1 .. Len(plan) /\ DOMAIN output = 1 .. Len(output)
    BY LenProperties DEF IInv, TypeOK
  <2>4. CASE pass = 0
    <3>1. plan' = plan
      BY <2>1, <2>4 DEF Gathered
    <3> QED BY <1>1, <2>2, <3>1 DEF Greedy, PlanGreedy, Candidate
  <2>5. CASE pass # 0
    <3>1. Nodes(work, pass) = {i \in DOMAIN work : work[i].rank = pass - 1}
      BY <2>5 DEF Nodes
    <3>2. plan' = plan \o output /\ output \in Seq(DOMAIN work)
      BY <2>1, <2>3, <2>5, <3>1 DEF Gathered
    <3>3. /\ DOMAIN plan' = 1 .. Len(plan) + Len(output)
          /\ \A i \in 1 .. Len(plan) + Len(output) :
                plan'[i] = IF i <= Len(plan) THEN plan[i] ELSE output[i - Len(plan)]
      <4>1. /\ plan' \in Seq(DOMAIN work) /\ Len(plan') = Len(plan) + Len(output)
            /\ \A i \in 1 .. Len(plan) + Len(output) :
                  plan'[i] = IF i <= Len(plan) THEN plan[i] ELSE output[i - Len(plan)]
        BY <2>3, <3>2, ConcatProperties
      <4> QED BY <4>1, LenProperties
    <3>4. \A j \in DOMAIN plan : work[plan[j]].rank # pass - 1
      <4>1. \A j \in DOMAIN plan : plan[j] \in Planned
        BY DEF Planned
      <4>2. \A d \in DOMAIN work : work[d].rank \in Int
        BY <1>1, PlanType, RanksAssumption DEF Item
      <4> QED BY <1>1, <4>1, <4>2 DEF IInv, PlanSoFar
    <3>5. ASSUME NEW i \in DOMAIN plan', NEW n \in DOMAIN work,
                 work[n].rank = work[plan'[i]].rank,
                 Candidate(plan', i, n, Predecessors(work, 0, n))
          PROVE  plan'[i] <= n
      <4>1. CASE i \in DOMAIN plan
        <5>1. plan'[i] = plan[i] /\ \A j \in 1 .. i - 1 : plan'[j] = plan[j]
          BY <2>3, <3>3, <4>1
        <5>2. Candidate(plan, i, n, Predecessors(work, 0, n))
          BY <3>5, <5>1 DEF Candidate
        <5> QED BY <1>1, <3>5, <4>1, <5>1, <5>2 DEF Greedy, PlanGreedy
      <4>2. CASE i \notin DOMAIN plan
        <5> DEFINE k == i - Len(plan)
        <5>1. k \in DOMAIN output /\ plan'[i] = output[k] /\ i = Len(plan) + k
          BY <2>3, <3>3, <4>2
        <5>2. \A j \in 1 .. k - 1 : Len(plan) + j \in 1 .. i - 1 /\ plan'[Len(plan) + j] = output[j]
          <6> TAKE j \in 1 .. k - 1
          <6>1. /\ i \in Nat /\ k \in 1 .. Len(output) /\ i = Len(plan) + k
                /\ i \in 1 .. Len(plan) + Len(output)
            BY <2>3, <3>3, <5>1
          <6> HIDE DEF k
          <6>2. /\ Len(plan) + j \in 1 .. i - 1 /\ Len(plan) + j \in 1 .. Len(plan) + Len(output)
                /\ ~(Len(plan) + j <= Len(plan)) /\ (Len(plan) + j) - Len(plan) = j
            BY <2>3, <6>1
          <6> QED BY <3>3, <6>2
        <5>3. output[k] \in Nodes(work, pass)
          BY <2>3, <5>1
        <5>4. n \in Nodes(work, pass)
          BY <3>1, <3>5, <5>1, <5>3
        <5>5. \A j \in 1 .. k - 1 : output[j] # n
          BY <3>5, <5>2 DEF Candidate
        <5>6. ASSUME NEW d \in Predecessors(work, pass, n)
              PROVE  \E j \in 1 .. k - 1 : output[j] = d
          <6>1. d \in Predecessors(work, 0, n) /\ work[d].rank = pass - 1
            BY <3>1 DEF Predecessors, Nodes
          <6>2. PICK j \in 1 .. i - 1 : plan'[j] = d
            BY <3>5, <6>1 DEF Candidate
          <6>3. ASSUME j \in DOMAIN plan PROVE FALSE
            <7>1. plan'[j] = plan[j]
              BY <2>3, <3>3, <6>3
            <7> QED BY <3>4, <6>1, <6>2, <6>3, <7>1
          <6>4. j - Len(plan) \in 1 .. k - 1 /\ output[j - Len(plan)] = d
            BY <2>3, <3>3, <5>1, <6>2, <6>3
          <6> QED BY <6>4
        <5>7. Candidate(output, k, n, Predecessors(work, pass, n))
          BY <5>5, <5>6 DEF Candidate
        <5> QED BY <1>1, <5>1, <5>4, <5>7 DEF Greedy, OutputGreedy
      <4> QED BY <4>1, <4>2
    <3> QED BY <1>1, <2>2, <3>5 DEF Greedy, PlanGreedy
  <2> QED BY <2>4, <2>5
<1> QED BY <1>2, <1>3

LEMMA StartGreedy ==
    ASSUME NEW w \in Plans, NEW malformed \in BOOLEAN, Submit(w, malformed)
    PROVE  Greedy'
<1>1. CASE malformed \/ ~Admissible(w)
  BY <1>1 DEF Submit, Greedy, OutputGreedy, PlanGreedy
<1>2. CASE ~malformed /\ Admissible(w)
  <2>1. plan' = << >> /\ output' = << >>
    BY <1>2 DEF Submit, StartPass
  <2> QED BY <2>1 DEF Greedy, OutputGreedy, PlanGreedy
<1> QED BY <1>1, <1>2

LEMMA GreedyInvariance == Spec => []Greedy
<1>1. Init => Greedy
  BY DEF Init, Greedy, OutputGreedy, PlanGreedy
<1>2. IInv /\ Greedy /\ [Next]_vars => Greedy'
  <2> SUFFICES ASSUME IInv, Greedy, [Next]_vars PROVE Greedy'
    OBVIOUS
  <2>1. CASE status = "idle" /\ \E w \in Plans, malformed \in BOOLEAN : Submit(w, malformed)
    BY <2>1, StartGreedy
  <2>2. CASE \E n \in Ids : Visit(n)
    BY <2>2, VisitGreedy
  <2>3. CASE EndPass
    BY <2>3, EndPassGreedy
  <2>4. CASE Return
    BY <2>4 DEF Return, Greedy, OutputGreedy, PlanGreedy
  <2>5. CASE UNCHANGED vars
    BY <2>5 DEF vars, Greedy, OutputGreedy, PlanGreedy, Candidate
  <2> QED BY <2>1, <2>2, <2>3, <2>4, <2>5 DEF Next
<1> QED BY <1>1, <1>2, Inductive, PTL DEF Spec

\* A nonempty set of natural numbers has a least member.
LEMMA LeastMember ==
    ASSUME NEW T \in SUBSET Nat, T # {}
    PROVE  \E x \in T : \A y \in T : x <= y
<1> DEFINE R == OpToRel(<, Nat)
<1>1. \A x, y \in Nat : <<y, x>> \in R <=> y < x
  BY DEF OpToRel
<1>2. IsWellFoundedOn(R, Nat)
  BY NatLessThanWellFounded
<1> HIDE DEF R
<1>3. PICK x \in T : \A y \in T : ~ (<<y, x>> \in R)
  BY <1>2, WFMin
<1>4. \A y \in T : x <= y
  <2> TAKE y \in T
  <2>1. ~(y < x)
    BY <1>1, <1>3
  <2> QED BY <2>1
<1> QED BY <1>4

\* An order of all the work names every item.
LEMMA OrderIsOnto ==
    ASSUME NEW w \in Plans, NEW q \in Orders(w)
    PROVE  \A n \in DOMAIN w : \E i \in DOMAIN q : q[i] = n
<1> DEFINE N == Cardinality(DOMAIN w)
<1>1. IsFiniteSet(DOMAIN w) /\ N \in Nat
  BY PlanType, FS_CardinalityType
<1>2. q \in [1 .. N -> DOMAIN w] /\ \A i, j \in 1 .. N : i < j => q[i] # q[j]
  BY DEF Orders
<1>3. q \in Injection(1 .. N, DOMAIN w)
  <2>1. \A i, j \in 1 .. N : i < j \/ j < i \/ i = j
    BY <1>1
  <2> QED BY <1>2, <2>1 DEF Injection, IsInjective
<1>4. Cardinality(1 .. N) = N
  BY <1>1, FS_Interval
<1>5. q \in Surjection(1 .. N, DOMAIN w)
  BY <1>1, <1>3, <1>4, FS_Injection
<1> QED BY <1>2, <1>5 DEF Surjection

\* Where an admissible order leaves the plan, the item it takes could have been taken
\* by the plan: it has the barrier of the plan's item, since neither order goes back to
\* an earlier barrier, and all it waits for is in the common beginning.
LEMMA FirstDifference ==
    ASSUME IInv, PlanGreedy, status = "ordered", NEW q \in Orders(work),
           NEW k \in DOMAIN plan, plan[k] # q[k], \A i \in 1 .. k - 1 : plan[i] = q[i]
    PROVE  plan[k] < q[k]
<1>1. /\ work \in Plans /\ plan \in Seq(DOMAIN work)
      /\ Planned = DOMAIN work /\ Len(plan) = Cardinality(DOMAIN work)
      /\ \A i, j \in DOMAIN plan : i < j => work[plan[i]].rank <= work[plan[j]].rank
  BY DEF IInv, TypeOK, EveryItemOnce
<1>2. /\ DOMAIN plan = 1 .. Len(plan) /\ Len(plan) \in Nat
      /\ \A i \in DOMAIN plan : plan[i] \in DOMAIN work
  BY <1>1, LenProperties
<1>3. /\ q \in [1 .. Len(plan) -> DOMAIN work] /\ DOMAIN q = DOMAIN plan
      /\ \A i, j \in DOMAIN plan : i < j =>
            /\ q[i] # q[j] /\ work[q[i]].rank <= work[q[j]].rank
            /\ q[j] \notin Predecessors(work, 0, q[i])
      /\ \A i \in DOMAIN plan : q[i] \notin Predecessors(work, 0, q[i])
  BY <1>1, <1>2 DEF Orders
<1>0. \A n \in DOMAIN work : \E i \in DOMAIN plan : q[i] = n
  <2>1. \A n \in DOMAIN work : \E i \in DOMAIN q : q[i] = n
    BY <1>1, OrderIsOnto
  <2> QED BY <1>3, <2>1
<1>4. \A n \in DOMAIN work : n \in Nat /\ work[n].rank \in Int
  BY <1>1, PlanType, IdsAssumption, RanksAssumption DEF Item
<1>5. q[k] \in DOMAIN work /\ plan[k] \in DOMAIN work /\ k \in Nat
  BY <1>2, <1>3
<1>6. \A j \in 1 .. k - 1 : plan[j] # q[k]
  BY <1>2, <1>3
<1>7. work[plan[k]].rank <= work[q[k]].rank
  <2>1. PICK j \in DOMAIN plan : plan[j] = q[k]
    BY <1>1, <1>5 DEF Planned
  <2>2. k < j
    BY <1>2, <1>6, <2>1
  <2> QED BY <1>1, <2>1, <2>2
<1>8. work[q[k]].rank <= work[plan[k]].rank
  <2>1. PICK j \in DOMAIN plan : q[j] = plan[k]
    BY <1>0, <1>5
  <2>2. \A i \in 1 .. k - 1 : plan[i] # plan[k]
    <3>1. ASSUME NEW i \in 1 .. k - 1, plan[i] = plan[k] PROVE FALSE
      <4>1. \A a, b \in DOMAIN plan : a # b => plan[a] # plan[b]
        <5>1. plan \in Surjection(1 .. Len(plan), DOMAIN work)
          BY <1>1, <1>2 DEF Surjection, Planned
        <5>2. IsFiniteSet(1 .. Len(plan)) /\ Cardinality(1 .. Len(plan)) = Len(plan)
          <6>1. 1 \in Int /\ Len(plan) \in Int /\ Len(plan) - 1 + 1 = Len(plan)
                /\ (1 > Len(plan) => Len(plan) = 0)
            BY <1>2
          <6>2. /\ IsFiniteSet(1 .. Len(plan))
                /\ Cardinality(1 .. Len(plan)) = IF 1 > Len(plan) THEN 0 ELSE Len(plan) - 1 + 1
            BY <6>1, FS_Interval
          <6> QED BY <6>1, <6>2
        <5>3. plan \in Injection(1 .. Len(plan), DOMAIN work)
          BY <1>1, <5>1, <5>2, FS_SurjSameCardinalityImpliesInj
        <5> QED BY <5>3, <1>2 DEF Injection, IsInjective
      <4> QED BY <1>2, <3>1, <4>1
    <3> QED BY <3>1
  <2>3. ~(j < k)
    BY <1>2, <2>1, <2>2
  <2>4. k < j
    BY <1>2, <2>1, <2>3
  <2> QED BY <1>3, <2>1, <2>4
<1>9. work[q[k]].rank = work[plan[k]].rank
  BY <1>4, <1>5, <1>7, <1>8
<1>10. ASSUME NEW d \in Predecessors(work, 0, q[k])
       PROVE  \E j \in 1 .. k - 1 : plan[j] = d
  <2>1. d \in DOMAIN work
    BY DEF Predecessors, Nodes
  <2>2. PICK j \in DOMAIN plan : q[j] = d
    BY <1>0, <2>1
  <2>3. ~(k < j) /\ k # j
    BY <1>3, <2>2
  <2>4. j \in 1 .. k - 1
    BY <1>2, <2>2, <2>3
  <2> QED BY <2>2, <2>4
<1>11. Candidate(plan, k, q[k], Predecessors(work, 0, q[k]))
  BY <1>6, <1>10 DEF Candidate
<1>12. plan[k] <= q[k]
  BY <1>5, <1>9, <1>11 DEF PlanGreedy
<1> QED BY <1>4, <1>5, <1>12

\* The types hold for every set of ids, barriers and lags.
THEOREM TypeCorrect == Spec => []TypeOK
BY Inductive, PTL DEF IInv

\* The counters and the ready list of topologicalOrder are right at every turn
\* of its loop.
THEOREM CountersAreRight == Spec => []IndegreeCounts
BY Inductive, PTL DEF IInv

\* Work runs after what it depends on.
THEOREM PlanRespectsDependencies == Spec => []DependenciesFirst
BY Inductive, PTL DEF IInv

\* Work runs once, and one barrier after the other.
THEOREM PlanIsComplete == Spec => []EveryItemOnce
BY Inductive, PTL DEF IInv

\* A cycle is reported when there is one, and only then, and by the first sort.
THEOREM VerdictIsExact == Spec => []CycleVerdict
BY Inductive, PTL DEF IInv

\* The plan is whole, and the first, by ids, of all the orders that keep barriers and zero-lag
\* dependencies, whichever way the caller listed the work (orderWork, topologicalOrder).
THEOREM PlanIsLeast == Spec => []LeastOrder
<1>1. IInv /\ Greedy => LeastOrder
  <2> SUFFICES ASSUME IInv, Greedy, status = "ordered", NEW q \in Orders(work)
               PROVE  Precedes(plan, q)
    BY DEF LeastOrder, IInv
  <2> DEFINE D == {i \in DOMAIN plan : plan[i] # q[i]}
  <2>1. /\ plan \in Seq(DOMAIN work) /\ Len(plan) = Cardinality(DOMAIN work)
        /\ DOMAIN plan = 1 .. Len(plan) /\ Len(plan) \in Nat
    BY LenProperties DEF IInv, TypeOK, EveryItemOnce
  <2>2. q \in [DOMAIN plan -> DOMAIN work]
    BY <2>1 DEF Orders
  <2>3. CASE D = {}
    <3>1. plan \in [DOMAIN plan -> DOMAIN work]
      BY <2>1
    <3>2. plan = q
      BY <2>2, <2>3, <3>1
    <3> QED BY <3>2 DEF Precedes
  <2>4. CASE D # {}
    <3>1. PICK k \in D : \A i \in D : k <= i
      <4>1. D \in SUBSET Nat
        BY <2>1
      <4> QED BY <2>4, <4>1, LeastMember
    <3>2. k \in DOMAIN plan /\ plan[k] # q[k] /\ k \in Nat
      BY <2>1
    <3>3. \A i \in 1 .. k - 1 : plan[i] = q[i]
      BY <2>1, <3>1, <3>2
    <3>4. plan[k] < q[k]
      BY <3>2, <3>3, FirstDifference DEF Greedy
    <3> QED BY <3>2, <3>3, <3>4 DEF Precedes
  <2> QED BY <2>3, <2>4
<1> QED BY <1>1, Inductive, GreedyInvariance, PTL
=============================================================================
