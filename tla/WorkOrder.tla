------------------------------- MODULE WorkOrder -------------------------------
(***************************************************************************)
(* How the work of one simulated period is put in order: the checks and    *)
(* the four topological sorts of orderWork (simulation/period.ts), each of *)
(* them the loop of DependencyGraph.topologicalOrder                       *)
(* (dependencies/index.ts), one visited node per step.                     *)
(*                                                                         *)
(* The first pass sorts all the work and is there for its verdict only.    *)
(* The following three sort one semantic barrier each (primitive, semantic *)
(* and diagnostic work, in this order) and their outputs, one after the    *)
(* other, are the plan.  A dependency of lagged work orders nothing: it    *)
(* reads the state of an earlier period.                                   *)
(*                                                                         *)
(* Ids are natural numbers; < on them is the order of the ids as strings.  *)
(***************************************************************************)
EXTENDS Integers, Sequences, FiniteSets

CONSTANTS
    Ids,     \* the ids work may have, and dependencies may name
    Ranks,   \* the barriers in use, among 0 (primitive), 1 (semantic), 2 (diagnostic)
    Lags     \* the lags in use, in periods

ASSUME IdsAssumption == Ids \subseteq Nat /\ IsFiniteSet(Ids)
ASSUME RanksAssumption == Ranks \subseteq 0 .. 2
ASSUME LagsAssumption == Lags \subseteq Nat

VARIABLES
    work,      \* id -> the work item of this id
    pass,      \* 0 while all the work is sorted, r + 1 while barrier r is
    indegree,  \* node of the pass -> zero-lag predecessors not visited yet
    ready,     \* the sorted list of nodes that wait for nothing, as a set
    output,    \* the nodes this pass visited, in order
    plan,      \* the outputs of the finished barriers
    status     \* idle, ordering, ordered, or the error thrown: rejected, cyclic

vars == <<work, pass, indegree, ready, output, plan, status>>

Item == [rank : Ranks, dependsOn : SUBSET Ids, lag : Lags]

Plans == UNION {[ids -> Item] : ids \in SUBSET Ids}

-----------------------------------------------------------------------------
(* The graph of a pass. *)

Nodes(w, p) == {i \in DOMAIN w : p = 0 \/ w[i].rank = p - 1}

Predecessors(w, p, n) ==
    {d \in Nodes(w, p) : d \in w[n].dependsOn /\ w[n].lag = 0}

\* Variant: a lagged dependency is not checked against the barriers.
AdmissibleUnlagged(w) ==
    \A i \in DOMAIN w : \A d \in w[i].dependsOn :
        /\ d \in DOMAIN w
        /\ w[i].lag = 0 => w[d].rank <= w[i].rank

\* Every dependency is there, and none belongs to a later barrier: not even a
\* lagged one.
Admissible(w) ==
    \A i \in DOMAIN w : \A d \in w[i].dependsOn :
        /\ d \in DOMAIN w
        /\ w[d].rank <= w[i].rank

-----------------------------------------------------------------------------
Init ==
    /\ work = << >>
    /\ pass = 0
    /\ indegree = << >>
    /\ ready = {}
    /\ output = << >>
    /\ plan = << >>
    /\ status = "idle"

StartPass(w, p) ==
    LET waits == [n \in Nodes(w, p) |-> Cardinality(Predecessors(w, p, n))]
    IN  /\ pass' = p
        /\ indegree' = waits
        /\ ready' = {n \in Nodes(w, p) : waits[n] = 0}
        /\ output' = << >>

\* A list with an empty or a repeated id, or with an illegal lag, is malformed:
\* w has one item under each id, so it does not show this.
Submit(w, malformed) ==
    IF malformed \/ ~Admissible(w)
    THEN /\ status' = "rejected"
         /\ UNCHANGED <<work, pass, indegree, ready, output, plan>>
    ELSE /\ status' = "ordering"
         /\ work' = w
         /\ plan' = << >>
         /\ StartPass(w, 0)

Targets(n) == {t \in Nodes(work, pass) : n \in Predecessors(work, pass, t)}

\* Variant: a list sorted the wrong way.
IsLargest(n) == n \in ready /\ \A m \in ready : n >= m

\* The head of the sorted list.
IsFirst(n) == n \in ready /\ \A m \in ready : n <= m

Decremented(n) ==
    [t \in DOMAIN indegree |->
        IF t \in Targets(n) THEN indegree[t] - 1 ELSE indegree[t]]

\* Variant: the node visited stays in the list.
ReleasedUnshifted(n) == ready \cup {t \in Targets(n) : indegree[t] = 1}

Released(n) == (ready \ {n}) \cup {t \in Targets(n) : indegree[t] = 1}

Visit(n) ==
    /\ status = "ordering"
    /\ IsFirst(n)
    /\ output' = Append(output, n)
    /\ indegree' = Decremented(n)
    /\ ready' = Released(n)
    /\ UNCHANGED <<work, pass, plan, status>>

\* Variant: only an order with nothing in it is taken for a cycle.
IncompleteIfEmpty == output = << >> /\ DOMAIN indegree # {}

Incomplete == Len(output) # Cardinality(DOMAIN indegree)

\* The order of all the work is dropped, those of the barriers make the plan.
Gathered == IF pass = 0 THEN plan ELSE plan \o output

EndPass ==
    /\ status = "ordering"
    /\ ready = {}
    /\ IF Incomplete
       THEN /\ status' = "cyclic"
            /\ UNCHANGED <<work, pass, indegree, ready, output, plan>>
       ELSE /\ plan' = Gathered
            /\ IF pass = 3
               THEN /\ status' = "ordered"
                    /\ UNCHANGED <<pass, indegree, ready, output>>
               ELSE /\ StartPass(work, pass + 1)
                    /\ UNCHANGED status
            /\ UNCHANGED work

\* The caller has its plan, or the error; the graph was the call's own.
Return ==
    /\ status \in {"ordered", "rejected", "cyclic"}
    /\ status' = "idle"
    /\ work' = << >>
    /\ pass' = 0
    /\ indegree' = << >>
    /\ ready' = {}
    /\ output' = << >>
    /\ plan' = << >>

Next ==
    \/ status = "idle" /\ \E w \in Plans, malformed \in BOOLEAN : Submit(w, malformed)
    \/ \E n \in Ids : Visit(n)
    \/ EndPass
    \/ Return

Spec == Init /\ [][Next]_vars

-----------------------------------------------------------------------------
Placed == {output[i] : i \in DOMAIN output}
Planned == {plan[i] : i \in DOMAIN plan}

TypeOK ==
    /\ work \in Plans
    /\ pass \in 0 .. 3
    /\ indegree \in [Nodes(work, pass) -> Nat]
    /\ ready \in SUBSET Nodes(work, pass)
    /\ output \in Seq(Nodes(work, pass))
    /\ plan \in Seq(DOMAIN work)
    /\ status \in {"idle", "ordering", "ordered", "rejected", "cyclic"}

\* While the loop runs, a node's counter is the number of its predecessors it
\* still waits for, and the list holds exactly the unvisited nodes that wait
\* for none: topologicalOrder keeps both by hand, one edge at a time.
IndegreeCounts ==
    status = "ordering" =>
        /\ \A n \in Nodes(work, pass) :
              indegree[n] = Cardinality(Predecessors(work, pass, n) \ Placed)
        /\ ready = {n \in Nodes(work, pass) \ Placed : indegree[n] = 0}

\* In the plan orderWork returns, an item comes after every item it depends on,
\* unless it reads that one with a lag from inside its own barrier.
DependenciesFirst ==
    status = "ordered" =>
        \A i \in DOMAIN plan : \A d \in work[plan[i]].dependsOn :
            \/ work[plan[i]].lag > 0 /\ work[d].rank = work[plan[i]].rank
            \/ \E j \in 1 .. i - 1 : plan[j] = d

\* The plan executes every item once, and barriers in their order: no
\* semantic work before the last primitive, no diagnostic before the last
\* semantic work, whatever depends on what.
EveryItemOnce ==
    status = "ordered" =>
        /\ Planned = DOMAIN work
        /\ Len(plan) = Cardinality(DOMAIN work)
        /\ \A i, j \in DOMAIN plan : i < j => work[plan[i]].rank <= work[plan[j]].rank

\* Items that wait for one another, some of them for ever.
Cyclic(w, S) ==
    /\ S # {}
    /\ \A n \in S : \E m \in S : m \in Predecessors(w, 0, n)

\* "Invalid zero-lag dependency cycle" is thrown when there is a cycle and only
\* then, and it is the first sort that finds it: the sorts of the barriers,
\* which see fewer edges, cannot fail once the first has passed.
CycleVerdict ==
    LET cyclic == \E S \in SUBSET DOMAIN work : Cyclic(work, S)
    IN  /\ status = "cyclic" => pass = 0 /\ cyclic
        /\ status = "ordered" => ~cyclic

-----------------------------------------------------------------------------
\* Every order that keeps barriers and zero-lag dependencies.
Orders(w) ==
    {q \in [1 .. Cardinality(DOMAIN w) -> DOMAIN w] :
        /\ \A i, j \in DOMAIN q : i < j =>
              /\ q[i] # q[j]
              /\ w[q[i]].rank <= w[q[j]].rank
              /\ q[j] \notin Predecessors(w, 0, q[i])
        /\ \A i \in DOMAIN q : q[i] \notin Predecessors(w, 0, q[i])}

Precedes(p, q) ==
    \/ p = q
    \/ \E k \in DOMAIN p : p[k] < q[k] /\ \A i \in 1 .. k - 1 : p[i] = q[i]

\* The plan is whole, and the first, in the order of ids, of all the admissible ones: it
\* depends on the work and not on how the caller listed it, which is what lets
\* the fingerprint of a run sort the work by id.
LeastOrder ==
    /\ EveryItemOnce
    /\ status = "ordered" => \A q \in Orders(work) : Precedes(plan, q)
=============================================================================
