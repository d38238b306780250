------------------------------- MODULE Contention ------------------------------
(***************************************************************************)
(* How the household execution orders the work of one instant              *)
(* (simulation/householdExecution.ts, r3/ordering.ts, r3/reachableStates.ts, *)
(* r3/commutativity.ts and intraperiodScheduler.ts).                       *)
(*                                                                         *)
(* Work of different domains that needs the same cash contends.  Each      *)
(* connected group of contenders is tried in every order its declared      *)
(* dependencies allow; if the outcomes differ, the household's policy must *)
(* settle the order, and without one the month is refused.  Ids break the  *)
(* ties that are left.                                                     *)
(***************************************************************************)
EXTENDS HouseholdWork

\* The pairs connected by a path along a set of edges, by way of elements of S.
Reaches(edges, S) ==
    LET through(k, paths) ==
            paths \cup {<<e[1], f[2]>> : e \in {p \in paths : p[2] = k},
                                        f \in {p \in paths : p[1] = k}}
    IN  FoldSet(through, edges, S)

\* Two works contend for an account if one of them takes cash from it.
HasShared(h, i, j) ==
    LET x == h.plan[i]
        y == h.plan[j]
    IN  /\ Domain[x.kind] # Domain[y.kind]
        /\ \/ Consumes(x) \cap Accesses(y) # {}
           \/ Accesses(x) \cap Consumes(y) # {}

\* The kinds a policy puts in order, directly or by way of others.
Precedence(policy) == Reaches(policy, {e[1] : e \in policy})

PolicyPrecedes(h, i, j) == <<h.plan[i].kind, h.plan[j].kind>> \in Precedence(h.policy)

\* A policy with a rule inside a domain or a cycle, or against an explicit dependency
\* between domains, is refused before anything of the month executes.
PolicyInvalid(h, edges) ==
    \/ \E e \in h.policy : Domain[e[1]] = Domain[e[2]]
    \/ \E e \in h.policy : <<e[1], e[1]>> \in Precedence(h.policy)
    \/ \E e \in edges :
          /\ Domain[h.plan[e[1]].kind] # Domain[h.plan[e[2]].kind]
          /\ PolicyPrecedes(h, e[2], e[1])
          /\ ~PolicyPrecedes(h, e[1], e[2])

\* The works of the instant that share cash with a work they are not ordered with.
Contenders(h, S, edges) ==
    LET before == Reaches(edges, S)
    IN  {i \in S : \E j \in S : HasShared(h, i, j) /\ {<<i, j>>, <<j, i>>} \cap before = {}}

\* The groups of contenders connected by shared cash.
Groups(h, contenders) ==
    LET linked == Reaches({e \in contenders \X contenders : HasShared(h, e[1], e[2])},
                          contenders)
    IN  {{j \in contenders : j = i \/ <<i, j>> \in linked} : i \in contenders}

\* Variant: a group is compared without its dependencies.
InsideNothing(edges, group) == {}

Inside(edges, group) == edges \cap (group \X group)

-----------------------------------------------------------------------------
(* Orders of a set of works.                                                *)

Ready(S, edges, done) ==
    {i \in S \ done : \A e \in edges : e[2] = i /\ e[1] \in S => e[1] \in done}

\* Variant: the order of ids alone.
FirstOrderById(S, edges) == SetToSortSeq(S, LAMBDA i, j : i < j)

\* The first order in ids the edges allow: the least ready work, again and again.
\* A cycle leaves it shorter than the set.
FirstOrder(S, edges) ==
    LET order[k \in 0..Cardinality(S)] ==
            IF k = 0 THEN <<>>
            ELSE LET prefix == order[k - 1]
                     ready == Ready(S, edges, Range(prefix))
                 IN  IF ready = {} THEN prefix ELSE Append(prefix, Min(ready))
    IN  order[Cardinality(S)]

Ordered(S, edges) == Len(FirstOrder(S, edges)) = Cardinality(S)

\* The state after the works of an order.
Execute(h, s, order) == FoldLeft(LAMBDA t, i : Step(h, t, i), s, order)

\* The states in which all of S is done in some order the edges allow.  Prefixes
\* with the same work done and the same state are one; a failed branch stays failed.
Outcomes(h, S, edges, s) ==
    LET reached[k \in 0..Cardinality(S)] ==
            IF k = 0 THEN {[done |-> {}, state |-> s]}
            ELSE UNION {{[done |-> p.done \cup {i}, state |-> Step(h, p.state, i)]
                         : i \in Ready(S, edges, p.done)} : p \in reached[k - 1]}
    IN  {p.state : p \in reached[Cardinality(S)]}

-----------------------------------------------------------------------------
(* The decision about one group.                                            *)

\* What the comparison sees of an outcome.  Both list postings book by book in the
\* order of execution.  The detailed execution lists funding outcomes domain by
\* domain, the summary one across domains, without the postings of extra principal.
Signature(h, tier, s) ==
    IF tier = "summary"
    THEN [s EXCEPT !.books["additional"] =
                       SelectSeq(@, LAMBDA entry : h.plan[entry.item].kind # "extra")]
    ELSE [s EXCEPT !.outcomes = <<>>]

\* The outcomes of a group's orders, each after the rest of the instant in id order.
Compared(h, s, S, group, edges, tier) ==
    LET rest == FirstOrder(S \ group, {})
    IN  {Signature(h, tier, Execute(h, t, rest)) : t \in Outcomes(h, group, edges, s)}

\* An income beside a service its first source covers in full, or a transfer inside
\* the pool of a service the whole pool cannot pay: every order does the same.
Commute(h, s, group) ==
    \E i, j \in group :
        /\ group = {i, j} /\ i # j /\ h.plan[j].kind = "required"
        /\ LET x == h.plan[i]
               y == h.plan[j]
           IN  \/ x.kind = "income" /\ s.cash[y.from[1]] >= Due(s, y)
               \/ /\ x.kind = "transfer" /\ Pool(s, y.from) < Due(s, y)
                  /\ {x.from[1], x.to} \subseteq Range(y.from)

\* The edges a decision adds, or why there is none.
Settled(edges) == [refusal |-> "none", edges |-> edges]
Refused(why) == [refusal |-> why, edges |-> {}]

\* A failing branch prevails over any policy; outcomes that differ need a policy
\* that leaves one, and its order is then fixed for the whole group.
Decide(h, s, S, group, edges, tier) ==
    LET policy == {e \in group \X group : e[1] # e[2] /\ PolicyPrecedes(h, e[1], e[2])}
        constrained == edges \cup policy
        chosen == FirstOrder(group, constrained)
        outcomes == Compared(h, s, S, group, edges, tier)
    IN  IF Commute(h, s, group) THEN Settled({})
        ELSE IF \E t \in outcomes : t.failed THEN Refused("failed")
        ELSE IF Cardinality(outcomes) = 1 THEN Settled({})
        ELSE IF ~Ordered(group, constrained) THEN Refused("policy_cycle")
        ELSE IF Cardinality(Compared(h, s, S, group, constrained, tier)) > 1
        THEN Refused("unresolved")
        ELSE Settled(policy \cup {<<chosen[k], chosen[k + 1]>> : k \in 1..(Len(chosen) - 1)})
=============================================================================
