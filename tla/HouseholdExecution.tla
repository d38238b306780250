--------------------------- MODULE HouseholdExecution --------------------------
(***************************************************************************)
(* The execution of a household month by month and the replay of a window  *)
(* of its forecast (simulation/householdExecution.ts).  A month is prepared *)
(* on a candidate of the committed state, its instants are sequenced and    *)
(* executed one after the other, and the candidate is committed as a whole  *)
(* or discarded with the month.  The forecast keeps a summary of every      *)
(* month and a checkpoint now and then; a replay executes the months of a   *)
(* window again, in detail, and must reproduce their summaries.             *)
(***************************************************************************)
EXTENDS Contention

CONSTANTS
    Households,       \* the households executed
    Months,           \* months of the horizon
    Instants,         \* instants of a month with work
    CheckpointEvery   \* months between two checkpoints of a forecast

ASSUME HouseholdsAssumption == \A h \in Households : IsHousehold(h)
ASSUME MonthsAssumption == Months \in Nat \ {0}
ASSUME InstantsAssumption == Instants \in Nat \ {0}
ASSUME CheckpointAssumption == CheckpointEvery \in Nat \ {0}

VARIABLES
    household,    \* the compiled household of the run
    mode,         \* "forecast" keeps summaries, "detail" and "replay" periods
    phase,        \* what the run does next, or how it ended
    refusal,      \* why the month was refused, "none" if it was not
    month,        \* the month under way
    instant,         \* its instant under way
    work,         \* what was prepared for the month
    groups,       \* the groups of contenders still to be decided
    edges,        \* the dependencies resolved so far for the instant
    queue,        \* the works of the instant still to execute, in order
    state,        \* the committed state
    cand,         \* the candidate state of the month
    periods,      \* the months this run retained
    forecast,     \* the summaries of the forecast a replay reproduces
    checkpoints,  \* the checkpoints of the forecast
    window        \* first and last month of the replay

vars == <<household, mode, phase, refusal, month, instant, work, groups, edges, queue, state,
          cand, periods, forecast, checkpoints, window>>
ordering == <<groups, edges, queue>>

Ended == {"completed", "incomplete", "verified", "mismatched"}

TypeOK ==
    /\ household \in Households
    /\ mode \in {"forecast", "detail", "replay"}
    /\ phase \in {"prepare", "sequence", "decide", "execute", "refused"} \cup Ended
    /\ refusal \in {"none", "invalid", "failed", "unresolved", "policy_cycle", "work_cycle"}
    /\ month \in 1..Months /\ instant \in 1..Instants
    /\ work \subseteq DOMAIN household.plan
    /\ queue \in Seq(work) /\ edges \subseteq work \X work /\ UNION groups \subseteq work
    /\ \A k \in DOMAIN periods : periods[k].month \in 1..Months
    /\ \A k \in DOMAIN forecast : forecast[k].month \in 1..Months
    /\ \A k \in DOMAIN checkpoints : checkpoints[k].month \in 1..(Months - 1)
    /\ window \in (1..Months) \X (1..Months)

-----------------------------------------------------------------------------

Tier == IF mode = "forecast" THEN "summary" ELSE "detail"

Init ==
    /\ household \in Households
    /\ mode \in {"forecast", "detail"}
    /\ phase = "prepare" /\ refusal = "none"
    /\ month = 1 /\ instant = 1 /\ work = {} /\ queue = <<>>
    /\ groups = {} /\ edges = {}
    /\ state = OpeningState(household) /\ cand = OpeningState(household)
    /\ periods = <<>> /\ forecast = <<>> /\ checkpoints = <<>>
    /\ window = <<1, Months>>

\* A month without an order for its cash items or with an invalid policy has no plan.
NoPlan(h, todo) ==
    \/ \E t \in 1..Instants : Unordered(h, At(h, todo, t))
    \/ PolicyInvalid(h, UNION {ExplicitEdges(h, At(h, todo, t)) : t \in 1..Instants})

\* Fork the committed state and prepare the month for it.
Prepare ==
    /\ phase = "prepare"
    /\ cand' = state
    /\ instant' = 1
    /\ work' = Prepared(household, month, state)
    /\ IF NoPlan(household, work')
       THEN phase' = "refused" /\ refusal' = "invalid"
       ELSE phase' = "sequence" /\ UNCHANGED refusal
    /\ UNCHANGED <<household, mode, month, ordering, state, periods, forecast,
                   checkpoints, window>>

\* What an instant begins with: no debt service is satisfied yet.
Opened(s) == [s EXCEPT !.satisfied = {}]

InstantWork == At(household, work, instant)

\* An instant begins with the dependencies its works declare.
Sequence ==
    /\ phase = "sequence"
    /\ cand' = Opened(cand)
    /\ edges' = ExplicitEdges(household, InstantWork)
    /\ groups' = Groups(household, Contenders(household, InstantWork, edges'))
    /\ phase' = "decide"
    /\ UNCHANGED <<household, mode, refusal, month, instant, work, queue, state, periods,
                   forecast, checkpoints, window>>

Refuse(why) ==
    phase' = "refused" /\ refusal' = why /\ groups' = {} /\ edges' = {} /\ UNCHANGED queue

\* The groups are decided from the first on; the first refusal ends the month.
DecideGroup ==
    /\ phase = "decide"
    /\ \E group \in groups :
          /\ \A other \in groups : Min(group) <= Min(other)
          /\ \E decision \in
                {Decide(household, cand, InstantWork, group, Inside(edges, group), Tier)} :
                IF decision.refusal = "none"
                THEN /\ groups' = groups \ {group} /\ edges' = edges \cup decision.edges
                     /\ UNCHANGED <<phase, refusal, queue>>
                ELSE Refuse(decision.refusal)
    /\ UNCHANGED <<household, mode, month, instant, work, state, cand, periods, forecast,
                   checkpoints, window>>

\* Ids order what the dependencies leave open; a cycle of them refuses the month.
OrderInstant ==
    /\ phase = "decide" /\ groups = {}
    /\ IF Ordered(InstantWork, edges)
       THEN /\ phase' = "execute" /\ queue' = FirstOrder(InstantWork, edges) /\ edges' = {}
            /\ UNCHANGED <<refusal, groups>>
       ELSE Refuse("work_cycle")
    /\ UNCHANGED <<household, mode, month, instant, work, state, cand, periods, forecast,
                   checkpoints, window>>

\* The next work; an operation that throws refuses the month.
ExecuteOperation ==
    /\ phase = "execute" /\ queue # <<>>
    /\ cand' = Step(household, cand, Head(queue))
    /\ IF cand'.failed
       THEN phase' = "refused" /\ refusal' = "failed" /\ queue' = <<>>
       ELSE queue' = Tail(queue) /\ UNCHANGED <<phase, refusal>>
    /\ UNCHANGED <<household, mode, month, instant, work, groups, edges, state, periods,
                   forecast, checkpoints, window>>

\* The instant is done, another follows.
NextInstant ==
    /\ phase = "execute" /\ queue = <<>> /\ instant < Instants
    /\ instant' = instant + 1
    /\ phase' = "sequence"
    /\ UNCHANGED <<household, mode, refusal, month, work, ordering, state, cand, periods,
                   forecast, checkpoints, window>>

-----------------------------------------------------------------------------
(* The end of a month.                                                      *)

\* What the next month inherits; what was posted belongs to this one.
Carried(s) ==
    [s EXCEPT !.satisfied = {}, !.books = [b \in Books |-> <<>>], !.outcomes = <<>>]

\* What a summary shows of a month.
Summary(s) == [month |-> month, end |-> Economics(s), books |-> s.books]

\* A checkpoint is the whole state with the runtime of the participants.
Checkpoint(s) == [month |-> month, state |-> s]

LastMonth == IF mode = "replay" THEN window[2] ELSE Months

\* Variant: the run goes on until it is past its last month.
CommitPastHorizon ==
    /\ phase = "execute" /\ queue = <<>> /\ instant = Instants
    /\ state' = Carried(cand)
    /\ periods' = Append(periods, Summary(cand))
    /\ IF month > LastMonth
       THEN phase' = "completed" /\ UNCHANGED month
       ELSE phase' = "prepare" /\ month' = month + 1
    /\ UNCHANGED <<household, mode, refusal, instant, work, ordering, cand, forecast, checkpoints,
                   window>>

\* The candidate becomes the state.  A replay retains the months of its window;
\* a forecast keeps a checkpoint of every CheckpointEvery-th month but the last.
Commit ==
    /\ phase = "execute" /\ queue = <<>> /\ instant = Instants
    /\ state' = Carried(cand)
    /\ periods' = IF mode = "replay" /\ month < window[1] THEN periods
                  ELSE Append(periods, Summary(cand))
    /\ checkpoints' = IF /\ mode = "forecast"
                         /\ (Len(periods) + 1) % CheckpointEvery = 0 /\ month < Months
                      THEN Append(checkpoints, Checkpoint(state'))
                      ELSE checkpoints
    /\ IF month = LastMonth
       THEN phase' = "completed" /\ UNCHANGED month
       ELSE phase' = "prepare" /\ month' = month + 1
    /\ UNCHANGED <<household, mode, refusal, instant, work, ordering, cand, forecast, window>>

\* Variant: the month's effects so far are kept.
AbortKeepsCandidate ==
    /\ phase = "refused"
    /\ state' = Carried(cand)
    /\ phase' = "incomplete"
    /\ UNCHANGED <<household, mode, refusal, month, instant, work, ordering, cand, periods,
                   forecast, checkpoints, window>>

\* A refused month is discarded with its candidate and ends the run.
Abort ==
    /\ phase = "refused"
    /\ phase' = "incomplete"
    /\ UNCHANGED <<household, mode, refusal, month, instant, work, ordering, state, cand, periods,
                   forecast, checkpoints, window>>

-----------------------------------------------------------------------------
(* Replay of a window of months the forecast committed.                     *)

\* Variant: the latest checkpoint that ends inside the window is resumed.
UsableInside(roots, first, last) == {k \in DOMAIN roots : roots[k].month <= last}

\* The checkpoints at or before the opening of the window.
Usable(roots, first, last) == {k \in DOMAIN roots : roots[k].month < first}

\* The last usable checkpoint is resumed.  A forecast that was transported may have
\* lost its checkpoints; it is replayed from the opening then.
StartReplay ==
    /\ mode = "forecast" /\ phase \in {"completed", "incomplete"}
    /\ \E first, last \in DOMAIN periods, roots \in {checkpoints, <<>>} :
          LET usable == Usable(roots, first, last)
              root == roots[Max(usable)]
          IN  /\ first <= last
              /\ window' = <<first, last>>
              /\ IF usable = {}
                 THEN month' = 1 /\ state' = OpeningState(household)
                 ELSE month' = root.month + 1 /\ state' = root.state
    /\ mode' = "replay" /\ phase' = "prepare" /\ refusal' = "none"
    /\ forecast' = periods /\ periods' = <<>>
    /\ UNCHANGED <<household, instant, work, ordering, cand, checkpoints>>

\* The months replayed must be those displayed, to the last figure.
Verify ==
    /\ mode = "replay" /\ phase \in {"completed", "incomplete"}
    /\ phase' = IF periods = SubSeq(forecast, window[1], window[2])
                THEN "verified" ELSE "mismatched"
    /\ UNCHANGED <<household, mode, refusal, month, instant, work, ordering, state, cand, periods,
                   forecast, checkpoints, window>>

Next ==
    \/ Prepare \/ Sequence \/ DecideGroup \/ OrderInstant
    \/ ExecuteOperation \/ NextInstant \/ Commit \/ Abort
    \/ StartReplay \/ Verify

Spec == Init /\ [][Next]_vars

-----------------------------------------------------------------------------
(* What the documents promise of the order in which cash is given out.      *)

\* Every pair the household's own contracts put in order: settlements of cash,
\* investments with a common target, debt by phase and priority, domain operations,
\* and contenders for cash by the policy.
Contract(h, S) ==
    {e \in S \X S :
        LET i == e[1]
            j == e[2]
            x == h.plan[i]
            y == h.plan[j]
            sameDomain == Domain[x.kind] = Domain[y.kind]
        IN  \/ sameDomain /\ Domain[x.kind] = "cash_flow" /\ i # j /\ CashPrecedes(h, i, j)
            \/ /\ sameDomain /\ Domain[x.kind] = "investments"
               /\ Range(Targets(x)) \cap Range(Targets(y)) # {}
               /\ x.order < y.order \/ (x.order = y.order /\ i < j)
            \/ x.kind = "required" /\ y.kind = "extra"
            \/ /\ x.kind = y.kind /\ x.kind \in {"required", "extra"}
               /\ Range(x.from) \cap Range(y.from) # {}
               /\ x.order > y.order \/ (x.order = y.order /\ i < j)
            \/ HasShared(h, i, j) /\ PolicyPrecedes(h, i, j)
    } \cup DomainEdges(h, S)

\* Ids give no cash away: whatever is left of an instant ends as every order ends
\* that keeps the household's contracts.
AllocationByContract ==
    phase = "execute" =>
        LET left == Range(queue)
        IN  \A s \in Outcomes(household, left, Contract(household, left), cand) :
                Economics(s) = Economics(Execute(household, cand, queue))

\* The order of the works matters to the household: two orders its dependencies and
\* policy allow leave different balances, or they allow no order.
OrderMatters ==
    LET S == InstantWork
        policy == {e \in S \X S : e[1] # e[2] /\ PolicyPrecedes(household, e[1], e[2])}
        allowed == ExplicitEdges(household, S) \cup policy
    IN  \/ ~Ordered(S, allowed)
        \/ Cardinality({Economics(s) : s \in Outcomes(household, S, allowed, cand)}) > 1

\* A month is refused for want of a policy only if the order matters: neither the order
\* in which postings and outcomes are listed nor shared access to an account is a reason.
PolicyOnlyIfNeeded == phase = "refused" /\ refusal = "unresolved" => OrderMatters

DeclaredBefore == Reaches(ExplicitEdges(household, InstantWork), InstantWork)
ContendingGroups ==
    Groups(household, Contenders(household, InstantWork, ExplicitEdges(household, InstantWork)))

\* Two contenders that no dependency orders are listed together although their domains
\* differ: funding outcomes in the summary tier, additional postings in the detailed one.
ListedTogether ==
    LET listed == IF Tier = "summary" THEN {"expense", "required"}
                  ELSE {"premium", "sale", "extra"}
    IN  \E group \in ContendingGroups : \E i, j \in group :
            /\ Domain[household.plan[i].kind] # Domain[household.plan[j].kind]
            /\ {household.plan[i].kind, household.plan[j].kind} \subseteq listed
            /\ {<<i, j>>, <<j, i>>} \cap DeclaredBefore = {}

\* A contender depends on another of its group only by way of a work outside the group.
DependsAround ==
    \E group \in ContendingGroups : \E i, j \in group :
        <<i, j>> \in DeclaredBefore \ Reaches(Inside(ExplicitEdges(household, InstantWork), group), group)

\* A month is refused for its order only if the order matters, with two exceptions.
\* The comparison takes the listing of two works of different domains in one list (an
\* expense beside a required service, a premium or a sale beside extra principal) for a
\* difference even where there is cash for both; and it does not see a dependency that
\* leads out of the group and back.  A policy that is circular for the group has no excuse.
RefusedOnlyForCause ==
    phase = "refused" /\ refusal \in {"unresolved", "policy_cycle", "work_cycle"} =>
        \/ OrderMatters
        \/ refusal = "unresolved" /\ ListedTogether
        \/ refusal # "policy_cycle" /\ DependsAround

\* The rest of an instant, in id order after a group, breaks a dependency: a member of
\* the group waits for a work of the rest, or one of the rest for a later one.
RestOutOfOrder ==
    \E group \in ContendingGroups : \E i \in InstantWork \ group, j \in InstantWork :
        <<i, j>> \in DeclaredBefore /\ (j \in group \/ j < i)

\* A work that lacks its cash or its lot refuses the month before anything is executed
\* only if some order that respects the dependencies comes to it.  The exception: the
\* comparison executes the rest of the instant in id order, as if nothing depended on it.
FailureIsReachable ==
    phase = "refused" /\ refusal = "failed" =>
        \/ RestOutOfOrder
        \/ \E s \in Outcomes(household, InstantWork, ExplicitEdges(household, InstantWork), cand) :
              s.failed

\* Extra principal is paid only in an instant that paid the service of the same
\* loan, whatever order the groups and the policy chose.
ServiceBeforeExtra ==
    \A k \in DOMAIN cand.books["additional"] :
        LET x == household.plan[cand.books["additional"][k].item]
        IN  x.kind = "extra" =>
                \E j \in DOMAIN cand.books["liabilities"] :
                    LET entry == cand.books["liabilities"][j]
                    IN  /\ entry.moved # Nothing
                        /\ household.plan[entry.item].loan = x.loan
                        /\ household.plan[entry.item].at = x.at

\* The committed state is the one the last retained month ended with: a refused or
\* half executed month shows in none of the balances, claims and lots.
CommittedHistory ==
    mode # "replay" =>
        /\ Economics(state) = IF periods = <<>> THEN Economics(OpeningState(household))
                              ELSE Last(periods).end
        /\ \A k \in DOMAIN periods : periods[k].month = k
        /\ \A k \in DOMAIN checkpoints :
              Economics(checkpoints[k].state) = periods[checkpoints[k].month].end

\* A replay, from a checkpoint or from the opening, reproduces the months the forecast
\* displays.  The exception: it is refused where a premium or a sale stands beside extra
\* principal, which are listed together in the detailed tier alone, so that a contention
\* is found there that the forecast did not find.
ReplayReproduces == phase = "mismatched" => refusal = "unresolved" /\ ListedTogether
=============================================================================
