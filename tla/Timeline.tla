------------------------------- MODULE Timeline -------------------------------
(***************************************************************************)
(* Multi-period runs: runTimeline of simulation/timeline.ts, with runPeriod *)
(* and the evaluation of the primitives that remember what they did (one   *)
(* time, event trigger, modification and termination) and of the recurring *)
(* one, which does not.                                                    *)
(*                                                                         *)
(* A caller hands over a financial state and, separately, the primitive    *)
(* states to go on from; it has those of every period a run returned, and  *)
(* nothing makes it pass the two that belong together.  A run executes the *)
(* work of each period on a candidate and commits it, or stops with the    *)
(* periods committed so far.  The order within a barrier is any order that *)
(* WorkOrder can produce, and what a plan does in a period is chosen when  *)
(* the run gets there, which no earlier step can observe.                  *)
(***************************************************************************)
EXTENDS Integers, Sequences

CONSTANTS
  Instances,  \* primitive instances
  Plans,      \* sequences of periods callers pass, also malformed ones
  Horizons,   \* the horizon of a run context
  WorkSets,   \* the work callers plan for a period, sets of Item
  MaxRuns     \* bound: runs

Stateful == {"P02", "P27", "P29", "P30"}
NoIdentity == <<>>
NoInstant == -1

\* Instants are natural numbers, periods half-open.
Period == [start : Nat, end : Nat]
InPeriod(at, period) == period.start <= at /\ at < period.end

\* Identities: a generated occurrence of an instance, a posted transaction,
\* an idempotency key of an observed fact.
Occurrence(instance, at, effect) == <<instance, at, effect>>
Identities == (Instances \X Nat \X {"recognition", "activation", "modification",
                                    "reversion", "termination"})
              \cup ({"transaction"} \X STRING) \cup ({"external"} \X STRING)

\* Work: a primitive (for P03 at and until are its scheduled instants, for P29
\* until is its end), a transaction with the identity its effect cites, or
\* diagnostics.
Item == [kind : Stateful \cup {"P03"}, instance : Instances, at : Nat,
         until : Nat \cup {NoInstant}, evaluation : Nat]
        \cup [kind : {"semantic"}, id : STRING, at : Nat, amount : Int,
              cites : Identities \cup {NoIdentity}, afterCutoff : BOOLEAN]
        \cup [kind : {"diagnostic"}, id : STRING, error : BOOLEAN]

ASSUME TimelineAssumption ==
  /\ WorkSets \subseteq SUBSET Item /\ Plans \subseteq Seq(Period) /\ Horizons \subseteq Period
  /\ \A h \in Horizons : h.start < h.end
  /\ MaxRuns \in Nat

VARIABLES
  held,       \* what the caller can go on from: see Held
  call,       \* arguments of the present run
  committed,  \* its committed periods, in order
  candidate,  \* the period it is executing
  result,     \* what the last run returned
  runs        \* number of runs

vars == <<held, call, committed, candidate, result, runs>>

----------------------------------------------------------------------------
(* Primitive evaluation.  An entry of the store is the kind of primitive   *)
(* and the occurrences it executed: activation, application, termination   *)
(* or one-time occurrence first, the reversion of a modification second.   *)

NoEntry == [kind |-> "none", first |-> NoIdentity, second |-> NoIdentity]
EmptyStore == [i \in Instances |-> NoEntry]
Identified(entry) == {entry.first, entry.second} \ {NoIdentity}

EffectOf(kind) == CASE kind = "P27" -> "activation" [] kind = "P29" -> "modification"
                    [] kind = "P30" -> "termination" [] OTHER -> "recognition"

\* Not executed yet, and due in the period.
Pending(item, period, entry) == entry.first = NoIdentity /\ InPeriod(item.at, period)

\* P02 executes wherever in the period it is evaluated, an event only if it is
\* evaluated no earlier than it takes effect.
Applies(item, period, entry) ==
  Pending(item, period, entry) /\ (item.kind # "P02" => item.evaluation >= item.at)

Reverts(item, period, entry) ==
  /\ item.kind = "P29" /\ entry.second = NoIdentity
  /\ entry.first # NoIdentity \/ Applies(item, period, entry)
  /\ item.evaluation >= item.until /\ InPeriod(item.until, period)

First(item) == Occurrence(item.instance, item.at, EffectOf(item.kind))
Second(item) == Occurrence(item.instance, item.until,
                           IF item.kind = "P29" THEN "reversion" ELSE "recognition")

Emits(condition, identity) == IF condition THEN <<identity>> ELSE <<>>

\* What an evaluation does, in the order in which it is registered.
Effects(item, period, entry) ==
  CASE item.kind = "P03" -> Emits(InPeriod(item.at, period), First(item))
                            \o Emits(InPeriod(item.until, period), Second(item))
    [] item.kind \in Stateful -> Emits(Applies(item, period, entry), First(item))
                                 \o Emits(Reverts(item, period, entry), Second(item))
    [] OTHER -> <<>>

\* Variant: the application is recorded, the reversion is not.
NextEntryUnreverted(item, period, entry) ==
  [kind |-> item.kind, second |-> entry.second,
   first |-> IF Applies(item, period, entry) THEN First(item) ELSE entry.first]

NextEntry(item, period, entry) ==
  [kind |-> item.kind,
   first |-> IF Applies(item, period, entry) THEN First(item) ELSE entry.first,
   second |-> IF Reverts(item, period, entry) THEN Second(item) ELSE entry.second]

\* A recurring primitive scheduled twice at one instant, a modification that ends no
\* later than it begins, the state of a primitive of another kind.
RepeatsInstant(item, period) ==
  item.kind = "P03" /\ item.at = item.until /\ InPeriod(item.at, period)
EndsTooEarly(item) == item.kind = "P29" /\ item.until # NoInstant /\ item.until <= item.at
OfAnotherKind(item, entry) == item.kind \in Stateful /\ entry.kind \notin {"none", item.kind}

Misconfigured(item, period, entry) ==
  RepeatsInstant(item, period) \/ EndsTooEarly(item) \/ OfAnotherKind(item, entry)

----------------------------------------------------------------------------
(* Work on the candidate                                                   *)

OpeningState == [cash |-> 0, ids |-> {}]

\* assertPrimitiveRuntimeStateConsistent: every occurrence a primitive claims
\* to have executed is registered in the financial state.
Consistent(state, store) == \A i \in Instances : Identified(store[i]) \subseteq state.ids

Entry(item) == IF item.kind \in Stateful THEN candidate.store[item.instance] ELSE NoEntry

\* The identities an item registers, in order.
Registers(item) ==
  IF item.kind = "semantic"
  THEN Emits(item.cites # NoIdentity, item.cites) \o <<<<"transaction", item.id>>>>
  ELSE IF item.kind = "diagnostic" THEN <<>>
  ELSE Effects(item, candidate.period, Entry(item))

\* Variant: an identity that is already registered is accepted.
FreshAlways(identities) == TRUE

\* registerAuthoritativeIdentity accepts each of them in turn.
Fresh(identities) ==
  \A i \in DOMAIN identities : /\ identities[i] \notin candidate.state.ids
                               /\ \A j \in DOMAIN identities : identities[i] = identities[j] => i = j

\* Variant: cash may become negative.
AcceptedOverdrawn(item) ==
  /\ Fresh(Registers(item))
  /\ item.kind = "semantic" => ~item.afterCutoff
  /\ item.kind = "diagnostic" => ~item.error
  /\ item.kind \notin {"semantic", "diagnostic"} =>
       ~Misconfigured(item, candidate.period, Entry(item))

\* One item succeeds; anything else is a validation failure.
Accepted(item) ==
  /\ Fresh(Registers(item))
  /\ item.kind = "semantic" => ~item.afterCutoff /\ candidate.state.cash + item.amount >= 0
  /\ item.kind = "diagnostic" => ~item.error
  /\ item.kind \notin {"semantic", "diagnostic"} =>
       ~Misconfigured(item, candidate.period, Entry(item))

Members(identities) == {identities[i] : i \in DOMAIN identities}

StateAfter(item) ==
  [ids |-> candidate.state.ids \cup Members(Registers(item)),
   cash |-> IF item.kind = "semantic" THEN candidate.state.cash + item.amount ELSE candidate.state.cash]

StoreAfter(item) ==
  IF item.kind \in Stateful
  THEN [candidate.store EXCEPT ![item.instance] = NextEntry(item, candidate.period, @)]
  ELSE candidate.store

\* Variant: what an item did is left out of the registry.
AfterUnregistered(item) ==
  [candidate EXCEPT !.todo = @ \ {item}, !.effects = @ \o Registers(item),
                    !.store = StoreAfter(item)]

After(item) ==
  [candidate EXCEPT !.todo = @ \ {item}, !.effects = @ \o Registers(item),
                    !.state = StateAfter(item), !.store = StoreAfter(item)]

Barrier(item) == CASE item.kind = "semantic" -> 2 [] item.kind = "diagnostic" -> 3 [] OTHER -> 1
Due(item) == item \in candidate.todo /\ \A other \in candidate.todo : Barrier(item) <= Barrier(other)

----------------------------------------------------------------------------
(* A run                                                                   *)

NoPeriod == [start |-> 0, end |-> 0]
NoCandidate == [open |-> FALSE, period |-> NoPeriod, state |-> OpeningState, store |-> EmptyStore,
                effects |-> <<>>, todo |-> {}]
Answer(status, reached, stopped) == [status |-> status, reached |-> reached, stopped |-> stopped]
Running == Answer("running", NoInstant, NoInstant)

\* whole: every run that led here went on from a state with its own store.
Held(state, store, whole) == [state |-> state, store |-> store, whole |-> whole]

Init ==
  /\ held = {Held(OpeningState, EmptyStore, TRUE)}
  /\ call = [state |-> OpeningState, store |-> EmptyStore, whole |-> TRUE,
             plan |-> <<>>, horizon |-> NoPeriod]
  /\ committed = <<>> /\ candidate = NoCandidate
  /\ result = Answer("none", NoInstant, NoInstant) /\ runs = 0

\* assertTimelinePeriodPlan
Contiguous(plan, horizon) ==
  /\ plan # <<>> /\ plan[1].start = horizon.start /\ plan[Len(plan)].end = horizon.end
  /\ \A i \in DOMAIN plan : plan[i].start < plan[i].end
  /\ \A i \in 2..Len(plan) : plan[i].start = plan[i - 1].end

\* runTimeline begins.  The caller leaves the primitive states out, or passes
\* those of any result it has.
Stores == {EmptyStore} \cup {h.store : h \in held}
Call(h, store, plan, horizon) ==
  /\ result.status # "running" /\ runs < MaxRuns /\ runs' = runs + 1
  /\ committed' = <<>>
  /\ IF Contiguous(plan, horizon) /\ Consistent(h.state, store)
     THEN /\ call' = [state |-> h.state, store |-> store, plan |-> plan, horizon |-> horizon,
                      whole |-> h.whole /\ store = h.store]
          /\ result' = Running
     ELSE result' = Answer("invalid_model", NoInstant, NoInstant) /\ UNCHANGED call
  /\ UNCHANGED <<held, candidate>>

Last == IF committed = <<>> THEN call ELSE committed[Len(committed)]

\* assertPeriodWorkPlan: the work of a period lies in it.
Fits(item, period) ==
  CASE item.kind = "semantic" -> InPeriod(item.at, period)
    [] item.kind = "diagnostic" -> TRUE
    [] OTHER -> InPeriod(item.evaluation, period)

\* runPeriod clones what was committed last.
OpenPeriod(todo) ==
  LET period == call.plan[Len(committed) + 1]
  IN  /\ result.status = "running" /\ ~candidate.open /\ Len(committed) < Len(call.plan)
      /\ \A item \in todo : Fits(item, period)
      /\ Consistent(Last.state, Last.store)
      /\ candidate' = [open |-> TRUE, period |-> period, state |-> Last.state,
                       store |-> Last.store, effects |-> <<>>, todo |-> todo]
      /\ UNCHANGED <<held, call, committed, result, runs>>

Execute(item) ==
  /\ candidate.open /\ Due(item) /\ Accepted(item)
  /\ candidate' = After(item)
  /\ UNCHANGED <<held, call, committed, result, runs>>

CommitPeriod ==
  /\ candidate.open /\ candidate.todo = {}
  /\ committed' = Append(committed,
       [period |-> candidate.period, state |-> candidate.state, store |-> candidate.store,
        effects |-> candidate.effects])
  /\ candidate' = NoCandidate
  /\ UNCHANGED <<held, call, result, runs>>

ReachedThrough == IF committed = <<>> THEN NoInstant ELSE committed[Len(committed)].period.end

Return(answer) ==
  /\ result' = answer
  /\ held' = held \cup {Held(committed[i].state, committed[i].store, call.whole) : i \in DOMAIN committed}
  /\ candidate' = NoCandidate
  /\ UNCHANGED <<call, committed, runs>>

\* Variant: the period that failed is returned with the others.
StopWithCandidate(item) ==
  /\ candidate.open /\ Due(item) /\ ~Accepted(item)
  /\ result' = Answer("incomplete", ReachedThrough, candidate.period.start)
  /\ held' = held \cup {Held(candidate.state, candidate.store, call.whole)}
  /\ candidate' = NoCandidate
  /\ UNCHANGED <<call, committed, runs>>

\* A validation failure ends the run with the periods committed so far.
Stop(item) ==
  /\ candidate.open /\ Due(item) /\ ~Accepted(item)
  /\ Return(Answer("incomplete", ReachedThrough, candidate.period.start))

Complete ==
  /\ result.status = "running" /\ ~candidate.open /\ Len(committed) = Len(call.plan)
  /\ Return(Answer("completed", call.horizon.end, call.horizon.end))

\* An error of another kind leaves runTimeline, and nothing is returned.
Escape ==
  /\ candidate.open /\ candidate.todo # {}
  /\ result' = Answer("threw", NoInstant, NoInstant) /\ candidate' = NoCandidate
  /\ UNCHANGED <<held, call, committed, runs>>

Next ==
  \/ \E h \in held, store \in Stores, plan \in Plans, horizon \in Horizons :
       Call(h, store, plan, horizon)
  \/ \E todo \in WorkSets : OpenPeriod(todo)
  \/ \E item \in candidate.todo : Execute(item) \/ Stop(item)
  \/ CommitPeriod \/ Complete \/ Escape

Spec == Init /\ [][Next]_vars
----------------------------------------------------------------------------
(* Properties                                                              *)

EntryType == [kind : Stateful \cup {"none"}, first : Identities \cup {NoIdentity},
              second : Identities \cup {NoIdentity}]
StateType == [cash : Nat, ids : SUBSET Identities]
StoreType == [Instances -> EntryType]

\* Every variable has its type; cash is never negative, in what callers hold,
\* in committed periods and in the candidate between any two items.
TypeOK ==
  /\ held \subseteq [state : StateType, store : StoreType, whole : BOOLEAN]
  /\ call \in [state : StateType, store : StoreType, whole : BOOLEAN,
               plan : Plans \cup {<<>>}, horizon : Horizons \cup {NoPeriod}]
  /\ committed \in Seq([period : Period, state : StateType, store : StoreType,
                        effects : Seq(Identities)])
  /\ candidate \in [open : BOOLEAN, period : Period, state : StateType, store : StoreType,
                    effects : Seq(Identities), todo : SUBSET Item]
  /\ result \in [status : {"none", "running", "completed", "incomplete", "invalid_model", "threw"},
                 reached : Nat \cup {NoInstant}, stopped : Nat \cup {NoInstant}]
  /\ runs \in 0..MaxRuns

\* Every result can be resumed: whatever a primitive state returned with a
\* period claims to have executed is registered in the financial state
\* returned with it, so the check at the start of a run (period.ts:155-175)
\* never refuses a pair the engine produced.  In particular OpenPeriod never
\* finds the pair it goes on from inconsistent.
Resumable ==
  /\ \A h \in held : Consistent(h.state, h.store)
  /\ result.status = "running" => Consistent(Last.state, Last.store)

\* Occurrences of events, and what callers must not do: post a transaction under
\* the occurrence of an event, which the registry cannot tell from the event's.
EventIdentities == Instances \X Nat \X {"activation", "modification", "reversion", "termination"}
CallersCiteNoEvent ==
  \A work \in WorkSets : \A item \in work :
    item.kind = "semantic" => item.cites \notin EventIdentities

\* Along runs that resumed each financial state with its own primitive states,
\* the primitive states remember every event occurrence that is registered:
\* otherwise evaluating the event again in its period would register it twice
\* and stop the run.
Remembers(state, store) ==
  \A id \in state.ids : id \in EventIdentities => id \in Identified(store[id[1]])
StoreRemembers == \A h \in held : h.whole => Remembers(h.state, h.store)

\* A period reports exactly what its closing state gained over its opening
\* state, each occurrence and transaction once, and nothing that had been done
\* before, in this run or in the runs it resumed from, whichever primitive
\* states the caller passed with the financial state.
OpeningOf(i) == IF i = 1 THEN call.state ELSE committed[i - 1].state
OccurrenceOnce ==
  \A i \in DOMAIN committed :
    LET effects == committed[i].effects
    IN  /\ \A j, k \in DOMAIN effects : effects[j] = effects[k] => j = k
        /\ \A j \in DOMAIN effects : effects[j] \notin OpeningOf(i).ids
        /\ committed[i].state.ids = OpeningOf(i).ids \cup {effects[j] : j \in DOMAIN effects}

\* A run keeps the promise of PeriodLog: whole, contiguous periods from the
\* start of the horizon, complete exactly when they reach its end, stopped
\* where the committed periods end, resumed only from what was committed.
Log == INSTANCE PeriodLog WITH
  nowhere <- NoInstant,
  saved <- {h.state.ids : h \in held},
  base <- call.state.ids,
  horizon <- call.horizon,
  log <- [i \in DOMAIN committed |-> [start |-> committed[i].period.start,
                                     end |-> committed[i].period.end,
                                     done |-> committed[i].state.ids]]
ImplementsLog == Log!Spec
=============================================================================
