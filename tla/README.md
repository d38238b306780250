# Verification of the personal finance engine and its application

TLA+ models of this repository's program, TLC runs that check them on small
instances, and TLAPS proofs of what matters most for every instance. All paths
below are relative to the root of the repository. `PROJECT.json` lists, for
every definition that models code, the file and lines it stands for
(`map`), the runs, the theorems, the hazards and what the runs found.

Every `.tla` file starts with a comment that says what it models. A module
`X` is a component, `MCX` gives its constants values for TLC, `X_proofs` holds
its theorems. A definition whose comment begins with "Variant" is a plausible
mistake in the definition after it: no specification uses it, and replacing
the right definition by it makes TLC report a named property (`mutants` in
`PROJECT.json`), which shows that the property says something about the code.

    tlc -config MCForecastChannels.cfg MCForecastController
    tlapm WorkOrder_proofs.tla

## 1. Inventory

The program is a deterministic household simulation engine (`src/`) with a
browser application around it (`ui/`, `app/`). Nothing runs on a server: the
only concurrency is between the UI thread, its Web Workers, its timers, and
IndexedDB transactions, which the tabs of one origin share. The engine itself
is sequential; what is hard about it is long sequences of legal calls over
state that must stay consistent, and failure in the middle of a call.

| Component | State | Operations | Interacts with |
| --- | --- | --- | --- |
| Interactive forecast channel (`ui/forecast/controller.ts`, `src/application/interactiveForecast.ts`) | view, request sequence, worker, one timer, retained result, LRU cache, idle-worker and evidence-controller maps | submit, debounce, reply, deadline, invalidate, reset, dispose | workers by messages, timers, panels by a shared map |
| Evidence and standalone channels (same file, `protocol.ts`, `execute.ts`) | request ids, worker, open requests with their deadlines and listeners, remembered answers; the source a worker memoizes | select, refresh, leave, answer, progress, deadline, dispose; run, cancel, withdraw | take over the forecast worker of the shown result; panels subscribe |
| Vertical slice 1 (`src/simulation/verticalSlice1.ts`) | clone of the caller's authoritative state, plan of actions, outcomes | one action each for pay, tax, settlements, retirement, living | claims, settlements, funding, accounting, identity registry |
| Claims and settlements (`src/semantics`) | obligations with outstanding amounts; an AVL tree of settlement identities | create, propose, settle | funding decides how much is accepted |
| Funding (`src/funding`) | none | resolve a request against ordered sources | reads cash of the candidate state |
| Authoritative state, accounting, identity (`src/state`, `src/accounting`, `src/identity`) | positions, liabilities, obligations, identity registry, receipts | register identity, post transaction atomically, validate, checkpoint, restore | called by every simulation |
| Work order and dependency graph (`src/dependencies`, `src/simulation/period.ts`) | in-degrees, ready list, output; the candidate state of a period | order the work of a period; execute it on the candidate | timeline |
| Timeline (`src/simulation/timeline.ts`, `period.ts`) | committed periods, financial and primitive state | plan contiguous periods; clone, execute, commit; stop with a committed prefix | period execution, primitives, identity registry |
| Household execution and its scheduler (`src/simulation/householdExecution.ts`, `intraperiodScheduler.ts`, `r3/`, slices 2-4, `domainMechanics.ts`) | the month under way on a candidate, groups of contenders, the order of an instant, summaries, checkpoints | prepare, sequence, decide contention, execute, commit or discard; replay a window from a checkpoint | operations of four domains share the cash of one candidate |
| Scenario comparison (`src/simulation/scenario.ts`) | catalog, layers of two scenarios, the two inputs | validate, find circles, layer, apply, compare | runs of the slices in between |
| Personal model persistence (`src/application/personalPersistence.ts`, `ui/persistence/indexedDbPersonalModelStore.ts`, `ui/PersonalFinanceApp.tsx`) | one slot of an object store; per tab the draft, the saved state shown, an error | open, save, migrate, delete, load, back up | IndexedDB; the user by `window.confirm` |
| Contributions, payroll, taxes; D2 mechanics; primitives, rules | runtime state of tax years, debt, benefits, fixed income | dated calculations | authoritative state |
| Compiler, facade, portability (`src/application`) | none | translate documents to engine inputs | engine, persistence |
| Values, time, diagnostics; statements, lineage, calibration, valuation | none | pure functions | everything |
| UI presentation; tooling, documents, tests | rendering; none at run time | | |

What is hard, and what makes each part correct:

* **Forecast channel.** Submissions supersede one another; a reply, a deadline
  or a debounce of an older one can arrive after a newer one has begun. One
  timer field serves two purposes. Result, fingerprint and model are separate
  fields. A finished worker is kept for panels and must be released exactly
  once. Correct means: what is shown was computed for what it is shown beside,
  nothing outlives a reset, every submission ends, at most one forecast
  computes, and every kept worker is somebody's to release.
* **Simulated periods.** A run works on a clone and may throw after any part of
  an action; a caller may run periods again, out of order, or retry a
  settlement under a new or a used identity. Correct means: cash, tax
  liability, outstanding amounts, posted transactions and registered
  identities agree, nothing is posted twice, a failed run leaves no trace.
* **Timeline.** What a primitive did is recorded twice, in the identity registry
  of the financial state and in the primitive state, and a caller resumes with
  the two separately. A period can fail at any item. Correct means: a period
  happens as a whole or not at all, the periods of a run tile its horizon up to
  where it stopped, nothing is done twice even if the wrong primitive state is
  passed, and whatever is returned can be resumed.
* **Work order.** Three records of one traversal are updated edge by edge, and
  the work is sorted whole and again in barriers where some edges are missing.
  Correct means: dependencies first, everything once, a cycle reported exactly
  when there is one, and an order that does not depend on how work was listed.
* **Persistence.** Every use case is several transactions, nothing is disabled
  while one runs, transactions fail, other tabs write. Correct means: bytes the
  application cannot read are never silently lost, the state shown is the state
  stored, every use case ends, and the user is asked before a different model
  is replaced.
* **Evidence.** All panels share one controller, one worker and a cache of four
  answers; they join each other's requests, change their selection while an
  answer is under way and leave. The source of the forecast is sent once per
  worker, with whichever request is first. Correct means: a panel shows
  evidence only beside the selection it answers, no message reaches a worker
  without a source, and no panel waits for ever.
* **Standalone forecasts.** Every run has a worker of its own; what it was given
  is edited while it computes. Correct means: what is shown as current was
  computed from what is on screen.
* **Household months.** Works of four domains take cash from the same accounts
  in the same instant; contracts of each domain, a household policy, an
  enumeration of orders and finally identifiers decide who is first. A month
  can fail after it moved cash, and a replay decides everything anew in another
  tier. Correct means: identifiers give no cash away, a month is refused only
  if the order matters, extra principal follows its service, a refused month
  leaves no trace, and a replay reproduces what was displayed.
* **Scenarios.** Layers inherit, override and edit lists; the differences that
  explain a comparison are computed from the layers and not from the runs.
  Correct means: a circle is found exactly when there is one, the net change of
  an item is what its operations do in turn, and whatever differs is reported,
  under a layer the baseline does not have.

`hazards` in `PROJECT.json` lists each of these at the line where it bites,
with the properties that cover it or the reason none does.

## 2. Modules and how they correspond to the code

### LatestForecast and ForecastController

`LatestForecast` is the abstract promise of a channel: one open question, an
answer to some question asked, marked fresh only if no newer question was
asked, and every question ends. It knows neither workers nor timers.

`ForecastController` is the class of that name with the pure view functions of
`interactiveForecast.ts`. The UI thread runs one handler at a time, so a
handler is an action: `Submit` (debounced or immediate), `DebounceFires`,
`ReplyGood`, `ReplyRejected`, `ReplyUnavailable`, `DeadlineFires`,
`IdleWorkerFails`, `Invalidate`, `Reset`, `Dispose`. `Run` is the private
`run()` both a submission and the debounce end in; it may find that making or
posting to the worker throws. Workers, timers, panels and the user interleave
freely. `PanelSelects` is a panel's render together with its effect, because
React flushes passive effects before it renders again; `EvidenceFails` is the
end of an evidence worker.

| Variable | Code |
| --- | --- |
| `view` | `#state`, with the result replaced by the index of the worker that computed it (a forecast worker computes one result) |
| `sequence`, `worker`, `retained`, `cache` | the fields `#sequence`, `#worker`, `#retained`, `#cache` |
| `timer` | `#timer` and which closure it runs for which request |
| `workers` | every `Worker` made, with the request its handlers close over and whether it was terminated |
| `idle`, `controllers` | `retainedEvidenceWorkers` and `forecastEvidenceControllers` |
| `operation` | the operation of every submission to this channel: the hook keeps the baseline and the comparisons apart |
| `resetAt` | history: the sequence at the last reset, read by properties only |

A reply that is not current changes nothing in the code, so it is a stuttering
step and has no action. `terminate()` does not remove handlers, so an answer
queued before it may still arrive: replies are possible from terminated workers.
The refinement mapping reads the open question from the pending request, the
answer from the model shown and freshness from the stale flag.

### EvidenceChannel

`EvidenceController` with the panels that select through `useForecastEvidence`
and the worker side of its requests in `execute.ts`. `Choose` and `Refresh` are
a panel's effect, which ends the former subscription and calls `select()`: the
cache answers, a request under way is joined, or `Request` makes a new one,
which may throw at each of three places. `Leave` is an unmount, `Release` the
disposal with the forecast, after which panels select through the controller
of the next result, the next `scope`. `Work` is the worker handling its next
message, with the source it memoizes (`execute.ts:38-93`); `Progress`,
`Deliver`, `WorkerBreaks` and `Timeout` are the four events the controller
hears. `Fail` is `#fail`: it disposes of the worker and ends every open request.

| Variable | Code |
| --- | --- |
| `sequence`, `worker`, `sent`, `cache`, `pending` | the fields of these names with a `#`; a pending request keeps the panels that listen, which the code keeps as closures |
| `retained` | `retainedEvidenceWorkers`: the worker that computed the forecast waits to be claimed |
| `worker.source` | the source `executeForecastWorkerRequest` memoizes |
| `panels` | selection, revision and settled state of the hook; what was settled is kept with the scope, selection and revision it was for, and `Shown` is what the hook returns |

### StandaloneChannel

`StandaloneController`, which makes a worker for each run, and the effects of
`PersonalFinanceApp` that withdraw a result when what it was computed from is
edited: `EditScope` invalidates, `Edit` resets. `Heard` is the double test of
the handlers, that they are still set and that their run is the newest. It
implements `LatestForecast` too, with the inputs on screen as the question.
Names that both channels have are told apart, so that one module can extend
both and prove about both: the fields `#sequence` and `#worker` are
`runSequence` and `runWorker` here, and `StandaloneInit`, `StandaloneNext`,
`StandaloneSpec` and `StandaloneTypeOK` begin with the class.

### VerticalSlice

`runVerticalSlicePeriod` with the claims, settlements, funding and accounting
it calls. `book` is the state a caller holds, `state` the clone a run works on,
`run` the plan of the run. `Begin` clones and plans; `Compensation`,
`TaxRecognition`, `CurrentSettlement`, `ExternalSettlement`, `Retirement` and
`LivingExpense` are the six kinds of action, taken by instant and then by
stable key; `Complete` hands the clone to the caller, `Throw` drops it. Each
action registers its identities, builds a candidate and keeps it only if it is
valid (`Post`), in the order of the code, so that a refusal at any point of an
action is a `Throw`.

Amounts are natural numbers of minor units. Tax due and the accepted
contribution are inputs of a run (the rule evaluation that produces them is
pure), as are the requests for external settlements. The persistent tree of
settlement identities is a set. Funding is the greedy walk over two ordered
sources, in full or in part as the policy allows.

### PeriodLog and Timeline

`PeriodLog` is what a multi-period run promises whatever it executes: a log of
periods that tile the horizon, each a whole and keeping what was done before;
complete exactly when the log reaches the end; resumed only from states that
were committed.

`Timeline` is `runTimeline` with `runPeriod` and the evaluation of P02, P27, P29
and P30, which keep a state, and P03, which does not. `Call` is the preflight;
`OpenPeriod` clones what was committed last; `Execute(item)` is one turn of the
loop over the work, with every identity it registers; `CommitPeriod` appends
the period; `Stop(item)` is a validation failure, `Escape` any other error, and
`Complete` the end. A refused item leaves nothing behind, because the candidate
is dropped with it.

| Variable | Code |
| --- | --- |
| `held` | the pairs of states in results that were returned: what a caller can resume with; `whole` is history and says that no run on the way mixed pairs |
| `call` | `RunTimelineInput` of the present run |
| `committed` | `committed`, with the effects of each period as the identities they registered |
| `candidate` | `candidateState`, `candidatePrimitiveState` and `effects` of `executePeriodWorkCandidate`, and the work that is left |
| `result` | status, `reachedThrough` and `stoppedAt` of the run result |
| `runs` | history: bound on the calls |

`Call` passes any store that a caller has with any state it has, as the
signature allows. The plan of the work is chosen when a period opens rather
than at the call, which no step in between can tell apart; its checks are the
guard `Fits`. Within a barrier items run in any order, which includes the one
`WorkOrder` computes. Identities are tuples of what the key functions encode, a
financial state is one account and the registry. A transaction may cite an
occurrence, and with it use up an identity that a primitive would register.

### WorkOrder

`orderWork`: the checks on ids, dependencies, barriers and lags, then four
topological sorts, each the loop of `topologicalOrder`. `Submit` is the call,
`Visit(n)` one turn of the loop, `EndPass` the end of a sort and the start of
the next, `Return` the end of the call. Ids are naturals whose order stands for
the order of strings; the list of ready nodes is sorted, so a set stands for
it, and its head is the least member. The input `malformed` stands for an
empty or repeated id and for an illegal lag, which a function from ids to items
cannot show.

### HouseholdWork, Contention and HouseholdExecution

`HouseholdWork` is what a household month consists of: nine kinds of work in
four domains (cash settlements of slice 2, investment operations of slice 3,
debt service of slice 4, domain operations of `domainMechanics.ts`), what each
does to the candidate state (`Step`), the cash it accesses and the dependencies
its domain declares (`ExplicitEdges`). Cash is taken from the sources of a work
in their order, each paying what remains of the amount or all it has
(`Remaining`, `Draw`), and only if nothing remains at the end (`Covered`). A
household is a record of the catalogue a run gets: a plan, and accounts and
loans that are not negative (`IsHousehold`).

`Contention` is the order of one instant: works of different domains that need
the same cash and are not ordered form groups; `Decide` tries every order of a
group its dependencies allow, compares the outcomes as the tier sees them
(`Signature`), and settles the group by its commutativity proofs, by equality
of outcomes or by the household's policy, or refuses the month. Ids break the
ties that are left (`FirstOrder`).

`HouseholdExecution` is `executeHouseholdPeriods` and its replay.
`Prepare`, `Sequence`, `DecideGroup`, `OrderInstant`, `ExecuteOperation`,
`NextInstant` take a month through its instants on the candidate `cand`;
`Commit` makes it the state, with a summary and now and then a checkpoint;
`Abort` discards it. A work that throws leaves the loop, so what was still queued
is dropped with it. `StartReplay` resumes a window of a forecast from the
latest usable checkpoint, or from the opening if the checkpoints were not
transported, and `Verify` compares the months with the summaries.

Amounts are small naturals; taxes, payroll, prices and loan schedules do not
occur: a service pays a fixed amount or what is left of the principal, whatever
the month, and no loan matures with a balance (`verticalSlice4.ts:543`). Signatures keep the listing of postings and outcomes in the order the
code lists them, because the comparison of outcomes sees it.

### ScenarioComparison

`compare` of `scenario.ts` for one alternative, step by step: `Declare`
validates the whole catalog, `EnterVisit` and `Climb` are the search for
circles, `Select` and `Layer` the walk from a scenario to its root, `Resolve`
the checks of its layers, `Match` what both must share, `Apply(t)` one change
applied by an adapter to the input of its scenario, `Compare` the differences.
Everything a comparison can be refused for is an action that ends it.
`EffectiveList` is `resolveListHistory`'s net change; `Stage` is the order
in which an adapter applies changes: the effective changes first, then the list
operations of its own kind, layer by layer. Targets of kinds the adapter does not
support (`Foreign`, scalars and lists) are refused when their turn comes. What a
change sets is one opaque value. The adapters test a scalar change in orders
that differ by kind, so `ScalarObjections` leaves open which of two reasons is
given; those of slices 3 and 4 look for the holder of a list item and at the
payload (`Unprepared`) before the item itself (`OperationObjections`).

### PersonalPersistence

The use cases of `personalPersistence.ts` over `IndexedDbPersonalModelStore`,
as the handlers of `PersonalFinanceApp.tsx` call them, in any number of tabs.
An async function runs from one await to the next in one action: it queues a
transaction (`queue`), the transaction runs or fails (`TransactionRuns`,
`TransactionFails`), and the tab later delivers the completion (`replies`) to
the stage that awaits it (`Inspected`, `SaveInspected`, `SaveWritten`,
`MigrationInspected`, `MigrationWritten`, `Removed`). `window.confirm` is
synchronous and blocks its tab, so `Answer` is the only thing that tab does
while it is open. Transactions on one object store with overlapping scopes run
in creation order, and each completes, errors or aborts once; a failure to
open the database is one more way for a transaction to fail.

Stored bytes are a model, a version and a format: readable, in need of a
registered migration, or unusable. The registry of migrations of this commit
is empty; the use case takes the registry as a parameter and the tests pass
one, so the model has one that migrates "old" bytes. Whether a migration's
output is valid is a free choice.

## 3. Runs

| Run | Instance | What it shows |
| --- | --- | --- |
| `forecast_channels` | the baseline channel and the comparison channel; four models with three fingerprints, cache of 2, three requests, one extra evidence worker, failing idle worker; 841,064 states | `TypeOK`; `ResultPaired`: result, fingerprint and model on display belong together, in the cache too; `NothingSurvivesReset`; `ReleasedUnlessIdleFailed`: as long as no idle worker failed, a live worker that is not computing belongs to the result on display; `EverySubmissionSettles`; `ImplementsLatest` |
| `forecast_idle_failure` | the baseline channel alone | `EvidenceReleased`, the same without the exception, is violated (section 6) |
| `evidence_panels` | two panels, two selections with evidence and one without, cache of 1, two requests in each of two controllers, one refresh; 39,752 states | `TypeOK`; `OwnAnswer`; `SourceFound`: no message finds its worker without a source; `SelectionsSettle` |
| `standalone_runs` | two inputs, six runs or stops; 4,412 states | `ShownIsCurrent`; `ImplementsLatest` |
| `slice_periods` | two periods, three inputs, six requests (partial, full, refused, repeated and observed ones); 15,431 states | `TypeOK` (nothing is overdrawn), `IdentityAuthority`, `ObligationIntegrity`, `PostedOnce` (what left the accounts is what was paid, once), `BookOnlyGrows` |
| `order_barriers` | all lists of up to three items in three barriers, lag 0 or 1; 226,429 states | `TypeOK`, `DependenciesFirst`, `CycleVerdict`; `LeastOrder`: the plan holds every item once (`EveryItemOnce`), barrier by barrier, and no admissible order comes before it |
| `timeline_periods` | two runs, the second from any pair the first left; six plans, three of them malformed; twelve items, one or two to a period; 824,118 states | `TypeOK` (nothing is overdrawn), `Resumable`: the registry knows what a returned primitive state claims; `StoreRemembers`: and the other way round, if pairs were kept together; `OccurrenceOnce`: each period reports what it added, and nothing is done twice whatever was passed; `ImplementsLog` |
| `household_periods` | nineteen households each built around one decision, and every pair of kinds of work under two policies, with little cash, with some and with enough; three months, two instants, a checkpoint a month; 29,824 states | `TypeOK`; `AllocationByContract`: whatever is left of an instant ends as every order ends that keeps the household's contracts; `RefusedOnlyForCause`: a month is refused for its order only if the order matters, with two exceptions the property names; `FailureIsReachable`: it is refused for a lack of cash or lots before anything is executed only if an order comes to that lack, with one exception; `ServiceBeforeExtra`; `CommittedHistory`; `ReplayReproduces`, with one exception |
| `household_chain` | one household whose purchase belongs to two chains | `AllocationByContract` is violated |
| `scenario_comparison` | every way three scenarios inherit, one odd definition at a time, every history of one item, one scalar or one target of an unsupported kind along a chain of three layers; nine requests; 134,749 states | `CycleVerdict`, `OverlaysAgree`, `DifferencesAttributed` |
| `persistence` | one tab, two models, all formats, one edit, two use cases at a time; about 350,000 states | `TypeOK`, `SavedStateIsStored`, `ProtectedBytesSurvive`, `UseCasesEnd` |
| `persistence_different` | two tabs, two models | `DifferentModelConfirmed` is violated |

The bounds, and why they are enough. Three forecast requests are a superseded
one, the current one and a reset between or after them; no handler looks
further back than one request, apart from the cache, which three fingerprints
over a limit of two fill, reorder and evict from. Two models with one fingerprint
separate the tests for identity from those for the fingerprint. Two panels are
one that joins and one that is joined, or that waits behind; a cache of one is
evicted by the second answer; two requests to a worker are one that brings the
source and one that relies on it. Two periods
give an obligation of an earlier period to settle in a later one, and a period
run twice; the amounts are chosen so that a source is empty, exactly enough, or
used up by the action before. Three items in three barriers put an item in each,
or a chain, a cycle or a node that hangs off a cycle in one. Two overlapping use cases are what the races of persistence need; a
third adds no interleaving of a read and a write that two do not have, and the
proofs cover any number of tabs.
Two runs of up to two periods are a run and its resumption, from the middle of
the first, with the right store, an older one or none; the items include each
primitive evaluated too early, in time and again, a modification that reverts
in its own and in the next period, two kinds on one instance, an overdraft, a
fact after the cutoff and a repeated transaction. Three months give a replay
a window that begins after, at and before a checkpoint; contention is decided
between pairs of domains, which the catalogue enumerates. Three layers are a
first, a middle and a last operation on an item.
`MaxRequests`, `MaxEvidenceWorkers`, `MaxScopes`, `MaxRevisions`,
`MaxSequence`, `MaxEdits`, `MaxRunning` and `MaxRuns` are the only
artificial bounds and each is a guard of the action it limits.

Deadlock is checked in `MCForecastController`, `MCEvidenceChannel`,
`MCVerticalSlice`, `MCWorkOrder` and `MCPersonalPersistence`. It is not in
`MCTimeline` and `MCStandaloneChannel`, whose callers stop at their bound, nor
in `MCHouseholdExecution` and `MCScenarioComparison`, whose calls end.

No symmetry is used: identities are ordered in most of the modules, and the
others are small enough.

## 4. Fairness

* `ForecastController`: weak fairness of `DebounceFires` and `DeadlineFires`.
  A timer set with `setTimeout` fires if nothing clears it. Nothing is assumed
  about workers: one that never answers is what the deadline is for.
* `PersonalPersistence`: weak fairness of the transaction at the head of the
  queue, which the browser completes, errors or aborts, and of delivering its
  completion to each operation. Nothing is assumed about the user, who may
  never answer a question; `UseCasesEnd` says so.
* `EvidenceChannel`: weak fairness of the deadline of each request, which is
  set with `setTimeout` and cleared only when its request ends. Workers may
  never answer.
* `StandaloneChannel`: weak fairness of the deadline of the run, likewise.
* `VerticalSlice`, `Timeline`, `WorkOrder`, `HouseholdExecution` and
  `ScenarioComparison` state safety only. All are synchronous
  calls, and that their loops end is visible: each step takes one member from a
  finite set of actions, items or nodes.

## 5. Proofs

`VerticalSlice_proofs` assumes only `SliceAssumption`: any set of positive
periods, of natural external identities, of inputs and requests, finite or not.

* `TypeCorrect`, `IdentitiesAreAuthoritative`, `ObligationsKeepIntegrity`
  (`Spec => []TypeOK`, `[]IdentityAuthority`, `[]ObligationIntegrity`) and
  `GrowsOnly` (`Spec => BookOnlyGrows`).
* The inductive invariant is the conjunction of the three with two facts the
  runs need not state: while a run is in progress its clone extends the
  caller's state, and only a run in progress has actions left. The first is
  what makes `Complete` a growth of `book`. Without identities in the registry
  the integrity of an obligation is not inductive either: that a settlement
  takes a new identity is what separates "outstanding dropped" from "an
  identity was already there".
* `PostedOncePerIdentity` proves `PostedOnce`: what left the accounts is the sum
  of what was posted, and what left an obligation the sum of its settlements. A
  sum over a finite set is a table of sums over its subsets; that the order of
  summation does not matter is shown at a least counterexample, and a fresh
  posting then adds its value to each sum it belongs to.
* Lemmas: what `Allocation` takes is within the cash of each account and adds
  up to no more than the amount; `Post` keeps each part for any transaction
  and obligations that satisfy its hypotheses. The actions then only
  instantiate these.

`WorkOrder_proofs` assumes `IdsAssumption` (a finite set of naturals),
`RanksAssumption` and `LagsAssumption`.

* `TypeCorrect`, `PlanRespectsDependencies`, `PlanIsComplete`,
  `VerdictIsExact` and `PlanIsLeast` prove the invariants of `order_barriers`;
  `CountersAreRight` says that the in-degrees and the ready list are right at
  every turn of the loop.
* The inductive invariant adds to them: the work was admitted; the output
  repeats no node and is closed under predecessors; the plan so far is exact for
  the finished barriers; and no member of a cyclic set has been visited. The
  last one gives the verdict in both directions without induction on paths: a
  pass that stops early leaves a set in which everyone waits for somebody of
  the set, and a pass that visits everything leaves no room for such a set. It
  also is why the sorts of the barriers cannot fail: a cycle there would be one
  of the first sort.
* For `PlanIsLeast` (`LeastOrder`) it also says that every node of the output was
  the least that could stand at its place. Another order of the same nodes is
  compared at the first place where they differ; what it has there could have
  been placed here, so it is no smaller.

`Timeline_proofs` assumes only `TimelineAssumption`: plans are sequences of
periods, horizons are not empty, work is made of items.

* `TypeCorrect`, `ResultsAreResumable`, `EventsAreRemembered`,
  `EffectsHappenOnce` and `TimelineImplementsLog` prove every property of
  `timeline_periods`. The last one is the whole refinement, since `PeriodLog`
  states no fairness.
* `EventsAreRemembered` proves `StoreRemembers` under the hypothesis
  `CallersCiteNoEvent`: no transaction of the work cites the occurrence of an
  event. Without it a caller could use up the identity an event registers, and
  nothing in the signature forbids it; TLC evaluates the hypothesis for the items
  of its instance. The invariant ties each fired event to its identity through
  the candidate as well as through every pair a caller holds.
* The inductive invariant adds two facts. What the candidate did so far is
  faithful: its registry is that of the last committed state and its effects,
  which are new and distinct; so each item can be judged by itself
  (`AfterSound`) and a commit inherits the claim. And the committed periods are
  a prefix of the plan, the candidate's period the next one; so that a stop and
  a completion report the end of the log.
* That no period of a contiguous plan ends after the horizon is an induction on
  the plan. It is done with the least member of a set of counterexamples
  (`LeastMember`, from the well-foundedness of the natural numbers), because
  the induction rules of the library take an operator.

`ForecastController_proofs` assumes only the assumptions of its module: an
operation and a fingerprint for whatever is submitted, limits that are naturals.

* `TypeCorrect`, `ResultsArePaired` and `ResetsForget` prove `TypeOK`,
  `ResultPaired` and `NothingSurvivesReset`; `ChannelImplementsLatest` the
  initial condition and every step of `ImplementsLatest`.
* The invariant says what ties the fields together: a request is pending exactly
  while a timer runs it; a worker that could answer the pending request was
  given that very request; and what is shown, cached or retained was computed
  for the fingerprint it is kept under and after the last reset. The cache is a
  sequence over the set of such entries, so its order and evictions need no
  argument of their own. Handlers only append to the list of workers and
  change statuses, a relation (`Succeeds`) under which what was computed stays
  computed.
* `WorkersAreReleased` proves `ReleasedUnlessIdleFailed` from a second
  invariant about who owns a worker. The worker in use computes the pending
  request, and nothing is retained while it does; what is retained is on
  display, or waits for its own cached answer; only the retained result's
  worker is idle, controllers serve only what is retained, and every other
  live worker belongs to it. The last two are claimed only until an unclaimed
  idle worker fails, and such a failure lasts (`FailureLasts`), which is what
  makes the weaker property inductive.

`Channels_proofs`, about the evidence and the standalone channel, assumes the
named assumptions of their modules.

* Standalone: `StandaloneTypeCorrect`, `ResultsAreCurrent` (`ShownIsCurrent`) and the
  step simulation of `LatestForecast`. The invariant: a deadline is set exactly
  while a run is pending, it is the newest run and it was given what is on
  screen; and a result not marked stale is current.
* Evidence: `TypeCorrect`, `AnswersAreOwn` (`OwnAnswer`) and
  `SourceReachesWorker` (`SourceFound`). A selection is written down in the
  message, the pending request and the cache; the invariant ties them by
  request id, through disposals and requests nobody waits for. `sent` is set
  exactly for a worker that was made, and until a request fails in it that
  worker holds a source or one is ahead of every message that lacks it.

`PersonalPersistence_proofs` assumes the named assumptions of its module.

* `TypeCorrect`, `TabShowsStore` (`SavedStateIsStored`) and
  `ProtectedBytesAreKept` (`ProtectedBytesSurvive`), for any number of tabs.
* The invariant rests on two orders. Protected bytes stay as they were read
  until they go, so that while they are there no save that read anything else
  is under way and a migration writes their own image. And completions are
  delivered in the order of their transactions, so that from the last change
  a tab has yet to hear of, all it will hear is what is stored.

`ScenarioComparison_proofs` assumes `TargetsAssumption`, `ValuesAssumption` and
`RequestsAssumption`.

* `TypeCorrect`, and `CirclesFound`, `NetChangesApply` and
  `DifferencesExplained` prove the three invariants of `scenario_comparison`
  for every catalog and request.
* That no circle meets what was visited, and that one that meets the path
  contains its end, gives the verdict in both directions without induction on
  chains. For the overlays, the input under construction is what the last
  applied operation made of each item, and the alternation of additions and
  removals in a resolved history determines the net change.

`HouseholdExecution_proofs` assumes positive numbers of months, instants and
months between checkpoints, finite sets of accounts, and `HouseholdsAssumption`:
the households, finite in number or not, have authored plans and open with no
account overdrawn, as `resolveAllOrNothingFunding` demands of every balance it is
given.

* `TypeCorrect`, `HistoryIsCommitted` (`CommittedHistory`) and
  `ExtraFollowsService` (`ServiceBeforeExtra`); and `NothingOverdrawn`, which no
  run states: neither the candidate between two works nor the committed state nor
  a checkpoint has an overdrawn account or more due on a loan than its principal.
* Every work does one of four things to a sound state (`After`): it throws, or it
  moves cash that is there, keeps the books it found as prefixes of the new ones,
  enters extra principal only beside a satisfied service, and calls a service
  satisfied only with its payment in the books. `StepIsAfter` shows it kind by
  kind; that funding takes the whole amount and no account more than it has
  (`DrawsPay`) is the part with arithmetic.
* The invariant adds to the properties what the steps need of each other: the
  candidate, the state and the checkpoints are sound, and the last two hold
  nothing of a month; what is queued belongs to the instant under way; the months
  kept are those before the month under way; and what is satisfied at an instant
  was paid at it. `DebtsAfter` says that later works never undo the last.
* `FirstOrderIsExact`: the order that is tried first holds every work once, after
  all it depends on, if and only if no set of works is circular, so a month is
  refused for a cycle exactly if there is one.
* `OutcomesAreExact`: the comparison of orders makes one branch of those with the
  same work done in the same state; it still ends in the states of all orders the
  dependencies allow and in no other.
* `SettledOrdersAgree`: once a group is settled, every order that its dependencies
  and the edges of the decision allow leaves the same balances, claims and lots
  when the rest of the instant has followed in id order, as it does in the
  comparison. Where the outcomes were compared this is a matter of what the
  signatures keep; an income beside a service its first source covers, and a
  transfer inside a pool that cannot pay the service, are not compared, and for
  them it is an argument on what each source pays (`FirstPays`, `PoolConserved`,
  `CoveredPool`). It says nothing of the order in which the instant is finally
  executed, where works of the rest can come between those of the group.
* `ReachesIsClosure` and `GroupsArePartition`: the groups are the classes of the
  least closed relation that contains the shared cash, so every contender is in
  exactly one group. Hence what is decided about a group does not depend on the
  groups decided before it (`GroupsDecideAlone`), and the instant settles or is
  refused as a function of the state it opens with.
* `ReplayIsExact` (`ReplayReproduces`) under the hypothesis `TiersAgree`: from each
  state in which a replay decides an instant, what the summary tier goes through
  with the detail tier goes through with too, and to the same end but for the
  listing of funding outcomes. Then a replay of any window, from any checkpoint
  before it or from the opening, is neither refused nor different in a figure.
  The hypothesis is not idle: the tiers compare different signatures, and for a
  premium beside an extra principal payment they disagree and the replay is
  refused (section 6). It is weaker than equal decisions: in a household of
  `household_periods` with cash for neither of two claims the summary tier adds
  edges and the detail tier none, to the same end. Given `TiersAgree` for
  `s = cand` as an invariant of that run, TLC finds no state against it.
* `CommutingReplayIsExact` drops the hypothesis where every group of contenders of
  a replayed instant is one the code takes to commute, an income beside a service
  its first source covers or a transfer inside a pool that cannot pay the service;
  `UncontendedReplayIsExact` is the case of no group. It rests on `ExecuteAlike`:
  what works do depends on nothing that is listed as a funding outcome.
* The replay is an argument on whole instants: `Onward` takes the state before an
  instant to how a forecast ends it, and `Leads` is what that step leads to (every
  set closed under it contains the goal, so no induction is needed to use it). The
  invariant says where the forecast is on this path in the middle of an
  instant (`Rest` is how the works left would end it), that the months it
  displayed were lived one after the other from the states its checkpoints keep
  (`Lived`), and that a replay is on the way to where the forecast came to in the
  same month, in a state that is `Like` the forecast's.
* `DecisionIsExecuted`: between two works of an instant the queue is the end of
  the order decided on the state the instant began with, and the candidate is
  where the works before led from that state (`ExecutesDecision`, an inductive
  invariant beside `IInv`). Hence `WorkWaitsItsTurn`: whatever the groups and the
  policy decided, what is queued waits for nothing that was executed.
* `IndependentWorksCommute`: two works of which neither takes cash from an account
  of the other, which do not service one loan and are not a purchase and a sale,
  end alike in either order. `HasEffect` states once what each kind of work adds
  to balances, loans, claims and lots, `SeesAlike` the little it reads of a state;
  for independent works what one adds is outside what the other reads.
* `OrdersAgree` takes this from two works to all orders: the last work of one
  order is moved, neighbour by neighbour, to the end of the other, past works that
  are independent of it since the dependencies do not order them; the rest are two
  shorter orders of the same kind.
* `DependenciesDecide` and `ContractDecides` (`AllocationByContract`): where what the
  works declare orders all works that are not independent, what is left of an
  instant ends as all orders end that keep the contracts; and so it does, with
  contention too, where the queue keeps the contracts, the policy between the
  domains included, and these order all works left that are not independent. Both
  hypotheses are about the household and the queue, not about the outcome; the
  catalogue of `household_periods` has instants that meet each, also with several
  orders to choose from.
* `RefusedForCause` (`RefusedOnlyForCause`): a policy refused for a cycle contradicts
  the dependencies or itself, and an instant without contention is refused for its
  order only where the declared dependencies allow none. In both cases
  `PolicyOnlyIfNeeded`, which knows no exceptions, holds too. The inductive invariant
  `RefusalFound` remembers what the decision that refused had found.
* `Remaining` and `FirstOrder` are recursive functions. What they compute is an
  iteration, whose table of values exists (`IterationExists`); what the table
  holds is an induction over the members of a set (`Induction`), since the
  induction rules of the library take an operator. The folds (`Execute`, the sum of a
  pool) are tables over the subsets of a set, which exist (`FoldExists`) and of
  which the same is said by an induction on subsets (`SubsetInduction`).

The first attempt at `TypeCorrect` failed for a good reason: in the model the works
queued behind one that throws stayed queued while the month was discarded, and a
replay prepared new work beside them. In the code the loop is left with the
exception, and the model now says so. Taking the assumption on households from
the code also replaced the model's pooled funding by the walk over the sources.

Checked by TLC only:

* liveness under fairness (`EverySubmissionSettles`, `SelectionsSettle`,
  `UseCasesEnd`) and the fairness part of the two `ImplementsLatest`;
* `AllocationByContract` where neither `DependenciesSuffice` nor `ContractSuffices`
  holds. It is no property of every household: it fails for that of
  `household_chain` and for the patterns section 6 names;
* `RefusedOnlyForCause` for a group refused as unresolved, or for a circle that the
  edges of decisions close: it compares the outcomes of all orders of an instant.
  Without its exceptions (`PolicyOnlyIfNeeded`) it is false of households of the
  catalogue (section 6);
* `FailureIsReachable`, of what the comparison of orders comes to;
* `ReplayReproduces` for instants with contention that does not commute and in
  which nobody showed the tiers to agree; `TiersAgree` is a hypothesis about
  `Decide` on two signatures and is false for some households.

## 6. What the runs found

Most properties hold. Three do not, each a statement of the repository's own
documents, tests or comments; the texts and lines are under `findings` in
`PROJECT.json`.

* `forecast_idle_failure` (code): the unclaimed worker of the shown result
  raises an error, which makes the controller forget the result it retained
  while that result stays on display. A panel opened afterwards makes a worker
  for it that no later submit, invalidate, reset or dispose releases.
* `persistence_different` (code): a save inspects in one transaction and writes
  in another; two overlapping saves of different models both find nothing to
  ask about, and the second replaces the first unconfirmed.
* `household_chain` (code): an operation with two economic targets keeps the
  predecessor of only one of its two chains (`verticalSlice3.ts:1213`), so ids
  decide in the other.

Divergences seen while modelling that have no run of their own:

* The stable key of an external settlement contains its identity
  (`src/simulation/verticalSlice1.ts:487-493`), so of two settlements at one
  instant the identity decides which gets scarce cash; the specification says a
  tie-break must not (`docs/vertical-slice-1-specification.md:569-571`).
* The backup of a tab is what its last inspection read, announced as the exact
  saved bytes, though another tab may have saved since
  (`ui/PersonalFinanceApp.tsx:595-598`).
* The fingerprint of a timeline run omits the primitive states it was given
  (`src/simulation/timeline.ts:98-106`), so two calls with one fingerprint can
  execute different occurrences.
* A migration inspects in one transaction and writes in another
  (`personalPersistence.ts:112-124`), as a save does: a confirmed removal between
  the two is undone, and the migrated copy of what was deleted is in the browser
  again (`docs/privacy/personal-mvp-privacy-readiness.md:19`). The default registry
  has no migration at this commit, so the first one registered brings this.
* Ids decide whether an expense or extra principal has the last cash of an account
  if the service of the loan is paid from another one: the comparison executes that
  service after the group (`householdExecution.ts:719-741`), sees extra principal do
  nothing in any order, and finds no contention. `AllocationByContract` is false
  there, and where works of one domain have no authored order at all; neither
  pattern is in the catalogue.

Exceptions that properties of `household_periods` state. The catalogue holds
households for each, and without the exception TLC finds the violation there.

* `RefusedOnlyForCause`: the summary tier compares orders with the listing of
  funding outcomes (`householdExecution.ts:355-365`), so an expense and a debt
  service with cash for both are refused for want of a policy, against
  `docs/architecture/system-software-architecture.md:3346`. The detailed tier
  completes that month, as `test/householdExecution.test.ts:309` expects; there the
  same happens to a premium or a sale beside extra principal.
* `RefusedOnlyForCause`: the comparison keeps the dependencies inside a group and
  loses one that leads out of it and back (`householdExecution.ts:706-710`); two
  expenses of one account, with one of another account between them, are listed
  in two orders, which no policy between kinds can tell apart.
* `FailureIsReachable`: what is not of the group is executed in id order without its
  dependencies (`householdExecution.ts:719-741`), so a purchase runs before the
  transfer that funds it, and the month fails for a lack that no order of the
  instant has, although only a "dependency-valid hard failure" takes precedence
  (`r3/reachableStates.ts:66-67`).
* `ReplayReproduces`: extra principal is an additional posting in the detailed
  tier and none of the compared facts in the summary tier
  (`householdExecution.ts:339`, `r3/domainOperations.ts:148-170`). Beside a premium or
  a sale the forecast finds no contention and displays the month, and the replay
  is refused.

## 7. Plan

Done, in order: the forecast channel and its abstract promise; the period of
the first vertical slice with claims, funding and accounting; persistence; the
work order; the timeline; the evidence and standalone channels; household
months with their scheduler, contention and replay; scenario comparison; the
proofs of every module with a state machine, down to the sums of the first slice,
the least order of the work and the household months.

Left, most important first:

1. Conditions on a household from which `TiersAgree` follows where groups do not
   commute, such as groups that one policy orders completely; and when an edge the
   comparison of outcomes adds can close no circle with those of another group.
2. `SettlementHistory`: the AVL tree of `claim.ts`, checked against a set over
   bounded insertion sequences (recursive, TLC only).
3. `FundingResolution`: any number of sources and policies against a
   declarative definition.
4. `Checkpoint`: delta and restore of authoritative state, D2 receipts.
5. Loans that bear interest and valuations in `HouseholdWork`.

### Not modelled

* Decimal and calendar arithmetic, rule and tax evaluation, contribution and
  mortgage schedules, the compiler from documents to inputs, statements,
  lineage, calibration and valuation: pure functions over unbounded data with
  no state between calls. A model would repeat their formulas and check them
  against themselves.
* The reference executors of `src/simulation/r3`: earlier versions kept for
  equivalence tests of what is modelled.
* Rendering: the handlers that change shared state are in the persistence,
  forecast, evidence and standalone modules.
* Development tools, benchmarks and documents.

These are most of the repository's lines: the definitions of this project
stand for about 5,400 of some 70,800. What is left of the parts listed as partly
modelled are calculations inside single steps whose results the models take as
inputs; reading more of them into the map would widen definitions beyond what
they translate.
