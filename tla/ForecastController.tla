------------------------- MODULE ForecastController -------------------------
(***************************************************************************)
(* One supersession channel of the forecast UI: the ForecastController     *)
(* class of ui/forecast/controller.ts with the state functions of          *)
(* interactiveForecast.ts, the workers it makes, and the hand-over of an   *)
(* idle worker to the evidence controllers that panels select through.     *)
(*                                                                         *)
(* The UI thread runs one handler at a time, so each handler is one        *)
(* action.  Workers, timers, panels and the user interleave freely.  A     *)
(* result object is identified with the index of the worker that computed  *)
(* it, because a forecast worker computes exactly one result.              *)
(***************************************************************************)
EXTENDS Naturals, Sequences, FiniteSets

CONSTANTS
  Models,             \* draft model objects a submission can carry
  FingerprintOf,      \* [Models -> fingerprints]: the economic fingerprint
  Operations,         \* what channels are used for
  CacheLimit,         \* entries the baseline cache keeps (4 in the code)
  MaxRequests,        \* bound on the request sequence
  MaxEvidenceWorkers, \* bound on workers made for panels
  IdleWorkerMayFail   \* an unclaimed idle worker may raise error

None == 0
NoModel == "no model"
NoFingerprint == "no fingerprint"

ASSUME ChannelAssumption ==
  /\ CacheLimit \in Nat \ {0} /\ MaxRequests \in Nat
  /\ Operations \subseteq {"baseline_forecast", "comparison"} /\ IdleWorkerMayFail \in BOOLEAN
  /\ DOMAIN FingerprintOf = Models /\ NoModel \notin Models

VARIABLES
  view,        \* #state, the published ForecastView
  sequence,    \* #sequence
  worker,      \* #worker: the computing worker, or None
  timer,       \* #timer with the closure it runs
  retained,    \* #retained.result, or None
  cache,       \* #cache, oldest entry first
  workers,     \* every Worker object made so far
  idle,        \* retainedEvidenceWorkers: results with an unclaimed worker
  controllers, \* forecastEvidenceControllers: the EvidenceController objects in it
  operation,   \* the operation of every submission to this channel
  resetAt      \* history: the sequence at the last reset or dispose

vars == <<view, sequence, worker, timer, retained, cache, workers, idle, controllers, operation,
          resetAt>>

\* The two comparisons are submitted to one channel and the baseline to its
\* own; the controller tells only the baseline from the rest.
Baseline == operation = "baseline_forecast"

Fingerprints == {FingerprintOf[m] : m \in Models}
Good == {"completed", "incomplete"}
NoRequest == [id |-> 0, fp |-> NoFingerprint, model |-> NoModel, cached |-> None]
NoTimer == [kind |-> "none", req |-> NoRequest]
InitialView == [lifecycle |-> "idle", pending |-> FALSE, stale |-> FALSE, lastGood |-> None,
                resultFp |-> NoFingerprint, resultModel |-> NoModel, requestId |-> 0,
                fp |-> NoFingerprint]

----------------------------------------------------------------------------
(* interactiveForecast.ts: the pure state functions *)

\* Variant: the result of the previous request still counts as fresh.
PendingStillFresh(v, req) ==
  [v EXCEPT !.lifecycle = "running", !.pending = TRUE, !.requestId = req.id, !.fp = req.fp]

Pending(v, req) ==
  [v EXCEPT !.lifecycle = IF v.lastGood = None THEN "running" ELSE "stale", !.pending = TRUE,
            !.stale = v.lastGood # None, !.requestId = req.id, !.fp = req.fp]

\* Variant: a response matches whatever is pending.
IsCurrentIfPending(v, req) == v.pending

IsCurrent(v, req) == v.pending /\ v.requestId = req.id /\ v.fp = req.fp

\* Variant: a failure does not end the request.
FailedStillPending(v, lifecycle) == [v EXCEPT !.lifecycle = lifecycle]

Failed(v, lifecycle) ==
  [v EXCEPT !.lifecycle = lifecycle, !.pending = FALSE, !.stale = v.lastGood # None]

Settled(v, status, result, model) ==
  [v EXCEPT !.lifecycle = status, !.pending = FALSE, !.stale = FALSE, !.lastGood = result,
            !.resultFp = v.fp, !.resultModel = model]

\* BaselineCache: an LRU over fingerprints.
EntriesOf(fp) == {i \in DOMAIN cache : cache[i].fp = fp}
Position(fp) == CHOOSE i \in EntriesOf(fp) : TRUE
Without(fp) ==
  IF EntriesOf(fp) = {} THEN cache
  ELSE SubSeq(cache, 1, Position(fp) - 1) \o SubSeq(cache, Position(fp) + 1, Len(cache))
Cached(fp) == IF EntriesOf(fp) = {} THEN None ELSE cache[Position(fp)].result
Touched(fp) == IF Cached(fp) = None THEN cache
               ELSE Append(Without(fp), [fp |-> fp, result |-> Cached(fp)])
\* Variant: the cache never evicts.
PutWithoutEviction(fp, result) == Append(Without(fp), [fp |-> fp, result |-> result])

Put(fp, result) ==
  LET grown == Append(Without(fp), [fp |-> fp, result |-> result])
  IN  IF Len(grown) > CacheLimit THEN Tail(grown) ELSE grown

----------------------------------------------------------------------------
(* Workers and their owners *)

NewWorker(req, role) == [req |-> req, role |-> role, alive |-> TRUE, status |-> "none"]
Kill(ws, dead) == [w \in DOMAIN ws |-> [ws[w] EXCEPT !.alive = @ /\ w \notin dead]]
EvidenceWorkers == {w \in DOMAIN workers : workers[w].req = NoRequest}

\* #releaseEvidence: the controllers of the retained result are disposed and
\* forgotten, and so is its unclaimed worker.
Held == {c \in controllers : retained # None /\ c.result = retained}
Release == controllers' = controllers \ Held /\ idle' = idle \ {retained}
ReleasedWorkers == {c.worker : c \in Held} \cup (idle \cap {retained})
ReleaseAndStop == Kill(workers, ReleasedWorkers \cup {worker})

\* What a panel takes as its current forecast.
Shown == Baseline /\ view.lastGood # None /\ ~view.pending /\ ~view.stale

----------------------------------------------------------------------------
Init ==
  /\ view = InitialView /\ sequence = 0 /\ worker = None /\ timer = NoTimer
  /\ retained = None /\ cache = <<>> /\ workers = <<>> /\ idle = {}
  /\ controllers = {} /\ operation \in Operations /\ resetAt = 0

\* run(): the body of a submission, given the view, workers and retained
\* result its handler has reached.  makeWorker or postMessage may throw.  For
\* a request that is not current run() returns at once.
Run(req, v, ws, kept) ==
  /\ IsCurrent(v, req)
  /\ \/ /\ req.cached # None
        /\ retained' = req.cached
        /\ view' = Settled(v, ws[req.cached].status, req.cached, req.model)
        /\ workers' = ws /\ worker' = None /\ timer' = NoTimer
     \/ /\ req.cached = None
        /\ workers' = Append(ws, NewWorker(req, "forecast"))
        /\ worker' = Len(ws) + 1
        /\ timer' = [kind |-> "deadline", req |-> req]
        /\ view' = v /\ retained' = kept
     \/ /\ req.cached = None
        /\ view' = Failed(v, "error")
        /\ workers' = ws /\ worker' = None /\ timer' = NoTimer /\ retained' = kept

\* Variant: any cache hit keeps the evidence worker.
RetainAnyCached(m, cached) == cached # None

\* The retain test of submit(): only the current result with its own model
\* keeps its evidence worker.
Retain(m, cached) ==
  /\ cached # None /\ cached = retained /\ cached = view.lastGood
  /\ view.resultFp = FingerprintOf[m] /\ view.resultModel = m
  /\ ~view.pending /\ ~view.stale

Submit(m, immediate) ==
  LET fp == FingerprintOf[m]
      cached == IF Baseline THEN Cached(fp) ELSE None
      keep == Retain(m, cached)
      req == [id |-> sequence + 1, fp |-> fp, model |-> m, cached |-> cached]
      v == Pending(view, req)
      ws == IF keep THEN Kill(workers, {worker}) ELSE ReleaseAndStop
      kept == IF keep THEN retained ELSE None
  IN /\ sequence < MaxRequests
     /\ cache' = IF Baseline THEN Touched(fp) ELSE cache
     /\ sequence' = sequence + 1
     /\ IF keep THEN UNCHANGED <<controllers, idle>> ELSE Release
     /\ IF immediate
        THEN Run(req, v, ws, kept)
        ELSE /\ view' = v /\ workers' = ws /\ retained' = kept /\ worker' = None
             /\ timer' = [kind |-> "debounce", req |-> req]
     /\ UNCHANGED <<operation, resetAt>>

DebounceFires ==
  /\ timer.kind = "debounce"
  /\ Run(timer.req, view, workers, retained)
  /\ UNCHANGED <<sequence, cache, idle, controllers, operation, resetAt>>

----------------------------------------------------------------------------
(* Worker events.  Stopping a worker terminates it but leaves its handlers, *)
(* so a reply queued before terminate() may still be delivered.  A reply to *)
(* a request that is not current changes nothing.                          *)

Stop(w) == /\ worker' = None /\ timer' = NoTimer
           /\ workers' = [Kill(workers, {worker}) EXCEPT ![w].role = "answered"]

\* An error outcome, a worker error event, or a result whose catalogs or
\* periods do not match the request.
ReplyRejected(w) ==
  /\ workers[w].role = "forecast" /\ IsCurrent(view, workers[w].req)
  /\ Stop(w) /\ view' = Failed(view, "error")
  /\ UNCHANGED <<sequence, retained, cache, idle, controllers, operation, resetAt>>

ReplyUnavailable(w) ==
  /\ workers[w].role = "forecast" /\ IsCurrent(view, workers[w].req)
  /\ Stop(w) /\ view' = Failed(view, "unsupported")
  /\ UNCHANGED <<sequence, retained, cache, idle, controllers, operation, resetAt>>

\* A good baseline keeps its worker idle for evidence; a comparison does not.
ReplyGood(w, status) ==
  LET req == workers[w].req
  IN /\ workers[w].role = "forecast" /\ IsCurrent(view, req)
     /\ IF Baseline
        THEN /\ retained' = w /\ idle' = idle \cup {w}
             /\ workers' = [workers EXCEPT ![w].role = "idle", ![w].status = status]
             /\ cache' = Put(req.fp, w)
        ELSE /\ workers' = [Kill(workers, {worker}) EXCEPT ![w].role = "answered",
                                                           ![w].status = status]
             /\ UNCHANGED <<retained, idle, cache>>
     /\ worker' = None /\ timer' = NoTimer
     /\ view' = Settled(view, status, w, req.model)
     /\ UNCHANGED <<sequence, controllers, operation, resetAt>>

DeadlineFires ==
  /\ timer.kind = "deadline" /\ IsCurrent(view, timer.req)
  /\ worker' = None /\ timer' = NoTimer
  /\ workers' = Kill(workers, {worker})
  /\ view' = Failed(view, "error")
  /\ UNCHANGED <<sequence, retained, cache, idle, controllers, operation, resetAt>>

\* releaseIdleOwner: the unclaimed worker of the retained baseline raises error.
IdleWorkerFails(w) ==
  /\ IdleWorkerMayFail /\ workers[w].role = "idle" /\ retained = w
  /\ Release /\ retained' = None
  /\ workers' = [Kill(workers, ReleasedWorkers) EXCEPT ![w].role = "answered"]
  /\ UNCHANGED <<view, sequence, worker, timer, cache, operation, resetAt>>

----------------------------------------------------------------------------
(* The other commands of the channel *)

Silence == /\ Release /\ retained' = None /\ workers' = ReleaseAndStop
           /\ worker' = None /\ timer' = NoTimer

Invalidate ==
  /\ Silence
  /\ view' = [view EXCEPT !.pending = FALSE, !.stale = view.lastGood # None,
                          !.lifecycle = IF view.lastGood = None THEN "idle" ELSE "stale"]
  /\ UNCHANGED <<sequence, cache, operation, resetAt>>

\* Variant: the replaced model's cache is kept.
ResetKeepingCache ==
  /\ sequence < MaxRequests
  /\ Silence /\ view' = InitialView
  /\ sequence' = sequence + 1 /\ resetAt' = sequence + 1 /\ UNCHANGED <<operation, cache>>

Reset ==
  /\ sequence < MaxRequests
  /\ Silence /\ cache' = <<>> /\ view' = InitialView
  /\ sequence' = sequence + 1 /\ resetAt' = sequence + 1 /\ UNCHANGED operation

\* Unmounting; a remounted component submits to the same channel again.
Dispose ==
  /\ Silence /\ cache' = <<>> /\ view' = InitialView
  /\ resetAt' = sequence /\ UNCHANGED <<sequence, operation>>

----------------------------------------------------------------------------
(* Evidence panels.  A panel renders and runs its effect before the next    *)
(* handler of the channel: React flushes effects before it renders again.   *)

\* forecastEvidenceController finds or makes the controller of the shown
\* result; select() claims the idle worker of the result, or makes a fresh
\* one, unless the controller still has its own.
PanelSelects ==
  LET own == {c \in controllers : c.result = view.lastGood /\ c.model = view.resultModel}
      Having(w) == (controllers \ own) \cup
                   {[result |-> view.lastGood, model |-> view.resultModel, worker |-> w]}
  IN /\ Shown /\ \A c \in own : c.worker = None
     /\ IF view.lastGood \in idle
        THEN /\ idle' = idle \ {view.lastGood}
             /\ workers' = [workers EXCEPT ![view.lastGood].role = "evidence"]
             /\ controllers' = Having(view.lastGood)
        ELSE /\ Cardinality(EvidenceWorkers) < MaxEvidenceWorkers
             /\ workers' = Append(workers, NewWorker(NoRequest, "evidence"))
             /\ controllers' = Having(Len(workers) + 1)
             /\ UNCHANGED idle
     /\ UNCHANGED <<view, sequence, worker, timer, retained, cache, operation, resetAt>>

\* EvidenceController.#fail: an error, a mismatch or a deadline disposes the
\* worker; the panel's retry selects again.
EvidenceFails(c) ==
  /\ c.worker # None
  /\ workers' = Kill(workers, {c.worker})
  /\ controllers' = (controllers \ {c}) \cup {[c EXCEPT !.worker = None]}
  /\ UNCHANGED <<view, sequence, worker, timer, retained, cache, idle, operation, resetAt>>

----------------------------------------------------------------------------
WorkerEvent(w) ==
  \/ ReplyRejected(w) \/ ReplyUnavailable(w)
  \/ \E status \in Good : ReplyGood(w, status)
  \/ IdleWorkerFails(w)

Next ==
  \/ \E m \in Models, immediate \in BOOLEAN : Submit(m, immediate)
  \/ DebounceFires \/ DeadlineFires
  \/ \E w \in DOMAIN workers : WorkerEvent(w)
  \/ Invalidate \/ Reset \/ Dispose
  \/ PanelSelects \/ \E c \in controllers : EvidenceFails(c)

\* Timers set with setTimeout do fire; nothing else is promised.
Fairness == WF_vars(DebounceFires) /\ WF_vars(DeadlineFires)
Spec == Init /\ [][Next]_vars /\ Fairness

----------------------------------------------------------------------------
Results == DOMAIN workers \cup {None}
Requests == [id : 0..MaxRequests, fp : Fingerprints \cup {NoFingerprint},
             model : Models \cup {NoModel}, cached : Results]
Views == [lifecycle : {"idle", "running", "stale", "unsupported", "error"} \cup Good,
          pending : BOOLEAN, stale : BOOLEAN, lastGood : Results,
          resultFp : Fingerprints \cup {NoFingerprint}, resultModel : Models \cup {NoModel},
          requestId : 0..MaxRequests, fp : Fingerprints \cup {NoFingerprint}]
Timers == [kind : {"none", "debounce", "deadline"}, req : Requests]
Entries == [fp : Fingerprints, result : DOMAIN workers]
WorkerObjects == [req : Requests, role : {"forecast", "idle", "evidence", "answered"},
                  alive : BOOLEAN, status : Good \cup {"none"}]
EvidenceOwners == [result : DOMAIN workers, model : Models, worker : Results]

\* Every variable stays within the values its TypeScript type allows, and the
\* cache holds no fingerprint twice.
TypeOK ==
  /\ view \in Views /\ timer \in Timers
  /\ sequence \in 0..MaxRequests /\ resetAt \in 0..MaxRequests
  /\ worker \in Results /\ retained \in Results
  /\ cache \in Seq(Entries) /\ Len(cache) <= CacheLimit
  /\ \A i, j \in DOMAIN cache : cache[i].fp = cache[j].fp => i = j
  /\ workers \in Seq(WorkerObjects) /\ idle \subseteq DOMAIN workers
  /\ controllers \subseteq EvidenceOwners
  /\ operation \in Operations

\* The forecast on display was computed from the fingerprint it is labelled
\* with, that fingerprint is the one of the model it is shown beside, and a
\* view that claims to be completed or incomplete shows the request it is
\* about: a late reply, a cache hit or a failure never mixes two requests.
ResultPaired ==
  /\ view.lastGood # None =>
       /\ workers[view.lastGood].req.fp = view.resultFp
       /\ FingerprintOf[view.resultModel] = view.resultFp
  /\ view.lifecycle \in Good =>
       view.lastGood # None /\ ~view.pending /\ ~view.stale /\ view.resultFp = view.fp
  /\ \A i \in DOMAIN cache : workers[cache[i].result].req.fp = cache[i].fp

\* "A replacement model must never inherit results": nothing computed for a
\* request submitted before the last reset or disposal is shown, cached or
\* retained, however late its worker replies.
NothingSurvivesReset ==
  \A r \in {view.lastGood, retained} \cup {cache[i].result : i \in DOMAIN cache} :
    r # None => workers[r].req.id > resetAt

\* "The baseline controller releases their shared worker on source
\* replacement, invalidation or disposal": a live worker that is not computing
\* the pending request belongs to the result on display and its model, and that
\* result is current or waits for an identical submission to be answered from the cache.
EvidenceReleased ==
  \A w \in DOMAIN workers :
    workers[w].alive /\ w # worker =>
      /\ view.lastGood # None /\ (Shown \/ view.pending)
      /\ \/ w = view.lastGood /\ w \in idle
         \/ \E c \in controllers :
              c.result = view.lastGood /\ c.model = view.resultModel /\ c.worker = w

\* The idle worker of a retained baseline failed before a panel claimed it.
IdleFailed ==
  Baseline /\ \E w \in DOMAIN workers :
    workers[w].role = "answered" /\ workers[w].status \in Good

\* As long as no idle worker failed, no worker outlives the result it belongs to:
\* whatever panels claim or make is released when the baseline moves on.
ReleasedUnlessIdleFailed == IdleFailed \/ EvidenceReleased

\* Every submission stops pending: the debounce and the deadline settle it if
\* neither its worker nor a later command does.
EverySubmissionSettles ==
  \A i \in 1..MaxRequests :
    (view.pending /\ view.requestId = i) ~> ~(view.pending /\ view.requestId = i)

----------------------------------------------------------------------------
\* The channel implements LatestForecast: the pending submission is the
\* question, the shown forecast's own model is the last answer.
Latest == INSTANCE LatestForecast WITH
  Questions <- Models,
  nothing <- NoModel,
  question <- IF view.pending THEN timer.req.model ELSE NoModel,
  answer <- view.resultModel,
  fresh <- view.lastGood # None /\ ~view.stale

ImplementsLatest == Latest!Spec
=============================================================================
