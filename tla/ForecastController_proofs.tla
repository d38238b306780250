---------------------- MODULE ForecastController_proofs ----------------------
(***************************************************************************)
(* For any number of models, requests, workers and cache entries: a result *)
(* is shown with the fingerprint and the model it was computed for, no     *)
(* result crosses a reset, the channel implements the safety part of       *)
(* LatestForecast, and workers are released with the result they serve.    *)
(* The first invariant says what ties the parts together: the timer runs   *)
(* the pending request, every worker that could still answer it was given  *)
(* that request, and whatever is remembered was computed for the           *)
(* fingerprint it is remembered under. The second says who owns a worker.  *)
(***************************************************************************)
EXTENDS ForecastController, SequenceTheorems, TLAPS

\* A result that was computed for a fingerprint after the last reset.
Computed(ws, r, fp) ==
    /\ r \in DOMAIN ws /\ ws[r].status \in Good
    /\ ws[r].req.fp = fp /\ ws[r].req.id > resetAt

\* What the view shows is paired, and it only claims success for its request.
ViewHolds ==
    /\ view.lastGood # None =>
         /\ Computed(workers, view.lastGood, view.resultFp) /\ view.resultModel \in Models
         /\ FingerprintOf[view.resultModel] = view.resultFp
    /\ view.lifecycle \in Good =>
         view.lastGood # None /\ ~view.pending /\ ~view.stale /\ view.resultFp = view.fp
    /\ view.requestId <= sequence /\ resetAt <= sequence

\* The cache remembers each result under the fingerprint it was computed for.
GoodEntries == {e \in Entries : Computed(workers, e.result, e.fp)}
RememberedHolds ==
    /\ retained # None => workers[retained].req.id > resetAt
    /\ cache \in Seq(GoodEntries)

\* A request as submit() makes it.
Made(ws, req) ==
    /\ req.model \in Models /\ req.fp = FingerprintOf[req.model] /\ req.id > resetAt
    /\ req.cached # None => Computed(ws, req.cached, req.fp)

\* A request is pending exactly while a timer runs it.
TimerHolds ==
    /\ view.pending <=> timer.kind # "none"
    /\ view.pending =>
         timer.req.id = view.requestId /\ timer.req.fp = view.fp /\ Made(workers, timer.req)

\* No worker was given a later request, and the ones that could answer the
\* pending request were given that very request.
WorkersHold ==
    \A w \in DOMAIN workers :
      /\ workers[w].req.id <= sequence
      /\ view.pending /\ workers[w].role = "forecast" /\ workers[w].req.id = view.requestId =>
           workers[w].req = timer.req

IInv == TypeOK /\ ViewHolds /\ RememberedHolds /\ TimerHolds /\ WorkersHold

----------------------------------------------------------------------------
(* The pure functions. *)

LEMMA PendingView ==
    ASSUME NEW v \in Views, NEW req \in Requests
    PROVE  /\ Pending(v, req) \in Views /\ Pending(v, req).pending /\ Pending(v, req).lifecycle \notin Good
           /\ Pending(v, req).requestId = req.id /\ Pending(v, req).fp = req.fp
           /\ Pending(v, req).lastGood = v.lastGood /\ Pending(v, req).resultFp = v.resultFp
           /\ Pending(v, req).resultModel = v.resultModel /\ (Pending(v, req).stale <=> v.lastGood # None)
    BY DEF Pending, Views, Requests, Good

LEMMA FailedView ==
    ASSUME NEW v \in Views, NEW lifecycle \in {"error", "unsupported"}
    PROVE  /\ Failed(v, lifecycle) \in Views /\ ~Failed(v, lifecycle).pending
           /\ Failed(v, lifecycle).lifecycle \notin Good /\ Failed(v, lifecycle).requestId = v.requestId
           /\ Failed(v, lifecycle).lastGood = v.lastGood /\ Failed(v, lifecycle).resultFp = v.resultFp
           /\ Failed(v, lifecycle).resultModel = v.resultModel
           /\ Failed(v, lifecycle).stale <=> v.lastGood # None
    BY DEF Failed, Views, Good

LEMMA SettledView ==
    ASSUME NEW v \in Views, NEW status \in Good, NEW result \in Results, NEW model \in Models
    PROVE  /\ Settled(v, status, result, model) \in Views
           /\ ~Settled(v, status, result, model).pending /\ ~Settled(v, status, result, model).stale
           /\ Settled(v, status, result, model).lastGood = result
           /\ Settled(v, status, result, model).resultFp = v.fp
           /\ Settled(v, status, result, model).resultModel = model
           /\ Settled(v, status, result, model).fp = v.fp
           /\ Settled(v, status, result, model).requestId = v.requestId
    BY DEF Settled, Views

----------------------------------------------------------------------------
(* The cache. *)

\* No fingerprint twice.
Distinct(s) == \A i, j \in DOMAIN s : s[i].fp = s[j].fp => i = j

\* A sequence without one of its elements.
LEMMA Removal ==
    ASSUME NEW S, NEW s \in Seq(S), NEW p \in 1..Len(s)
    PROVE  LET rest == SubSeq(s, 1, p - 1) \o SubSeq(s, p + 1, Len(s))
           IN  /\ rest \in Seq(S) /\ Len(rest) = Len(s) - 1
               /\ \A i \in 1..Len(s) - 1 : rest[i] = IF i < p THEN s[i] ELSE s[i + 1]
<1> DEFINE n == Len(s)
           before == SubSeq(s, 1, p - 1)
           after == SubSeq(s, p + 1, n)
<1>1. n \in Nat /\ p \in Nat /\ p >= 1 /\ p <= n /\ \A i \in 1..n : s[i] \in S
    BY LenProperties
<1> HIDE DEF n
<1>2. /\ before \in Seq(S) /\ Len(before) = p - 1
      /\ \A i \in 1..p - 1 : before[i] = s[i]
  <2>1. \A i \in 1..p - 1 : s[i] \in S
      BY <1>1
  <2>2. /\ before \in Seq(S) /\ Len(before) = IF 1 <= p - 1 THEN p - 1 - 1 + 1 ELSE 0
        /\ \A i \in 1..p - 1 - 1 + 1 : before[i] = s[1 + i - 1]
      BY <1>1, <2>1, SubSeqProperties
  <2> QED BY <1>1, <2>2
<1>3. /\ after \in Seq(S) /\ Len(after) = n - p
      /\ \A i \in 1..n - p : after[i] = s[p + i]
  <2>1. \A i \in p + 1..n : s[i] \in S
      BY <1>1
  <2>2. /\ after \in Seq(S) /\ Len(after) = IF p + 1 <= n THEN n - (p + 1) + 1 ELSE 0
        /\ \A i \in 1..n - (p + 1) + 1 : after[i] = s[(p + 1) + i - 1]
      BY <1>1, <2>1, SubSeqProperties
  <2> QED BY <1>1, <2>2
<1> HIDE DEF before, after
<1>4. /\ before \o after \in Seq(S) /\ Len(before \o after) = n - 1
      /\ \A i \in 1..n - 1 :
           (before \o after)[i] = IF i <= p - 1 THEN before[i] ELSE after[i - (p - 1)]
    BY <1>1, <1>2, <1>3, ConcatProperties
<1>5. \A i \in 1..n - 1 : (before \o after)[i] = IF i < p THEN s[i] ELSE s[i + 1]
  <2> TAKE i \in 1..n - 1
  <2>1. CASE i < p
      BY <1>1, <1>2, <1>4, <2>1
  <2>2. CASE ~(i < p)
    <3>1. i - (p - 1) \in 1..n - p /\ p + (i - (p - 1)) = i + 1
        BY <1>1, <2>2
    <3> QED BY <1>1, <1>3, <1>4, <2>2, <3>1
  <2> QED BY <2>1, <2>2
<1> QED BY <1>4, <1>5 DEF n, before, after

\* What is left of the cache without a fingerprint.
LEMMA WithoutKeeps ==
    ASSUME NEW S, cache \in Seq(S), Distinct(cache), NEW fp
    PROVE  /\ Without(fp) \in Seq(S) /\ Distinct(Without(fp)) /\ Len(Without(fp)) <= Len(cache)
           /\ \A i \in DOMAIN Without(fp) : Without(fp)[i].fp # fp
           /\ EntriesOf(fp) # {} => Len(Without(fp)) < Len(cache)
<1> DEFINE n == Len(cache)
<1>1. n \in Nat /\ DOMAIN cache = 1..n
    BY LenProperties
<1>2. CASE EntriesOf(fp) = {}
    BY <1>1, <1>2 DEF Without, EntriesOf, Distinct
<1>3. CASE EntriesOf(fp) # {}
  <2> DEFINE p == Position(fp)
             rest == Without(fp)
  <2>1. p \in 1..n /\ cache[p].fp = fp
      BY <1>1, <1>3 DEF Position, EntriesOf
  <2>2. /\ rest \in Seq(S) /\ Len(rest) = n - 1
        /\ \A i \in 1..n - 1 : rest[i] = IF i < p THEN cache[i] ELSE cache[i + 1]
      BY <1>3, <2>1, Removal DEF Without
  <2>3. DOMAIN rest = 1..n - 1
      BY <2>2, LenProperties
  <2> HIDE DEF p, rest, n
  <2>4. \A i, j \in 1..n : cache[i].fp = cache[j].fp => i = j
      BY <1>1 DEF Distinct
  <2>5. \A i \in 1..n - 1 : rest[i].fp # fp
    <3> TAKE i \in 1..n - 1
    <3>1. i \in 1..n /\ i + 1 \in 1..n /\ (i < p => i # p) /\ (~(i < p) => i + 1 # p)
        BY <1>1, <2>1
    <3> QED BY <2>1, <2>2, <2>4, <3>1
  <2>6. \A i, j \in 1..n - 1 : rest[i].fp = rest[j].fp => i = j
    <3> TAKE i \in 1..n - 1, j \in 1..n - 1
    <3>1. i \in 1..n /\ i + 1 \in 1..n /\ j \in 1..n /\ j + 1 \in 1..n
        BY <1>1
    <3> QED BY <1>1, <2>1, <2>2, <2>4, <3>1
  <2> QED BY <1>1, <2>2, <2>3, <2>5, <2>6 DEF Distinct, rest, n
<1> QED BY <1>2, <1>3

\* Appending an entry with a new fingerprint.
LEMMA AppendKeeps ==
    ASSUME NEW S, NEW s \in Seq(S), Distinct(s), NEW e \in S,
           \A i \in DOMAIN s : s[i].fp # e.fp
    PROVE  Append(s, e) \in Seq(S) /\ Distinct(Append(s, e)) /\ Len(Append(s, e)) = Len(s) + 1
<1> DEFINE n == Len(s)
<1>1. n \in Nat /\ DOMAIN s = 1..n
    BY LenProperties
<1>2. /\ Append(s, e) \in Seq(S) /\ Len(Append(s, e)) = n + 1
      /\ \A i \in 1..n : Append(s, e)[i] = s[i]
      /\ Append(s, e)[n + 1] = e
    BY AppendProperties
<1>3. DOMAIN Append(s, e) = 1..n + 1
    BY <1>1, <1>2, LenProperties
<1> HIDE DEF n
<1>4. \A i \in 1..n + 1 : i \in 1..n \/ i = n + 1
    BY <1>1
<1>5. \A i, j \in 1..n + 1 : Append(s, e)[i].fp = Append(s, e)[j].fp => i = j
    BY <1>1, <1>2, <1>4 DEF Distinct
<1> QED BY <1>2, <1>3, <1>5 DEF Distinct, n

LEMMA TailKeeps ==
    ASSUME NEW S, NEW s \in Seq(S), Distinct(s), Len(s) > 0
    PROVE  Tail(s) \in Seq(S) /\ Distinct(Tail(s)) /\ Len(Tail(s)) = Len(s) - 1
<1> DEFINE n == Len(s)
<1>1. n \in Nat /\ n > 0 /\ DOMAIN s = 1..n /\ s # << >>
    BY LenProperties
<1>2. /\ Tail(s) \in Seq(S) /\ Len(Tail(s)) = n - 1
      /\ \A i \in 1..n - 1 : Tail(s)[i] = s[i + 1]
    BY <1>1, HeadTailProperties
<1>3. DOMAIN Tail(s) = 1..n - 1
    BY <1>2, LenProperties
<1> HIDE DEF n
<1>4. \A i, j \in 1..n - 1 : Tail(s)[i].fp = Tail(s)[j].fp => i = j
  <2> TAKE i \in 1..n - 1, j \in 1..n - 1
  <2>1. i + 1 \in 1..n /\ j + 1 \in 1..n
      BY <1>1
  <2> QED BY <1>1, <1>2, <2>1 DEF Distinct
<1> QED BY <1>2, <1>3, <1>4 DEF Distinct, n

\* A hit moves its entry to the end, a new result evicts the oldest: either way
\* the cache holds known entries, none twice, and no more than it may.
LEMMA TouchedKeeps ==
    ASSUME NEW S, cache \in Seq(S), Distinct(cache), Len(cache) <= CacheLimit, CacheLimit \in Nat,
           NEW fp, \A e \in S : e = [fp |-> e.fp, result |-> e.result]
    PROVE  /\ Touched(fp) \in Seq(S) /\ Distinct(Touched(fp)) /\ Len(Touched(fp)) <= CacheLimit
           /\ Cached(fp) # None => [fp |-> fp, result |-> Cached(fp)] \in S
<1>1. CASE EntriesOf(fp) = {}
    BY <1>1 DEF Touched, Cached
<1>2. CASE EntriesOf(fp) # {}
  <2>1. Position(fp) \in DOMAIN cache /\ cache[Position(fp)].fp = fp
      BY <1>2 DEF Position, EntriesOf
  <2>2. cache[Position(fp)] \in S
      BY <2>1, LenProperties
  <2>3. [fp |-> fp, result |-> Cached(fp)] \in S
      BY <1>2, <2>1, <2>2 DEF Cached
  <2>4. /\ Without(fp) \in Seq(S) /\ Distinct(Without(fp)) /\ Len(Without(fp)) < Len(cache)
        /\ \A i \in DOMAIN Without(fp) : Without(fp)[i].fp # fp
      BY <1>2, WithoutKeeps
  <2>5. LET grown == Append(Without(fp), [fp |-> fp, result |-> Cached(fp)])
        IN  grown \in Seq(S) /\ Distinct(grown) /\ Len(grown) = Len(Without(fp)) + 1
      BY <2>3, <2>4, AppendKeeps
  <2>6. Len(cache) \in Nat /\ Len(Without(fp)) \in Nat
      BY <2>4, LenProperties
  <2> QED BY <2>3, <2>4, <2>5, <2>6 DEF Touched
<1> QED BY <1>1, <1>2

LEMMA PutKeeps ==
    ASSUME NEW S, cache \in Seq(S), Distinct(cache), Len(cache) <= CacheLimit,
           CacheLimit \in Nat \ {0}, NEW fp, NEW result, [fp |-> fp, result |-> result] \in S
    PROVE  Put(fp, result) \in Seq(S) /\ Distinct(Put(fp, result)) /\ Len(Put(fp, result)) <= CacheLimit
<1> DEFINE grown == Append(Without(fp), [fp |-> fp, result |-> result])
<1>1. /\ Without(fp) \in Seq(S) /\ Distinct(Without(fp)) /\ Len(Without(fp)) <= Len(cache)
      /\ \A i \in DOMAIN Without(fp) : Without(fp)[i].fp # fp
    BY WithoutKeeps
<1>2. grown \in Seq(S) /\ Distinct(grown) /\ Len(grown) = Len(Without(fp)) + 1
    BY <1>1, AppendKeeps
<1>3. Len(cache) \in Nat /\ Len(Without(fp)) \in Nat
    BY <1>1, LenProperties
<1>4. Put(fp, result) = IF Len(grown) > CacheLimit THEN Tail(grown) ELSE grown
    BY DEF Put
<1> HIDE DEF grown
<1>5. Tail(grown) \in Seq(S) /\ Distinct(Tail(grown)) /\ Len(Tail(grown)) = Len(grown) - 1
    BY <1>2, <1>3, TailKeeps
<1> QED BY <1>1, <1>2, <1>3, <1>4, <1>5

----------------------------------------------------------------------------
(* The workers. *)

\* Later workers: requests are never changed, what was computed stays computed,
\* and no worker becomes able to answer again.
Succeeds(ws, later) ==
    /\ DOMAIN ws \subseteq DOMAIN later
    /\ \A w \in DOMAIN ws :
         /\ later[w].req = ws[w].req
         /\ ws[w].status \in Good => later[w].status \in Good
         /\ later[w].role = "forecast" => ws[w].role = "forecast"

LEMMA SucceedsTransitive ==
    ASSUME NEW a, NEW b, NEW c, Succeeds(a, b), Succeeds(b, c) PROVE Succeeds(a, c)
    BY DEF Succeeds

LEMMA KillSucceeds ==
    ASSUME NEW ws \in Seq(WorkerObjects), NEW dead
    PROVE  /\ Kill(ws, dead) \in Seq(WorkerObjects) /\ Succeeds(ws, Kill(ws, dead))
           /\ DOMAIN Kill(ws, dead) = DOMAIN ws /\ Len(Kill(ws, dead)) = Len(ws)
           /\ \A w \in DOMAIN ws : Kill(ws, dead)[w].status = ws[w].status
<1>1. Len(ws) \in Nat /\ DOMAIN ws = 1..Len(ws) /\ \A w \in 1..Len(ws) : ws[w] \in WorkerObjects
    BY LenProperties
<1>2. DOMAIN Kill(ws, dead) = 1..Len(ws)
    BY <1>1 DEF Kill
<1>3. \A w \in 1..Len(ws) : Kill(ws, dead)[w] \in WorkerObjects
    BY <1>1 DEF Kill, WorkerObjects
<1>4. \A w \in DOMAIN ws : /\ Kill(ws, dead)[w].req = ws[w].req
                           /\ Kill(ws, dead)[w].role = ws[w].role
                           /\ Kill(ws, dead)[w].status = ws[w].status
    BY <1>1 DEF Kill, WorkerObjects
<1>5. Kill(ws, dead) = [w \in 1..Len(ws) |-> Kill(ws, dead)[w]]
    BY <1>1, <1>2 DEF Kill
<1>6. Kill(ws, dead) \in [1..Len(ws) -> WorkerObjects]
    BY <1>3, <1>5
<1>7. Kill(ws, dead) \in Seq(WorkerObjects) /\ Len(Kill(ws, dead)) = Len(ws)
    BY <1>1, <1>2, <1>6
<1> QED BY <1>1, <1>2, <1>4, <1>7 DEF Succeeds

LEMMA MarkSucceeds ==
    ASSUME NEW ws \in Seq(WorkerObjects), NEW w \in DOMAIN ws,
           NEW role \in {"idle", "evidence", "answered"}
    PROVE  LET later == [ws EXCEPT ![w].role = role]
           IN  later \in Seq(WorkerObjects) /\ Succeeds(ws, later) /\ DOMAIN later = DOMAIN ws
<1> DEFINE e == [ws[w] EXCEPT !.role = role]
<1>1. w \in 1..Len(ws) /\ DOMAIN ws = 1..Len(ws) /\ ws[w] \in WorkerObjects
    BY LenProperties
<1>2. e \in WorkerObjects /\ e.req = ws[w].req /\ e.status = ws[w].status /\ e.role = role
    BY <1>1 DEF WorkerObjects
<1>3. [ws EXCEPT ![w].role = role] = [ws EXCEPT ![w] = e]
    OBVIOUS
<1> HIDE DEF e
<1>4. [ws EXCEPT ![w] = e] \in Seq(WorkerObjects) /\ DOMAIN [ws EXCEPT ![w] = e] = DOMAIN ws
    BY <1>1, <1>2, ExceptSeq
<1>5. \A v \in DOMAIN ws : [ws EXCEPT ![w] = e][v] = IF v = w THEN e ELSE ws[v]
    BY <1>1
<1> QED BY <1>2, <1>3, <1>4, <1>5 DEF Succeeds

\* A worker that answered, with its new role and the status of its result.
Answered(ws, w, role, status) == [ws EXCEPT ![w].role = role, ![w].status = status]

LEMMA AnswerSucceeds ==
    ASSUME NEW ws \in Seq(WorkerObjects), NEW w \in DOMAIN ws,
           NEW role \in {"idle", "answered"}, NEW status \in Good
    PROVE  /\ Answered(ws, w, role, status) \in Seq(WorkerObjects)
           /\ Succeeds(ws, Answered(ws, w, role, status))
           /\ DOMAIN Answered(ws, w, role, status) = DOMAIN ws
           /\ Answered(ws, w, role, status)[w].status = status
<1> DEFINE e == [[ws[w] EXCEPT !.role = role] EXCEPT !.status = status]
<1>1. w \in 1..Len(ws) /\ DOMAIN ws = 1..Len(ws) /\ ws[w] \in WorkerObjects
    BY LenProperties
<1>2. e \in WorkerObjects /\ e.req = ws[w].req /\ e.status = status /\ e.role = role
    BY <1>1 DEF WorkerObjects
<1>3. Answered(ws, w, role, status) = [ws EXCEPT ![w] = e]
    BY DEF Answered
<1> HIDE DEF e
<1>4. [ws EXCEPT ![w] = e] \in Seq(WorkerObjects) /\ DOMAIN [ws EXCEPT ![w] = e] = DOMAIN ws
    BY <1>1, <1>2, ExceptSeq
<1>5. \A v \in DOMAIN ws : [ws EXCEPT ![w] = e][v] = IF v = w THEN e ELSE ws[v]
    BY <1>1
<1> QED BY <1>2, <1>3, <1>4, <1>5 DEF Succeeds

LEMMA AppendSucceeds ==
    ASSUME NEW ws \in Seq(WorkerObjects), NEW req \in Requests, NEW role \in {"forecast", "evidence"}
    PROVE  LET later == Append(ws, NewWorker(req, role))
           IN  /\ later \in Seq(WorkerObjects) /\ Succeeds(ws, later)
               /\ DOMAIN later = DOMAIN ws \cup {Len(ws) + 1} /\ Len(ws) + 1 \notin DOMAIN ws
               /\ later[Len(ws) + 1].req = req /\ later[Len(ws) + 1].role = role
<1> DEFINE e == NewWorker(req, role)
           later == Append(ws, e)
<1>1. e \in WorkerObjects /\ e.req = req /\ e.role = role
    BY DEF NewWorker, WorkerObjects
<1> HIDE DEF e
<1>2. Len(ws) \in Nat /\ DOMAIN ws = 1..Len(ws)
    BY LenProperties
<1>3. /\ later \in Seq(WorkerObjects) /\ Len(later) = Len(ws) + 1
      /\ \A i \in 1..Len(ws) : later[i] = ws[i]
      /\ later[Len(ws) + 1] = e
    BY <1>1, AppendProperties
<1>4. DOMAIN later = 1..Len(ws) + 1
    BY <1>3, LenProperties
<1> QED BY <1>1, <1>2, <1>3, <1>4 DEF Succeeds, e

\* What was typed stays typed with more workers.
LEMMA TypesCarried ==
    ASSUME Succeeds(workers, workers'), workers' \in Seq(WorkerObjects)
    PROVE  /\ Results \subseteq Results' /\ Requests \subseteq Requests' /\ Views \subseteq Views'
           /\ Timers \subseteq Timers' /\ Entries \subseteq Entries'
           /\ EvidenceOwners \subseteq EvidenceOwners' /\ workers' \in Seq(WorkerObjects')
<1>1. Results \subseteq Results'
    BY DEF Results, Succeeds
<1>2. Requests \subseteq Requests' /\ Views \subseteq Views' /\ Entries \subseteq Entries'
      /\ EvidenceOwners \subseteq EvidenceOwners'
    BY <1>1 DEF Requests, Views, Entries, EvidenceOwners, Succeeds
<1>3. Timers \subseteq Timers' /\ WorkerObjects \subseteq WorkerObjects'
    BY <1>2 DEF Timers, WorkerObjects
<1>4. workers' \in Seq(WorkerObjects')
    BY <1>3, SeqMonotonic
<1> QED BY <1>1, <1>2, <1>3, <1>4

\* What was computed or made since the last reset stays so.
LEMMA Carried ==
    ASSUME Succeeds(workers, workers'), workers' \in Seq(WorkerObjects), resetAt' = resetAt
    PROVE  /\ GoodEntries \subseteq GoodEntries'
           /\ \A s \in Seq(GoodEntries) : s \in Seq(GoodEntries') /\ s \in Seq(Entries')
           /\ \A r, fp : Computed(workers, r, fp) => Computed(workers, r, fp)'
           /\ \A req : Made(workers, req) => Made(workers, req)'
<1>1. \A r, fp : Computed(workers, r, fp) => Computed(workers, r, fp)'
    BY DEF Computed, Succeeds
<1>2. \A req : Made(workers, req) => Made(workers, req)'
    BY <1>1 DEF Made
<1>3. GoodEntries \subseteq GoodEntries'
    BY <1>1, TypesCarried DEF GoodEntries
<1>4. \A s \in Seq(GoodEntries) : s \in Seq(GoodEntries') /\ s \in Seq(Entries')
  <2> TAKE s \in Seq(GoodEntries)
  <2>1. s \in Seq(GoodEntries')
      BY <1>3, SeqMonotonic
  <2>2. GoodEntries' \subseteq Entries'
      BY DEF GoodEntries
  <2> QED BY <2>1, <2>2, SeqMonotonic
<1> QED BY <1>1, <1>2, <1>3, <1>4

\* A step that only stops, marks or makes workers keeps what they hold: new ones
\* were given the pending request or none, and the pending request stays or is newer.
LEMMA WorkersCarried ==
    ASSUME IInv, Succeeds(workers, workers'), workers' \in Seq(WorkerObjects),
           sequence' \in Nat, sequence <= sequence',
           \A w \in DOMAIN workers' \ DOMAIN workers :
             workers'[w].req.id <= sequence' /\ (workers'[w].role = "forecast" => workers'[w].req = timer'.req),
           view'.pending =>
             \/ view.pending /\ view'.requestId = view.requestId /\ timer'.req = timer.req
             \/ view'.requestId > sequence /\ view'.requestId \in Nat
    PROVE  WorkersHold'
<1> SUFFICES ASSUME NEW w \in DOMAIN workers'
             PROVE  /\ workers'[w].req.id <= sequence'
                    /\ view'.pending /\ workers'[w].role = "forecast"
                         /\ workers'[w].req.id = view'.requestId => workers'[w].req = timer'.req
    BY DEF WorkersHold
<1>1. CASE w \notin DOMAIN workers
    BY <1>1
<1>2. CASE w \in DOMAIN workers
  <2>1. workers'[w].req = workers[w].req /\ (workers'[w].role = "forecast" => workers[w].role = "forecast")
      BY <1>2 DEF Succeeds
  <2>2. workers[w].req.id <= sequence /\ workers[w].req.id \in Nat /\ sequence \in Nat
    <3>1. workers[w] \in WorkerObjects
        BY <1>2, LenProperties DEF IInv, TypeOK
    <3> QED BY <1>2, <3>1, ChannelAssumption DEF IInv, TypeOK, WorkersHold, WorkerObjects, Requests
  <2>3. workers'[w].req.id <= sequence'
      BY <2>1, <2>2
  <2>4. ASSUME view'.pending, workers'[w].role = "forecast", workers'[w].req.id = view'.requestId
        PROVE  workers'[w].req = timer'.req
    <3>1. view.pending /\ view'.requestId = view.requestId /\ timer'.req = timer.req
        BY <2>1, <2>2, <2>4
    <3> QED BY <1>2, <2>1, <2>4, <3>1 DEF IInv, WorkersHold
  <2> QED BY <2>3, <2>4
<1> QED BY <1>1, <1>2

\* The result on display stays paired when only its labels of progress change.
LEMMA ViewCarried ==
    ASSUME IInv, Succeeds(workers, workers'), workers' \in Seq(WorkerObjects), resetAt' = resetAt,
           sequence' \in Nat, sequence <= sequence',
           view'.lastGood = view.lastGood, view'.resultFp = view.resultFp,
           view'.resultModel = view.resultModel,
           view'.requestId <= sequence', view' = view \/ view'.lifecycle \notin Good
    PROVE  ViewHolds'
<1>1. \A r, fp : Computed(workers, r, fp) => Computed(workers, r, fp)'
    BY Carried
<1>2. view'.lastGood # None =>
        /\ Computed(workers, view.lastGood, view.resultFp)' /\ view'.resultModel \in Models
        /\ FingerprintOf[view'.resultModel] = view'.resultFp
    BY <1>1 DEF IInv, ViewHolds
<1>3. view'.lifecycle \in Good =>
        view'.lastGood # None /\ ~view'.pending /\ ~view'.stale /\ view'.resultFp = view'.fp
    BY DEF IInv, ViewHolds
<1>4. resetAt' <= sequence'
    BY ChannelAssumption DEF IInv, ViewHolds, TypeOK
<1> QED BY <1>2, <1>3, <1>4 DEF ViewHolds, Computed

\* What is remembered stays typed and computed.
LEMMA RememberedCarried ==
    ASSUME IInv, Succeeds(workers, workers'), workers' \in Seq(WorkerObjects), resetAt' = resetAt,
           retained' = None \/ retained' = retained, cache' = cache
    PROVE  RememberedHolds' /\ retained' \in Results' /\ cache' \in Seq(Entries')
<1>1. retained' # None => workers'[retained'].req.id > resetAt'
    BY DEF IInv, RememberedHolds, TypeOK, Results, Succeeds
<1>2. retained' \in Results'
    BY TypesCarried DEF IInv, TypeOK, Results, Succeeds
<1>3. cache' \in Seq(GoodEntries') /\ cache' \in Seq(Entries')
    BY Carried DEF IInv, RememberedHolds
<1> QED BY <1>1, <1>2, <1>3 DEF RememberedHolds

LEMMA TimerNone ==
    ASSUME timer' = NoTimer, ~view'.pending
    PROVE  TimerHolds' /\ timer' \in Timers'
<1>1. NoRequest \in Requests'
    BY ChannelAssumption DEF NoRequest, Requests, Results
<1>2. timer' \in Timers'
    BY <1>1 DEF NoTimer, Timers
<1> QED BY <1>2 DEF TimerHolds, NoTimer

----------------------------------------------------------------------------
(* The steps. *)

LEMMA KeepsStep ==
    ASSUME IInv, Succeeds(workers, workers'), workers' \in Seq(WorkerObjects), resetAt' = resetAt,
           sequence' = sequence, operation' = operation, cache' = cache,
           view' = view, timer' = timer, worker' = worker,
           retained' = None \/ retained' = retained,
           idle' \subseteq DOMAIN workers, controllers' \subseteq EvidenceOwners',
           \A w \in DOMAIN workers' \ DOMAIN workers :
             workers'[w].req.id <= sequence /\ workers'[w].role # "forecast"
    PROVE  IInv'
<1>1. TypeOK'
  <2>1. view' \in Views' /\ timer' \in Timers' /\ worker' \in Results' /\ workers' \in Seq(WorkerObjects')
      BY TypesCarried DEF IInv, TypeOK
  <2>2. retained' \in Results' /\ cache' \in Seq(Entries')
      BY RememberedCarried
  <2>3. idle' \subseteq DOMAIN workers'
      BY DEF Succeeds
  <2> QED BY <2>1, <2>2, <2>3 DEF IInv, TypeOK
<1>2. sequence \in Nat /\ view'.requestId <= sequence'
    BY ChannelAssumption DEF IInv, TypeOK, ViewHolds
<1>3. ViewHolds'
    BY <1>2, ViewCarried
<1>4. RememberedHolds'
    BY RememberedCarried
<1>5. TimerHolds'
  <2>1. Made(workers, timer.req) => Made(workers, timer.req)'
      BY Carried
  <2> QED BY <2>1 DEF IInv, TimerHolds, Made, Computed
<1>6. WorkersHold'
    BY <1>2, WorkersCarried
<1> QED BY <1>1, <1>3, <1>4, <1>5, <1>6 DEF IInv

\* The request ends, and the result on display stays.
LEMMA EndsStep ==
    ASSUME IInv, Succeeds(workers, workers'), workers' \in Seq(WorkerObjects), resetAt' = resetAt,
           sequence' = sequence, operation' = operation, cache' = cache,
           view' \in Views, ~view'.pending, view'.lifecycle \notin Good,
           view'.lastGood = view.lastGood, view'.resultFp = view.resultFp,
           view'.resultModel = view.resultModel, view'.requestId = view.requestId,
           timer' = NoTimer, worker' = None, retained' = None \/ retained' = retained,
           idle' \subseteq idle, controllers' \subseteq controllers
    PROVE  (DOMAIN workers' = DOMAIN workers) => IInv'
<1> SUFFICES ASSUME DOMAIN workers' = DOMAIN workers PROVE IInv'
    OBVIOUS
<1>1. TypeOK'
  <2>1. view' \in Views' /\ worker' \in Results' /\ workers' \in Seq(WorkerObjects')
      BY TypesCarried DEF Results
  <2>2. retained' \in Results' /\ cache' \in Seq(Entries') /\ timer' \in Timers'
      BY RememberedCarried, TimerNone
  <2>3. idle' \subseteq DOMAIN workers' /\ controllers' \subseteq EvidenceOwners'
      BY TypesCarried DEF IInv, TypeOK
  <2> QED BY <2>1, <2>2, <2>3 DEF IInv, TypeOK
<1>2. sequence \in Nat /\ view'.requestId <= sequence'
    BY ChannelAssumption DEF IInv, TypeOK, ViewHolds
<1>3. ViewHolds'
    BY <1>2, ViewCarried
<1>4. RememberedHolds' /\ TimerHolds'
    BY RememberedCarried, TimerNone
<1>5. WorkersHold'
    BY <1>2, WorkersCarried
<1> QED BY <1>1, <1>3, <1>4, <1>5 DEF IInv
\* Everything is forgotten: only the workers' requests remain, and they are older
\* than any to come.
LEMMA ForgetsStep ==
    ASSUME IInv, Succeeds(workers, workers'), workers' \in Seq(WorkerObjects),
           DOMAIN workers' = DOMAIN workers,
           sequence' \in 0..MaxRequests, sequence <= sequence', resetAt' = sequence',
           operation' = operation, cache' = << >>, view' = InitialView,
           timer' = NoTimer, worker' = None, retained' = None,
           idle' \subseteq idle, controllers' \subseteq controllers
    PROVE  IInv'
<1>1. /\ InitialView \in Views' /\ InitialView.lastGood = None /\ InitialView.requestId = 0
      /\ ~InitialView.pending /\ InitialView.lifecycle \notin Good
    BY ChannelAssumption DEF InitialView, Views, Results, Good
<1>2. << >> \in Seq(Entries') /\ << >> \in Seq(GoodEntries') /\ Len(<< >>) = 0 /\ DOMAIN << >> = {}
    BY EmptySeq
<1>3. sequence' \in Nat /\ CacheLimit >= 0
    BY ChannelAssumption
<1>4. TypeOK'
  <2>1. worker' \in Results' /\ retained' \in Results' /\ timer' \in Timers'
      BY <1>1, TimerNone DEF Results
  <2>2. /\ idle' \subseteq DOMAIN workers' /\ controllers' \subseteq EvidenceOwners'
        /\ workers' \in Seq(WorkerObjects')
      BY TypesCarried DEF IInv, TypeOK
  <2> QED BY <1>1, <1>2, <1>3, <2>1, <2>2 DEF IInv, TypeOK
<1>5. ViewHolds' /\ RememberedHolds' /\ TimerHolds'
    BY <1>1, <1>2, <1>3, TimerNone DEF ViewHolds, RememberedHolds
<1>6. WorkersHold'
    BY <1>1, <1>3, WorkersCarried
<1> QED BY <1>4, <1>5, <1>6 DEF IInv

\* run() of a request that was just made or is the pending one.
LEMMA RunKeeps ==
    ASSUME IInv, NEW req \in Requests, NEW v \in Views, NEW ws \in Seq(WorkerObjects), NEW kept,
           Run(req, v, ws, kept), Made(workers, req),
           Succeeds(workers, ws), DOMAIN ws = DOMAIN workers,
           sequence' \in 0..MaxRequests, sequence <= sequence', req.id <= sequence',
           req.id > sequence \/ (view.pending /\ timer.req = req /\ view.requestId = req.id),
           v.lastGood = view.lastGood, v.resultFp = view.resultFp, v.resultModel = view.resultModel,
           v.lifecycle \notin Good,
           kept = None \/ kept = retained,
           cache' \in Seq(GoodEntries), Distinct(cache'), Len(cache') <= CacheLimit,
           idle' \subseteq idle, controllers' \subseteq controllers,
           operation' = operation, resetAt' = resetAt
    PROVE  IInv'
<1>1. v.pending /\ v.requestId = req.id /\ v.fp = req.fp
    BY DEF Run, IsCurrent
<1>2. sequence' \in Nat /\ req.id \in Nat /\ sequence \in Nat /\ resetAt \in Nat /\ resetAt <= sequence'
    BY ChannelAssumption DEF Requests, IInv, TypeOK, ViewHolds
<1>3. ASSUME Succeeds(workers, workers'), workers' \in Seq(WorkerObjects),
             retained' # None => retained' \in DOMAIN workers /\ workers[retained'].req.id > resetAt,
             view' \in Views, worker' \in Results', timer' \in Timers', ViewHolds', TimerHolds',
             WorkersHold'
      PROVE  IInv'
  <2>1. RememberedHolds' /\ retained' \in Results' /\ cache' \in Seq(Entries')
      BY <1>3, Carried DEF RememberedHolds, Succeeds, Results
  <2>2. idle' \subseteq DOMAIN workers' /\ controllers' \subseteq EvidenceOwners' /\ view' \in Views'
        /\ workers' \in Seq(WorkerObjects')
      BY <1>3, TypesCarried DEF IInv, TypeOK, Succeeds
  <2>3. resetAt' \in 0..MaxRequests
      BY DEF IInv, TypeOK
  <2> QED BY <1>3, <2>1, <2>2, <2>3 DEF IInv, TypeOK, Distinct
<1>4. kept # None => kept \in DOMAIN workers /\ workers[kept].req.id > resetAt
    BY DEF IInv, TypeOK, Results, RememberedHolds
<1>5. CASE req.cached # None /\ workers' = ws /\ timer' = NoTimer /\ worker' = None
           /\ retained' = req.cached /\ view' = Settled(v, ws[req.cached].status, req.cached, req.model)
  <2>1. Succeeds(workers, workers') /\ workers' \in Seq(WorkerObjects)
      BY <1>5
  <2>2. Computed(workers, req.cached, req.fp) /\ Computed(workers, req.cached, req.fp)'
      BY <1>5, <2>1, Carried DEF Made
  <2>3. ws[req.cached].status \in Good /\ req.cached \in Results /\ req.model \in Models
      BY <2>2 DEF Computed, Succeeds, Results, Made
  <2>4. /\ view' \in Views /\ ~view'.pending /\ ~view'.stale /\ view'.lastGood = req.cached
        /\ view'.resultFp = req.fp /\ view'.resultModel = req.model /\ view'.fp = req.fp
        /\ view'.requestId = req.id
      BY <1>1, <1>5, <2>3, SettledView
  <2>5. ViewHolds'
      BY <1>2, <1>5, <2>2, <2>4 DEF ViewHolds, Made, Computed
  <2>6. WorkersHold'
      BY <1>2, <1>5, <2>1, <2>4, WorkersCarried
  <2> QED BY <1>3, <1>5, <2>1, <2>2, <2>4, <2>5, <2>6, TimerNone DEF Results, Computed
<1>6. CASE workers' = Append(ws, NewWorker(req, "forecast")) /\ worker' = Len(ws) + 1
           /\ timer' = [kind |-> "deadline", req |-> req] /\ view' = v /\ retained' = kept
  <2>1. /\ workers' \in Seq(WorkerObjects) /\ Succeeds(ws, workers')
        /\ DOMAIN workers' = DOMAIN ws \cup {Len(ws) + 1}
        /\ workers'[Len(ws) + 1].req = req
      BY <1>6, AppendSucceeds
  <2>2. Succeeds(workers, workers')
      BY <2>1, SucceedsTransitive
  <2>3. timer' \in Timers' /\ worker' \in Results' /\ TimerHolds'
      BY <1>1, <1>6, <2>1, <2>2, Carried, TypesCarried DEF Timers, Results, TimerHolds
  <2>4. ViewHolds'
      BY <1>1, <1>2, <1>6, <2>1, <2>2, ViewCarried
  <2>5. \A w \in DOMAIN workers' \ DOMAIN workers : workers'[w].req = req
      BY <2>1
  <2>6. WorkersHold'
      BY <1>1, <1>2, <1>6, <2>1, <2>2, <2>5, WorkersCarried
  <2> QED BY <1>3, <1>4, <1>6, <2>1, <2>2, <2>3, <2>4, <2>6
<1>7. CASE view' = Failed(v, "error") /\ workers' = ws /\ worker' = None /\ timer' = NoTimer
           /\ retained' = kept
  <2>1. /\ view' \in Views /\ ~view'.pending /\ view'.lifecycle \notin Good
        /\ view'.lastGood = view.lastGood /\ view'.resultFp = view.resultFp
        /\ view'.resultModel = view.resultModel /\ view'.requestId = req.id
      BY <1>1, <1>7, FailedView
  <2>2. Succeeds(workers, workers') /\ workers' \in Seq(WorkerObjects)
      BY <1>7
  <2>3. ViewHolds' /\ WorkersHold'
      BY <1>2, <1>7, <2>1, <2>2, ViewCarried, WorkersCarried
  <2> QED BY <1>3, <1>4, <1>7, <2>1, <2>2, <2>3, TimerNone DEF Results
<1> QED BY <1>5, <1>6, <1>7 DEF Run
\* The cache as the invariant has it.
LEMMA CacheHolds ==
    ASSUME IInv
    PROVE  /\ cache \in Seq(GoodEntries) /\ Distinct(cache) /\ Len(cache) <= CacheLimit
           /\ \A e \in GoodEntries : e = [fp |-> e.fp, result |-> e.result]
<1>1. \A e \in Entries : e = [fp |-> e.fp, result |-> e.result]
    BY DEF Entries
<1> QED BY <1>1 DEF IInv, RememberedHolds, TypeOK, Distinct, GoodEntries

LEMMA SubmitKeeps ==
    ASSUME IInv, NEW m \in Models, NEW immediate \in BOOLEAN, Submit(m, immediate)
    PROVE  IInv'
<1> DEFINE fp == FingerprintOf[m]
           cached == IF Baseline THEN Cached(fp) ELSE None
           keep == Retain(m, cached)
           req == [id |-> sequence + 1, fp |-> fp, model |-> m, cached |-> cached]
           v == Pending(view, req)
           ws == IF keep THEN Kill(workers, {worker}) ELSE ReleaseAndStop
           kept == IF keep THEN retained ELSE None
<1>1. /\ sequence' = sequence + 1 /\ sequence < MaxRequests
      /\ cache' = IF Baseline THEN Touched(fp) ELSE cache
      /\ operation' = operation /\ resetAt' = resetAt
    BY DEF Submit
<1>2. idle' \subseteq idle /\ controllers' \subseteq controllers
    BY DEF Submit, Release
<1>3. \/ Run(req, v, ws, kept)
      \/ /\ view' = v /\ workers' = ws /\ retained' = kept /\ worker' = None
         /\ timer' = [kind |-> "debounce", req |-> req]
    BY DEF Submit
<1>4. sequence \in Nat /\ sequence + 1 \in 0..MaxRequests /\ resetAt <= sequence /\ resetAt \in Nat
    BY <1>1, ChannelAssumption DEF IInv, TypeOK, ViewHolds
<1>5. /\ cache' \in Seq(GoodEntries) /\ Distinct(cache') /\ Len(cache') <= CacheLimit
      /\ cached # None => [fp |-> fp, result |-> cached] \in GoodEntries
    BY <1>1, CacheHolds, TouchedKeeps, ChannelAssumption
<1>6. cached # None => cached \in DOMAIN workers /\ Computed(workers, cached, fp)
    BY <1>5 DEF GoodEntries, Computed
<1>7. fp \in Fingerprints /\ cached \in Results
    BY <1>6 DEF Fingerprints, Results
<1>8. /\ ws \in Seq(WorkerObjects) /\ Succeeds(workers, ws) /\ DOMAIN ws = DOMAIN workers
    BY KillSucceeds DEF IInv, TypeOK, ReleaseAndStop
<1> HIDE DEF fp, cached, ws
<1>9. req \in Requests /\ req.id = sequence + 1 /\ req.fp = fp
    BY <1>4, <1>7 DEF Requests
<1>10. Made(workers, req)
    BY <1>4, <1>6 DEF Made, fp
<1> HIDE DEF req
<1>11. /\ v \in Views /\ v.pending /\ v.lifecycle \notin Good /\ v.requestId = req.id /\ v.fp = req.fp
       /\ v.lastGood = view.lastGood /\ v.resultFp = view.resultFp /\ v.resultModel = view.resultModel
    BY <1>9, PendingView DEF IInv, TypeOK
<1> HIDE DEF v
<1>12. kept = None \/ kept = retained
    OBVIOUS
<1> HIDE DEF kept
<1>13. CASE Run(req, v, ws, kept)
    BY <1>1, <1>2, <1>4, <1>5, <1>8, <1>9, <1>10, <1>11, <1>12, <1>13, RunKeeps
<1>14. CASE view' = v /\ workers' = ws /\ retained' = kept /\ worker' = None
            /\ timer' = [kind |-> "debounce", req |-> req]
  <2>1. Succeeds(workers, workers') /\ workers' \in Seq(WorkerObjects)
      BY <1>8, <1>14
  <2>2. timer' \in Timers' /\ TimerHolds'
      BY <1>1, <1>9, <1>10, <1>11, <1>14, <2>1, Carried, TypesCarried DEF Timers, TimerHolds
  <2>3. ViewHolds' /\ WorkersHold'
      BY <1>1, <1>4, <1>8, <1>9, <1>11, <1>14, <2>1, ViewCarried, WorkersCarried
  <2>4. retained' \in Results' /\ RememberedHolds' /\ cache' \in Seq(Entries')
    <3>1. retained' # None => retained' \in DOMAIN workers /\ workers[retained'].req.id > resetAt
        BY <1>12, <1>14 DEF IInv, TypeOK, Results, RememberedHolds
    <3> QED BY <1>1, <1>5, <2>1, <3>1, Carried DEF RememberedHolds, Succeeds, Results
  <2>5. /\ view' \in Views' /\ worker' \in Results' /\ workers' \in Seq(WorkerObjects')
        /\ idle' \subseteq DOMAIN workers' /\ controllers' \subseteq EvidenceOwners'
      BY <1>2, <1>11, <1>14, <2>1, TypesCarried DEF IInv, TypeOK, Results, Succeeds
  <2>6. TypeOK'
      BY <1>1, <1>4, <1>5, <2>2, <2>4, <2>5 DEF IInv, TypeOK, Distinct
  <2> QED BY <2>2, <2>3, <2>4, <2>6 DEF IInv
<1> QED BY <1>3, <1>13, <1>14

LEMMA DebounceKeeps == ASSUME IInv, DebounceFires PROVE IInv'
<1>1. /\ Run(timer.req, view, workers, retained) /\ timer.kind = "debounce"
      /\ sequence' = sequence /\ cache' = cache /\ idle' = idle /\ controllers' = controllers
      /\ operation' = operation /\ resetAt' = resetAt
    BY DEF DebounceFires
<1>2. /\ view.pending /\ timer.req \in Requests /\ Made(workers, timer.req)
      /\ view.requestId = timer.req.id /\ view.lifecycle \notin Good
    BY <1>1 DEF IInv, TypeOK, Timers, TimerHolds, ViewHolds
<1>3. /\ view \in Views /\ workers \in Seq(WorkerObjects) /\ Succeeds(workers, workers)
      /\ sequence \in 0..MaxRequests /\ view.requestId <= sequence
    BY DEF IInv, TypeOK, ViewHolds, Succeeds
<1>4. sequence \in Nat
    BY <1>3, ChannelAssumption
<1> QED BY <1>1, <1>2, <1>3, <1>4, CacheHolds, RunKeeps

----------------------------------------------------------------------------
(* What workers and the deadline do. *)

LEMMA StopSucceeds ==
    ASSUME IInv, NEW w \in DOMAIN workers, Stop(w)
    PROVE  /\ Succeeds(workers, workers') /\ workers' \in Seq(WorkerObjects)
           /\ DOMAIN workers' = DOMAIN workers /\ worker' = None /\ timer' = NoTimer
<1> DEFINE killed == Kill(workers, {worker})
           marked == [killed EXCEPT ![w].role = "answered"]
<1>1. killed \in Seq(WorkerObjects) /\ Succeeds(workers, killed) /\ DOMAIN killed = DOMAIN workers
    BY KillSucceeds DEF IInv, TypeOK
<1>2. workers' = marked /\ worker' = None /\ timer' = NoTimer
    BY DEF Stop
<1> HIDE DEF killed
<1>3. marked \in Seq(WorkerObjects) /\ Succeeds(killed, marked) /\ DOMAIN marked = DOMAIN killed
    BY <1>1, MarkSucceeds
<1> QED BY <1>1, <1>2, <1>3, SucceedsTransitive

LEMMA FailureKeeps ==
    ASSUME IInv, NEW lifecycle \in {"error", "unsupported"}, view' = Failed(view, lifecycle),
           Succeeds(workers, workers'), workers' \in Seq(WorkerObjects), DOMAIN workers' = DOMAIN workers,
           worker' = None, timer' = NoTimer,
           UNCHANGED <<sequence, retained, cache, idle, controllers, operation, resetAt>>
    PROVE  IInv'
<1>1. /\ view' \in Views /\ ~view'.pending /\ view'.lifecycle \notin Good
      /\ view'.lastGood = view.lastGood /\ view'.resultFp = view.resultFp
      /\ view'.resultModel = view.resultModel /\ view'.requestId = view.requestId
    BY FailedView DEF IInv, TypeOK
<1> QED BY <1>1, EndsStep

\* The worker that answers was given the pending request.
LEMMA Answering ==
    ASSUME IInv, NEW w \in DOMAIN workers, workers[w].role = "forecast",
           IsCurrent(view, workers[w].req)
    PROVE  workers[w].req = timer.req /\ Made(workers, workers[w].req) /\ view.fp = workers[w].req.fp
    BY DEF IInv, WorkersHold, TimerHolds, IsCurrent

LEMMA ReplyGoodKeeps ==
    ASSUME IInv, NEW w \in DOMAIN workers, NEW status \in Good, ReplyGood(w, status)
    PROVE  IInv'
<1> DEFINE req == workers[w].req
<1>1. /\ workers[w].role = "forecast" /\ IsCurrent(view, req)
      /\ worker' = None /\ timer' = NoTimer /\ view' = Settled(view, status, w, req.model)
      /\ sequence' = sequence /\ controllers' = controllers /\ operation' = operation
      /\ resetAt' = resetAt
    BY DEF ReplyGood
<1>2. Made(workers, req) /\ view.fp = req.fp
    BY <1>1, Answering
<1>3. /\ Succeeds(workers, workers') /\ workers' \in Seq(WorkerObjects)
      /\ DOMAIN workers' = DOMAIN workers /\ workers'[w].status = status
  <2> DEFINE killed == Kill(workers, {worker})
  <2>1. /\ killed \in Seq(WorkerObjects) /\ Succeeds(workers, killed) /\ DOMAIN killed = DOMAIN workers
        /\ workers \in Seq(WorkerObjects)
      BY KillSucceeds DEF IInv, TypeOK
  <2>2. workers' = Answered(workers, w, "idle", status) \/ workers' = Answered(killed, w, "answered", status)
      BY DEF ReplyGood, Answered
  <2> HIDE DEF killed
  <2> QED BY <2>1, <2>2, AnswerSucceeds, SucceedsTransitive
<1>4. workers'[w].req = req
    BY <1>3 DEF Succeeds
<1>5. Computed(workers, w, req.fp)' /\ req.fp \in Fingerprints /\ req.model \in Models
    BY <1>1, <1>2, <1>3, <1>4 DEF Computed, Made, Fingerprints
<1>6. [fp |-> req.fp, result |-> w] \in GoodEntries'
    BY <1>3, <1>4, <1>5 DEF GoodEntries, Entries, Computed
<1>7. /\ cache' \in Seq(GoodEntries') /\ Distinct(cache') /\ Len(cache') <= CacheLimit
      /\ cache' \in Seq(Entries')
  <2>1. cache \in Seq(GoodEntries')
      BY <1>1, <1>3, Carried, CacheHolds
  <2>2. cache' = Put(req.fp, w) \/ cache' = cache
      BY DEF ReplyGood
  <2>3. cache' \in Seq(GoodEntries') /\ Distinct(cache') /\ Len(cache') <= CacheLimit
      BY <1>6, <2>1, <2>2, CacheHolds, PutKeeps, ChannelAssumption
  <2>4. GoodEntries' \subseteq Entries'
      BY DEF GoodEntries
  <2> QED BY <2>3, <2>4, SeqMonotonic
<1>8. /\ view' \in Views /\ ~view'.pending /\ ~view'.stale /\ view'.lastGood = w
      /\ view'.resultFp = req.fp /\ view'.resultModel = req.model /\ view'.fp = req.fp
      /\ view'.requestId = view.requestId
    BY <1>1, <1>2, <1>5, SettledView DEF IInv, TypeOK, Results
<1>9. ViewHolds'
  <2>1. view'.requestId <= sequence' /\ resetAt' <= sequence' /\ w \in DOMAIN workers'
      BY <1>1, <1>3, <1>8 DEF IInv, ViewHolds
  <2>2. FingerprintOf[req.model] = req.fp
      BY <1>2 DEF Made
  <2>3. view'.lastGood # None
      BY <1>8, LenProperties DEF IInv, TypeOK, None
  <2> QED BY <1>4, <1>5, <1>8, <2>1, <2>2, <2>3 DEF ViewHolds, Computed
<1>10. WorkersHold'
  <2>1. sequence \in Nat
      BY ChannelAssumption DEF IInv, TypeOK
  <2> QED BY <1>1, <1>3, <1>8, <2>1, WorkersCarried
<1>11. RememberedHolds' /\ retained' \in Results' /\ idle' \subseteq DOMAIN workers'
  <2>1. retained' = w \/ retained' = retained
      BY DEF ReplyGood
  <2>2. idle' \subseteq idle \cup {w}
      BY DEF ReplyGood
  <2>3. retained' # None => retained' \in DOMAIN workers /\ workers'[retained'].req.id > resetAt'
      BY <1>1, <1>2, <1>3, <1>4, <2>1 DEF Made, IInv, TypeOK, Results, RememberedHolds, Succeeds
  <2> QED BY <1>3, <1>7, <2>2, <2>3 DEF RememberedHolds, Results, IInv, TypeOK
<1>12. TimerHolds' /\ timer' \in Timers'
    BY <1>1, <1>8, TimerNone
<1>13. TypeOK'
  <2>1. /\ view' \in Views' /\ workers' \in Seq(WorkerObjects') /\ controllers' \subseteq EvidenceOwners'
        /\ worker' \in Results'
      BY <1>1, <1>3, <1>8, TypesCarried DEF IInv, TypeOK, Results
  <2> QED BY <1>1, <1>7, <1>11, <1>12, <2>1 DEF IInv, TypeOK, Distinct
<1> QED BY <1>9, <1>10, <1>11, <1>12, <1>13 DEF IInv
LEMMA IdleFailureKeeps ==
    ASSUME IInv, NEW w \in DOMAIN workers, IdleWorkerFails(w)
    PROVE  IInv'
<1> DEFINE killed == Kill(workers, ReleasedWorkers)
           marked == [killed EXCEPT ![w].role = "answered"]
<1>1. killed \in Seq(WorkerObjects) /\ Succeeds(workers, killed) /\ DOMAIN killed = DOMAIN workers
    BY KillSucceeds DEF IInv, TypeOK
<1>2. workers' = marked
    BY DEF IdleWorkerFails
<1> HIDE DEF killed
<1>3. marked \in Seq(WorkerObjects) /\ Succeeds(killed, marked) /\ DOMAIN marked = DOMAIN killed
    BY <1>1, MarkSucceeds
<1>4. Succeeds(workers, workers') /\ workers' \in Seq(WorkerObjects) /\ DOMAIN workers' = DOMAIN workers
    BY <1>1, <1>2, <1>3, SucceedsTransitive
<1>5. idle' \subseteq DOMAIN workers /\ controllers' \subseteq EvidenceOwners'
    BY <1>4, TypesCarried DEF IdleWorkerFails, Release, IInv, TypeOK
<1> QED BY <1>4, <1>5, KeepsStep DEF IdleWorkerFails

LEMMA PanelKeeps == ASSUME IInv, PanelSelects PROVE IInv'
<1> DEFINE own == {c \in controllers : c.result = view.lastGood /\ c.model = view.resultModel}
           Owner(w) == [result |-> view.lastGood, model |-> view.resultModel, worker |-> w]
<1>1. /\ view' = view /\ sequence' = sequence /\ worker' = worker /\ timer' = timer
      /\ retained' = retained /\ cache' = cache /\ operation' = operation /\ resetAt' = resetAt
      /\ view.lastGood # None
    BY DEF PanelSelects, Shown
<1>2. view.lastGood \in DOMAIN workers /\ view.resultModel \in Models /\ sequence \in Nat
    BY <1>1, ChannelAssumption DEF IInv, ViewHolds, Computed, TypeOK
<1>3. CASE /\ view.lastGood \in idle /\ idle' = idle \ {view.lastGood}
           /\ workers' = [workers EXCEPT ![view.lastGood].role = "evidence"]
           /\ controllers' = (controllers \ own) \cup {Owner(view.lastGood)}
  <2>1. Succeeds(workers, workers') /\ workers' \in Seq(WorkerObjects) /\ DOMAIN workers' = DOMAIN workers
      BY <1>2, <1>3, MarkSucceeds DEF IInv, TypeOK
  <2>2. Owner(view.lastGood) \in EvidenceOwners'
      BY <1>2, <2>1 DEF EvidenceOwners, Results
  <2>3. idle' \subseteq DOMAIN workers /\ controllers' \subseteq EvidenceOwners'
      BY <1>3, <2>1, <2>2, TypesCarried DEF IInv, TypeOK
  <2> QED BY <1>1, <2>1, <2>3, KeepsStep
<1>4. CASE /\ workers' = Append(workers, NewWorker(NoRequest, "evidence")) /\ idle' = idle
           /\ controllers' = (controllers \ own) \cup {Owner(Len(workers) + 1)}
  <2>1. NoRequest \in Requests /\ NoRequest.id = 0
      BY ChannelAssumption DEF NoRequest, Requests, Results
  <2>2. /\ Succeeds(workers, workers') /\ workers' \in Seq(WorkerObjects)
        /\ DOMAIN workers' = DOMAIN workers \cup {Len(workers) + 1}
        /\ workers'[Len(workers) + 1].req = NoRequest
        /\ workers'[Len(workers) + 1].role = "evidence"
      BY <1>4, <2>1, AppendSucceeds DEF IInv, TypeOK
  <2>3. Owner(Len(workers) + 1) \in EvidenceOwners'
      BY <1>2, <2>2 DEF EvidenceOwners, Results
  <2>4. idle' \subseteq DOMAIN workers /\ controllers' \subseteq EvidenceOwners'
      BY <1>4, <2>2, <2>3, TypesCarried DEF IInv, TypeOK
  <2>5. \A w \in DOMAIN workers' \ DOMAIN workers :
          workers'[w].req.id <= sequence /\ workers'[w].role # "forecast"
      BY <1>2, <2>1, <2>2
  <2> QED BY <1>1, <2>2, <2>4, <2>5, KeepsStep
<1> QED BY <1>3, <1>4 DEF PanelSelects

LEMMA EvidenceFailsKeeps ==
    ASSUME IInv, NEW c \in controllers, EvidenceFails(c)
    PROVE  IInv'
<1>1. Succeeds(workers, workers') /\ workers' \in Seq(WorkerObjects) /\ DOMAIN workers' = DOMAIN workers
    BY KillSucceeds DEF IInv, TypeOK, EvidenceFails
<1>2. [c EXCEPT !.worker = None] \in EvidenceOwners
    BY DEF IInv, TypeOK, EvidenceOwners, Results
<1>3. idle' \subseteq DOMAIN workers /\ controllers' \subseteq EvidenceOwners'
    BY <1>1, <1>2, TypesCarried DEF IInv, TypeOK, EvidenceFails
<1> QED BY <1>1, <1>3, KeepsStep DEF EvidenceFails

LEMMA SilenceSucceeds ==
    ASSUME IInv, Silence
    PROVE  /\ Succeeds(workers, workers') /\ workers' \in Seq(WorkerObjects)
           /\ DOMAIN workers' = DOMAIN workers
           /\ idle' \subseteq idle /\ controllers' \subseteq controllers
           /\ retained' = None /\ worker' = None /\ timer' = NoTimer
    BY KillSucceeds DEF IInv, TypeOK, Silence, Release, ReleaseAndStop

LEMMA InvalidateKeeps == ASSUME IInv, Invalidate PROVE IInv'
<1>1. /\ view' \in Views /\ ~view'.pending /\ view'.lifecycle \notin Good
      /\ view'.lastGood = view.lastGood /\ view'.resultFp = view.resultFp
      /\ view'.resultModel = view.resultModel /\ view'.requestId = view.requestId
    BY DEF Invalidate, IInv, TypeOK, Views, Good
<1> QED BY <1>1, SilenceSucceeds, EndsStep DEF Invalidate

\* Every step keeps the invariant.
LEMMA Inductive == IInv /\ [Next]_vars => IInv'
<1> SUFFICES ASSUME IInv, [Next]_vars PROVE IInv'
    OBVIOUS
<1>1. ASSUME NEW m \in Models, NEW immediate \in BOOLEAN, Submit(m, immediate) PROVE IInv'
    BY <1>1, SubmitKeeps
<1>2. CASE DebounceFires
    BY <1>2, DebounceKeeps
<1>3. CASE DeadlineFires
  <2>1. Succeeds(workers, workers') /\ workers' \in Seq(WorkerObjects) /\ DOMAIN workers' = DOMAIN workers
      BY <1>3, KillSucceeds DEF IInv, TypeOK, DeadlineFires
  <2> QED BY <1>3, <2>1, FailureKeeps DEF DeadlineFires
<1>4. ASSUME NEW w \in DOMAIN workers, ReplyRejected(w) PROVE IInv'
    BY <1>4, StopSucceeds, FailureKeeps DEF ReplyRejected
<1>5. ASSUME NEW w \in DOMAIN workers, ReplyUnavailable(w) PROVE IInv'
    BY <1>5, StopSucceeds, FailureKeeps DEF ReplyUnavailable
<1>6. ASSUME NEW w \in DOMAIN workers, NEW status \in Good, ReplyGood(w, status) PROVE IInv'
    BY <1>6, ReplyGoodKeeps
<1>7. ASSUME NEW w \in DOMAIN workers, IdleWorkerFails(w) PROVE IInv'
    BY <1>7, IdleFailureKeeps
<1>8. CASE Invalidate
    BY <1>8, InvalidateKeeps
<1>9. CASE Reset
  <2>1. sequence \in Nat /\ sequence + 1 \in 0..MaxRequests
      BY <1>9, ChannelAssumption DEF Reset, IInv, TypeOK
  <2> QED BY <1>9, <2>1, SilenceSucceeds, ForgetsStep DEF Reset
<1>10. CASE Dispose
  <2>1. sequence \in Nat /\ sequence \in 0..MaxRequests
      BY ChannelAssumption DEF IInv, TypeOK
  <2> QED BY <1>10, <2>1, SilenceSucceeds, ForgetsStep DEF Dispose
<1>11. CASE PanelSelects
    BY <1>11, PanelKeeps
<1>12. ASSUME NEW c \in controllers, EvidenceFails(c) PROVE IInv'
    BY <1>12, EvidenceFailsKeeps
<1>13. CASE UNCHANGED vars
  <2>1. Succeeds(workers, workers') /\ workers' \in Seq(WorkerObjects) /\ DOMAIN workers' = DOMAIN workers
      BY <1>13 DEF vars, Succeeds, IInv, TypeOK
  <2>2. idle' \subseteq DOMAIN workers /\ controllers' \subseteq EvidenceOwners'
      BY <1>13, <2>1, TypesCarried DEF vars, IInv, TypeOK
  <2> QED BY <1>13, <2>1, <2>2, KeepsStep DEF vars
<1> QED BY <1>1, <1>2, <1>3, <1>4, <1>5, <1>6, <1>7, <1>8, <1>9, <1>10, <1>11, <1>12, <1>13
        DEF Next, WorkerEvent

LEMMA Initially == Init => IInv
<1> SUFFICES ASSUME Init PROVE IInv
    OBVIOUS
<1>1. /\ InitialView \in Views /\ InitialView.lastGood = None /\ InitialView.requestId = 0
      /\ ~InitialView.pending /\ InitialView.lifecycle \notin Good
    BY ChannelAssumption DEF InitialView, Views, Results, Good
<1>2. /\ << >> \in Seq(Entries) /\ << >> \in Seq(GoodEntries) /\ Len(<< >>) = 0 /\ DOMAIN << >> = {}
      /\ << >> \in Seq(WorkerObjects)
    BY EmptySeq
<1>3. NoTimer \in Timers /\ CacheLimit >= 0 /\ 0 \in 0..MaxRequests
    BY ChannelAssumption DEF NoTimer, Timers, NoRequest, Requests, Results
<1>4. TypeOK
    BY <1>1, <1>2, <1>3 DEF Init, TypeOK, Results
<1>5. ViewHolds /\ RememberedHolds /\ TimerHolds /\ WorkersHold
    BY <1>1, <1>2 DEF Init, ViewHolds, RememberedHolds, TimerHolds, WorkersHold, NoTimer
<1> QED BY <1>4, <1>5 DEF IInv

LEMMA Invariance == Spec => []IInv
    BY Initially, Inductive, PTL DEF Spec

----------------------------------------------------------------------------
(* Owners of workers. *)

\* The worker in use computes the pending request, which no other was given.
TurnsHold ==
    /\ worker # None => timer.kind = "deadline"
    /\ timer.kind = "deadline" => timer.req.cached = None
    /\ view.pending /\ timer.req.cached # None => Baseline
    /\ \A w \in DOMAIN workers :
         view.pending /\ workers[w].role = "forecast" /\ workers[w].req.id = view.requestId =>
           w = worker

\* Only the worker of the retained result is idle.
IdleHolds ==
    /\ idle \subseteq {retained} /\ \A w \in idle : workers[w].role = "idle"
    /\ \A w \in DOMAIN workers :
         workers[w].role = "idle" => workers[w].status \in Good /\ Baseline

\* What is retained is on display, fresh or waiting for its own cached answer.
RetainedHolds ==
    retained # None =>
      /\ view.lastGood = retained /\ Baseline
      /\ IF view.pending
         THEN timer.req.cached = retained /\ timer.req.model = view.resultModel
         ELSE ~view.stale

\* What is shown fresh is retained, controllers serve what is retained, and every
\* live worker that computes nothing belongs to it.
Owned(w) == w \in idle \/ \E c \in controllers : c.worker = w
OwnersHold ==
    /\ Shown => retained = view.lastGood
    /\ \A c \in controllers : c.result = retained /\ c.model = view.resultModel
    /\ \A w \in DOMAIN workers : workers[w].alive /\ w # worker => retained # None /\ Owned(w)

OInv == TurnsHold /\ IdleHolds /\ RetainedHolds /\ (IdleFailed \/ OwnersHold)

\* A list of workers in which at most some were terminated.
SameWork(ws, later) ==
    /\ DOMAIN later = DOMAIN ws
    /\ \A w \in DOMAIN ws :
         /\ later[w].req = ws[w].req /\ later[w].role = ws[w].role /\ later[w].status = ws[w].status
         /\ later[w].alive => ws[w].alive

LEMMA KillIsSameWork ==
    ASSUME NEW ws \in Seq(WorkerObjects), NEW dead
    PROVE  /\ SameWork(ws, Kill(ws, dead))
           /\ \A w \in DOMAIN ws : Kill(ws, dead)[w].alive => w \notin dead
<1>1. \A w \in DOMAIN ws : ws[w] \in WorkerObjects
    BY LenProperties
<1> QED BY <1>1 DEF SameWork, Kill, WorkerObjects

LEMMA NoneIsNoWorker == ASSUME TypeOK PROVE None \notin DOMAIN workers
    BY LenProperties DEF TypeOK, None

\* A worker that answered keeps its answer.
LEMMA FailureLasts ==
    ASSUME IdleFailed, operation' = operation,
           \A w \in DOMAIN workers : workers[w].role = "answered" =>
              /\ w \in DOMAIN workers' /\ workers'[w].role = "answered"
              /\ workers'[w].status = workers[w].status
    PROVE  IdleFailed'
    BY DEF IdleFailed, Baseline

\* #releaseEvidence with #stop leaves no worker alive, unless an idle one failed.
LEMMA ReleaseOwned ==
    ASSUME IInv, OInv, Release
    PROVE  /\ idle' = {} /\ ReleaseAndStop \in Seq(WorkerObjects) /\ SameWork(workers, ReleaseAndStop)
           /\ ~IdleFailed => /\ controllers' = {}
                             /\ \A w \in DOMAIN workers : ~ReleaseAndStop[w].alive
<1>1. idle' = {}
    BY DEF Release, OInv, IdleHolds
<1>2. workers \in Seq(WorkerObjects)
    BY DEF IInv, TypeOK
<1>3. /\ ReleaseAndStop \in Seq(WorkerObjects) /\ SameWork(workers, ReleaseAndStop)
      /\ \A w \in DOMAIN workers : ReleaseAndStop[w].alive => w \notin ReleasedWorkers \cup {worker}
    BY <1>2, KillSucceeds, KillIsSameWork DEF ReleaseAndStop
<1>4. ASSUME ~IdleFailed PROVE controllers = Held
  <2>1. \A c \in controllers : c.result = retained /\ c.result \in DOMAIN workers
      BY <1>4 DEF OInv, OwnersHold, IInv, TypeOK, EvidenceOwners
  <2> QED BY <2>1, NoneIsNoWorker DEF Held, IInv
<1>5. ASSUME ~IdleFailed, NEW w \in DOMAIN workers PROVE ~ReleaseAndStop[w].alive
  <2>1. workers[w].alive /\ w # worker => w \in ReleasedWorkers
      BY <1>4, <1>5 DEF OInv, OwnersHold, Owned, ReleasedWorkers, IdleHolds
  <2> QED BY <1>3, <2>1 DEF SameWork
<1> QED BY <1>1, <1>3, <1>4, <1>5 DEF Release

\* run(), given what its handler has released or kept.
LEMMA RunOwned ==
    ASSUME IInv, OInv, NEW req \in Requests, NEW v \in Views, NEW ws \in Seq(WorkerObjects),
           NEW kept \in Results,
           Run(req, v, ws, kept), SameWork(workers, ws), operation' = operation,
           req.cached # None => Baseline /\ req.cached \in DOMAIN workers,
           req.cached # None => req.model \in Models /\ workers[req.cached].status \in Good,
           \A w \in DOMAIN workers : workers[w].role = "forecast" => workers[w].req.id # req.id,
           kept # None => req.cached = kept /\ req.model = v.resultModel,
           idle' \subseteq idle, idle' \subseteq {kept}, controllers' \subseteq controllers,
           ~IdleFailed =>
             /\ \A c \in controllers' : c.result = kept /\ c.model = v.resultModel
             /\ \A w \in DOMAIN workers : ws[w].alive =>
                  kept # None /\ (w \in idle' \/ \E c \in controllers' : c.worker = w)
    PROVE  OInv'
<1>1. v.pending /\ v.requestId = req.id
    BY DEF Run, IsCurrent
<1>2. None \notin DOMAIN workers /\ idle \subseteq DOMAIN workers
      /\ \A c \in controllers' : c.result \in DOMAIN workers
    BY NoneIsNoWorker DEF IInv, TypeOK, EvidenceOwners
<1>3. \A w \in DOMAIN workers : /\ w \in DOMAIN ws /\ ws[w].role = workers[w].role
                                /\ ws[w].status = workers[w].status /\ ws[w].req = workers[w].req
    BY DEF SameWork
<1>4. DOMAIN ws = DOMAIN workers
    BY DEF SameWork
<1>5. CASE req.cached # None /\ workers' = ws /\ timer' = NoTimer /\ worker' = None
           /\ retained' = req.cached /\ view' = Settled(v, ws[req.cached].status, req.cached, req.model)
  <2>1. ~view'.pending /\ ~view'.stale /\ view'.lastGood = req.cached /\ view'.resultModel = req.model
      BY <1>3, <1>5, SettledView DEF Results
  <2>2. TurnsHold'
      BY <1>5, <2>1 DEF TurnsHold, NoTimer
  <2>3. IdleHolds'
      BY <1>2, <1>3, <1>4, <1>5 DEF OInv, IdleHolds, Baseline
  <2>4. RetainedHolds'
      BY <1>5, <2>1 DEF RetainedHolds, Baseline
  <2>5. ASSUME ~IdleFailed PROVE OwnersHold'
    <3>1. \A c \in controllers' : c.result = retained' /\ c.model = view'.resultModel
        BY <1>2, <1>5, <2>1, <2>5
    <3> QED BY <1>4, <1>5, <2>1, <2>5, <3>1 DEF OwnersHold, Owned
  <2>6. IdleFailed => IdleFailed'
      BY <1>3, <1>5, FailureLasts
  <2> QED BY <2>2, <2>3, <2>4, <2>5, <2>6 DEF OInv
<1>6. ASSUME req.cached = None PROVE kept = None /\ idle' = {}
    BY <1>2, <1>6
<1>7. ASSUME req.cached = None, ~IdleFailed
      PROVE  controllers' = {} /\ \A w \in DOMAIN workers : ~ws[w].alive
    BY <1>2, <1>6, <1>7
<1>8. CASE req.cached = None /\ workers' = Append(ws, NewWorker(req, "forecast")) /\ worker' = Len(ws) + 1
           /\ timer' = [kind |-> "deadline", req |-> req] /\ view' = v /\ retained' = kept
  <2> DEFINE n == Len(ws) + 1
  <2>1. /\ DOMAIN workers' = DOMAIN ws \cup {n} /\ n \notin DOMAIN ws
        /\ workers'[n].role = "forecast" /\ \A w \in DOMAIN ws : workers'[w] = ws[w]
    <3>1. NewWorker(req, "forecast") \in WorkerObjects
        BY DEF NewWorker, WorkerObjects
    <3>2. \A w \in DOMAIN ws : workers'[w] = ws[w]
        BY <1>8, <3>1, AppendProperties, LenProperties
    <3> QED BY <1>8, <3>2, AppendSucceeds
  <2> HIDE DEF n
  <2>2. worker' = n
      BY <1>8 DEF n
  <2>3. TurnsHold'
      BY <1>1, <1>3, <1>4, <1>8, <2>1, <2>2 DEF TurnsHold
  <2>4. IdleHolds' /\ RetainedHolds'
      BY <1>3, <1>4, <1>6, <1>8, <2>1 DEF OInv, IdleHolds, RetainedHolds, Baseline
  <2>5. ASSUME ~IdleFailed PROVE OwnersHold'
      BY <1>1, <1>4, <1>7, <1>8, <2>1, <2>2, <2>5 DEF OwnersHold, Shown
  <2>6. IdleFailed => IdleFailed'
      BY <1>3, <1>4, <2>1, FailureLasts
  <2> QED BY <2>3, <2>4, <2>5, <2>6 DEF OInv
<1>9. CASE req.cached = None /\ view' = Failed(v, "error") /\ workers' = ws /\ worker' = None
           /\ timer' = NoTimer /\ retained' = kept
  <2>1. ~view'.pending /\ (view'.stale <=> view'.lastGood # None)
      BY <1>9, FailedView
  <2>2. TurnsHold'
      BY <1>9, <2>1 DEF TurnsHold, NoTimer
  <2>3. IdleHolds' /\ RetainedHolds'
      BY <1>3, <1>4, <1>6, <1>9 DEF OInv, IdleHolds, RetainedHolds, Baseline
  <2>4. ASSUME ~IdleFailed PROVE OwnersHold'
      BY <1>4, <1>7, <1>9, <2>1, <2>4 DEF OwnersHold, Shown
  <2>5. IdleFailed => IdleFailed'
      BY <1>3, <1>9, FailureLasts
  <2> QED BY <2>2, <2>3, <2>4, <2>5 DEF OInv
<1> QED BY <1>5, <1>8, <1>9 DEF Run

LEMMA SubmitOwned ==
    ASSUME IInv, OInv, NEW m \in Models, NEW immediate \in BOOLEAN, Submit(m, immediate)
    PROVE  OInv'
<1> DEFINE fp == FingerprintOf[m]
           cached == IF Baseline THEN Cached(fp) ELSE None
           keep == Retain(m, cached)
           req == [id |-> sequence + 1, fp |-> fp, model |-> m, cached |-> cached]
           v == Pending(view, req)
           ws == IF keep THEN Kill(workers, {worker}) ELSE ReleaseAndStop
           kept == IF keep THEN retained ELSE None
<1>1. /\ sequence < MaxRequests /\ operation' = operation
      /\ IF keep THEN UNCHANGED <<controllers, idle>> ELSE Release
    BY DEF Submit
<1>2. \/ Run(req, v, ws, kept)
      \/ /\ view' = v /\ workers' = ws /\ retained' = kept /\ worker' = None
         /\ timer' = [kind |-> "debounce", req |-> req]
    BY DEF Submit
<1>3. cached # None => Baseline /\ cached \in DOMAIN workers /\ workers[cached].status \in Good
    BY CacheHolds, TouchedKeeps, ChannelAssumption DEF GoodEntries, Computed
<1>4. keep => cached # None /\ cached = retained /\ cached = view.lastGood /\ view.resultModel = m
    BY DEF Retain
<1>5. sequence \in Nat /\ sequence + 1 \in 0..MaxRequests
    BY <1>1, ChannelAssumption DEF IInv, TypeOK
<1>6. /\ ws \in Seq(WorkerObjects) /\ SameWork(workers, ws) /\ idle' \subseteq idle
      /\ idle' \subseteq {kept} /\ controllers' \subseteq controllers
      /\ ~IdleFailed =>
           /\ \A c \in controllers' : c.result = kept /\ c.model = view.resultModel
           /\ \A w \in DOMAIN workers : ws[w].alive =>
                kept # None /\ (w \in idle' \/ \E c \in controllers' : c.worker = w)
  <2> HIDE DEF cached
  <2>1. CASE keep
    <3>1. /\ ws = Kill(workers, {worker}) /\ kept = retained
          /\ idle' = idle /\ controllers' = controllers
        BY <1>1, <2>1
    <3>2. /\ ws \in Seq(WorkerObjects) /\ SameWork(workers, ws)
          /\ \A w \in DOMAIN workers : ws[w].alive => w # worker
        BY <3>1, KillSucceeds, KillIsSameWork DEF IInv, TypeOK
    <3> HIDE DEF ws, kept
    <3> QED BY <3>1, <3>2 DEF OInv, IdleHolds, OwnersHold, Owned, SameWork
  <2>2. CASE ~keep
    <3>1. ws = ReleaseAndStop /\ kept = None /\ Release
        BY <1>1, <2>2
    <3> HIDE DEF ws, kept
    <3> QED BY <3>1, ReleaseOwned DEF Release
  <2> QED BY <2>1, <2>2
<1>7. kept \in Results /\ (kept # None => cached = kept /\ m = view.resultModel /\ kept = view.lastGood)
    BY <1>4 DEF IInv, TypeOK, Results
<1>8. req \in Requests
    BY <1>3, <1>5 DEF Requests, Results, Fingerprints
<1>9. /\ v \in Views /\ v.pending /\ v.requestId = sequence + 1
      /\ v.lastGood = view.lastGood /\ v.resultModel = view.resultModel
    BY <1>8, PendingView DEF IInv, TypeOK
<1>10. \A w \in DOMAIN workers : workers[w].req.id # sequence + 1
  <2>1. \A w \in DOMAIN workers : workers[w].req.id \in 0..MaxRequests
    <3> TAKE w \in DOMAIN workers
    <3>1. workers[w] \in WorkerObjects
        BY LenProperties DEF IInv, TypeOK
    <3>2. workers[w].req \in Requests
        BY <3>1 DEF WorkerObjects
    <3> QED BY <3>2 DEF Requests
  <2> QED BY <1>5, <2>1 DEF IInv, WorkersHold
<1>11. req.id = sequence + 1 /\ req.cached = cached /\ req.model = m
    OBVIOUS
<1> HIDE DEF cached, keep, req, v, ws, kept
<1>12. CASE Run(req, v, ws, kept)
    BY <1>1, <1>3, <1>6, <1>7, <1>8, <1>9, <1>10, <1>11, <1>12, RunOwned
<1>13. CASE view' = v /\ workers' = ws /\ retained' = kept /\ worker' = None
            /\ timer' = [kind |-> "debounce", req |-> req]
  <2>1. DOMAIN ws = DOMAIN workers
        /\ \A w \in DOMAIN workers : /\ ws[w].role = workers[w].role
                                     /\ ws[w].status = workers[w].status /\ ws[w].req = workers[w].req
      BY <1>6 DEF SameWork
  <2>2. TurnsHold'
      BY <1>1, <1>3, <1>9, <1>10, <1>11, <1>13, <2>1 DEF TurnsHold, Baseline
  <2>3. IdleHolds'
      BY <1>1, <1>6, <1>13, <2>1, NoneIsNoWorker DEF IInv, TypeOK, OInv, IdleHolds, Baseline
  <2>4. RetainedHolds'
      BY <1>1, <1>3, <1>7, <1>9, <1>11, <1>13 DEF RetainedHolds, Baseline
  <2>5. ASSUME ~IdleFailed PROVE OwnersHold'
      BY <1>6, <1>9, <1>13, <2>1, <2>5 DEF OwnersHold, Owned, Shown
  <2>6. IdleFailed => IdleFailed'
      BY <1>1, <1>13, <2>1, FailureLasts
  <2> QED BY <2>2, <2>3, <2>4, <2>5, <2>6 DEF OInv
<1> QED BY <1>2, <1>12, <1>13

LEMMA DebounceOwned == ASSUME IInv, OInv, DebounceFires PROVE OInv'
<1>1. /\ Run(timer.req, view, workers, retained) /\ timer.kind = "debounce"
      /\ idle' = idle /\ controllers' = controllers /\ operation' = operation
    BY DEF DebounceFires
<1>2. /\ view.pending /\ timer.req \in Requests /\ Made(workers, timer.req) /\ view.requestId = timer.req.id
    BY <1>1 DEF IInv, TypeOK, Timers, TimerHolds
<1>3. /\ view \in Views /\ workers \in Seq(WorkerObjects) /\ retained \in Results
      /\ SameWork(workers, workers)
    BY DEF IInv, TypeOK, SameWork
<1>4. worker = None /\ None \notin DOMAIN workers
    BY <1>1, NoneIsNoWorker DEF IInv, OInv, TurnsHold
<1>5. \A w \in DOMAIN workers : workers[w].role = "forecast" => workers[w].req.id # timer.req.id
    BY <1>2, <1>4 DEF OInv, TurnsHold
<1>6. timer.req.cached # None =>
        /\ Baseline /\ timer.req.cached \in DOMAIN workers
        /\ timer.req.model \in Models /\ workers[timer.req.cached].status \in Good
    BY <1>2 DEF OInv, TurnsHold, Made, Computed
<1>7. retained # None => timer.req.cached = retained /\ timer.req.model = view.resultModel
    BY <1>2 DEF OInv, RetainedHolds
<1>8. ~IdleFailed =>
        /\ \A c \in controllers' : c.result = retained /\ c.model = view.resultModel
        /\ \A w \in DOMAIN workers : workers[w].alive =>
             retained # None /\ (w \in idle' \/ \E c \in controllers' : c.worker = w)
    BY <1>1, <1>4 DEF OInv, OwnersHold, Owned
<1>9. idle' \subseteq {retained}
    BY <1>1 DEF OInv, IdleHolds
<1> QED BY <1>1, <1>2, <1>3, <1>5, <1>6, <1>7, <1>8, <1>9, RunOwned

\* While a worker computes, nothing is retained and no other worker is alive.
LEMMA Computing ==
    ASSUME IInv, OInv, view.pending, timer.kind = "deadline"
    PROVE  /\ retained = None /\ idle = {}
           /\ ~IdleFailed => /\ controllers = {}
                             /\ \A w \in DOMAIN workers : workers[w].alive => w = worker
<1>1. retained = None
    BY DEF OInv, TurnsHold, RetainedHolds
<1>2. None \notin DOMAIN workers /\ idle \subseteq DOMAIN workers
      /\ \A c \in controllers : c.result \in DOMAIN workers
    BY NoneIsNoWorker DEF IInv, TypeOK, EvidenceOwners
<1> QED BY <1>1, <1>2 DEF OInv, IdleHolds, OwnersHold

\* The worker that answers is the one in use.
LEMMA AnswererInUse ==
    ASSUME IInv, OInv, NEW w \in DOMAIN workers, workers[w].role = "forecast",
           IsCurrent(view, workers[w].req)
    PROVE  w = worker /\ view.pending /\ timer.kind = "deadline"
    BY NoneIsNoWorker DEF IInv, OInv, TurnsHold, IsCurrent

\* A failure ends the request, terminates the worker in use and retains nothing.
LEMMA FailureOwned ==
    ASSUME IInv, OInv, NEW lifecycle \in {"error", "unsupported"}, view' = Failed(view, lifecycle),
           view.pending, timer.kind = "deadline", DOMAIN workers' = DOMAIN workers,
           \A w \in DOMAIN workers :
             /\ workers'[w].status = workers[w].status
             /\ workers'[w].role = workers[w].role \/ (workers'[w].role = "answered" /\ w = worker)
             /\ workers'[w].alive => workers[w].alive /\ w # worker,
           worker' = None, timer' = NoTimer,
           UNCHANGED <<retained, idle, controllers, operation>>
    PROVE  OInv'
<1>1. ~view'.pending /\ (view'.stale <=> view'.lastGood # None)
    BY FailedView DEF IInv, TypeOK
<1>2. /\ retained = None /\ idle = {}
      /\ ~IdleFailed => /\ controllers = {}
                        /\ \A w \in DOMAIN workers : workers[w].alive => w = worker
    BY Computing
<1>3. TurnsHold'
    BY <1>1 DEF TurnsHold, NoTimer
<1>4. IdleHolds' /\ RetainedHolds'
    BY <1>2 DEF OInv, IdleHolds, RetainedHolds, Baseline
<1>5. ASSUME ~IdleFailed PROVE OwnersHold'
    BY <1>1, <1>2, <1>5 DEF OwnersHold, Shown
<1>6. IdleFailed => IdleFailed'
    BY FailureLasts
<1> QED BY <1>3, <1>4, <1>5, <1>6 DEF OInv

\* Marking one worker leaves the others.
LEMMA Marked ==
    ASSUME NEW ws \in Seq(WorkerObjects), NEW w \in DOMAIN ws, NEW role,
           NEW later, later = [ws EXCEPT ![w].role = role]
    PROVE  /\ DOMAIN later = DOMAIN ws /\ later[w].role = role /\ later[w].status = ws[w].status
           /\ \A u \in DOMAIN ws : /\ later[u].req = ws[u].req /\ later[u].status = ws[u].status
                                   /\ later[u].alive = ws[u].alive
                                   /\ u # w => later[u].role = ws[u].role
<1>1. ws[w] \in WorkerObjects
    BY LenProperties
<1> QED BY <1>1 DEF WorkerObjects

LEMMA AnsweredWorker ==
    ASSUME NEW ws \in Seq(WorkerObjects), NEW w \in DOMAIN ws, NEW role, NEW status
    PROVE  LET later == Answered(ws, w, role, status)
           IN  /\ DOMAIN later = DOMAIN ws /\ later[w].role = role /\ later[w].status = status
               /\ \A u \in DOMAIN ws : later[u].alive = ws[u].alive /\ (u # w => later[u] = ws[u])
<1>1. ws[w] \in WorkerObjects
    BY LenProperties
<1> QED BY <1>1 DEF WorkerObjects, Answered

LEMMA RejectionOwned ==
    ASSUME IInv, OInv, NEW w \in DOMAIN workers, NEW lifecycle \in {"error", "unsupported"},
           workers[w].role = "forecast", IsCurrent(view, workers[w].req), Stop(w),
           view' = Failed(view, lifecycle), UNCHANGED <<retained, idle, controllers, operation>>
    PROVE  OInv'
<1> DEFINE killed == Kill(workers, {worker})
<1>1. w = worker /\ view.pending /\ timer.kind = "deadline"
    BY AnswererInUse
<1>2. /\ killed \in Seq(WorkerObjects) /\ SameWork(workers, killed)
      /\ \A u \in DOMAIN workers : killed[u].alive => u # worker
    BY KillSucceeds, KillIsSameWork DEF IInv, TypeOK
<1>3. workers' = [killed EXCEPT ![w].role = "answered"] /\ worker' = None /\ timer' = NoTimer
    BY DEF Stop
<1> HIDE DEF killed
<1>4. /\ DOMAIN workers' = DOMAIN workers
      /\ \A u \in DOMAIN workers :
             /\ workers'[u].status = workers[u].status
             /\ workers'[u].role = workers[u].role \/ (workers'[u].role = "answered" /\ u = worker)
             /\ workers'[u].alive => workers[u].alive /\ u # worker
    BY <1>1, <1>2, <1>3, Marked DEF SameWork
<1> QED BY <1>1, <1>3, <1>4, FailureOwned

LEMMA DeadlineOwned == ASSUME IInv, OInv, DeadlineFires PROVE OInv'
<1>1. /\ SameWork(workers, workers') /\ \A u \in DOMAIN workers : workers'[u].alive => u # worker
    BY KillIsSameWork DEF DeadlineFires, IInv, TypeOK
<1>2. view.pending /\ timer.kind = "deadline"
    BY DEF DeadlineFires, IsCurrent
<1> QED BY <1>1, <1>2, FailureOwned DEF DeadlineFires, SameWork

\* A good reply of the baseline makes its worker the idle one of what is retained.
LEMMA ReplyGoodOwned ==
    ASSUME IInv, OInv, NEW w \in DOMAIN workers, NEW status \in Good, ReplyGood(w, status)
    PROVE  OInv'
<1> DEFINE req == workers[w].req
<1>1. /\ workers[w].role = "forecast" /\ IsCurrent(view, req) /\ worker' = None /\ timer' = NoTimer
      /\ view' = Settled(view, status, w, req.model) /\ controllers' = controllers
      /\ operation' = operation
    BY DEF ReplyGood
<1>2. w = worker /\ view.pending /\ timer.kind = "deadline"
    BY <1>1, AnswererInUse
<1>3. /\ retained = None /\ idle = {}
      /\ ~IdleFailed => /\ controllers = {}
                        /\ \A u \in DOMAIN workers : workers[u].alive => u = w
    BY <1>2, Computing
<1>4. ~view'.pending /\ ~view'.stale /\ view'.lastGood = w
  <2>1. req.model \in Models /\ w \in Results
      BY <1>1, Answering DEF Made, Results
  <2> QED BY <1>1, <2>1, SettledView DEF IInv, TypeOK
<1>5. TurnsHold'
    BY <1>1, <1>4 DEF TurnsHold, NoTimer
<1>6. workers \in Seq(WorkerObjects)
    BY DEF IInv, TypeOK
<1>7. CASE Baseline
  <2>1. retained' = w /\ idle' = {w} /\ workers' = Answered(workers, w, "idle", status)
      BY <1>3, <1>7 DEF ReplyGood, Answered
  <2>2. /\ DOMAIN workers' = DOMAIN workers /\ workers'[w].role = "idle" /\ workers'[w].status = status
        /\ \A u \in DOMAIN workers :
             workers'[u].alive = workers[u].alive /\ (u # w => workers'[u] = workers[u])
      BY <1>6, <2>1, AnsweredWorker
  <2>3. IdleHolds' /\ RetainedHolds'
      BY <1>1, <1>4, <1>7, <2>1, <2>2 DEF OInv, IdleHolds, RetainedHolds, Baseline
  <2>4. ASSUME ~IdleFailed PROVE OwnersHold'
      BY <1>1, <1>3, <1>4, <2>1, <2>2, <2>4, NoneIsNoWorker DEF OwnersHold, Owned, IInv
  <2>5. IdleFailed => IdleFailed'
      BY <1>1, <2>2, FailureLasts
  <2> QED BY <1>5, <2>3, <2>4, <2>5 DEF OInv
<1>8. CASE ~Baseline
  <2> DEFINE killed == Kill(workers, {worker})
  <2>1. /\ retained' = None /\ idle' = {} /\ workers' = Answered(killed, w, "answered", status)
      BY <1>3, <1>8 DEF ReplyGood, Answered
  <2>2. /\ killed \in Seq(WorkerObjects) /\ SameWork(workers, killed)
        /\ \A u \in DOMAIN workers : killed[u].alive => u # worker
      BY <1>6, KillSucceeds, KillIsSameWork
  <2> HIDE DEF killed
  <2>3. /\ DOMAIN workers' = DOMAIN workers /\ workers'[w].role = "answered"
        /\ \A u \in DOMAIN workers : /\ workers'[u].alive => workers[u].alive /\ u # worker
                                     /\ u # w => workers'[u].role = workers[u].role
    <3>1. DOMAIN killed = DOMAIN workers
        BY <2>2 DEF SameWork
    <3> QED BY <2>1, <2>2, <3>1, AnsweredWorker DEF SameWork
  <2>4. ~IdleFailed /\ ~Baseline'
      BY <1>1, <1>8 DEF IdleFailed, Baseline
  <2>5. IdleHolds' /\ RetainedHolds'
      BY <1>8, <2>1, <2>3 DEF OInv, IdleHolds, RetainedHolds
  <2>6. OwnersHold'
      BY <1>1, <1>2, <1>3, <2>3, <2>4 DEF OwnersHold, Shown
  <2> QED BY <1>5, <2>5, <2>6 DEF OInv
<1> QED BY <1>7, <1>8

\* The failure of an unclaimed idle worker is the exception.
LEMMA IdleFailureOwned ==
    ASSUME IInv, OInv, NEW w \in DOMAIN workers, IdleWorkerFails(w)
    PROVE  OInv'
<1> DEFINE killed == Kill(workers, ReleasedWorkers)
<1>1. /\ workers[w].role = "idle" /\ retained = w /\ retained' = None /\ idle' = idle \ {w}
      /\ view' = view /\ worker' = worker /\ timer' = timer /\ operation' = operation
    BY DEF IdleWorkerFails, Release
<1>2. killed \in Seq(WorkerObjects) /\ SameWork(workers, killed)
    BY KillSucceeds, KillIsSameWork DEF IInv, TypeOK
<1>3. workers' = [killed EXCEPT ![w].role = "answered"]
    BY DEF IdleWorkerFails
<1> HIDE DEF killed
<1>4. DOMAIN killed = DOMAIN workers
    BY <1>2 DEF SameWork
<1>5. /\ DOMAIN workers' = DOMAIN workers /\ workers'[w].role = "answered"
      /\ \A u \in DOMAIN workers :
           /\ workers'[u].req = workers[u].req /\ workers'[u].status = workers[u].status
           /\ u # w => workers'[u].role = workers[u].role
    BY <1>2, <1>3, <1>4, Marked DEF SameWork
<1>6. workers[w].status \in Good /\ Baseline
    BY <1>1 DEF OInv, IdleHolds
<1>7. IdleFailed'
    BY <1>1, <1>5, <1>6 DEF IdleFailed, Baseline
<1>8. TurnsHold' /\ RetainedHolds'
    BY <1>1, <1>5 DEF OInv, TurnsHold, RetainedHolds, Baseline
<1>9. IdleHolds'
    BY <1>1, <1>5, <1>6 DEF OInv, IdleHolds, Baseline
<1> QED BY <1>7, <1>8, <1>9 DEF OInv

\* Invalidation, reset and disposal leave nothing alive and nothing fresh.
LEMMA SilenceOwned ==
    ASSUME IInv, OInv, Silence, ~view'.pending, view'.stale \/ view'.lastGood = None,
           operation' = operation
    PROVE  OInv'
<1>1. /\ retained' = None /\ worker' = None /\ timer' = NoTimer /\ workers' = ReleaseAndStop
      /\ idle' = {} /\ SameWork(workers, workers')
      /\ ~IdleFailed => controllers' = {} /\ \A w \in DOMAIN workers : ~workers'[w].alive
    BY ReleaseOwned DEF Silence
<1>2. TurnsHold' /\ RetainedHolds'
    BY <1>1 DEF TurnsHold, RetainedHolds, NoTimer
<1>3. IdleHolds'
    BY <1>1 DEF OInv, IdleHolds, SameWork, Baseline
<1>4. ASSUME ~IdleFailed PROVE OwnersHold'
    BY <1>1, <1>4 DEF OwnersHold, Shown, SameWork
<1>5. IdleFailed => IdleFailed'
    BY <1>1, FailureLasts DEF SameWork
<1> QED BY <1>2, <1>3, <1>4, <1>5 DEF OInv

\* A panel claims the idle worker, or its controller gets a worker of its own.
LEMMA PanelOwned == ASSUME IInv, OInv, PanelSelects PROVE OInv'
<1> DEFINE shown == view.lastGood
           own == {c \in controllers : c.result = shown /\ c.model = view.resultModel}
           Owner(w) == [result |-> shown, model |-> view.resultModel, worker |-> w]
<1>1. /\ Shown /\ \A c \in own : c.worker = None
      /\ view' = view /\ worker' = worker /\ timer' = timer /\ retained' = retained
      /\ operation' = operation
    BY DEF PanelSelects
<1>2. shown \in DOMAIN workers /\ shown # None /\ ~view.pending
    BY <1>1 DEF Shown, IInv, ViewHolds, Computed
<1>3. None \notin DOMAIN workers /\ workers \in Seq(WorkerObjects)
    BY NoneIsNoWorker DEF IInv, TypeOK
<1>4. ASSUME NEW n, controllers' = (controllers \ own) \cup {Owner(n)},
             DOMAIN workers \subseteq DOMAIN workers', DOMAIN workers' \subseteq DOMAIN workers \cup {n},
             \A u \in DOMAIN workers :
               workers'[u].status = workers[u].status /\ workers'[u].alive = workers[u].alive,
             \A u \in DOMAIN workers : u # n => workers'[u].role = workers[u].role,
             n \in DOMAIN workers => workers[n].role = "idle",
             n \in DOMAIN workers' /\ workers'[n].role = "evidence", idle' = idle \ {n}
      PROVE  OInv'
  <2>1. TurnsHold' /\ RetainedHolds'
      BY <1>1, <1>2 DEF OInv, TurnsHold, RetainedHolds, Baseline
  <2>2. idle \subseteq DOMAIN workers
      BY DEF IInv, TypeOK
  <2>3. IdleHolds'
      BY <1>1, <1>4, <2>2 DEF OInv, IdleHolds, Baseline
  <2>4. ASSUME ~IdleFailed PROVE OwnersHold'
    <3>1. retained = shown /\ \A c \in controllers : c.result = retained /\ c.model = view.resultModel
        BY <1>1, <2>4 DEF OInv, OwnersHold
    <3>2. Owner(n).result = shown /\ Owner(n).model = view.resultModel /\ Owner(n).worker = n
        OBVIOUS
    <3>3. \A c \in controllers' : c.result = retained /\ c.model = view.resultModel
        BY <1>4, <3>1, <3>2
    <3>4. ASSUME NEW u \in DOMAIN workers', workers'[u].alive, u # worker
          PROVE  u \in idle' \/ \E c \in controllers' : c.worker = u
      <4>1. CASE u = n
          BY <1>4, <3>2, <4>1
      <4>2. CASE u # n
        <5>1. u \in DOMAIN workers /\ workers[u].alive
            BY <1>4, <3>4, <4>2
        <5>2. u \in idle \/ \E c \in controllers : c.worker = u
            BY <2>4, <3>4, <5>1 DEF OInv, OwnersHold, Owned
        <5>3. ASSUME NEW c \in controllers, c.worker = u PROVE c \in controllers'
            BY <1>1, <1>3, <1>4, <5>1, <5>3
        <5> QED BY <1>4, <4>2, <5>2, <5>3
      <4> QED BY <4>1, <4>2
    <3> QED BY <1>1, <1>2, <3>1, <3>3, <3>4 DEF OwnersHold, Owned
  <2>5. IdleFailed => IdleFailed'
      BY <1>1, <1>4, FailureLasts
  <2> QED BY <2>1, <2>3, <2>4, <2>5 DEF OInv
<1>5. CASE /\ shown \in idle /\ idle' = idle \ {shown}
           /\ workers' = [workers EXCEPT ![shown].role = "evidence"]
           /\ controllers' = (controllers \ own) \cup {Owner(shown)}
  <2>1. workers[shown].role = "idle"
      BY <1>5 DEF OInv, IdleHolds
  <2>2. /\ DOMAIN workers' = DOMAIN workers /\ workers'[shown].role = "evidence"
        /\ \A u \in DOMAIN workers : /\ workers'[u].status = workers[u].status
                                     /\ workers'[u].alive = workers[u].alive
                                     /\ u # shown => workers'[u].role = workers[u].role
    <3>1. workers' = [workers EXCEPT ![shown].role = "evidence"]
        BY <1>5
    <3>2. shown \in DOMAIN workers /\ workers \in Seq(WorkerObjects)
        BY <1>2, <1>3
    <3> HIDE DEF shown, own, Owner
    <3>3. workers[shown] \in WorkerObjects
        BY <3>2, LenProperties
    <3> QED BY <3>1, <3>2, <3>3 DEF WorkerObjects
  <2> QED BY <1>2, <1>4, <1>5, <2>1, <2>2
<1>6. CASE /\ workers' = Append(workers, NewWorker(NoRequest, "evidence")) /\ idle' = idle
           /\ controllers' = (controllers \ own) \cup {Owner(Len(workers) + 1)}
  <2> DEFINE n == Len(workers) + 1
  <2>1. NoRequest \in Requests
      BY ChannelAssumption DEF NoRequest, Requests, Results
  <2>2. /\ DOMAIN workers' = DOMAIN workers \cup {n} /\ n \notin DOMAIN workers
        /\ workers'[n].role = "evidence" /\ \A u \in DOMAIN workers : workers'[u] = workers[u]
    <3>1. NewWorker(NoRequest, "evidence") \in WorkerObjects
        BY <2>1 DEF NewWorker, WorkerObjects
    <3>2. \A u \in DOMAIN workers : workers'[u] = workers[u]
        BY <1>3, <1>6, <3>1, AppendProperties, LenProperties
    <3> QED BY <1>3, <1>6, <2>1, <3>2, AppendSucceeds
  <2>3. idle' = idle \ {n}
      BY <1>6, <2>2 DEF IInv, TypeOK
  <2> HIDE DEF n
  <2>4. controllers' = (controllers \ own) \cup {Owner(n)}
      BY <1>6 DEF n
  <2> QED BY <1>4, <2>2, <2>3, <2>4
<1> QED BY <1>5, <1>6 DEF PanelSelects

LEMMA EvidenceFailsOwned ==
    ASSUME IInv, OInv, NEW c \in controllers, EvidenceFails(c)
    PROVE  OInv'
<1> DEFINE failed == [c EXCEPT !.worker = None]
<1>1. /\ view' = view /\ worker' = worker /\ timer' = timer /\ retained' = retained /\ idle' = idle
      /\ operation' = operation /\ controllers' = (controllers \ {c}) \cup {failed}
    BY DEF EvidenceFails
<1>2. /\ SameWork(workers, workers')
      /\ \A w \in DOMAIN workers : workers'[w].alive => w # c.worker
    BY KillIsSameWork DEF EvidenceFails, IInv, TypeOK
<1>3. failed.result = c.result /\ failed.model = c.model
    BY DEF IInv, TypeOK, EvidenceOwners
<1> HIDE DEF failed
<1>4. TurnsHold' /\ RetainedHolds'
    BY <1>1, <1>2 DEF OInv, TurnsHold, RetainedHolds, SameWork, Baseline
<1>5. IdleHolds'
    BY <1>1, <1>2 DEF OInv, IdleHolds, SameWork, Baseline, IInv, TypeOK
<1>6. ASSUME ~IdleFailed PROVE OwnersHold'
  <2>1. OwnersHold
      BY <1>6 DEF OInv
  <2>2. \A d \in controllers' : d.result = retained /\ d.model = view.resultModel
      BY <1>1, <1>3, <2>1 DEF OwnersHold
  <2>3. ASSUME NEW w \in DOMAIN workers, workers'[w].alive, w # worker
        PROVE  retained # None /\ (w \in idle \/ \E d \in controllers' : d.worker = w)
      BY <1>1, <1>2, <2>1, <2>3 DEF OwnersHold, Owned, SameWork
  <2> QED BY <1>1, <1>2, <2>1, <2>2, <2>3 DEF OwnersHold, Owned, SameWork, Shown, Baseline
<1>7. IdleFailed => IdleFailed'
    BY <1>1, <1>2, FailureLasts DEF SameWork
<1> QED BY <1>4, <1>5, <1>6, <1>7 DEF OInv

LEMMA OwnersInductive == IInv /\ OInv /\ [Next]_vars => OInv'
<1> SUFFICES ASSUME IInv, OInv, [Next]_vars PROVE OInv'
    OBVIOUS
<1>1. ASSUME NEW m \in Models, NEW immediate \in BOOLEAN, Submit(m, immediate) PROVE OInv'
    BY <1>1, SubmitOwned
<1>2. CASE DebounceFires
    BY <1>2, DebounceOwned
<1>3. CASE DeadlineFires
    BY <1>3, DeadlineOwned
<1>4. ASSUME NEW w \in DOMAIN workers, ReplyRejected(w) \/ ReplyUnavailable(w) PROVE OInv'
    BY <1>4, RejectionOwned DEF ReplyRejected, ReplyUnavailable
<1>5. ASSUME NEW w \in DOMAIN workers, NEW status \in Good, ReplyGood(w, status) PROVE OInv'
    BY <1>5, ReplyGoodOwned
<1>6. ASSUME NEW w \in DOMAIN workers, IdleWorkerFails(w) PROVE OInv'
    BY <1>6, IdleFailureOwned
<1>7. CASE Invalidate
  <2>1. ~view'.pending /\ (view'.stale \/ view'.lastGood = None)
      BY <1>7 DEF Invalidate, IInv, TypeOK, Views
  <2> QED BY <1>7, <2>1, SilenceOwned DEF Invalidate
<1>8. CASE Reset \/ Dispose
    BY <1>8, SilenceOwned DEF Reset, Dispose, InitialView
<1>9. CASE PanelSelects
    BY <1>9, PanelOwned
<1>10. ASSUME NEW c \in controllers, EvidenceFails(c) PROVE OInv'
    BY <1>10, EvidenceFailsOwned
<1>11. CASE UNCHANGED vars
    BY <1>11 DEF vars, OInv, TurnsHold, IdleHolds, RetainedHolds, OwnersHold, Owned, IdleFailed, Shown,
                 Baseline
<1> QED BY <1>1, <1>2, <1>3, <1>4, <1>5, <1>6, <1>7, <1>8, <1>9, <1>10, <1>11 DEF Next, WorkerEvent

LEMMA OwnersInitially == Init => OInv
<1> SUFFICES ASSUME Init PROVE OInv
    OBVIOUS
<1>1. DOMAIN workers = {}
    BY DEF Init
<1> QED BY <1>1 DEF Init, OInv, TurnsHold, IdleHolds, RetainedHolds, OwnersHold, Shown, InitialView,
                    NoTimer, None

LEMMA Ownership == Spec => []OInv
    BY Invariance, OwnersInitially, OwnersInductive, PTL DEF Spec

----------------------------------------------------------------------------
\* The types hold for any models, any number of requests and any cache, and the cache
\* neither exceeds its limit nor holds a fingerprint twice.
THEOREM TypeCorrect == Spec => []TypeOK
    BY Invariance, PTL DEF IInv

\* What is on display, and what the cache remembers, was computed for what it is
\* labelled with, however submissions, replies, timers and panels interleave.
THEOREM ResultsArePaired == Spec => []ResultPaired
<1>1. IInv => ResultPaired
  <2> SUFFICES ASSUME IInv PROVE ResultPaired
      OBVIOUS
  <2>1. \A i \in DOMAIN cache : workers[cache[i].result].req.fp = cache[i].fp
      BY LenProperties DEF IInv, RememberedHolds, GoodEntries, Computed
  <2> QED BY <2>1 DEF IInv, ViewHolds, Computed, ResultPaired
<1> QED BY <1>1, Invariance, PTL

\* No result crosses a reset or a disposal, however late its worker replies.
THEOREM ResetsForget == Spec => []NothingSurvivesReset
<1>1. IInv => NothingSurvivesReset
  <2> SUFFICES ASSUME IInv PROVE NothingSurvivesReset
      OBVIOUS
  <2>1. \A i \in DOMAIN cache : workers[cache[i].result].req.id > resetAt
      BY LenProperties DEF IInv, RememberedHolds, GoodEntries, Computed
  <2> QED BY <2>1 DEF IInv, ViewHolds, RememberedHolds, Computed, NothingSurvivesReset
<1> QED BY <1>1, Invariance, PTL

\* No worker outlives the result it belongs to: as long as no unclaimed idle worker
\* fails, what is alive computes the pending request or serves the result on display
\* (#releaseEvidence, forecastEvidenceController, claimForecastEvidenceWorker).
THEOREM WorkersAreReleased == Spec => []ReleasedUnlessIdleFailed
<1>1. IInv /\ OInv => ReleasedUnlessIdleFailed
  <2> SUFFICES ASSUME IInv, OInv, OwnersHold PROVE EvidenceReleased
      BY DEF OInv, ReleasedUnlessIdleFailed
  <2> SUFFICES ASSUME NEW w \in DOMAIN workers, workers[w].alive, w # worker
               PROVE  /\ view.lastGood # None /\ (Shown \/ view.pending)
                      /\ \/ w = view.lastGood /\ w \in idle
                         \/ \E c \in controllers :
                              c.result = view.lastGood /\ c.model = view.resultModel /\ c.worker = w
      BY DEF EvidenceReleased
  <2>1. retained # None /\ Owned(w)
      BY DEF OwnersHold
  <2>2. view.lastGood = retained /\ (Shown \/ view.pending)
      BY <2>1 DEF OInv, RetainedHolds, Shown
  <2> QED BY <2>1, <2>2 DEF OInv, IdleHolds, OwnersHold, Owned
<1> QED BY <1>1, Invariance, Ownership, PTL

----------------------------------------------------------------------------
(* The refinement: every step asks, answers, gives up, forgets, or is nothing to the *)
(* screen.  Its three abstract variables are written out.                            *)

Question == IF view.pending THEN timer.req.model ELSE NoModel
Answer == view.resultModel
Fresh == view.lastGood # None /\ ~view.stale

LEMMA Abstract ==
    /\ (\A q \in Models : Question' = q /\ ~Fresh' /\ Answer' = Answer => Latest!Next)
    /\ (\A q \in Models : Question' = NoModel /\ Answer' = q /\ Fresh' => Latest!Next)
    /\ Question # NoModel /\ Answer' = Question /\ Fresh' /\ Question' = NoModel => Latest!Next
    /\ Question' = NoModel /\ ~Fresh' /\ Answer' = Answer => Latest!Next
    /\ Question' = NoModel /\ Answer' = NoModel /\ ~Fresh' => Latest!Next
<1>1. ASSUME NEW q \in Models, Question' = q, ~Fresh', Answer' = Answer PROVE Latest!Next
    BY <1>1 DEF Latest!Next, Latest!Ask, Question, Answer, Fresh
<1>2. ASSUME NEW q \in Models, Question' = NoModel, Answer' = q, Fresh' PROVE Latest!Next
    BY <1>2 DEF Latest!Next, Latest!AskKnown, Question, Answer, Fresh
<1>3. ASSUME Question # NoModel, Answer' = Question, Fresh', Question' = NoModel PROVE Latest!Next
    BY <1>3 DEF Latest!Next, Latest!Answer, Question, Answer, Fresh
<1>4. ASSUME Question' = NoModel, ~Fresh', Answer' = Answer PROVE Latest!Next
    BY <1>4 DEF Latest!Next, Latest!GiveUp, Question, Answer, Fresh
<1>5. ASSUME Question' = NoModel, Answer' = NoModel, ~Fresh' PROVE Latest!Next
    BY <1>5 DEF Latest!Next, Latest!Forget, Question, Answer, Fresh
<1> QED BY <1>1, <1>2, <1>3, <1>4, <1>5

\* run() answers, fails, or leaves the request pending.
LEMMA RunRefines ==
    ASSUME IInv, IInv', NEW req \in Requests, NEW v \in Views, NEW ws, NEW kept,
           Run(req, v, ws, kept), Made(workers, req),
           \A w \in DOMAIN workers : ws[w].status \in Good \/ workers[w].status \notin Good,
           v.lastGood = view.lastGood, v.resultModel = view.resultModel
    PROVE  \/ Question' = NoModel /\ Answer' = req.model /\ Fresh'
           \/ Question' = NoModel /\ Answer' = Answer /\ ~Fresh'
           \/ Question' = req.model /\ Answer' = Answer /\ view' = v
<1>1. CASE req.cached # None /\ view' = Settled(v, ws[req.cached].status, req.cached, req.model)
  <2>1. ws[req.cached].status \in Good /\ req.cached \in Results /\ req.model \in Models
      BY <1>1 DEF Made, Computed, Results
  <2> QED BY <1>1, <2>1, SettledView DEF Question, Answer, Fresh
<1>2. CASE timer' = [kind |-> "deadline", req |-> req] /\ view' = v
  <2>1. v.pending
      BY DEF Run, IsCurrent
  <2> QED BY <1>2, <2>1 DEF Question, Answer
<1>3. CASE view' = Failed(v, "error")
    BY <1>3, FailedView DEF Question, Answer, Fresh
<1> QED BY <1>1, <1>2, <1>3 DEF Run

LEMMA SubmitRefines ==
    ASSUME IInv, IInv', NEW m \in Models, NEW immediate \in BOOLEAN, Submit(m, immediate)
    PROVE  Latest!Next
<1> DEFINE fp == FingerprintOf[m]
           cached == IF Baseline THEN Cached(fp) ELSE None
           keep == Retain(m, cached)
           req == [id |-> sequence + 1, fp |-> fp, model |-> m, cached |-> cached]
           v == Pending(view, req)
           ws == IF keep THEN Kill(workers, {worker}) ELSE ReleaseAndStop
           kept == IF keep THEN retained ELSE None
<1>1. \/ Run(req, v, ws, kept)
      \/ view' = v /\ timer' = [kind |-> "debounce", req |-> req]
    BY DEF Submit
<1>2. sequence \in Nat /\ sequence + 1 \in 0..MaxRequests /\ resetAt <= sequence /\ resetAt \in Nat
    BY ChannelAssumption DEF Submit, IInv, TypeOK, ViewHolds
<1>3. cached # None => [fp |-> fp, result |-> cached] \in GoodEntries
    BY CacheHolds, TouchedKeeps, ChannelAssumption
<1>4. cached # None => cached \in DOMAIN workers /\ Computed(workers, cached, fp)
    BY <1>3 DEF GoodEntries, Computed
<1>5. fp \in Fingerprints /\ cached \in Results
    BY <1>4 DEF Fingerprints, Results
<1>6. \A w \in DOMAIN workers : ws[w].status = workers[w].status
    BY KillSucceeds DEF IInv, TypeOK, ReleaseAndStop
<1> HIDE DEF fp, cached, ws, kept
<1>7. req \in Requests /\ req.id = sequence + 1 /\ req.fp = fp /\ req.model = m
    BY <1>2, <1>5 DEF Requests
<1>8. Made(workers, req)
    BY <1>2, <1>4 DEF Made, fp
<1> HIDE DEF req
<1>9. /\ v \in Views /\ v.pending /\ v.lastGood = view.lastGood
      /\ v.resultModel = view.resultModel /\ (v.stale <=> v.lastGood # None)
    BY <1>7, PendingView DEF IInv, TypeOK
<1> HIDE DEF v
<1>10. CASE Run(req, v, ws, kept)
  <2>1. \/ Question' = NoModel /\ Answer' = m /\ Fresh'
        \/ Question' = NoModel /\ Answer' = Answer /\ ~Fresh'
        \/ Question' = m /\ Answer' = Answer /\ view' = v
      BY <1>6, <1>7, <1>8, <1>9, <1>10, RunRefines
  <2>2. view' = v => ~Fresh'
      BY <1>9 DEF Fresh
  <2> QED BY <2>1, <2>2, Abstract
<1>11. CASE view' = v /\ timer' = [kind |-> "debounce", req |-> req]
  <2>1. Question' = m /\ Answer' = Answer /\ ~Fresh'
      BY <1>7, <1>9, <1>11 DEF Question, Answer, Fresh
  <2> QED BY <2>1, Abstract
<1> QED BY <1>1, <1>10, <1>11

LEMMA DebounceRefines ==
    ASSUME IInv, IInv', DebounceFires
    PROVE  Latest!Next \/ (Question' = Question /\ Answer' = Answer /\ view' = view)
<1>1. Run(timer.req, view, workers, retained) /\ timer.kind = "debounce"
    BY DEF DebounceFires
<1>2. view.pending /\ timer.req \in Requests /\ Made(workers, timer.req) /\ view \in Views
    BY <1>1 DEF IInv, TypeOK, Timers, TimerHolds
<1>3. Question = timer.req.model /\ Question # NoModel
    BY <1>2, ChannelAssumption DEF Question, Made
<1>4. \/ Question' = NoModel /\ Answer' = timer.req.model /\ Fresh'
      \/ Question' = NoModel /\ Answer' = Answer /\ ~Fresh'
      \/ Question' = timer.req.model /\ Answer' = Answer /\ view' = view
    BY <1>1, <1>2, RunRefines
<1> QED BY <1>3, <1>4, Abstract

LEMMA FailureRefines ==
    ASSUME IInv, NEW lifecycle \in {"error", "unsupported"}, view' = Failed(view, lifecycle)
    PROVE  Latest!Next
<1>1. Question' = NoModel /\ Answer' = Answer /\ ~Fresh'
    BY FailedView DEF IInv, TypeOK, Question, Answer, Fresh
<1> QED BY <1>1, Abstract

LEMMA StepRefines == IInv /\ IInv' /\ [Next]_vars => [Latest!Next]_Latest!vars
<1> SUFFICES ASSUME IInv, IInv', [Next]_vars PROVE [Latest!Next]_Latest!vars
    OBVIOUS
<1>a. ASSUME view' = view, Question' = Question PROVE UNCHANGED Latest!vars
    BY <1>a DEF Latest!vars, Question
<1>1. ASSUME NEW m \in Models, NEW immediate \in BOOLEAN, Submit(m, immediate) PROVE Latest!Next
    BY <1>1, SubmitRefines
<1>2. CASE DebounceFires
    BY <1>2, <1>a, DebounceRefines
<1>3. CASE DeadlineFires
    BY <1>3, FailureRefines DEF DeadlineFires
<1>4. ASSUME NEW w \in DOMAIN workers, ReplyRejected(w) PROVE Latest!Next
    BY <1>4, FailureRefines DEF ReplyRejected
<1>5. ASSUME NEW w \in DOMAIN workers, ReplyUnavailable(w) PROVE Latest!Next
    BY <1>5, FailureRefines DEF ReplyUnavailable
<1>6. ASSUME NEW w \in DOMAIN workers, NEW status \in Good, ReplyGood(w, status) PROVE Latest!Next
  <2>1. /\ workers[w].role = "forecast" /\ IsCurrent(view, workers[w].req)
        /\ view' = Settled(view, status, w, workers[w].req.model)
      BY <1>6 DEF ReplyGood
  <2>2. workers[w].req = timer.req /\ Made(workers, workers[w].req) /\ view.pending
      BY <2>1, Answering DEF IsCurrent
  <2>3. Question = workers[w].req.model /\ Question \in Models /\ Question # NoModel
      BY <2>2, ChannelAssumption DEF Question, Made
  <2>4. w # None
      BY LenProperties DEF IInv, TypeOK, None
  <2>5. Question' = NoModel /\ Answer' = workers[w].req.model /\ Fresh'
      BY <2>1, <2>3, <2>4, SettledView DEF IInv, TypeOK, Results, Question, Answer, Fresh
  <2> QED BY <2>3, <2>5, Abstract
<1>7. ASSUME NEW w \in DOMAIN workers, IdleWorkerFails(w) PROVE UNCHANGED Latest!vars
    BY <1>7, <1>a DEF IdleWorkerFails, Question
<1>8. CASE Invalidate
  <2>1. Question' = NoModel /\ Answer' = Answer /\ ~Fresh'
      BY <1>8 DEF Invalidate, IInv, TypeOK, Views, Question, Answer, Fresh
  <2> QED BY <2>1, Abstract
<1>9. CASE Reset \/ Dispose
  <2>1. Question' = NoModel /\ Answer' = NoModel /\ ~Fresh'
      BY <1>9 DEF Reset, Dispose, InitialView, Question, Answer, Fresh
  <2> QED BY <2>1, Abstract
<1>10. CASE PanelSelects
    BY <1>10, <1>a DEF PanelSelects, Question
<1>11. ASSUME NEW c \in controllers, EvidenceFails(c) PROVE UNCHANGED Latest!vars
    BY <1>11, <1>a DEF EvidenceFails, Question
<1>12. CASE UNCHANGED vars
    BY <1>12, <1>a DEF vars, Question
<1> QED BY <1>1, <1>2, <1>3, <1>4, <1>5, <1>6, <1>7, <1>8, <1>9, <1>10, <1>11, <1>12
        DEF Next, WorkerEvent

LEMMA InitRefines == Init => Latest!Init
    BY DEF Init, InitialView, Latest!Init

\* The safety part of ImplementsLatest: whatever workers, timers, panels and the cache
\* do, the screen sees a question asked, answered, given up or forgotten, and an answer
\* is marked fresh only until the next question.
THEOREM ChannelImplementsLatest == Spec => Latest!Init /\ [][Latest!Next]_Latest!vars
    BY InitRefines, StepRefines, Invariance, PTL DEF Spec
=============================================================================
