---------------------------- MODULE EvidenceChannel ----------------------------
(***************************************************************************)
(* The evidence panels of one forecast: the EvidenceController class of    *)
(* ui/forecast/controller.ts, the worker side of its requests in           *)
(* ui/forecast/execute.ts, and the panels that select through              *)
(* useForecastEvidence.  All panels share one controller, one worker and   *)
(* one small cache; answers are matched by request id and deliver to the   *)
(* panels that still listen.                                               *)
(*                                                                         *)
(* A controller belongs to one forecast result; when that result is        *)
(* released the controller is disposed and panels later select through a   *)
(* new one, the next scope.  Diagnostics and durations are left out.       *)
(***************************************************************************)
EXTENDS Naturals, Sequences, FiniteSets, SequencesExt

CONSTANTS
    Panels,         \* the panels on screen
    Selections,     \* operation, period and liability a panel can select
    Unavailable,    \* selections without periods or proof in the forecast
    CacheLimit,     \* answers the controller remembers (4 in the code)
    MaxRequests,    \* bound on the requests of one scope
    MaxScopes,      \* bound on the controllers made
    MaxRevisions    \* bound on the refreshes of a panel

ASSUME SelectionsAssumption == Unavailable \subseteq Selections
ASSUME CacheAssumption == CacheLimit \in Nat \ {0}
ASSUME BoundsAssumption ==
    MaxRequests \in Nat /\ MaxScopes \in Nat \ {0} /\ MaxRevisions \in Nat

VARIABLES
    scope,      \* number of the controller in use
    sequence,   \* its last request id
    retained,   \* the forecast's own worker waits to be claimed
    worker,     \* its worker
    sent,       \* the source was sent to the worker
    cache,      \* remembered answers, oldest first
    pending,    \* requests not answered, with the panels that listen
    panels      \* per panel its selection, revision and what it settled on

vars == <<scope, sequence, retained, worker, sent, cache, pending, panels>>

NoSelection == "none"

\* A worker holds the proof of the forecast it generated or none, the source bound
\* by a request, the requests it has not handled and the responses it posted.
NewWorker(generated) ==
    [made |-> TRUE, generated |-> generated, source |-> FALSE, failed |-> FALSE,
     inbox |-> <<>>, outbox |-> <<>>]
NoWorker == [NewWorker(FALSE) EXCEPT !.made = FALSE]

Unsettled == [scope |-> 0, selection |-> NoSelection, revision |-> 0, outcome |-> "none",
              answers |-> NoSelection]

Messages == [id : 1..MaxRequests, selection : Selections,
             attached : {"nothing", "model", "proof"}]
Responses == [id : 1..MaxRequests, selection : Selections,
              outcome : {"result", "unverified", "error"}]
Settlements == [scope : 0..MaxScopes, selection : Selections \cup {NoSelection},
                revision : 0..MaxRevisions,
                outcome : {"none", "progress", "result", "error"},
                answers : Selections \cup {NoSelection}]

\* Every variable stays within its TypeScript type, the cache within its limit,
\* and at most one request per id or selection is under way.
TypeOK ==
    /\ scope \in 1..MaxScopes /\ sequence \in 0..MaxRequests
    /\ retained \in BOOLEAN /\ sent \in BOOLEAN
    /\ worker.inbox \in Seq(Messages) /\ worker.outbox \in Seq(Responses)
    /\ {worker.made, worker.generated, worker.source, worker.failed} \subseteq BOOLEAN
    /\ cache \in Seq([selection : Selections, answers : Selections])
    /\ Len(cache) <= CacheLimit
    /\ \A i, j \in DOMAIN cache : cache[i].selection = cache[j].selection => i = j
    /\ pending \subseteq [id : 1..sequence, selection : Selections,
                          listeners : SUBSET [panel : Panels, revision : 0..MaxRevisions]]
    /\ \A r, q \in pending : r # q => r.id # q.id /\ r.selection # q.selection
    /\ panels \in [Panels -> [selection : Selections \cup {NoSelection},
                              revision : 0..MaxRevisions, settled : Settlements]]

Init ==
    /\ scope = 1 /\ sequence = 0 /\ retained \in BOOLEAN
    /\ worker = NoWorker /\ sent = FALSE /\ cache = <<>> /\ pending = {}
    /\ panels = [p \in Panels |-> [selection |-> NoSelection, revision |-> 0,
                                   settled |-> Unsettled]]

-----------------------------------------------------------------------------
(* Listeners.                                                               *)

\* A response settles the panels that listen, under the selection and revision they
\* listened for.
Told(shown, listeners, selection, outcome, answers) ==
    [p \in Panels |->
        IF \A l \in listeners : l.panel # p THEN shown[p]
        ELSE [shown[p] EXCEPT
                !.settled = [scope |-> scope, selection |-> selection,
                             revision |-> (CHOOSE l \in listeners : l.panel = p).revision,
                             outcome |-> outcome, answers |-> answers]]]

\* The effect of a panel ends its subscription before it makes the next.
Unsubscribed(p) ==
    {[r EXCEPT !.listeners = {l \in @ : l.panel # p}] : r \in pending}

\* What a panel takes from what it settled on: only the response to the selection it
\* shows now, from the controller in use.
Shown(p) ==
    LET s == panels[p].settled
    IN  IF s.scope = scope /\ s.selection = panels[p].selection
              /\ s.revision = panels[p].revision
        THEN s ELSE Unsettled

\* Variant: disposal forgets that the next worker has no source.
DisposedButSent ==
    /\ worker' = NoWorker /\ pending' = {} /\ cache' = <<>> /\ UNCHANGED sent

\* dispose(): the worker is terminated with its handlers removed, so nothing it was
\* sent is answered.
Disposed ==
    /\ worker' = NoWorker /\ sent' = FALSE /\ pending' = {} /\ cache' = <<>>

\* #fail: every open request ends in an error for whoever listens to it.
Fail(open, shown) ==
    /\ Disposed
    /\ panels' = [p \in Panels |->
           LET asked == {r \in open : \E l \in r.listeners : l.panel = p}
           IN  IF asked = {} THEN shown[p]
               ELSE LET r == CHOOSE r \in asked : TRUE
                    IN  Told(shown, r.listeners, r.selection, "error", NoSelection)[p]]

-----------------------------------------------------------------------------
(* Panels.                                                                  *)

\* The source a message carries: none once sent; the model alone to the worker that
\* generated the forecast, which holds its proof.
Attached(generated) ==
    IF sent THEN "nothing" ELSE IF generated THEN "model" ELSE "proof"

\* A new request.  boundedEvidencePoints, makeWorker and postMessage may throw.
Request(s, heard, kept, me, shown) ==
    LET open == heard \cup {[id |-> sequence + 1, selection |-> s, listeners |-> {me}]}
        owner == IF worker.made THEN worker ELSE NewWorker(retained)
    IN  /\ sequence < MaxRequests /\ sequence' = sequence + 1
        /\ \/ /\ s \in Unavailable
              /\ Fail(open, shown) /\ UNCHANGED retained
           \/ /\ s \notin Unavailable
              /\ Fail(open, shown) /\ retained' = FALSE
           \/ /\ s \notin Unavailable
              /\ worker' = [owner EXCEPT !.inbox = Append(@,
                     [id |-> sequence + 1, selection |-> s,
                      attached |-> Attached(owner.generated)])]
              /\ sent' = TRUE /\ retained' = FALSE /\ cache' = kept
              /\ pending' = open /\ panels' = shown

\* A selection is looked up in the cache; a refresh first forgets its answer.
Remembers(s) == {i \in DOMAIN cache : cache[i].selection = s}
Forgotten(s) ==
    IF Remembers(s) = {} THEN cache ELSE RemoveAt(cache, CHOOSE i \in Remembers(s) : TRUE)

\* select(): answered from the cache, by a request already under way, or by a new one.
Select(p, s, revision) ==
    LET me == [panel |-> p, revision |-> revision]
        heard == Unsubscribed(p)
        known == IF revision = 0 THEN Remembers(s) ELSE {}
        kept == IF revision = 0 THEN cache ELSE Forgotten(s)
        shown == [panels EXCEPT ![p].selection = s, ![p].revision = revision]
        joined == {r \in heard : r.selection = s}
    IN  /\ UNCHANGED scope
        /\ \/ /\ cache' = kept /\ pending' = heard
              /\ \E i \in known : panels' = Told(shown, {me}, s, "result", cache[i].answers)
              /\ UNCHANGED <<sequence, retained, worker, sent>>
           \/ /\ known = {} /\ joined # {} /\ cache' = kept /\ panels' = shown
              /\ pending' = (heard \ joined) \cup
                            {[r EXCEPT !.listeners = @ \cup {me}] : r \in joined}
              /\ UNCHANGED <<sequence, retained, worker, sent>>
           \/ /\ known = {} /\ joined = {}
              /\ Request(s, heard, kept, me, shown)

Choose(p, s) ==
    /\ s # panels[p].selection
    /\ Select(p, s, panels[p].revision)

Refresh(p) ==
    /\ panels[p].selection # NoSelection /\ panels[p].revision < MaxRevisions
    /\ Select(p, panels[p].selection, panels[p].revision + 1)

\* A panel unmounts.
Leave(p) ==
    /\ pending' = Unsubscribed(p)
    /\ panels' = [panels EXCEPT ![p] = [selection |-> NoSelection, revision |-> 0,
                                        settled |-> Unsettled]]
    /\ UNCHANGED <<scope, sequence, retained, worker, sent, cache>>

\* The forecast is replaced or withdrawn: its controller is disposed of, and the panels
\* select again through the controller of the next result, which may have been computed
\* by a worker that waits to be claimed.  No panel shows again what it settled on before.
Release ==
    /\ scope < MaxScopes /\ scope' = scope + 1 /\ sequence' = 0
    /\ Disposed /\ retained' \in BOOLEAN
    /\ panels' = [p \in Panels |-> [panels[p] EXCEPT !.selection = NoSelection,
                                                      !.settled = Unsettled]]

-----------------------------------------------------------------------------
(* The worker handles its messages in turn.                                 *)

\* The source the worker holds once it has read a message.
Bound(message) ==
    \/ worker.source /\ message.attached = "nothing"
    \/ message.attached = "proof"
    \/ message.attached = "model" /\ worker.generated

Work ==
    /\ worker.inbox # <<>>
    /\ \E outcome \in {"result", "unverified", "error"} :
         LET message == Head(worker.inbox)
         IN  /\ Bound(message) \/ outcome = "error"
             /\ worker' = [worker EXCEPT
                    !.inbox = Tail(@), !.source = outcome # "error",
                    !.failed = @ \/ outcome = "error",
                    !.outbox = Append(@, [id |-> message.id, selection |-> message.selection,
                                          outcome |-> outcome])]
    /\ UNCHANGED <<scope, sequence, retained, sent, cache, pending, panels>>

-----------------------------------------------------------------------------
(* What reaches the controller.                                             *)

\* Variant: the oldest open request is taken as the answered one.
AnsweredInTurn(id) == {r \in pending : \A q \in pending : r.id <= q.id}

\* The open request a response belongs to; a request given up has none.
Answered(id) == {r \in pending : r.id = id}

\* The request the worker has in hand reports how far it is.
Progress ==
    LET underway == worker.outbox \o worker.inbox
    IN  /\ underway # <<>>
        /\ \E r \in Answered(Head(underway).id) :
             panels' = Told(panels, r.listeners, r.selection, "progress", NoSelection)
        /\ UNCHANGED <<scope, sequence, retained, worker, sent, cache, pending>>

\* Variant: the cache forgets nothing.
RememberedAll(s, answers) == Append(cache, [selection |-> s, answers |-> answers])

Remembered(s, answers) ==
    Append(IF Len(cache) >= CacheLimit THEN Tail(cache) ELSE cache,
           [selection |-> s, answers |-> answers])

\* onmessage.  The boundary a response carries is the one of its request, so a mismatch
\* is one of the ways a result is unverified.
Deliver ==
    /\ worker.outbox # <<>> /\ UNCHANGED <<scope, sequence, retained>>
    /\ LET response == Head(worker.outbox)
           answered == Answered(response.id)
           read == worker' = [worker EXCEPT !.outbox = Tail(@)]
       IN  \/ answered = {} /\ read /\ UNCHANGED <<sent, cache, pending, panels>>
           \/ answered # {} /\ response.outcome # "result" /\ Fail(pending, panels)
           \/ \E r \in answered :
                /\ response.outcome = "result" /\ read
                /\ cache' = Remembered(r.selection, response.selection)
                /\ pending' = pending \ {r}
                /\ panels' = Told(panels, r.listeners, r.selection, "result",
                                  response.selection)
                /\ UNCHANGED sent

\* onerror and onmessageerror of the worker in use.
WorkerBreaks ==
    /\ worker.made /\ Fail(pending, panels) /\ UNCHANGED <<scope, sequence, retained>>

\* Variant: a request that is late is dropped without a word.
TimeoutDrops(id) ==
    /\ \E r \in Answered(id) : pending' = pending \ {r}
    /\ UNCHANGED <<scope, sequence, retained, worker, sent, cache, panels>>

\* The deadline of a request: a failure if a panel still waits for it.
Timeout(id) ==
    /\ UNCHANGED <<scope, sequence, retained>>
    /\ \E r \in Answered(id) :
         \/ r.listeners # {} /\ Fail(pending, panels)
         \/ /\ r.listeners = {} /\ pending' = pending \ {r}
            /\ UNCHANGED <<worker, sent, cache, panels>>

-----------------------------------------------------------------------------
Next ==
    \/ \E p \in Panels : Refresh(p) \/ Leave(p) \/ \E s \in Selections : Choose(p, s)
    \/ Release \/ Work \/ Progress \/ Deliver \/ WorkerBreaks
    \/ \E id \in 1..MaxRequests : Timeout(id)

\* Deadlines set with setTimeout do pass; no worker is promised to answer.
Spec == Init /\ [][Next]_vars /\ \A id \in 1..MaxRequests : WF_vars(Timeout(id))

-----------------------------------------------------------------------------
\* The evidence a panel shows answers the selection it shows it for, whatever requests
\* were given up, timed out, joined or answered from the cache before.
OwnAnswer ==
    \A p \in Panels :
        Shown(p).outcome = "result" => Shown(p).answers = panels[p].selection

\* Sending the source only once per worker is enough: unless a request failed in it, a
\* worker holds or will have read a source before each message it handles, also when the
\* first request of its controller was given up.
SourceFound ==
    ~worker.failed =>
        \A i \in DOMAIN worker.inbox :
            \/ worker.source
            \/ \E j \in 1..i : LET a == worker.inbox[j].attached
                               IN  a = "proof" \/ (a = "model" /\ worker.generated)

\* Panel p has nothing but progress to show for its selection s at revision k.
Waits(p, s, k) ==
    /\ panels[p].selection = s /\ panels[p].revision = k
    /\ Shown(p).outcome \notin {"result", "error"}

\* A panel does not wait for ever: its selection is answered or fails, or it moves on,
\* though workers may never answer and requests be joined or given up at any time.
SelectionsSettle ==
    \A p \in Panels, s \in Selections \ Unavailable, k \in 0..MaxRevisions :
        Waits(p, s, k) ~> ~Waits(p, s, k)
=============================================================================
