---------------------------- MODULE Channels_proofs ----------------------------
(***************************************************************************)
(* The two channels with a worker of their own, each for itself.  A        *)
(* standalone result on display is the one of what is on screen, for every *)
(* set of inputs and however many runs; and without its fairness that      *)
(* channel implements LatestForecast.                                      *)
(*                                                                         *)
(* For any panels, selections and limits: evidence is shown only for the   *)
(* selection it answers, and the source of a forecast is sent when the     *)
(* worker needs it.  The invariant ties the three places a selection is    *)
(* written down in, the message, the pending request and the cache, by     *)
(* request id, and the flag that the source was sent to the worker that    *)
(* has or will have read it.                                               *)
(***************************************************************************)
EXTENDS EvidenceChannel, StandaloneChannel, SequenceTheorems, TLAPS

Listeners == [panel : Panels, revision : 0..MaxRevisions]
PanelStates == [Panels -> [selection : Selections \cup {NoSelection},
                           revision : 0..MaxRevisions, settled : Settlements]]
Requests(last) == [id : 1..last, selection : Selections, listeners : SUBSET Listeners]
Workers == [made : BOOLEAN, generated : BOOLEAN, source : BOOLEAN, failed : BOOLEAN,
            inbox : Seq(Messages), outbox : Seq(Responses)]

Counted ==
    /\ scope \in 1..MaxScopes /\ sequence \in 0..MaxRequests
    /\ retained \in BOOLEAN /\ sent \in BOOLEAN

\* What a panel settled on with a result answers what it settled for.
Honest(settled) == settled.outcome = "result" => settled.answers = settled.selection
PanelsHold == panels \in PanelStates /\ \A p \in Panels : Honest(panels[p].settled)

\* The cache remembers answers to the selections they are remembered for.
Answers == {a \in [selection : Selections, answers : Selections] : a.answers = a.selection}
Distinct(s) == \A i, j \in DOMAIN s : s[i].selection = s[j].selection => i = j
CacheHolds == cache \in Seq(Answers) /\ Len(cache) <= CacheLimit /\ Distinct(cache)

\* Requests under way differ in id and selection, and none is answered in the cache.
PendingHolds ==
    /\ pending \subseteq Requests(sequence)
    /\ \A r, q \in pending : r # q => r.id # q.id /\ r.selection # q.selection
    /\ \A r \in pending : \A i \in DOMAIN cache : cache[i].selection # r.selection

\* A message or response carries the id and the selection of the request it is about.
Concerns(s) ==
    \A i \in DOMAIN s :
        /\ s[i].id <= sequence
        /\ \A r \in pending : r.id = s[i].id => r.selection = s[i].selection

\* A message that brings the worker a source.
Brings(message) == message.attached = "proof" \/ (message.attached = "model" /\ worker.generated)
WorkerHolds ==
    /\ worker \in Workers /\ (worker.made <=> sent)
    /\ ~worker.made => worker.inbox = <<>> /\ worker.outbox = <<>>
    /\ Concerns(worker.inbox) /\ Concerns(worker.outbox)
    /\ worker.made /\ ~worker.failed =>
         worker.source \/ \E i \in DOMAIN worker.inbox : Brings(worker.inbox[i])
    /\ ~worker.failed =>
         \A i \in DOMAIN worker.inbox :
             worker.source \/ \E j \in 1..i : Brings(worker.inbox[j])

IInv == Counted /\ PanelsHold /\ CacheHolds /\ PendingHolds /\ WorkerHolds

----------------------------------------------------------------------------
(* Sequences *)

LEMMA Pushed ==
    ASSUME NEW S, NEW s \in Seq(S), NEW e \in S
    PROVE  /\ Append(s, e) \in Seq(S) /\ Len(s) \in Nat /\ DOMAIN s = 1..Len(s)
           /\ Len(Append(s, e)) = Len(s) + 1
           /\ DOMAIN Append(s, e) = 1..Len(s) + 1 /\ Append(s, e)[Len(s) + 1] = e
           /\ \A i \in 1..Len(s) : Append(s, e)[i] = s[i]
    BY AppendProperties, LenProperties

LEMMA Popped ==
    ASSUME NEW S, NEW s \in Seq(S), s # <<>>
    PROVE  /\ Head(s) \in S /\ Head(s) = s[1] /\ Len(s) \in Nat /\ Len(s) > 0
           /\ DOMAIN s = 1..Len(s) /\ Tail(s) \in Seq(S) /\ Len(Tail(s)) = Len(s) - 1
           /\ DOMAIN Tail(s) = 1..Len(s) - 1
           /\ \A i \in 1..Len(s) - 1 : Tail(s)[i] = s[i + 1]
    BY HeadTailProperties, LenProperties, EmptySeq

\* A sequence without one of its elements.
LEMMA Removed ==
    ASSUME NEW S, NEW s \in Seq(S), NEW p \in 1..Len(s)
    PROVE  /\ RemoveAt(s, p) \in Seq(S) /\ Len(RemoveAt(s, p)) = Len(s) - 1
           /\ \A i \in 1..Len(s) - 1 : RemoveAt(s, p)[i] = IF i < p THEN s[i] ELSE s[i + 1]
<1> DEFINE n == Len(s)
           before == SubSeq(s, 1, p - 1)
           after == SubSeq(s, p + 1, n)
<1>1. n \in Nat /\ p \in Nat /\ p >= 1 /\ p <= n /\ \A i \in 1..n : s[i] \in S
    BY LenProperties
<1> HIDE DEF n
<1>2. /\ before \in Seq(S) /\ Len(before) = p - 1
      /\ \A i \in 1..p - 1 : before[i] = s[i]
  <2>1. \A i \in 1..p - 1 : s[i] \in S
      BY <1>1
  <2>2. /\ before \in Seq(S) /\ Len(before) = IF 1 <= p - 1 THEN p - 1 - 1 + 1 ELSE 0
        /\ \A i \in 1..p - 1 - 1 + 1 : before[i] = s[1 + i - 1]
      BY <1>1, <2>1, SubSeqProperties
  <2> QED BY <1>1, <2>2
<1>3. /\ after \in Seq(S) /\ Len(after) = n - p
      /\ \A i \in 1..n - p : after[i] = s[p + i]
  <2>1. \A i \in p + 1..n : s[i] \in S
      BY <1>1
  <2>2. /\ after \in Seq(S) /\ Len(after) = IF p + 1 <= n THEN n - (p + 1) + 1 ELSE 0
        /\ \A i \in 1..n - (p + 1) + 1 : after[i] = s[(p + 1) + i - 1]
      BY <1>1, <2>1, SubSeqProperties
  <2> QED BY <1>1, <2>2
<1> HIDE DEF before, after
<1>4. /\ before \o after \in Seq(S) /\ Len(before \o after) = n - 1
      /\ \A i \in 1..n - 1 :
           (before \o after)[i] = IF i <= p - 1 THEN before[i] ELSE after[i - (p - 1)]
    BY <1>1, <1>2, <1>3, ConcatProperties
<1>5. ASSUME NEW i \in 1..n - 1
      PROVE  (before \o after)[i] = IF i < p THEN s[i] ELSE s[i + 1]
  <2>1. CASE i < p
      BY <1>1, <1>2, <1>4, <2>1
  <2>2. CASE ~(i < p)
    <3>1. i - (p - 1) \in 1..n - p /\ p + (i - (p - 1)) = i + 1
        BY <1>1, <2>2
    <3> QED BY <1>1, <1>3, <1>4, <2>2, <3>1
  <2> QED BY <2>1, <2>2
<1> QED BY <1>4, <1>5 DEF n, before, after, RemoveAt

\* Forgetting an answer leaves the others, each still remembered once.
LEMMA ForgottenHolds ==
    ASSUME CacheHolds, NEW s
    PROVE  /\ Forgotten(s) \in Seq(Answers) /\ Len(Forgotten(s)) <= CacheLimit
           /\ Distinct(Forgotten(s))
           /\ \A i \in DOMAIN Forgotten(s) :
                /\ Forgotten(s)[i].selection # s
                /\ \E j \in DOMAIN cache : Forgotten(s)[i] = cache[j]
<1>0. cache \in Seq(Answers) /\ Len(cache) \in Nat /\ DOMAIN cache = 1..Len(cache) /\ Distinct(cache)
      /\ Len(cache) <= CacheLimit /\ CacheLimit \in Nat
    BY LenProperties, CacheAssumption DEF CacheHolds
<1>1. CASE Remembers(s) = {}
    BY <1>0, <1>1 DEF Forgotten, Remembers
<1>2. CASE Remembers(s) # {}
  <2> DEFINE p == CHOOSE i \in Remembers(s) : TRUE
             rest == RemoveAt(cache, p)
             n == Len(cache)
  <2>1. p \in 1..n /\ cache[p].selection = s /\ Forgotten(s) = rest
      BY <1>0, <1>2 DEF Forgotten, Remembers
  <2> HIDE DEF p
  <2>2. /\ rest \in Seq(Answers) /\ Len(rest) = n - 1
        /\ \A i \in 1..n - 1 : rest[i] = IF i < p THEN cache[i] ELSE cache[i + 1]
      BY <1>0, <2>1, Removed
  <2> HIDE DEF rest
  <2>3. DOMAIN rest = 1..n - 1
      BY <2>2, LenProperties
  <2>4. ASSUME NEW i \in 1..n - 1
        PROVE  \E j \in 1..n : j # p /\ rest[i] = cache[j] /\ j = IF i < p THEN i ELSE i + 1
      BY <1>0, <2>1, <2>2
  <2>5. \A i \in 1..n - 1 : rest[i].selection # s /\ \E j \in 1..n : rest[i] = cache[j]
      BY <1>0, <2>1, <2>4 DEF Distinct
  <2>6. Distinct(rest)
    <3> SUFFICES ASSUME NEW i \in 1..n - 1, NEW k \in 1..n - 1, rest[i].selection = rest[k].selection
        PROVE  i = k
        BY <2>3 DEF Distinct
    <3>1. PICK a \in 1..n : a # p /\ rest[i] = cache[a] /\ a = IF i < p THEN i ELSE i + 1
        BY <2>4
    <3>2. PICK b \in 1..n : b # p /\ rest[k] = cache[b] /\ b = IF k < p THEN k ELSE k + 1
        BY <2>4
    <3>3. a = b
        BY <1>0, <3>1, <3>2 DEF Distinct
    <3> QED BY <1>0, <2>1, <3>1, <3>2, <3>3
  <2>7. Len(rest) <= CacheLimit
      BY <1>0, <2>2
  <2>8. \A i \in DOMAIN rest : rest[i].selection # s /\ \E j \in DOMAIN cache : rest[i] = cache[j]
      BY <1>0, <2>3, <2>5
  <2> QED BY <2>1, <2>2, <2>6, <2>7, <2>8
<1> QED BY <1>1, <1>2

----------------------------------------------------------------------------
(* Listeners *)

\* Telling panels of a response keeps them typed and honest.
LEMMA ToldHolds ==
    ASSUME NEW shown \in PanelStates, \A p \in Panels : Honest(shown[p].settled),
           NEW listeners \in SUBSET Listeners, NEW s \in Selections,
           NEW outcome \in {"none", "progress", "result", "error"},
           NEW answers \in Selections \cup {NoSelection},
           outcome = "result" => answers = s, scope \in 0..MaxScopes
    PROVE  /\ Told(shown, listeners, s, outcome, answers) \in PanelStates
           /\ \A p \in Panels : Honest(Told(shown, listeners, s, outcome, answers)[p].settled)
<1> DEFINE told == Told(shown, listeners, s, outcome, answers)
<1>1. ASSUME NEW p \in Panels
      PROVE  /\ told[p] \in [selection : Selections \cup {NoSelection},
                             revision : 0..MaxRevisions, settled : Settlements]
             /\ Honest(told[p].settled)
  <2>1. shown[p] \in [selection : Selections \cup {NoSelection},
                      revision : 0..MaxRevisions, settled : Settlements]
      BY DEF PanelStates
  <2>2. CASE \A l \in listeners : l.panel # p
      BY <2>1, <2>2 DEF Told
  <2>3. CASE \E l \in listeners : l.panel = p
    <3> DEFINE l == CHOOSE l \in listeners : l.panel = p
               new == [scope |-> scope, selection |-> s, revision |-> l.revision,
                       outcome |-> outcome, answers |-> answers]
    <3>1. l \in listeners
        BY <2>3
    <3>2. l.revision \in 0..MaxRevisions
        BY <3>1 DEF Listeners
    <3>3. told[p] = [shown[p] EXCEPT !.settled = new]
        BY <2>3 DEF Told
    <3> HIDE DEF l
    <3>4. new \in Settlements /\ Honest(new)
        BY <3>2 DEF Settlements, Honest
    <3> HIDE DEF new, told
    <3> QED BY <2>1, <3>3, <3>4
  <2> QED BY <2>2, <2>3
<1>2. told = [p \in Panels |-> told[p]]
    BY DEF Told
<1> HIDE DEF told
<1> QED BY <1>1, <1>2 DEF PanelStates, told

LEMMA UnsubscribedHolds ==
    ASSUME PendingHolds, NEW p
    PROVE  /\ Unsubscribed(p) \subseteq Requests(sequence)
           /\ \A r \in Unsubscribed(p) : \E q \in pending :
                 q.id = r.id /\ q.selection = r.selection
           /\ \A r, q \in Unsubscribed(p) : r # q => r.id # q.id /\ r.selection # q.selection
<1> DEFINE Without(r) == [r EXCEPT !.listeners = {l \in @ : l.panel # p}]
<1>1. ASSUME NEW r \in pending
      PROVE  Without(r) \in Requests(sequence) /\ Without(r).id = r.id /\ Without(r).selection = r.selection
    BY DEF PendingHolds, Requests
<1>2. Unsubscribed(p) = {Without(r) : r \in pending}
    BY DEF Unsubscribed
<1> HIDE DEF Without
<1> QED BY <1>1, <1>2 DEF PendingHolds

\* A failure tells its listeners so and starts over without a worker.
LEMMA FailureHolds ==
    ASSUME NEW last, NEW open \in SUBSET Requests(last), scope \in 0..MaxScopes,
           NEW shown \in PanelStates, \A p \in Panels : Honest(shown[p].settled),
           Fail(open, shown)
    PROVE  Disposed /\ PanelsHold'
<1>1. ASSUME NEW p \in Panels
      PROVE  /\ panels'[p] \in [selection : Selections \cup {NoSelection},
                                revision : 0..MaxRevisions, settled : Settlements]
             /\ Honest(panels'[p].settled)
  <2> DEFINE asked == {r \in open : \E l \in r.listeners : l.panel = p}
             r == CHOOSE r \in asked : TRUE
  <2>1. panels'[p] = IF asked = {} THEN shown[p]
                     ELSE Told(shown, r.listeners, r.selection, "error", NoSelection)[p]
      BY DEF Fail
  <2>2. CASE asked = {}
      BY <2>1, <2>2 DEF PanelStates
  <2>3. CASE asked # {}
    <3>1. r \in open
        BY <2>3
    <3> HIDE DEF r
    <3>2. r.listeners \in SUBSET Listeners /\ r.selection \in Selections
        BY <3>1 DEF Requests
    <3>3. /\ Told(shown, r.listeners, r.selection, "error", NoSelection) \in PanelStates
          /\ Honest(Told(shown, r.listeners, r.selection, "error", NoSelection)[p].settled)
        BY <3>2, ToldHolds
    <3> QED BY <2>1, <2>3, <3>3 DEF PanelStates
  <2> QED BY <2>2, <2>3
<1>2. panels' = [p \in Panels |-> panels'[p]]
    BY DEF Fail
<1> QED BY <1>1, <1>2 DEF PanelStates, PanelsHold, Fail

LEMMA DisposedHolds ==
    ASSUME Disposed
    PROVE  CacheHolds' /\ PendingHolds' /\ WorkerHolds' /\ sent' = FALSE
<1>1. cache' = <<>> /\ DOMAIN cache' = {} /\ Len(cache') = 0 /\ cache' \in Seq(Answers)
    BY DEF Disposed
<1>2. CacheHolds'
    BY <1>1, CacheAssumption DEF CacheHolds, Distinct
<1>3. PendingHolds'
    BY DEF Disposed, PendingHolds
<1>4. /\ worker' \in Workers /\ ~worker'.made /\ worker'.inbox = <<>> /\ worker'.outbox = <<>>
      /\ DOMAIN worker'.inbox = {} /\ DOMAIN worker'.outbox = {} /\ sent' = FALSE
  <2>1. worker' = [made |-> FALSE, generated |-> FALSE, source |-> FALSE, failed |-> FALSE,
                   inbox |-> <<>>, outbox |-> <<>>] /\ sent' = FALSE
      BY DEF Disposed, NoWorker, NewWorker
  <2>2. <<>> \in Seq(Messages) /\ <<>> \in Seq(Responses) /\ DOMAIN <<>> = {}
      OBVIOUS
  <2> QED BY <2>1, <2>2 DEF Workers
<1>5. WorkerHolds'
    BY <1>4 DEF WorkerHolds, Concerns
<1> QED BY <1>2, <1>3, <1>4, <1>5

LEMMA FailureKeeps ==
    ASSUME IInv, NEW last, NEW open \in SUBSET Requests(last),
           NEW shown \in PanelStates, \A p \in Panels : Honest(shown[p].settled),
           Fail(open, shown), scope' = scope, sequence' \in 0..MaxRequests, retained' \in BOOLEAN
    PROVE  IInv'
<1>1. scope \in 0..MaxScopes /\ scope \in 1..MaxScopes
    BY BoundsAssumption DEF IInv, Counted
<1> QED BY <1>1, FailureHolds, DisposedHolds DEF IInv, Counted

----------------------------------------------------------------------------
(* Panels *)

\* The panels before a selection is answered: p shows s at a revision.
LEMMA ShowingHolds ==
    ASSUME PanelsHold, NEW p \in Panels, NEW s \in Selections \cup {NoSelection},
           NEW revision \in 0..MaxRevisions
    PROVE  /\ [panels EXCEPT ![p].selection = s, ![p].revision = revision] \in PanelStates
           /\ \A q \in Panels :
                Honest([panels EXCEPT ![p].selection = s, ![p].revision = revision][q].settled)
    BY DEF PanelsHold, PanelStates

\* What is known of the requests that go on: those of before, without p's subscription.
Continued(heard) ==
    /\ heard \subseteq Requests(sequence)
    /\ \A r \in heard : \E q \in pending : q.id = r.id /\ q.selection = r.selection
    /\ \A r, q \in heard : r # q => r.id # q.id /\ r.selection # q.selection

\* What is known of the cache a selection is looked up in.
Kept(kept) ==
    /\ kept \in Seq(Answers) /\ Len(kept) <= CacheLimit /\ Distinct(kept)
    /\ \A i \in DOMAIN kept : \E j \in DOMAIN cache : kept[i] = cache[j]

\* A new request is sent with the source if its worker has none.
LEMMA SentHolds ==
    ASSUME IInv, NEW s \in Selections \ Unavailable, NEW heard, NEW kept, NEW me \in Listeners,
           Continued(heard), Kept(kept), \A i \in DOMAIN kept : kept[i].selection # s,
           \A r \in heard : r.selection # s, sequence < MaxRequests, sequence' = sequence + 1,
           NEW owner, owner = IF worker.made THEN worker ELSE NewWorker(retained),
           NEW message, message = [id |-> sequence + 1, selection |-> s,
                                   attached |-> Attached(owner.generated)],
           worker' = [owner EXCEPT !.inbox = Append(@, message)],
           sent' = TRUE, retained' = FALSE, cache' = kept, UNCHANGED scope,
           pending' = heard \cup {[id |-> sequence + 1, selection |-> s, listeners |-> {me}]},
           PanelsHold'
    PROVE  IInv'
<1> DEFINE id == sequence + 1
           request == [id |-> id, selection |-> s, listeners |-> {me}]
<1>0. sequence \in Nat /\ id \in 1..MaxRequests /\ sequence' = id
    BY BoundsAssumption DEF IInv, Counted
<1>1. Counted'
  <2>1. scope' \in 1..MaxScopes /\ sequence' \in 0..MaxRequests
      BY <1>0, BoundsAssumption DEF IInv, Counted
  <2>2. retained' \in BOOLEAN /\ sent' \in BOOLEAN
      OBVIOUS
  <2> QED BY <2>1, <2>2 DEF Counted
<1>2. CacheHolds'
    BY DEF Kept, CacheHolds
<1>3. request \in Requests(id) /\ request.id = id /\ request.selection = s
    BY <1>0 DEF Requests
<1> HIDE DEF request
<1>4. \A r \in heard : r \in Requests(id) /\ r.id # id
    BY <1>0 DEF Continued, Requests
<1>5. PendingHolds'
  <2>1. pending' \subseteq Requests(sequence')
      BY <1>0, <1>3, <1>4 DEF request
  <2>2. \A r, q \in pending' : r # q => r.id # q.id /\ r.selection # q.selection
    <3>1. \A r \in pending' : r = request \/ r \in heard
        BY DEF request
    <3>2. \A r \in heard : r.id # request.id /\ r.selection # request.selection
        BY <1>3, <1>4
    <3>3. \A r, q \in heard : r # q => r.id # q.id /\ r.selection # q.selection
        BY DEF Continued
    <3> QED BY <3>1, <3>2, <3>3
  <2>3. ASSUME NEW r \in pending', NEW i \in DOMAIN kept PROVE kept[i].selection # r.selection
    <3>1. CASE r = request
        BY <1>3, <3>1
    <3>2. CASE r \in heard
      <4>1. PICK q \in pending : q.selection = r.selection
          BY <3>2 DEF Continued
      <4>2. PICK j \in DOMAIN cache : kept[i] = cache[j]
          BY DEF Kept
      <4> QED BY <4>1, <4>2 DEF IInv, PendingHolds
    <3> QED BY <3>1, <3>2, <2>3 DEF request
  <2> QED BY <2>1, <2>2, <2>3 DEF PendingHolds
<1>6. /\ owner \in Workers /\ owner.made
      /\ \A i \in DOMAIN owner.inbox : owner.inbox[i].id <= sequence
      /\ \A i \in DOMAIN owner.outbox : owner.outbox[i].id <= sequence
  <2>1. CASE worker.made
      BY <2>1 DEF IInv, WorkerHolds, Concerns
  <2>2. CASE ~worker.made
    <3>1. NewWorker(retained) = [made |-> TRUE, generated |-> retained, source |-> FALSE,
                                 failed |-> FALSE, inbox |-> <<>>, outbox |-> <<>>]
        BY DEF NewWorker
    <3>2. <<>> \in Seq(Messages) /\ <<>> \in Seq(Responses) /\ DOMAIN <<>> = {}
        OBVIOUS
    <3> QED BY <2>2, <3>1, <3>2 DEF Workers, IInv, Counted
  <2> QED BY <2>1, <2>2
<1>7. message \in Messages /\ message.id = id /\ message.selection = s
      /\ message.attached = Attached(owner.generated)
    BY <1>0 DEF Messages, Attached
<1> DEFINE n == Len(owner.inbox)
<1>8. /\ worker'.inbox = Append(owner.inbox, message) /\ worker'.inbox \in Seq(Messages)
      /\ worker'.outbox = owner.outbox /\ worker'.made /\ worker'.generated = owner.generated
      /\ worker'.source = owner.source /\ worker'.failed = owner.failed
      /\ worker' \in Workers /\ n \in Nat /\ DOMAIN owner.inbox = 1..n
      /\ DOMAIN worker'.inbox = 1..n + 1 /\ worker'.inbox[n + 1] = message
      /\ \A i \in 1..n : worker'.inbox[i] = owner.inbox[i]
  <2>1. owner.inbox \in Seq(Messages)
      BY <1>6 DEF Workers
  <2>2. /\ Append(owner.inbox, message) \in Seq(Messages) /\ n \in Nat /\ DOMAIN owner.inbox = 1..n
        /\ DOMAIN Append(owner.inbox, message) = 1..n + 1
        /\ Append(owner.inbox, message)[n + 1] = message
        /\ \A i \in 1..n : Append(owner.inbox, message)[i] = owner.inbox[i]
      BY <1>7, <2>1, Pushed
  <2>3. /\ worker'.inbox = Append(owner.inbox, message)
        /\ worker'.outbox = owner.outbox /\ worker'.made /\ worker'.generated = owner.generated
        /\ worker'.source = owner.source /\ worker'.failed = owner.failed
      BY <1>6 DEF Workers
  <2>4. worker' \in Workers
      BY <1>6, <2>2 DEF Workers
  <2> QED BY <2>2, <2>3, <2>4
<1> HIDE DEF n
<1>9. ASSUME NEW x, x.id <= sequence,
             \A r \in pending : r.id = x.id => r.selection = x.selection, NEW r \in pending',
             r.id = x.id
      PROVE  r.selection = x.selection
  <2>1. r # request
      BY <1>0, <1>3, <1>9
  <2>2. PICK q \in pending : q.id = r.id /\ q.selection = r.selection
      BY <2>1 DEF Continued, request
  <2> QED BY <1>9, <2>2
<1>10. Concerns(worker.inbox)' /\ Concerns(worker.outbox)'
  <2>1. CASE ~worker.made
    <3>1. owner.inbox = <<>> /\ owner.outbox = <<>>
        BY <2>1 DEF NewWorker
    <3>2. DOMAIN owner.inbox = {} /\ DOMAIN owner.outbox = {}
        BY <3>1
    <3>3. \A r \in pending' : r.id = id => r.selection = s
        BY <1>3, <1>4 DEF request
    <3>4. \A i \in DOMAIN worker'.inbox : worker'.inbox[i] = message
        BY <1>8, <3>2
    <3> QED BY <1>0, <1>7, <1>8, <3>2, <3>3, <3>4 DEF Concerns
  <2>2. CASE worker.made
    <3>1. owner = worker
        BY <2>2
    <3>2. ASSUME NEW i \in DOMAIN worker.outbox
          PROVE  /\ worker.outbox[i].id <= sequence'
                 /\ \A r \in pending' : r.id = worker.outbox[i].id => r.selection = worker.outbox[i].selection
      <4>1. worker.outbox[i].id <= sequence /\ worker.outbox[i].id \in Nat
            /\ \A r \in pending : r.id = worker.outbox[i].id => r.selection = worker.outbox[i].selection
        <5>1. worker.outbox \in Seq(Responses) /\ Concerns(worker.outbox)
            BY DEF IInv, WorkerHolds, Workers
        <5>2. worker.outbox[i] \in Responses
            BY <5>1, LenProperties, ElementOfSeq
        <5> QED BY <5>1, <5>2 DEF Concerns, Responses
      <4> QED BY <1>0, <1>9, <4>1
    <3>3. ASSUME NEW i \in DOMAIN worker.inbox
          PROVE  /\ worker.inbox[i].id <= sequence'
                 /\ \A r \in pending' : r.id = worker.inbox[i].id => r.selection = worker.inbox[i].selection
      <4>1. worker.inbox[i].id <= sequence /\ worker.inbox[i].id \in Nat
            /\ \A r \in pending : r.id = worker.inbox[i].id => r.selection = worker.inbox[i].selection
        <5>1. worker.inbox \in Seq(Messages) /\ Concerns(worker.inbox)
            BY DEF IInv, WorkerHolds, Workers
        <5>2. worker.inbox[i] \in Messages
            BY <5>1, LenProperties, ElementOfSeq
        <5> QED BY <5>1, <5>2 DEF Concerns, Messages
      <4> QED BY <1>0, <1>9, <4>1
    <3>4. \A r \in pending' : r.id = id => r.selection = s
        BY <1>3, <1>4 DEF request
    <3>5. Concerns(worker.outbox)'
        BY <1>8, <3>1, <3>2 DEF Concerns
    <3>6. Concerns(worker.inbox)'
        BY <1>0, <1>7, <1>8, <3>1, <3>3, <3>4 DEF Concerns
    <3> QED BY <3>5, <3>6
  <2> QED BY <2>1, <2>2
<1>11. ~worker'.failed => worker'.source \/ \E i \in DOMAIN worker'.inbox : Brings(worker.inbox[i])'
  <2>1. CASE worker.made
    <3>1. owner = worker /\ \A i \in DOMAIN worker.inbox :
              i \in DOMAIN worker'.inbox /\ worker'.inbox[i] = worker.inbox[i]
        BY <1>8, <2>1
    <3>2. \A i \in DOMAIN worker.inbox : Brings(worker.inbox[i]) => Brings(worker.inbox[i])'
        BY <1>8, <3>1 DEF Brings
    <3> QED BY <1>8, <2>1, <3>1, <3>2 DEF IInv, WorkerHolds
  <2>2. CASE ~worker.made
    <3>1. ~sent
        BY <2>2 DEF IInv, WorkerHolds
    <3>2. message.attached = "proof" \/ (message.attached = "model" /\ owner.generated)
        BY <1>7, <3>1 DEF Attached
    <3>3. PICK i \in DOMAIN worker'.inbox : worker'.inbox[i] = message
        BY <1>8
    <3>4. Brings(worker.inbox[i])'
        BY <1>8, <3>2, <3>3 DEF Brings
    <3> QED BY <3>4
  <2> QED BY <2>1, <2>2
<1>12. ASSUME ~worker'.failed, NEW i \in DOMAIN worker'.inbox
       PROVE  worker'.source \/ \E j \in 1..i : Brings(worker.inbox[j])'
  <2>1. i \in Nat /\ i >= 1 /\ i <= n + 1
      BY <1>8
  <2>2. CASE i = n + 1
      BY <1>8, <1>11, <1>12, <2>2
  <2>3. CASE i <= n
    <3>1. worker.made /\ owner = worker /\ i \in DOMAIN worker.inbox
      <4>1. CASE ~worker.made
        <5>1. owner.inbox = <<>>
            BY <4>1 DEF NewWorker
        <5>2. DOMAIN owner.inbox = {}
            BY <5>1
        <5> QED BY <1>8, <2>1, <2>3, <5>2
      <4> QED BY <1>8, <2>1, <2>3, <4>1
    <3>2. CASE worker.source
        BY <1>8, <3>1, <3>2
    <3>3. CASE ~worker.source
      <4>1. PICK j \in 1..i : Brings(worker.inbox[j])
          BY <1>8, <1>12, <3>1, <3>3 DEF IInv, WorkerHolds
      <4>2. worker'.inbox[j] = worker.inbox[j]
          BY <1>8, <2>1, <2>3, <3>1
      <4>3. Brings(worker.inbox[j])'
          BY <1>8, <3>1, <4>1, <4>2 DEF Brings
      <4> QED BY <4>3
    <3> QED BY <3>2, <3>3
  <2> QED BY <1>8, <2>1, <2>2, <2>3
<1>13. WorkerHolds'
    BY <1>8, <1>10, <1>11, <1>12 DEF WorkerHolds
<1> QED BY <1>1, <1>2, <1>5, <1>13 DEF IInv

LEMMA RequestKeeps ==
    ASSUME IInv, NEW s \in Selections, NEW heard, NEW kept, NEW me \in Listeners,
           Continued(heard), Kept(kept), \A i \in DOMAIN kept : kept[i].selection # s,
           \A r \in heard : r.selection # s, UNCHANGED scope,
           NEW shown \in PanelStates, \A p \in Panels : Honest(shown[p].settled),
           Request(s, heard, kept, me, shown)
    PROVE  IInv'
<1> DEFINE id == sequence + 1
           request == [id |-> id, selection |-> s, listeners |-> {me}]
<1>1. sequence < MaxRequests /\ sequence' = id /\ sequence \in Nat /\ id \in 1..MaxRequests
      /\ sequence' \in 0..MaxRequests
    BY BoundsAssumption DEF Request, IInv, Counted
<1>2. heard \cup {request} \in SUBSET Requests(id)
    BY <1>1 DEF Requests, Continued
<1>3. CASE Fail(heard \cup {request}, shown) /\ retained' \in BOOLEAN
    BY <1>1, <1>2, <1>3, FailureKeeps
<1>4. CASE /\ s \notin Unavailable /\ sent' = TRUE /\ retained' = FALSE /\ cache' = kept
           /\ pending' = heard \cup {request} /\ panels' = shown
           /\ worker' = [(IF worker.made THEN worker ELSE NewWorker(retained)) EXCEPT !.inbox = Append(@,
                  [id |-> sequence + 1, selection |-> s,
                   attached |-> Attached((IF worker.made THEN worker ELSE NewWorker(retained)).generated)])]
  <2>1. PanelsHold'
      BY <1>4 DEF PanelsHold
  <2> QED BY <1>1, <1>4, <2>1, SentHolds
<1>5. retained \in BOOLEAN
    BY DEF IInv, Counted
<1> QED BY <1>3, <1>4, <1>5 DEF Request

LEMMA SelectKeeps ==
    ASSUME IInv, NEW p \in Panels, NEW s \in Selections, NEW revision \in 0..MaxRevisions,
           Select(p, s, revision)
    PROVE  IInv'
<1> DEFINE me == [panel |-> p, revision |-> revision]
           heard == Unsubscribed(p)
           known == IF revision = 0 THEN Remembers(s) ELSE {}
           kept == IF revision = 0 THEN cache ELSE Forgotten(s)
           shown == [panels EXCEPT ![p].selection = s, ![p].revision = revision]
           joined == {r \in heard : r.selection = s}
           rejoined == {[r EXCEPT !.listeners = @ \cup {me}] : r \in joined}
<1>1. me \in Listeners /\ scope' = scope /\ scope \in 0..MaxScopes /\ scope \in 1..MaxScopes
    BY BoundsAssumption DEF Listeners, Select, IInv, Counted
<1>2. Continued(heard)
    BY UnsubscribedHolds DEF IInv, Continued
<1>3. Kept(kept) /\ (known = {} => \A i \in DOMAIN kept : kept[i].selection # s)
    BY ForgottenHolds DEF IInv, CacheHolds, Kept, Remembers
<1>4. shown \in PanelStates /\ \A q \in Panels : Honest(shown[q].settled)
    BY ShowingHolds DEF IInv
<1> HIDE DEF me, heard, kept, shown
<1>5. ASSUME cache' = kept, UNCHANGED <<sequence, retained, worker, sent>>, PanelsHold',
             pending' \subseteq Requests(sequence),
             \A r \in pending' : \E q \in pending : q.id = r.id /\ q.selection = r.selection,
             \A r, q \in pending' : r # q => r.id # q.id /\ r.selection # q.selection
      PROVE  IInv'
  <2>1. Counted' /\ CacheHolds'
      BY <1>1, <1>3, <1>5 DEF IInv, Counted, CacheHolds, Kept
  <2>2. PendingHolds'
      BY <1>3, <1>5 DEF IInv, PendingHolds, Kept
  <2>3. Concerns(worker.inbox)' /\ Concerns(worker.outbox)'
      BY <1>5 DEF IInv, WorkerHolds, Concerns
  <2>4. WorkerHolds'
      BY <1>5, <2>3 DEF IInv, WorkerHolds, Brings
  <2> QED BY <1>5, <2>1, <2>2, <2>4 DEF IInv
<1>6. ASSUME cache' = kept, pending' = heard, UNCHANGED <<sequence, retained, worker, sent>>,
             NEW i \in known, panels' = Told(shown, {me}, s, "result", cache[i].answers)
      PROVE  IInv'
  <2>1. i \in DOMAIN cache /\ cache[i].selection = s
      BY <1>6 DEF Remembers
  <2>2. cache[i].answers = s
      BY <2>1, ElementOfSeq, LenProperties DEF IInv, CacheHolds, Answers
  <2>3. PanelsHold'
      BY <1>1, <1>4, <1>6, <2>2, ToldHolds DEF PanelsHold
  <2> QED BY <1>2, <1>5, <1>6, <2>3 DEF Continued
<1>7. ASSUME cache' = kept, panels' = shown, pending' = (heard \ joined) \cup rejoined,
             UNCHANGED <<sequence, retained, worker, sent>>
      PROVE  IInv'
  <2>1. PanelsHold'
      BY <1>4, <1>7 DEF PanelsHold
  <2> DEFINE With(r) == [r EXCEPT !.listeners = @ \cup {me}]
  <2>2. ASSUME NEW r \in heard
        PROVE  With(r) \in Requests(sequence) /\ With(r).id = r.id /\ With(r).selection = r.selection
      BY <1>1, <1>2 DEF Continued, Requests
  <2>3. pending' = (heard \ joined) \cup {With(r) : r \in joined}
      BY <1>7
  <2> HIDE DEF With
  <2>4. \A r \in pending' : /\ r \in Requests(sequence)
                            /\ \E q \in heard : /\ q.id = r.id /\ q.selection = r.selection
                                                /\ r = IF q \in joined THEN With(q) ELSE q
      BY <1>2, <2>2, <2>3 DEF Continued
  <2>5. \A r, q \in pending' : r # q => r.id # q.id /\ r.selection # q.selection
      BY <1>2, <2>4 DEF Continued
  <2>6. \A r \in pending' : \E q \in pending : q.id = r.id /\ q.selection = r.selection
      BY <1>2, <2>4 DEF Continued
  <2> QED BY <1>5, <1>7, <2>1, <2>4, <2>5, <2>6
<1>8. ASSUME known = {}, joined = {}, Request(s, heard, kept, me, shown) PROVE IInv'
    BY <1>1, <1>2, <1>3, <1>4, <1>8, RequestKeeps
<1> QED BY <1>6, <1>7, <1>8 DEF Select, me, heard, kept, shown

LEMMA ChoiceKeeps ==
    ASSUME IInv, NEW p \in Panels, Refresh(p) \/ \E s \in Selections : Choose(p, s)
    PROVE  IInv'
<1>1. panels[p].selection \in Selections \cup {NoSelection} /\ panels[p].revision \in 0..MaxRevisions
    BY DEF IInv, PanelsHold, PanelStates
<1>2. CASE Refresh(p)
    BY <1>1, <1>2, SelectKeeps, BoundsAssumption DEF Refresh
<1>3. ASSUME NEW s \in Selections, Choose(p, s) PROVE IInv'
    BY <1>1, <1>3, SelectKeeps DEF Choose
<1> QED BY <1>2, <1>3

\* The requests that go on after some of them were answered or lost a listener.
LEMMA FewerRequests ==
    ASSUME IInv, UNCHANGED <<scope, sequence, retained, sent>>, CacheHolds', PanelsHold',
           pending' \subseteq Requests(sequence),
           \A r \in pending' : \E q \in pending : q.id = r.id /\ q.selection = r.selection,
           \A r, q \in pending' : r # q => r.id # q.id /\ r.selection # q.selection,
           \A r \in pending' : \A i \in DOMAIN cache' : cache'[i].selection # r.selection,
           worker' \in Workers, worker'.inbox = worker.inbox,
           \A i \in DOMAIN worker'.outbox :
               \E j \in DOMAIN worker.outbox : worker'.outbox[i] = worker.outbox[j],
           worker'.made = worker.made, worker'.generated = worker.generated,
           worker'.source = worker.source, worker'.failed = worker.failed,
           ~worker'.made => worker'.outbox = <<>>
    PROVE  IInv'
<1>1. Counted' /\ PendingHolds'
    BY DEF IInv, Counted, PendingHolds
<1>2. Concerns(worker.inbox)' /\ Concerns(worker.outbox)'
    BY DEF IInv, WorkerHolds, Concerns
<1>3. WorkerHolds'
  <2>1. (worker'.made <=> sent') /\ (~worker'.made => worker'.inbox = <<>> /\ worker'.outbox = <<>>)
      BY DEF IInv, WorkerHolds
  <2>2. \A m : Brings(m) => (m.attached = "proof" \/ (m.attached = "model" /\ worker'.generated))
      BY DEF Brings
  <2>3. worker'.made /\ ~worker'.failed =>
            worker'.source \/ \E i \in DOMAIN worker'.inbox : Brings(worker.inbox[i])'
      BY <2>2 DEF IInv, WorkerHolds, Brings
  <2>4. ~worker'.failed =>
            \A i \in DOMAIN worker'.inbox : worker'.source \/ \E j \in 1..i : Brings(worker.inbox[j])'
      BY <2>2 DEF IInv, WorkerHolds, Brings
  <2> QED BY <1>2, <2>1, <2>3, <2>4 DEF WorkerHolds
<1> QED BY <1>1, <1>3 DEF IInv

LEMMA LeaveKeeps == ASSUME IInv, NEW p \in Panels, Leave(p) PROVE IInv'
<1>1. /\ pending' = Unsubscribed(p) /\ UNCHANGED <<scope, sequence, retained, worker, sent, cache>>
      /\ panels' = [panels EXCEPT ![p] = [selection |-> NoSelection, revision |-> 0,
                                          settled |-> Unsettled]]
    BY DEF Leave
<1>2. PanelsHold'
  <2>1. [selection |-> NoSelection, revision |-> 0, settled |-> Unsettled] \in
            [selection : Selections \cup {NoSelection}, revision : 0..MaxRevisions,
             settled : Settlements]
      BY BoundsAssumption DEF Unsettled, Settlements
  <2>2. Honest(Unsettled)
      BY DEF Honest, Unsettled
  <2> QED BY <1>1, <2>1, <2>2 DEF IInv, PanelsHold, PanelStates
<1>3. CacheHolds'
    BY <1>1 DEF IInv, CacheHolds
<1>4. \A r \in pending' : \A i \in DOMAIN cache' : cache'[i].selection # r.selection
    BY <1>1, UnsubscribedHolds DEF IInv, PendingHolds
<1> QED BY <1>1, <1>2, <1>3, <1>4, UnsubscribedHolds, FewerRequests DEF IInv, WorkerHolds

LEMMA ReleaseKeeps == ASSUME IInv, Release PROVE IInv'
<1>1. /\ scope < MaxScopes /\ scope' = scope + 1 /\ sequence' = 0 /\ Disposed /\ retained' \in BOOLEAN
      /\ panels' = [p \in Panels |-> [panels[p] EXCEPT !.selection = NoSelection,
                                                        !.settled = Unsettled]]
    BY DEF Release
<1>2. scope' \in 1..MaxScopes /\ sequence' \in 0..MaxRequests
  <2>1. scope \in 1..MaxScopes /\ scope < MaxScopes /\ scope' = scope + 1 /\ sequence' = 0
      BY <1>1 DEF IInv, Counted
  <2> QED BY <2>1, BoundsAssumption
<1>3. Unsettled \in Settlements /\ Honest(Unsettled)
    BY BoundsAssumption DEF Unsettled, Settlements, Honest
<1>4. PanelsHold'
    BY <1>1, <1>3 DEF IInv, PanelsHold, PanelStates
<1> QED BY <1>1, <1>2, <1>4, DisposedHolds DEF IInv, Counted

----------------------------------------------------------------------------
(* The worker and what reaches the controller *)

LEMMA BreakKeeps ==
    ASSUME IInv, Fail(pending, panels), UNCHANGED <<scope, sequence, retained>>
    PROVE  IInv'
<1>1. pending \in SUBSET Requests(sequence) /\ panels \in PanelStates
      /\ (\A p \in Panels : Honest(panels[p].settled))
    BY DEF IInv, PendingHolds, PanelsHold
<1>2. sequence' \in 0..MaxRequests /\ retained' \in BOOLEAN /\ scope' = scope
    BY DEF IInv, Counted
<1> QED BY <1>1, <1>2, FailureKeeps

LEMMA ProgressKeeps == ASSUME IInv, Progress PROVE IInv'
<1>1. PICK r \in pending :
         /\ panels' = Told(panels, r.listeners, r.selection, "progress", NoSelection)
         /\ UNCHANGED <<scope, sequence, retained, worker, sent, cache, pending>>
    BY DEF Progress, Answered
<1>2. r.listeners \in SUBSET Listeners /\ r.selection \in Selections /\ scope \in 0..MaxScopes
    BY BoundsAssumption DEF IInv, PendingHolds, Requests, Counted
<1>3. PanelsHold'
    BY <1>1, <1>2, ToldHolds DEF IInv, PanelsHold
<1>4. CacheHolds'
    BY <1>1 DEF IInv, CacheHolds
<1> QED BY <1>1, <1>3, <1>4, FewerRequests DEF IInv, PendingHolds, WorkerHolds

LEMMA TimeoutKeeps == ASSUME IInv, NEW id, Timeout(id) PROVE IInv'
<1>1. CASE Fail(pending, panels) /\ UNCHANGED <<scope, sequence, retained>>
    BY <1>1, BreakKeeps
<1>2. ASSUME NEW r \in pending, pending' = pending \ {r},
             UNCHANGED <<scope, sequence, retained, worker, sent, cache, panels>>
      PROVE  IInv'
  <2>1. CacheHolds' /\ PanelsHold'
      BY <1>2 DEF IInv, CacheHolds, PanelsHold
  <2> QED BY <1>2, <2>1, FewerRequests DEF IInv, PendingHolds, WorkerHolds
<1> QED BY <1>1, <1>2 DEF Timeout, Answered

\* Reading a response, or forgetting one that nobody waits for.
LEMMA ReadOutbox ==
    ASSUME IInv, worker.outbox # <<>>, worker' = [worker EXCEPT !.outbox = Tail(@)]
    PROVE  /\ worker' \in Workers /\ worker'.inbox = worker.inbox
           /\ \A i \in DOMAIN worker'.outbox :
                 \E j \in DOMAIN worker.outbox : worker'.outbox[i] = worker.outbox[j]
           /\ worker'.made = worker.made /\ worker'.generated = worker.generated
           /\ worker'.source = worker.source /\ worker'.failed = worker.failed /\ worker'.made
           /\ Head(worker.outbox) \in Responses
           /\ \A r \in pending : r.id = Head(worker.outbox).id =>
                  r.selection = Head(worker.outbox).selection
<1>1. worker \in Workers /\ worker.outbox \in Seq(Responses) /\ worker.made /\ Concerns(worker.outbox)
    BY DEF IInv, WorkerHolds, Workers
<1>2. /\ Tail(worker.outbox) \in Seq(Responses) /\ Head(worker.outbox) \in Responses
      /\ Head(worker.outbox) = worker.outbox[1] /\ 1 \in DOMAIN worker.outbox
      /\ \A i \in DOMAIN Tail(worker.outbox) :
            i + 1 \in DOMAIN worker.outbox /\ Tail(worker.outbox)[i] = worker.outbox[i + 1]
    BY <1>1, Popped
<1>3. worker' \in Workers /\ worker'.outbox = Tail(worker.outbox) /\ worker'.inbox = worker.inbox
      /\ worker'.made = worker.made /\ worker'.generated = worker.generated
      /\ worker'.source = worker.source /\ worker'.failed = worker.failed
    BY <1>1, <1>2 DEF Workers
<1>4. \A i \in DOMAIN worker'.outbox :
         \E j \in DOMAIN worker.outbox : worker'.outbox[i] = worker.outbox[j]
    BY <1>2, <1>3
<1>5. \A r \in pending : r.id = Head(worker.outbox).id => r.selection = Head(worker.outbox).selection
    BY <1>1, <1>2 DEF Concerns
<1> QED BY <1>1, <1>2, <1>3, <1>4, <1>5

\* A new answer is remembered once, the oldest forgotten for it.
LEMMA RememberedHolds ==
    ASSUME CacheHolds, NEW s \in Selections, \A i \in DOMAIN cache : cache[i].selection # s
    PROVE  /\ Remembered(s, s) \in Seq(Answers) /\ Len(Remembered(s, s)) <= CacheLimit
           /\ Distinct(Remembered(s, s))
           /\ \A i \in DOMAIN Remembered(s, s) :
                 \/ Remembered(s, s)[i].selection = s
                 \/ \E j \in DOMAIN cache : Remembered(s, s)[i] = cache[j]
<1> DEFINE rest == IF Len(cache) >= CacheLimit THEN Tail(cache) ELSE cache
           a == [selection |-> s, answers |-> s]
<1>1. cache \in Seq(Answers) /\ Len(cache) \in Nat /\ DOMAIN cache = 1..Len(cache)
      /\ Distinct(cache) /\ Len(cache) <= CacheLimit /\ CacheLimit \in Nat /\ CacheLimit > 0
    BY LenProperties, CacheAssumption DEF CacheHolds
<1>2. a \in Answers /\ a.selection = s
    BY DEF Answers
<1>3. /\ rest \in Seq(Answers) /\ Len(rest) < CacheLimit /\ Distinct(rest)
      /\ \A i \in DOMAIN rest : \E j \in DOMAIN cache : rest[i] = cache[j]
  <2>1. CASE Len(cache) >= CacheLimit
    <3>1. cache # <<>>
        BY <1>1, <2>1, EmptySeq
    <3>2. /\ Tail(cache) \in Seq(Answers) /\ Len(Tail(cache)) = Len(cache) - 1
          /\ DOMAIN Tail(cache) = 1..Len(cache) - 1
          /\ \A i \in 1..Len(cache) - 1 : Tail(cache)[i] = cache[i + 1] /\ i + 1 \in DOMAIN cache
        BY <1>1, <3>1, Popped
    <3>3. Distinct(Tail(cache))
        BY <1>1, <3>2 DEF Distinct
    <3> QED BY <1>1, <2>1, <3>2, <3>3
  <2>2. CASE ~(Len(cache) >= CacheLimit)
      BY <1>1, <2>2
  <2> QED BY <2>1, <2>2
<1>4. Remembered(s, s) = Append(rest, a)
    BY DEF Remembered
<1> HIDE DEF rest, a
<1>5. /\ Append(rest, a) \in Seq(Answers) /\ Len(rest) \in Nat /\ DOMAIN rest = 1..Len(rest)
      /\ Len(Append(rest, a)) = Len(rest) + 1 /\ DOMAIN Append(rest, a) = 1..Len(rest) + 1
      /\ Append(rest, a)[Len(rest) + 1] = a
      /\ \A i \in 1..Len(rest) : Append(rest, a)[i] = rest[i]
    BY <1>2, <1>3, Pushed
<1>6. \A i \in DOMAIN rest : rest[i].selection # s
    BY <1>3
<1>7. Distinct(Append(rest, a))
    BY <1>2, <1>3, <1>5, <1>6 DEF Distinct
<1>8. \A i \in DOMAIN Append(rest, a) :
         Append(rest, a)[i].selection = s \/ \E j \in DOMAIN cache : Append(rest, a)[i] = cache[j]
    BY <1>2, <1>3, <1>5
<1> QED BY <1>1, <1>3, <1>4, <1>5, <1>7, <1>8

LEMMA DeliverKeeps == ASSUME IInv, Deliver PROVE IInv'
<1> DEFINE response == Head(worker.outbox)
<1>1. worker.outbox # <<>> /\ UNCHANGED <<scope, sequence, retained>>
    BY DEF Deliver
<1>2. CASE worker' = [worker EXCEPT !.outbox = Tail(@)] /\ UNCHANGED <<sent, cache, pending, panels>>
  <2>1. CacheHolds' /\ PanelsHold'
      BY <1>2 DEF IInv, CacheHolds, PanelsHold
  <2> QED BY <1>1, <1>2, <2>1, ReadOutbox, FewerRequests DEF IInv, PendingHolds
<1>3. CASE Fail(pending, panels)
    BY <1>1, <1>3, BreakKeeps
<1>4. ASSUME NEW r \in pending, r.id = response.id,
             worker' = [worker EXCEPT !.outbox = Tail(@)],
             cache' = Remembered(r.selection, response.selection),
             pending' = pending \ {r}, UNCHANGED sent,
             panels' = Told(panels, r.listeners, r.selection, "result", response.selection)
      PROVE  IInv'
  <2>1. /\ r.listeners \in SUBSET Listeners /\ r.selection \in Selections
        /\ scope \in 0..MaxScopes /\ response.selection = r.selection
      BY <1>1, <1>4, ReadOutbox, BoundsAssumption DEF IInv, PendingHolds, Requests, Counted
  <2>2. PanelsHold'
      BY <1>4, <2>1, ToldHolds DEF IInv, PanelsHold
  <2>3. CacheHolds' /\ \A i \in DOMAIN cache' :
            cache'[i].selection = r.selection \/ \E j \in DOMAIN cache : cache'[i] = cache[j]
      BY <1>4, <2>1, RememberedHolds DEF IInv, CacheHolds, PendingHolds
  <2>4. \A q \in pending' : \A i \in DOMAIN cache' : cache'[i].selection # q.selection
      BY <1>4, <2>3 DEF IInv, PendingHolds
  <2> QED BY <1>1, <1>4, <2>2, <2>3, <2>4, ReadOutbox, FewerRequests DEF IInv, PendingHolds
<1> QED BY <1>1, <1>2, <1>3, <1>4 DEF Deliver, Answered

\* The worker takes its first message, binds the source it brings and answers.
LEMMA WorkKeeps == ASSUME IInv, Work PROVE IInv'
<1> DEFINE message == Head(worker.inbox)
           n == Len(worker.inbox)
<1>1. PICK outcome \in {"result", "unverified", "error"} :
         /\ Bound(message) \/ outcome = "error"
         /\ worker' = [worker EXCEPT
                !.inbox = Tail(@), !.source = outcome # "error",
                !.failed = @ \/ outcome = "error",
                !.outbox = Append(@, [id |-> message.id, selection |-> message.selection,
                                      outcome |-> outcome])]
    BY DEF Work
<1>2. /\ worker.inbox # <<>> /\ UNCHANGED <<scope, sequence, retained, sent, cache, pending, panels>>
    BY DEF Work
<1>3. worker \in Workers /\ worker.inbox \in Seq(Messages) /\ worker.outbox \in Seq(Responses)
      /\ Concerns(worker.inbox) /\ Concerns(worker.outbox) /\ worker.made /\ sent
    BY <1>2 DEF IInv, WorkerHolds, Workers
<1>4. /\ message \in Messages /\ message = worker.inbox[1] /\ Tail(worker.inbox) \in Seq(Messages)
      /\ DOMAIN worker.inbox = 1..n /\ n \in Nat /\ n > 0 /\ DOMAIN Tail(worker.inbox) = 1..n - 1
      /\ \A i \in 1..n - 1 : Tail(worker.inbox)[i] = worker.inbox[i + 1]
    BY <1>2, <1>3, Popped
<1> DEFINE response == [id |-> message.id, selection |-> message.selection, outcome |-> outcome]
<1>5. response \in Responses /\ response.id = message.id /\ response.selection = message.selection
    BY <1>4 DEF Messages, Responses
<1> HIDE DEF response
<1>6. /\ Append(worker.outbox, response) \in Seq(Responses) /\ Len(worker.outbox) \in Nat
      /\ DOMAIN worker.outbox = 1..Len(worker.outbox)
      /\ DOMAIN Append(worker.outbox, response) = 1..Len(worker.outbox) + 1
      /\ Append(worker.outbox, response)[Len(worker.outbox) + 1] = response
      /\ \A i \in 1..Len(worker.outbox) : Append(worker.outbox, response)[i] = worker.outbox[i]
    BY <1>3, <1>5, Pushed
<1>7. worker' = [worker EXCEPT !.inbox = Tail(worker.inbox), !.source = (outcome # "error"),
                               !.failed = (worker.failed \/ outcome = "error"),
                               !.outbox = Append(worker.outbox, response)]
    BY <1>1 DEF response
<1>8. /\ worker'.inbox = Tail(worker.inbox) /\ worker'.outbox = Append(worker.outbox, response)
      /\ worker'.source = (outcome # "error") /\ worker'.failed = (worker.failed \/ outcome = "error")
      /\ worker'.made = worker.made /\ worker'.generated = worker.generated
    BY <1>3, <1>7 DEF Workers
<1>9. worker' \in Workers
    BY <1>3, <1>4, <1>6, <1>7 DEF Workers
<1>10. Concerns(worker.inbox)'
  <2>1. \A i \in DOMAIN worker'.inbox :
            \E j \in DOMAIN worker.inbox : worker'.inbox[i] = worker.inbox[j]
    <3> SUFFICES ASSUME NEW i \in DOMAIN worker'.inbox
                 PROVE  \E j \in DOMAIN worker.inbox : worker'.inbox[i] = worker.inbox[j]
        OBVIOUS
    <3>1. i \in 1..n - 1 /\ i + 1 \in 1..n /\ i + 1 \in DOMAIN worker.inbox
        BY <1>4, <1>8
    <3>2. worker'.inbox[i] = worker.inbox[i + 1]
        BY <1>4, <1>8, <3>1
    <3> QED BY <3>1, <3>2
  <2> QED BY <1>2, <1>3, <2>1 DEF Concerns
<1>11. Concerns(worker.outbox)'
  <2>1. message.id <= sequence /\ \A r \in pending : r.id = message.id => r.selection = message.selection
      BY <1>3, <1>4 DEF Concerns
  <2>2. \A i \in DOMAIN worker'.outbox :
            worker'.outbox[i] = response \/ \E j \in DOMAIN worker.outbox : worker'.outbox[i] = worker.outbox[j]
      BY <1>6, <1>8
  <2> QED BY <1>2, <1>3, <1>5, <2>1, <2>2 DEF Concerns
<1>12. WorkerHolds'
  <2>1. (worker'.made <=> sent') /\ (~worker'.made => worker'.inbox = <<>> /\ worker'.outbox = <<>>)
      BY <1>2, <1>3, <1>8
  <2>2. ~worker'.failed => worker'.source
      BY <1>8
  <2> QED BY <1>9, <1>10, <1>11, <2>1, <2>2 DEF WorkerHolds
<1>13. Counted' /\ CacheHolds' /\ PanelsHold' /\ PendingHolds'
    BY <1>2 DEF IInv, Counted, CacheHolds, PanelsHold, PendingHolds
<1> QED BY <1>12, <1>13 DEF IInv

----------------------------------------------------------------------------
LEMMA Initially == Init => IInv
<1> SUFFICES ASSUME Init PROVE IInv
    OBVIOUS
<1>1. Counted
  <2>1. scope \in 1..MaxScopes /\ sequence \in 0..MaxRequests
      BY BoundsAssumption DEF Init
  <2>2. retained \in BOOLEAN /\ sent \in BOOLEAN
      BY DEF Init
  <2> QED BY <2>1, <2>2 DEF Counted
<1>2. PanelsHold
  <2>1. Unsettled \in Settlements /\ Honest(Unsettled)
      BY BoundsAssumption DEF Unsettled, Settlements, Honest
  <2> QED BY <2>1, BoundsAssumption DEF Init, PanelsHold, PanelStates
<1>3. cache = <<>> /\ Len(cache) = 0 /\ cache \in Seq(Answers) /\ DOMAIN cache = {}
    BY DEF Init
<1>4. CacheHolds
    BY <1>3, CacheAssumption DEF CacheHolds, Distinct
<1>5. PendingHolds
    BY DEF Init, PendingHolds
<1>6. WorkerHolds
  <2>1. worker = [made |-> FALSE, generated |-> FALSE, source |-> FALSE, failed |-> FALSE,
                  inbox |-> <<>>, outbox |-> <<>>] /\ sent = FALSE
      BY DEF Init, NoWorker, NewWorker
  <2>2. <<>> \in Seq(Messages) /\ <<>> \in Seq(Responses) /\ DOMAIN <<>> = {}
      OBVIOUS
  <2>3. worker \in Workers
      BY <2>1, <2>2 DEF Workers
  <2> QED BY <2>1, <2>2, <2>3 DEF WorkerHolds, Concerns
<1> QED BY <1>1, <1>2, <1>4, <1>5, <1>6 DEF IInv

LEMMA Inductive == IInv /\ [Next]_vars => IInv'
<1> SUFFICES ASSUME IInv, [Next]_vars PROVE IInv'
    OBVIOUS
<1>1. ASSUME NEW p \in Panels, Refresh(p) \/ \E s \in Selections : Choose(p, s) PROVE IInv'
    BY <1>1, ChoiceKeeps
<1>2. ASSUME NEW p \in Panels, Leave(p) PROVE IInv'
    BY <1>2, LeaveKeeps
<1>3. CASE Release
    BY <1>3, ReleaseKeeps
<1>4. CASE Work
    BY <1>4, WorkKeeps
<1>5. CASE Progress
    BY <1>5, ProgressKeeps
<1>6. CASE Deliver
    BY <1>6, DeliverKeeps
<1>7. CASE WorkerBreaks
    BY <1>7, BreakKeeps DEF WorkerBreaks
<1>8. ASSUME NEW id, Timeout(id) PROVE IInv'
    BY <1>8, TimeoutKeeps
<1>9. CASE UNCHANGED vars
    BY <1>9 DEF vars, IInv, Counted, PanelsHold, CacheHolds, PendingHolds, WorkerHolds, Concerns,
                Brings
<1> QED BY <1>1, <1>2, <1>3, <1>4, <1>5, <1>6, <1>7, <1>8, <1>9 DEF Next

LEMMA Invariance == Spec => []IInv
<1> QED BY Initially, Inductive, PTL DEF Spec

\* Every variable keeps its type, requests under way differ, and the cache of
\* #cache keeps its limit, with one answer for a selection.
THEOREM TypeCorrect == Spec => []TypeOK
<1>1. IInv => TypeOK
  <2> SUFFICES ASSUME IInv PROVE TypeOK
      OBVIOUS
  <2>1. cache \in Seq([selection : Selections, answers : Selections])
    <3>1. Answers \subseteq [selection : Selections, answers : Selections]
        BY DEF Answers
    <3>2. cache \in Seq(Answers)
        BY DEF IInv, CacheHolds
    <3> QED BY <3>1, <3>2, SeqMonotonic
  <2>2. /\ worker.inbox \in Seq(Messages) /\ worker.outbox \in Seq(Responses)
        /\ {worker.made, worker.generated, worker.source, worker.failed} \subseteq BOOLEAN
      BY DEF IInv, WorkerHolds, Workers
  <2>3. Len(cache) <= CacheLimit
        /\ \A i, j \in DOMAIN cache : cache[i].selection = cache[j].selection => i = j
      BY DEF IInv, CacheHolds, Distinct
  <2>4. /\ pending \subseteq [id : 1..sequence, selection : Selections,
                              listeners : SUBSET [panel : Panels, revision : 0..MaxRevisions]]
        /\ \A r, q \in pending : r # q => r.id # q.id /\ r.selection # q.selection
      BY DEF IInv, PendingHolds, Requests, Listeners
  <2> QED BY <2>1, <2>2, <2>3, <2>4 DEF IInv, Counted, PanelsHold, PanelStates, TypeOK
<1> QED BY <1>1, Invariance, PTL

\* A panel shows evidence only beside the selection it answers, however its
\* requests were joined, given up, timed out or answered from the cache
\* (EvidenceController.select and useForecastEvidence).
THEOREM AnswersAreOwn == Spec => []OwnAnswer
<1>1. IInv => OwnAnswer
    BY DEF IInv, PanelsHold, Honest, OwnAnswer, Shown, Unsettled
<1> QED BY <1>1, Invariance, PTL

\* The flag #sent is enough: a worker that has not failed has or will have read a
\* source before every message that came without one.
THEOREM SourceReachesWorker == Spec => []SourceFound
<1>1. IInv => SourceFound
    BY DEF IInv, WorkerHolds, Brings, SourceFound
<1> QED BY <1>1, Invariance, PTL

-----------------------------------------------------------------------------
(* The standalone channel.  The invariant says what the one numbered run  *)
(* is: the worker in use, the pending deadline and the view speak of it,   *)
(* and it was given what is on screen now.                                 *)

\* The pending run is the newest, has the worker, and was given what is on screen.
OneRun ==
    /\ runWorker = timer
    /\ timer # 0 <=> mounted /\ view.pending
    /\ timer # 0 => timer = runSequence /\ runs[timer].inputs = inputs

\* A result that is not marked stale is current, and nothing is pending beside it.
FreshIsCurrent ==
    view.result # NoResult /\ ~view.stale => view.result = inputs /\ ~view.pending

RunIInv == StandaloneTypeOK /\ OneRun /\ FreshIsCurrent

-----------------------------------------------------------------------------
\* #stop leaves no run with handlers and forgets none.
LEMMA StopSilences ==
    ASSUME StandaloneTypeOK
    PROVE  /\ DOMAIN Stopped(runs) = DOMAIN runs
           /\ \A i \in DOMAIN runs : /\ Stopped(runs)[i] \in Run
                                     /\ ~Stopped(runs)[i].heard
                                     /\ Stopped(runs)[i].inputs = runs[i].inputs
    BY DEF StandaloneTypeOK, Stopped, Run

LEMMA StopTyped ==
    ASSUME StandaloneTypeOK, Stop
    PROVE  /\ runSequence' \in Nat /\ runWorker' = 0 /\ timer' = 0
           /\ DOMAIN runs' \subseteq 1..runSequence'
           /\ \A i \in DOMAIN runs' : runs'[i] \in Run /\ ~runs'[i].heard
    BY StopSilences DEF StandaloneTypeOK, Stop

LEMMA FailKeeps == ASSUME RunIInv, RunFails PROVE RunIInv'
<1>1. view' \in Views /\ view'.result = view.result /\ view'.stale = view.stale /\ ~view'.pending
    BY DEF RunFails, RunIInv, StandaloneTypeOK, Views
<1>2. StandaloneTypeOK'
    BY <1>1, StopTyped DEF RunIInv, StandaloneTypeOK, RunFails
<1>3. OneRun'
    BY <1>1, StopTyped DEF RunIInv, OneRun, RunFails
<1>4. FreshIsCurrent'
    BY <1>1 DEF RunIInv, FreshIsCurrent, RunFails
<1> QED BY <1>2, <1>3, <1>4 DEF RunIInv

\* Every step keeps the invariant.
LEMMA RunInductive == RunIInv /\ [StandaloneNext]_runVars => RunIInv'
<1> SUFFICES ASSUME RunIInv, [StandaloneNext]_runVars PROVE RunIInv'
    OBVIOUS
<1>1. CASE Start
  <2> DEFINE id == runSequence + 1
             started == [i \in DOMAIN runs \cup {id} |->
                           IF i = id THEN [inputs |-> inputs, heard |-> TRUE] ELSE Stopped(runs)[i]]
  <2>1. /\ runSequence' = id /\ runWorker' = id /\ timer' = id /\ runs' = started
        /\ view' = Started /\ inputs' = inputs /\ mounted' = mounted /\ mounted
    BY <1>1 DEF Start
  <2>2. view' \in Views /\ view'.pending /\ view'.result = view.result
        /\ view'.stale = (view.result # NoResult)
    BY <2>1 DEF RunIInv, StandaloneTypeOK, Started, Views
  <2>3. /\ DOMAIN started = DOMAIN runs \cup {id}
        /\ started[id] = [inputs |-> inputs, heard |-> TRUE]
        /\ \A i \in DOMAIN runs : i # id /\ started[i] = Stopped(runs)[i]
    BY DEF RunIInv, StandaloneTypeOK
  <2>4. StandaloneTypeOK'
    <3>1. id \in Nat /\ id # 0 /\ id \in DOMAIN started
      BY <2>3 DEF RunIInv, StandaloneTypeOK
    <3>2. DOMAIN started \subseteq 1..id
      BY <2>3 DEF RunIInv, StandaloneTypeOK
    <3>3. \A i \in DOMAIN started : started[i] \in Run /\ (started[i].heard => i = id)
      BY <2>3, StopSilences DEF RunIInv, StandaloneTypeOK, Run
    <3> HIDE DEF started
    <3> QED BY <2>1, <2>2, <3>1, <3>2, <3>3 DEF RunIInv, StandaloneTypeOK
  <2>5. OneRun'
    <3>1. id # 0 BY DEF RunIInv, StandaloneTypeOK
    <3> QED BY <2>1, <2>2, <2>3, <3>1 DEF OneRun
  <2>6. FreshIsCurrent'
    BY <2>1, <2>2 DEF FreshIsCurrent
  <2> QED BY <2>4, <2>5, <2>6 DEF RunIInv
<1>2. CASE StartFails
  <2>1. view' \in Views /\ ~view'.pending /\ view'.result = view.result
        /\ view'.stale = (view.result # NoResult)
    BY <1>2 DEF StartFails, RunIInv, StandaloneTypeOK, Started, Views
  <2>2. DOMAIN Stopped(runs) \subseteq 1..runSequence + 2
    BY StopSilences DEF RunIInv, StandaloneTypeOK
  <2>3. StandaloneTypeOK'
    BY <1>2, <2>1, <2>2, StopSilences DEF RunIInv, StandaloneTypeOK, StartFails
  <2>4. OneRun' /\ FreshIsCurrent'
    BY <1>2, <2>1 DEF StartFails, OneRun, FreshIsCurrent
  <2> QED BY <2>3, <2>4 DEF RunIInv
<1>3. CASE Cancel
  <2>1. view' \in Views /\ ~view'.pending /\ view'.result = view.result
        /\ view'.stale = (view.result # NoResult)
    BY <1>3 DEF Cancel, RunIInv, StandaloneTypeOK, Views
  <2> QED BY <1>3, <2>1, StopTyped DEF RunIInv, StandaloneTypeOK, OneRun, FreshIsCurrent, Cancel
<1>4. CASE Dispose
    BY <1>4, StopTyped DEF RunIInv, StandaloneTypeOK, OneRun, FreshIsCurrent, Dispose
<1>5. CASE Deadline
    BY <1>5, FailKeeps DEF Deadline
<1>6. ASSUME NEW i \in DOMAIN runs, ReplyGood(i) PROVE RunIInv'
  <2>1. view' \in Views /\ ~view'.pending /\ view'.result = runs[i].inputs /\ ~view'.stale
    BY <1>6 DEF ReplyGood, RunIInv, StandaloneTypeOK, Run, NoView, Views
  <2>2. i = runWorker
    BY <1>6 DEF ReplyGood, Heard, RunIInv, StandaloneTypeOK
  <2>3. runs[i].inputs = inputs
    BY <2>2, <1>6 DEF RunIInv, OneRun, StandaloneTypeOK
  <2> QED BY <1>6, <2>1, <2>3, StopTyped DEF RunIInv, StandaloneTypeOK, OneRun, FreshIsCurrent, ReplyGood
<1>7. ASSUME NEW i \in DOMAIN runs, ReplyRejected(i) PROVE RunIInv'
    BY <1>7, FailKeeps DEF ReplyRejected
<1>8. ASSUME NEW i \in Inputs, Edit(i) PROVE RunIInv'
  <2>1. view' \in Views /\ ~view'.pending /\ view'.result = NoResult
    BY <1>8 DEF Edit, NoView, Views
  <2> QED BY <1>8, <2>1, StopTyped DEF RunIInv, StandaloneTypeOK, OneRun, FreshIsCurrent, Edit
<1>9. ASSUME NEW i \in Inputs, EditScope(i) PROVE RunIInv'
  <2>1. view' \in Views /\ ~view'.pending /\ view'.result = view.result
        /\ view'.stale = (view.result # NoResult)
    BY <1>9 DEF EditScope, Withdrawn, RunIInv, StandaloneTypeOK, Views
  <2> QED BY <1>9, <2>1, StopTyped DEF RunIInv, StandaloneTypeOK, OneRun, FreshIsCurrent, EditScope
<1>10. CASE UNCHANGED runVars
    BY <1>10 DEF runVars, RunIInv, StandaloneTypeOK, OneRun, FreshIsCurrent
<1> QED BY <1>1, <1>2, <1>3, <1>4, <1>5, <1>6, <1>7, <1>8, <1>9, <1>10 DEF StandaloneNext

LEMMA RunInitially == StandaloneInit => RunIInv
    BY DEF StandaloneInit, RunIInv, StandaloneTypeOK, OneRun, FreshIsCurrent, NoView, Views, Unmade

LEMMA RunInvariance == StandaloneSpec => []RunIInv
    BY RunInitially, RunInductive, PTL DEF StandaloneSpec

\* The types hold whatever the inputs are and however many runs were started, and only
\* the worker in use has handlers.
THEOREM StandaloneTypeCorrect == StandaloneSpec => []StandaloneTypeOK
    BY RunInvariance, PTL DEF RunIInv

\* A result shown as current was computed from what is on screen.
THEOREM ResultsAreCurrent == StandaloneSpec => []ShownIsCurrent
<1>1. RunIInv => ShownIsCurrent
    BY DEF RunIInv, FreshIsCurrent, ShownIsCurrent, Forecast
<1> QED BY <1>1, RunInvariance, PTL

-----------------------------------------------------------------------------
\* Every step is a question, an answer, a withdrawal or nothing to the screen.
LEMMA StepRefines == RunIInv /\ RunIInv' /\ [StandaloneNext]_runVars => [Latest!Next]_Latest!vars
<1> SUFFICES ASSUME RunIInv, RunIInv', [StandaloneNext]_runVars PROVE [Latest!Next]_Latest!vars
    OBVIOUS
<1> DEFINE question == IF mounted /\ view.pending THEN runs[timer].inputs ELSE NoResult
           answer == IF mounted THEN view.result ELSE NoResult
           fresh == mounted /\ view.result # NoResult /\ ~view.stale
<1>a. ASSUME question' = NoResult, ~fresh', answer' = answer PROVE Latest!GiveUp
    BY <1>a DEF Latest!GiveUp
<1>f. ASSUME RunFails, mounted, view.pending PROVE Latest!GiveUp
    BY <1>f, <1>a DEF RunFails, RunIInv, StandaloneTypeOK, Views, FreshIsCurrent
<1>1. CASE Start
  <2>1. question' = inputs
    BY <1>1 DEF Start, Started, RunIInv, OneRun, StandaloneTypeOK, Views
  <2>2. ~fresh' /\ answer' = answer
    BY <1>1 DEF Start, Started, RunIInv, StandaloneTypeOK, Views
  <2> QED BY <2>1, <2>2 DEF Latest!Next, Latest!Ask, RunIInv, StandaloneTypeOK
<1>2. CASE StartFails
    BY <1>2, <1>a DEF StartFails, Started, RunIInv, StandaloneTypeOK, Views, Latest!Next
<1>3. CASE Cancel
    BY <1>3, <1>a DEF Cancel, RunIInv, StandaloneTypeOK, Views, Latest!Next
<1>4. CASE Dispose
    BY <1>4 DEF Dispose, Latest!Next, Latest!Forget
<1>5. CASE Deadline
    BY <1>5, <1>f DEF Deadline, RunIInv, OneRun, Latest!Next
<1>6. ASSUME NEW i \in DOMAIN runs, ReplyGood(i) PROVE Latest!Next
  <2>1. i = timer /\ i # 0
    BY <1>6 DEF ReplyGood, Heard, RunIInv, OneRun, StandaloneTypeOK
  <2>2. question = runs[i].inputs /\ runs[i].inputs # NoResult
    BY <2>1, InputsAssumption DEF RunIInv, OneRun, StandaloneTypeOK, Run
  <2>3. view' = [NoView EXCEPT !.result = runs[i].inputs] /\ mounted' = mounted /\ mounted
    BY <1>6, <2>1 DEF ReplyGood, RunIInv, OneRun
  <2>4. question' = NoResult /\ answer' = runs[i].inputs /\ fresh'
    BY <2>2, <2>3 DEF NoView
  <2> QED BY <2>2, <2>4 DEF Latest!Next, Latest!Answer
<1>7. ASSUME NEW i \in DOMAIN runs, ReplyRejected(i) PROVE Latest!Next
  <2>1. timer # 0
    BY <1>7 DEF ReplyRejected, Heard, RunIInv, OneRun, StandaloneTypeOK
  <2> QED BY <1>7, <2>1, <1>f DEF ReplyRejected, RunIInv, OneRun, Latest!Next
<1>8. ASSUME NEW i \in Inputs, Edit(i) PROVE Latest!Next
    BY <1>8 DEF Edit, NoView, Latest!Next, Latest!Forget
<1>9. ASSUME NEW i \in Inputs, EditScope(i) PROVE Latest!Next
    BY <1>9, <1>a DEF EditScope, Withdrawn, RunIInv, StandaloneTypeOK, Views, Latest!Next
<1>10. CASE UNCHANGED runVars
    BY <1>10 DEF runVars, Latest!vars
<1> QED BY <1>1, <1>2, <1>3, <1>4, <1>5, <1>6, <1>7, <1>8, <1>9, <1>10 DEF StandaloneNext

LEMMA InitRefines == StandaloneInit => Latest!Init
    BY DEF StandaloneInit, NoView, Latest!Init

\* The safety part of ImplementsLatest: whatever happens to workers and deadlines, the
\* screen sees a question asked, answered, given up or forgotten, and an answer is marked
\* fresh only until the next question.
THEOREM ChannelImplementsLatest == StandaloneSpec => Latest!Init /\ [][Latest!Next]_Latest!vars
    BY InitRefines, StepRefines, RunInvariance, PTL DEF StandaloneSpec
=============================================================================
