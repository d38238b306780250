----------------------- MODULE PersonalPersistence_proofs -----------------------
(***************************************************************************)
(* For any number of tabs, models, edits and use cases under way: what the *)
(* application cannot read is lost only by its own migration or by a       *)
(* removal the user asked for, and a tab alone on its origin comes to show *)
(* what is stored.  The invariant rests on two orders: protected bytes     *)
(* stay as they were read until they go, so that no save that read         *)
(* anything else is under way while they are there; and completions are    *)
(* delivered in the order of their transactions, so that from the last     *)
(* change a tab has yet to hear of, all it will hear is what is stored.    *)
(***************************************************************************)
EXTENDS PersonalPersistence, SequenceTheorems, TLAPS

Ids == 1..MaxRunning
Kinds == {"open", "save", "migrate", "delete"}
Stages == {"inspect", "read", "confirm", "write", "remove"}
OperationRecords ==
    [tab : Tabs, kind : Kinds, stage : Stages, transaction : {"read", "replace", "remove"},
     value : Stored \cup {Failure}, draft : Draft \cup {NoDraft}, confirmed : BOOLEAN]

\* The stages of each use case, and the transaction each stage awaits.
Step(op) ==
    /\ op.transaction = "replace" <=> op.stage = "write"
    /\ op.transaction = "remove" <=> op.stage = "remove"
    /\ op.kind = "open" => op.stage = "inspect"
    /\ op.kind = "save" => op.stage \in {"read", "confirm", "write", "inspect"} /\ op.draft \in Draft
    /\ op.kind = "migrate" => op.stage \in {"read", "write"}
    /\ op.kind = "delete" <=> op.stage = "remove"
    /\ op.kind = "delete" => op.value \in {NoBytes, Failure}
    /\ op.stage = "write" => op.value = Failure \/ (op.value \in Bytes /\ op.value.format = "current")

Plain ==
    /\ store \in Stored /\ draft \in [Tabs -> Draft] /\ saved \in [Tabs -> Stored \cup {Unknown}]
    /\ error \in [Tabs -> BOOLEAN] /\ opened \subseteq Tabs

OpsHold ==
    /\ DOMAIN ops \subseteq Ids /\ ops \in [DOMAIN ops -> OperationRecords]
    /\ \A n \in DOMAIN ops : ops[n].tab \in opened /\ Step(ops[n])

\* A use case waits for one transaction to run or one completion to be delivered,
\* and for neither while it asks the user.
Distinct(s) == \A i, j \in DOMAIN s : s[i] = s[j] => i = j
Line(s) == s \in Seq(Ids) /\ Distinct(s) /\ ToSet(s) \subseteq DOMAIN ops
Waits ==
    /\ Line(queue) /\ DOMAIN replies = Tabs
    /\ \A n \in ToSet(queue) : ops[n].stage # "confirm"
    /\ \A n \in ToSet(queue) : ops[n].transaction = "replace" => ops[n].value # Failure
    /\ \A t \in Tabs :
         /\ Line(replies[t])
         /\ \A n \in ToSet(replies[t]) :
              ops[n].tab = t /\ ops[n].stage # "confirm" /\ n \notin ToSet(queue)

\* While protected bytes are stored, whoever read has read them, no save writes,
\* and what a migration writes is their own.
Guarded ==
    Protected(store) =>
        \A n \in DOMAIN ops :
            /\ ops[n].kind \in {"save", "migrate"} /\ ops[n].stage = "read"
               /\ n \in ToSet(replies[ops[n].tab]) => ops[n].value \in {store, Failure}
            /\ ~(ops[n].kind = "save" /\ ops[n].stage = "write")
            /\ ops[n].stage = "write" /\ n \in ToSet(queue) => ops[n].value = Migrated(store)

\* A completion that changed the store.
Changed(n) == ops[n].transaction \in {"replace", "remove"} /\ ops[n].value # Failure

\* Whatever the tab will hear is what is stored, or it will hear of a change after it.
Expects(t) ==
    \A i \in DOMAIN replies[t] :
        \/ ops[replies[t][i]].value \in {store, Failure}
        \/ \E j \in DOMAIN replies[t] : i < j /\ Changed(replies[t][j])

\* What the tab shows is stored, or it will hear or ask, or it shows an error.
Knows(t) ==
    \/ saved[t] = store \/ error[t]
    \/ \E m \in ToSet(replies[t]) : Changed(m)
    \/ \E m \in DOMAIN ops : ops[m].stage = "inspect"
Informed == \A t \in Tabs : opened = {t} => Expects(t) /\ Knows(t)

IInv == Plain /\ OpsHold /\ Waits /\ Guarded /\ Informed

----------------------------------------------------------------------------
(* Queues *)

LEMMA Pushed ==
    ASSUME NEW S, NEW s \in Seq(S), NEW e \in S, Distinct(s), e \notin ToSet(s)
    PROVE  /\ Append(s, e) \in Seq(S) /\ Distinct(Append(s, e))
           /\ ToSet(Append(s, e)) = ToSet(s) \cup {e}
           /\ Len(s) \in Nat /\ DOMAIN s = 1..Len(s) /\ DOMAIN Append(s, e) = 1..Len(s) + 1
           /\ Append(s, e)[Len(s) + 1] = e
           /\ \A i \in DOMAIN s : Append(s, e)[i] = s[i]
<1>1. /\ Append(s, e) \in Seq(S) /\ Len(s) \in Nat /\ DOMAIN s = 1..Len(s)
      /\ DOMAIN Append(s, e) = 1..Len(s) + 1 /\ Append(s, e)[Len(s) + 1] = e
      /\ \A i \in 1..Len(s) : Append(s, e)[i] = s[i]
    BY AppendProperties, LenProperties
<1>2. ToSet(Append(s, e)) = ToSet(s) \cup {e}
    BY <1>1 DEF ToSet
<1>3. Distinct(Append(s, e))
    BY <1>1 DEF Distinct, ToSet
<1> QED BY <1>1, <1>2, <1>3

LEMMA Popped ==
    ASSUME NEW S, NEW s \in Seq(S), s # <<>>, Distinct(s)
    PROVE  /\ Head(s) \in S /\ Head(s) \in ToSet(s) /\ Head(s) = s[1] /\ 1 \in DOMAIN s
           /\ Tail(s) \in Seq(S) /\ Distinct(Tail(s))
           /\ ToSet(Tail(s)) = ToSet(s) \ {Head(s)}
           /\ \A i \in DOMAIN Tail(s) : i \in Nat /\ i + 1 \in DOMAIN s /\ Tail(s)[i] = s[i + 1]
           /\ \A i \in DOMAIN s : i \in Nat /\ (i > 1 => i - 1 \in DOMAIN Tail(s))
<1>1. /\ Head(s) \in S /\ Tail(s) \in Seq(S) /\ Len(s) \in Nat /\ Len(s) > 0
      /\ Len(Tail(s)) = Len(s) - 1 /\ \A i \in 1..Len(Tail(s)) : Tail(s)[i] = s[i + 1]
      /\ DOMAIN s = 1..Len(s) /\ DOMAIN Tail(s) = 1..Len(Tail(s)) /\ Head(s) = s[1]
    BY HeadTailProperties, LenProperties, EmptySeq
<1>2. \A i \in DOMAIN Tail(s) : i \in Nat /\ i + 1 \in DOMAIN s /\ Tail(s)[i] = s[i + 1]
    BY <1>1
<1>3. \A i \in DOMAIN s : i \in Nat /\ (i > 1 => i - 1 \in DOMAIN Tail(s) /\ i - 1 + 1 = i)
    BY <1>1
<1>4. Distinct(Tail(s))
    BY <1>1, <1>2 DEF Distinct
<1>5. ToSet(Tail(s)) = ToSet(s) \ {Head(s)}
    <2>1. ASSUME NEW x \in ToSet(Tail(s)) PROVE x \in ToSet(s) /\ x # Head(s)
        <3>1. PICK i \in DOMAIN Tail(s) : x = Tail(s)[i] BY DEF ToSet
        <3>2. x = s[i + 1] /\ i + 1 \in DOMAIN s /\ i + 1 # 1 BY <1>1, <1>2, <3>1
        <3> QED BY <1>1, <3>2 DEF ToSet, Distinct
    <2>2. ASSUME NEW x \in ToSet(s), x # Head(s) PROVE x \in ToSet(Tail(s))
        <3>1. PICK i \in DOMAIN s : x = s[i] BY DEF ToSet
        <3>2. i > 1 BY <1>1, <2>2, <3>1
        <3>3. Tail(s)[i - 1] = s[i] /\ i - 1 \in DOMAIN Tail(s) BY <1>2, <1>3, <3>2
        <3> QED BY <3>1, <3>3 DEF ToSet
    <2> QED BY <2>1, <2>2
<1>6. 1 \in DOMAIN s /\ Head(s) \in ToSet(s)
    BY <1>1 DEF ToSet
<1> QED BY <1>1, <1>2, <1>3, <1>4, <1>5, <1>6

----------------------------------------------------------------------------
(* A completion is delivered *)

\* The operation whose completion is delivered leaves its tab's line.
LEMMA Delivery ==
    ASSUME IInv, NEW n \in DOMAIN ops, NEW kind, NEW stage, Deliver(n, kind, stage)
    PROVE  /\ ops[n] \in OperationRecords /\ Step(ops[n]) /\ ops[n].kind = kind
           /\ ops[n].stage = stage /\ ops[n].tab \in opened /\ opened \subseteq Tabs
           /\ store' = store /\ opened' = opened
           /\ n \in ToSet(replies[ops[n].tab]) /\ n \notin ToSet(queue) /\ n \in Ids
           /\ DOMAIN replies' = Tabs
           /\ \A t \in Tabs :
                /\ replies'[t] \in Seq(Ids) /\ Distinct(replies'[t])
                /\ ToSet(replies'[t]) = ToSet(replies[t]) \ {n}
           /\ \A t \in Tabs : opened = {t} =>
                /\ t = ops[n].tab /\ replies'[t] = Tail(replies[t]) /\ replies[t] # <<>>
                /\ Head(replies[t]) = n
<1> DEFINE u == ops[n].tab
<1>1. /\ ops[n] \in OperationRecords /\ Step(ops[n]) /\ u \in opened /\ u \in Tabs
      /\ opened \subseteq Tabs /\ n \in Ids
    BY DEF IInv, OpsHold, Plain
<1>2. /\ ops[n].kind = kind /\ ops[n].stage = stage /\ store' = store /\ opened' = opened
      /\ replies[u] # <<>> /\ Head(replies[u]) = n
      /\ replies' = [replies EXCEPT ![u] = Tail(replies[u])]
    BY DEF Deliver
<1>3. DOMAIN replies = Tabs /\ \A t \in Tabs : Line(replies[t])
    BY DEF IInv, Waits
<1>4. /\ n \in ToSet(replies[u]) /\ Tail(replies[u]) \in Seq(Ids) /\ Distinct(Tail(replies[u]))
      /\ ToSet(Tail(replies[u])) = ToSet(replies[u]) \ {n}
    BY <1>1, <1>2, <1>3, Popped DEF Line
<1>5. n \notin ToSet(queue) /\ \A t \in Tabs : t # u => n \notin ToSet(replies[t])
    BY <1>1, <1>4 DEF IInv, Waits
<1>6. DOMAIN replies' = Tabs /\ \A t \in Tabs : replies'[t] = IF t = u THEN Tail(replies[t]) ELSE replies[t]
    BY <1>1, <1>2, <1>3
<1>7. \A t \in Tabs : /\ replies'[t] \in Seq(Ids) /\ Distinct(replies'[t])
                      /\ ToSet(replies'[t]) = ToSet(replies[t]) \ {n}
    BY <1>3, <1>4, <1>5, <1>6 DEF Line
<1> QED BY <1>1, <1>2, <1>4, <1>5, <1>6, <1>7

\* An operation goes on with the next record, and queues its transaction or not.
Goes(n, op) ==
    /\ ops' = [ops EXCEPT ![n] = op]
    /\ op \in OperationRecords /\ Step(op) /\ op.tab = ops[n].tab
    /\ \/ queue' = Append(queue, n) /\ op.stage # "confirm"
          /\ (op.transaction = "replace" => op.value # Failure)
       \/ queue' = queue

LEMMA EndedOps ==
    ASSUME NEW n \in DOMAIN ops, End(n)
    PROVE  /\ DOMAIN ops' = DOMAIN ops \ {n} /\ queue' = queue
           /\ \A m \in DOMAIN ops' : ops'[m] = ops[m]
    BY DEF End, Restrict

LEMMA DeliveryKeepsLines ==
    ASSUME IInv, NEW n \in DOMAIN ops, NEW kind, NEW stage, Deliver(n, kind, stage),
           End(n) \/ \E op : Goes(n, op)
    PROVE  OpsHold' /\ Waits' /\ \A m \in DOMAIN ops \ {n} : m \in DOMAIN ops' /\ ops'[m] = ops[m]
<1>0. /\ opened' = opened /\ DOMAIN replies' = Tabs /\ n \notin ToSet(queue) /\ n \in Ids
      /\ \A t \in Tabs :
           /\ replies'[t] \in Seq(Ids) /\ Distinct(replies'[t])
           /\ ToSet(replies'[t]) = ToSet(replies[t]) \ {n}
    BY Delivery
<1>1. CASE End(n)
  <2>1. /\ DOMAIN ops' = DOMAIN ops \ {n} /\ queue' = queue
        /\ \A m \in DOMAIN ops' : ops'[m] = ops[m]
        /\ ops' = [m \in DOMAIN ops' |-> ops'[m]]
      BY <1>1, EndedOps DEF End, Restrict
  <2>2. OpsHold'
      BY <2>1, <1>0 DEF IInv, OpsHold
  <2>3. Waits'
      BY <2>1, <1>0 DEF IInv, Waits, Line
  <2> QED BY <2>1, <2>2, <2>3
<1>2. ASSUME NEW op, Goes(n, op) PROVE OpsHold' /\ Waits' /\ \A m \in DOMAIN ops \ {n} : m \in DOMAIN ops' /\ ops'[m] = ops[m]
  <2>1. /\ DOMAIN ops' = DOMAIN ops /\ ops'[n] = op
        /\ \A m \in DOMAIN ops : m # n => ops'[m] = ops[m]
        /\ ops' = [m \in DOMAIN ops' |-> ops'[m]]
      BY <1>2 DEF Goes, IInv, OpsHold
  <2>2. OpsHold'
      BY <2>1, <1>0, <1>2 DEF IInv, OpsHold, Goes
  <2>3. Line(queue)' /\ ToSet(queue') \subseteq ToSet(queue) \cup {n} /\ \A m \in ToSet(queue') :
             /\ ops'[m].stage # "confirm"
             /\ ops'[m].transaction = "replace" => ops'[m].value # Failure
    <3>1. CASE queue' = queue
        <4>1. \A m \in ToSet(queue) : m # n /\ m \in DOMAIN ops
            BY <1>0 DEF IInv, Waits, Line
        <4> QED BY <2>1, <3>1, <4>1 DEF IInv, Waits, Line
    <3>2. CASE /\ queue' = Append(queue, n) /\ op.stage # "confirm"
               /\ op.transaction = "replace" => op.value # Failure
      <4>1. queue' \in Seq(Ids) /\ Distinct(queue') /\ ToSet(queue') = ToSet(queue) \cup {n}
          BY <3>2, <1>0, Pushed DEF IInv, Waits, Line
      <4>2. \A m \in ToSet(queue) : m # n /\ m \in DOMAIN ops
          BY <1>0 DEF IInv, Waits, Line
      <4> QED BY <2>1, <3>2, <4>1, <4>2 DEF IInv, Waits, Line
    <3> QED BY <3>1, <3>2, <1>2 DEF Goes
  <2>5. ASSUME NEW t \in Tabs
        PROVE  Line(replies[t])' /\ \A m \in ToSet(replies'[t]) :
                   ops'[m].tab = t /\ ops'[m].stage # "confirm" /\ m \notin ToSet(queue')
    <3>1. \A m \in ToSet(replies'[t]) : m # n /\ m \in DOMAIN ops /\ m \in ToSet(replies[t])
        BY <1>0 DEF IInv, Waits, Line
    <3> QED BY <1>0, <2>1, <2>3, <3>1 DEF IInv, Waits, Line
  <2>6. Waits'
      BY <1>0, <2>3, <2>5 DEF Waits
  <2> QED BY <2>1, <2>2, <2>6
<1> QED BY <1>1, <1>2

LEMMA DeliveryKeepsGuard ==
    ASSUME IInv, NEW n \in DOMAIN ops, NEW kind, NEW stage, Deliver(n, kind, stage),
           \/ End(n)
           \/ \E op : /\ Goes(n, op)
                      /\ Protected(store) /\ op.stage = "write" =>
                           op.kind # "save" /\ op.value = Migrated(store)
    PROVE  Guarded'
<1>1. SUFFICES ASSUME Protected(store)', NEW m \in DOMAIN ops'
      PROVE  /\ ops'[m].kind \in {"save", "migrate"} /\ ops'[m].stage = "read"
                /\ m \in ToSet(replies'[ops'[m].tab]) => ops'[m].value \in {store', Failure}
             /\ ~(ops'[m].kind = "save" /\ ops'[m].stage = "write")
             /\ ops'[m].stage = "write" /\ m \in ToSet(queue') => ops'[m].value = Migrated(store')
    BY DEF Guarded
<1>0. End(n) \/ \E op : Goes(n, op)
    OBVIOUS
<1>2. /\ store' = store /\ Protected(store) /\ OpsHold'
      /\ \A t \in Tabs : ToSet(replies'[t]) = ToSet(replies[t]) \ {n}
    BY <1>0, <1>1, Delivery, DeliveryKeepsLines DEF Protected
<1>3. \A k \in DOMAIN ops \ {n} : ops'[k] = ops[k]
    BY <1>0, DeliveryKeepsLines
<1>4. ops'[m].tab \in Tabs
    BY <1>2 DEF OpsHold, OperationRecords
<1>5. CASE m # n
  <2>1. m \in DOMAIN ops /\ ops'[m] = ops[m]
    <3>1. m \in DOMAIN ops
        BY <1>0, EndedOps DEF Goes
    <3> QED BY <1>5, <1>3, <3>1
  <2>2. m \in ToSet(queue') => m \in ToSet(queue)
    <3>1. queue' = queue \/ queue' = Append(queue, n)
        BY <1>0 DEF Goes, End
    <3>2. n \notin ToSet(queue) /\ n \in Ids
        BY Delivery
    <3>3. ToSet(Append(queue, n)) = ToSet(queue) \cup {n}
        BY <3>2, Pushed DEF IInv, Waits, Line
    <3> QED BY <1>5, <3>1, <3>3
  <2> QED BY <1>2, <1>4, <1>5, <2>1, <2>2 DEF IInv, Guarded
<1>6. CASE m = n
  <2>1. PICK op : /\ Goes(n, op)
                  /\ Protected(store) /\ op.stage = "write" =>
                          op.kind # "save" /\ op.value = Migrated(store)
    <3>1. ~End(n)
        BY <1>1, <1>6, EndedOps
    <3> QED BY <3>1
  <2>2. ops'[n] = op
      BY <2>1 DEF Goes
  <2> QED BY <1>2, <1>4, <1>6, <2>1, <2>2
<1> QED BY <1>5, <1>6

\* What a tab alone on its origin hears is stored, or it will hear of a change.
LEMMA Heard ==
    ASSUME IInv, NEW n \in DOMAIN ops, NEW kind, NEW stage, Deliver(n, kind, stage),
           NEW t \in Tabs, opened = {t}
    PROVE  ops[n].value \in {store, Failure} \/ \E m \in ToSet(replies'[t]) : Changed(m)
<1>1. replies[t] # <<>> /\ Head(replies[t]) = n /\ replies'[t] = Tail(replies[t])
    BY Delivery
<1>2. /\ replies[t][1] = n /\ 1 \in DOMAIN replies[t]
      /\ \A i \in DOMAIN Tail(replies[t]) : i \in Nat /\ i + 1 \in DOMAIN replies[t] /\ Tail(replies[t])[i] = replies[t][i + 1]
      /\ \A i \in DOMAIN replies[t] : i \in Nat /\ (i > 1 => i - 1 \in DOMAIN Tail(replies[t]))
    BY <1>1, Popped DEF IInv, Waits, Line
<1>3. Expects(t)
    BY DEF IInv, Informed
<1>4. CASE \E j \in DOMAIN replies[t] : 1 < j /\ Changed(replies[t][j])
  <2>1. PICK j \in DOMAIN replies[t] : 1 < j /\ Changed(replies[t][j])
      BY <1>4
  <2>2. j - 1 \in DOMAIN Tail(replies[t]) /\ Tail(replies[t])[j - 1] = replies[t][j - 1 + 1] /\ j - 1 + 1 = j
      BY <1>2, <2>1
  <2> QED BY <1>1, <2>1, <2>2 DEF ToSet
<1> QED BY <1>2, <1>3, <1>4 DEF Expects

LEMMA DeliveryKeepsExpectation ==
    ASSUME IInv, NEW n \in DOMAIN ops, NEW kind, NEW stage, Deliver(n, kind, stage),
           End(n) \/ \E op : Goes(n, op),
           NEW t \in Tabs, opened = {t}
    PROVE  /\ Expects(t)'
           /\ \A m \in ToSet(replies'[t]) : Changed(m) => Changed(m)'
<1>1. replies[t] # <<>> /\ replies'[t] = Tail(replies[t]) /\ store' = store
      /\ ToSet(replies'[t]) = ToSet(replies[t]) \ {n}
    BY Delivery
<1>2. /\ \A i \in DOMAIN Tail(replies[t]) : i \in Nat /\ i + 1 \in DOMAIN replies[t] /\ Tail(replies[t])[i] = replies[t][i + 1]
      /\ \A i \in DOMAIN replies[t] : i \in Nat /\ (i > 1 => i - 1 \in DOMAIN Tail(replies[t]))
    BY <1>1, Popped DEF IInv, Waits, Line
<1>3. \A m \in ToSet(replies'[t]) : m \in DOMAIN ops \ {n}
    BY <1>1 DEF IInv, Waits, Line
<1>4. \A m \in ToSet(replies'[t]) : ops'[m] = ops[m]
    BY <1>3, DeliveryKeepsLines
<1>5. \A m \in ToSet(replies'[t]) : Changed(m) => Changed(m)'
    BY <1>4 DEF Changed
<1>6. ASSUME NEW i \in DOMAIN replies'[t]
      PROVE  \/ ops'[replies'[t][i]].value \in {store', Failure}
             \/ \E j \in DOMAIN replies'[t] : i < j /\ Changed(replies[t][j])'
  <2>1. i \in Nat /\ i + 1 \in DOMAIN replies[t] /\ replies'[t][i] = replies[t][i + 1]
        /\ replies'[t][i] \in ToSet(replies'[t])
      BY <1>1, <1>2 DEF ToSet
  <2>2. CASE ops[replies[t][i + 1]].value \in {store, Failure}
      BY <1>1, <1>4, <2>1, <2>2
  <2>3. CASE \E j \in DOMAIN replies[t] : i + 1 < j /\ Changed(replies[t][j])
    <3>1. PICK j \in DOMAIN replies[t] : i + 1 < j /\ Changed(replies[t][j])
        BY <2>3
    <3>2. j - 1 \in DOMAIN Tail(replies[t]) /\ j - 1 + 1 = j /\ i < j - 1
        BY <1>2, <2>1, <3>1
    <3>3. replies'[t][j - 1] = replies[t][j] /\ j - 1 \in DOMAIN replies'[t]
        BY <1>1, <1>2, <3>2
    <3>4. Changed(replies'[t][j - 1]) /\ replies'[t][j - 1] \in ToSet(replies'[t])
        BY <3>1, <3>3 DEF ToSet
    <3>5. Changed(replies[t][j - 1])'
        BY <1>4, <3>4 DEF Changed
    <3> QED BY <3>2, <3>3, <3>5
  <2> QED BY <2>1, <2>2, <2>3 DEF IInv, Informed, Expects
<1> QED BY <1>5, <1>6 DEF Expects

LEMMA DeliveryKeepsKnowledge ==
    ASSUME IInv, NEW n \in DOMAIN ops, NEW kind, NEW stage, Deliver(n, kind, stage),
           End(n) \/ \E op : Goes(n, op),
           NEW t \in Tabs, opened = {t},
           \/ error'[t]
           \/ saved'[t] = ops[n].value /\ ops[n].value # Failure
           \/ n \in DOMAIN ops' /\ ops'[n].stage = "inspect"
           \/ /\ saved' = saved /\ error' = error
              /\ ops[n].stage # "inspect" /\ ops[n].transaction = "read"
    PROVE  Knows(t)'
<1>1. store' = store /\ ToSet(replies'[t]) = ToSet(replies[t]) \ {n}
    BY Delivery
<1>2. \A m \in ToSet(replies'[t]) : Changed(m) => Changed(m)'
    BY DeliveryKeepsExpectation
<1>3. CASE error'[t]
    BY <1>3 DEF Knows
<1>4. CASE n \in DOMAIN ops' /\ ops'[n].stage = "inspect"
    BY <1>4 DEF Knows
<1>5. CASE saved'[t] = ops[n].value /\ ops[n].value # Failure
  <2>1. ops[n].value = store \/ \E m \in ToSet(replies'[t]) : Changed(m)
      BY <1>5, Heard
  <2> QED BY <1>1, <1>2, <1>5, <2>1 DEF Knows
<1>6. CASE /\ saved' = saved /\ error' = error
           /\ ops[n].stage # "inspect" /\ ops[n].transaction = "read"
  <2>1. Knows(t)
      BY DEF IInv, Informed
  <2>2. CASE saved[t] = store \/ error[t]
      BY <1>1, <1>6, <2>2 DEF Knows
  <2>3. CASE \E m \in ToSet(replies[t]) : Changed(m)
    <3>1. ~Changed(n)
        BY <1>6 DEF Changed
    <3> QED BY <1>1, <1>2, <2>3, <3>1 DEF Knows
  <2>4. CASE \E m \in DOMAIN ops : ops[m].stage = "inspect"
    <3>1. PICK m \in DOMAIN ops : ops[m].stage = "inspect"
        BY <2>4
    <3>2. m \in DOMAIN ops' /\ ops'[m] = ops[m]
        BY <1>6, <3>1, DeliveryKeepsLines
    <3> QED BY <3>1, <3>2 DEF Knows
  <2> QED BY <2>1, <2>2, <2>3, <2>4 DEF Knows
<1> QED BY <1>3, <1>4, <1>5, <1>6

\* What every handler of a completion has to show.
LEMMA DeliveryKeeps ==
    ASSUME IInv, NEW n \in DOMAIN ops, NEW kind, NEW stage, Deliver(n, kind, stage),
           \/ End(n)
           \/ \E op : /\ Goes(n, op)
                      /\ Protected(store) /\ op.stage = "write" =>
                           op.kind # "save" /\ op.value = Migrated(store),
           draft' \in [Tabs -> Draft], saved' \in [Tabs -> Stored \cup {Unknown}],
           error' \in [Tabs -> BOOLEAN],
           \A t \in Tabs : opened = {t} =>
             \/ error'[t]
             \/ saved'[t] = ops[n].value /\ ops[n].value # Failure
             \/ n \in DOMAIN ops' /\ ops'[n].stage = "inspect"
             \/ /\ saved' = saved /\ error' = error
                /\ ops[n].stage # "inspect" /\ ops[n].transaction = "read"
    PROVE  IInv'
<1>1. End(n) \/ \E op : Goes(n, op)
    OBVIOUS
<1>2. OpsHold' /\ Waits'
    BY <1>1, DeliveryKeepsLines
<1>3. store' = store /\ opened' = opened
    BY Delivery
<1>4. Plain'
    BY <1>3 DEF IInv, Plain
<1>5. Guarded'
    BY DeliveryKeepsGuard
<1>6. Informed'
  <2> SUFFICES ASSUME NEW t \in Tabs, opened = {t} PROVE Expects(t)' /\ Knows(t)'
      BY <1>3 DEF Informed
  <2>1. Expects(t)'
      BY <1>1, DeliveryKeepsExpectation
  <2>2. Knows(t)'
      BY <1>1, DeliveryKeepsKnowledge
  <2> QED BY <2>1, <2>2
<1> QED BY <1>2, <1>4, <1>5, <1>6 DEF IInv

----------------------------------------------------------------------------
(* The handlers *)

LEMMA FailureKeeps ==
    ASSUME IInv, NEW n \in DOMAIN ops, NEW kind, NEW stage, Deliver(n, kind, stage), Fail(n)
    PROVE  IInv'
<1>1. End(n) /\ draft' = draft /\ saved' = saved
      /\ error' = [error EXCEPT ![ops[n].tab] = TRUE]
    BY DEF Fail
<1>2. ops[n].tab \in Tabs /\ \A t \in Tabs : opened = {t} => t = ops[n].tab
    BY Delivery
<1>3. error' \in [Tabs -> BOOLEAN] /\ error'[ops[n].tab]
    BY <1>1, <1>2 DEF IInv, Plain
<1> QED BY <1>1, <1>2, <1>3, DeliveryKeeps DEF IInv, Plain

\* A handler that shows what its transaction returned.
LEMMA ShowingKeeps ==
    ASSUME IInv, NEW n \in DOMAIN ops, NEW kind, NEW stage, Deliver(n, kind, stage), End(n),
           ops[n].value # Failure, Show(n, ops[n].value), draft' \in [Tabs -> Draft],
           error' \in [Tabs -> BOOLEAN]
    PROVE  IInv'
<1>1. ops[n].tab \in Tabs /\ ops[n].value \in Stored /\ \A t \in Tabs : opened = {t} => t = ops[n].tab
    BY Delivery DEF OperationRecords
<1>2. saved' = [saved EXCEPT ![ops[n].tab] = ops[n].value]
    BY DEF Show
<1>3. saved' \in [Tabs -> Stored \cup {Unknown}] /\ saved'[ops[n].tab] = ops[n].value
    BY <1>1, <1>2 DEF IInv, Plain
<1> QED BY <1>1, <1>3, DeliveryKeeps

Awaited(n, stage, transaction, value) ==
    [ops[n] EXCEPT !.stage = stage, !.transaction = transaction, !.value = value]

LEMMA Awaiting ==
    ASSUME IInv, NEW n \in DOMAIN ops,
           NEW stage \in Stages \ {"confirm"}, NEW transaction \in {"read", "replace", "remove"},
           NEW value \in Stored, Await(n, stage, transaction, value),
           Step(Awaited(n, stage, transaction, value))
    PROVE  /\ Goes(n, Awaited(n, stage, transaction, value))
           /\ Awaited(n, stage, transaction, value).stage = stage
           /\ Awaited(n, stage, transaction, value).kind = ops[n].kind
           /\ Awaited(n, stage, transaction, value).value = value
           /\ draft' = draft /\ saved' = saved /\ error' = error
           /\ n \in DOMAIN ops' /\ ops'[n].stage = stage
<1> DEFINE op == [ops[n] EXCEPT !.stage = stage, !.transaction = transaction, !.value = value]
<1>1. ops[n] \in OperationRecords /\ ops \in [DOMAIN ops -> OperationRecords]
    BY DEF IInv, OpsHold
<1>2. op \in OperationRecords /\ op.stage = stage /\ op.kind = ops[n].kind /\ op.value = value
      /\ op.tab = ops[n].tab /\ op.transaction = transaction
    BY <1>1 DEF OperationRecords, Stages
<1>3. ops' = [ops EXCEPT ![n] = op] /\ queue' = Append(queue, n)
      /\ draft' = draft /\ saved' = saved /\ error' = error
    BY <1>1 DEF Await, OperationRecords
<1>4. value # Failure
    BY DEF Stored, Bytes, Failure, NoBytes, Mark, Formats
<1>5. Goes(n, op)
    BY <1>2, <1>3, <1>4 DEF Goes, Awaited
<1>6. n \in DOMAIN ops' /\ ops'[n] = op
    BY <1>3
<1> QED BY <1>2, <1>3, <1>5, <1>6 DEF Awaited

\* The bytes stored are distinct from the marks, and their status is their format.
LEMMA Statuses ==
    /\ NoBytes \in Stored /\ Failure \notin Stored /\ Unknown \notin Stored
    /\ \A b \in Stored : /\ Protected(b) <=> b.format \in {"old", "unusable"}
                         /\ Status(b) = "migration_required" <=> b.format = "old"
                         /\ Status(b) = "ready" <=> b.format = "current"
                         /\ b \notin Bytes => b = NoBytes
    /\ ~Protected(Failure) /\ ~Protected(NoBytes) /\ ~Protected(Unknown)
    /\ \A b \in {NoBytes, Failure, Unknown} : Status(b) \notin {"ready", "migration_required"}
    /\ \A b \in Bytes : b.format = "old" =>
         Migrated(b) \in Bytes /\ Migrated(b).format = "current"
    /\ \A d \in Draft : Exported(d) \in Bytes /\ Exported(d).format = "current"
    /\ \A b \in Bytes : Imported(b) \in Draft
BY DEF Stored, Bytes, NoBytes, Failure, Unknown, Mark, Formats, Protected, Status, Migrated,
       Draft, Exported, Imported

LEMMA InspectedKeeps == ASSUME IInv, NEW n \in DOMAIN ops, Inspected(n) PROVE IInv'
<1>1. PICK kind \in {"open", "save"} : Deliver(n, kind, "inspect")
    BY DEF Inspected
<1>2. CASE Fail(n)
    BY <1>1, <1>2, FailureKeeps
<1>3. CASE /\ ops[n].value # Failure /\ Show(n, ops[n].value) /\ End(n)
           /\ error' = [error EXCEPT ![ops[n].tab] = FALSE] /\ UNCHANGED draft
    BY <1>1, <1>3, ShowingKeeps DEF IInv, Plain
<1> QED BY <1>2, <1>3 DEF Inspected

LEMMA SaveInspectedKeeps == ASSUME IInv, NEW n \in DOMAIN ops, SaveInspected(n) PROVE IInv'
<1>1. Deliver(n, "save", "read")
    BY DEF SaveInspected
<1>2. /\ ops[n] \in OperationRecords /\ Step(ops[n]) /\ ops[n].kind = "save" /\ ops[n].stage = "read"
      /\ ops[n].transaction = "read"
    BY <1>1, Delivery DEF Step, OperationRecords
<1>3. CASE Fail(n)
    BY <1>1, <1>3, FailureKeeps
<1>4. CASE /\ Protected(ops[n].value) /\ Show(n, ops[n].value) /\ End(n) /\ UNCHANGED <<draft, error>>
    BY <1>1, <1>4, ShowingKeeps, Statuses DEF IInv, Plain
<1>5. CASE /\ ops' = [ops EXCEPT ![n].stage = "confirm"]
           /\ UNCHANGED <<queue, draft, saved, error>>
  <2> DEFINE op == [ops[n] EXCEPT !.stage = "confirm"]
  <2>1. ops' = [ops EXCEPT ![n] = op] /\ queue' = queue /\ draft' = draft /\ saved' = saved /\ error' = error
      BY <1>5
  <2>2. op \in OperationRecords /\ Step(op) /\ op.tab = ops[n].tab /\ op.stage = "confirm"
      BY <1>2 DEF OperationRecords, Stages, Step
  <2>3. Goes(n, op) /\ (op.stage = "write" => FALSE)
      BY <2>1, <2>2 DEF Goes
  <2> HIDE DEF op
  <2> QED BY <1>1, <1>2, <2>1, <2>3, DeliveryKeeps DEF IInv, Plain
<1>6. CASE /\ ops[n].value # Failure /\ ~Protected(ops[n].value)
           /\ Await(n, "write", "replace", Exported(ops[n].draft))
  <2>1. Exported(ops[n].draft) \in Bytes /\ Exported(ops[n].draft).format = "current"
      BY <1>2, Statuses DEF Step
  <2> DEFINE op == Awaited(n, "write", "replace", Exported(ops[n].draft))
  <2>2. Step(op)
      BY <1>2, <2>1 DEF Step, OperationRecords, Awaited
  <2>3. ~Protected(store)
    <3>1. ops[n].value \in {store, Failure} \/ ~Protected(store)
        BY <1>1, <1>2, Delivery DEF IInv, Guarded
    <3> QED BY <1>6, <3>1
  <2>4. Goes(n, op) /\ draft' = draft /\ saved' = saved /\ error' = error
      BY <1>6, <2>1, <2>2, Awaiting DEF Stages, Stored
  <2> HIDE DEF op
  <2> QED BY <1>1, <1>2, <2>3, <2>4, DeliveryKeeps DEF IInv, Plain
<1> QED BY <1>3, <1>4, <1>5, <1>6 DEF SaveInspected

LEMMA SaveWrittenKeeps == ASSUME IInv, NEW n \in DOMAIN ops, SaveWritten(n) PROVE IInv'
<1>1. Deliver(n, "save", "write")
    BY DEF SaveWritten
<1>2. /\ ops[n] \in OperationRecords /\ Step(ops[n]) /\ ops[n].kind = "save"
    BY <1>1, Delivery
<1>3. CASE Fail(n)
    BY <1>1, <1>3, FailureKeeps
<1>4. CASE Await(n, "inspect", "read", NoBytes)
  <2> DEFINE op == Awaited(n, "inspect", "read", NoBytes)
  <2>1. Step(op) /\ NoBytes \in Stored
      BY <1>2 DEF Step, OperationRecords, Awaited, Stored
  <2>2. /\ Goes(n, op) /\ op.stage = "inspect" /\ draft' = draft /\ saved' = saved
        /\ error' = error /\ n \in DOMAIN ops' /\ ops'[n].stage = "inspect"
      BY <1>4, <2>1, Awaiting DEF Stages
  <2>3. Protected(store) /\ op.stage = "write" => FALSE
      BY <2>2
  <2> HIDE DEF op
  <2> QED BY <1>1, <2>2, <2>3, DeliveryKeeps DEF IInv, Plain
<1> QED BY <1>3, <1>4 DEF SaveWritten, Written

LEMMA MigrationInspectedKeeps == ASSUME IInv, NEW n \in DOMAIN ops, MigrationInspected(n) PROVE IInv'
<1>1. Deliver(n, "migrate", "read")
    BY DEF MigrationInspected
<1>2. /\ ops[n] \in OperationRecords /\ Step(ops[n]) /\ ops[n].kind = "migrate" /\ ops[n].stage = "read"
      /\ ops[n].transaction = "read" /\ ops[n].value \in Stored \cup {Failure}
    BY <1>1, Delivery DEF Step, OperationRecords
<1>3. CASE Fail(n)
    BY <1>1, <1>3, FailureKeeps
<1>4. CASE /\ Status(ops[n].value) = "migration_required"
           /\ Await(n, "write", "replace", Migrated(ops[n].value))
  <2>1. ops[n].value \in Bytes /\ ops[n].value.format = "old" /\ ops[n].value # Failure
      BY <1>2, <1>4, Statuses
  <2>2. Migrated(ops[n].value) \in Bytes /\ Migrated(ops[n].value).format = "current"
      BY <2>1, Statuses
  <2> DEFINE op == Awaited(n, "write", "replace", Migrated(ops[n].value))
  <2>3. Step(op) /\ Migrated(ops[n].value) \in Stored
      BY <1>2, <2>2 DEF Step, OperationRecords, Awaited, Stored
  <2>4. Protected(store) => ops[n].value = store
      BY <1>1, <1>2, <2>1, Delivery DEF IInv, Guarded
  <2>5. /\ Goes(n, op) /\ op.kind = "migrate" /\ op.value = Migrated(ops[n].value)
        /\ draft' = draft /\ saved' = saved /\ error' = error
      BY <1>2, <1>4, <2>3, Awaiting DEF Stages
  <2>6. Protected(store) /\ op.stage = "write" => op.kind # "save" /\ op.value = Migrated(store)
      BY <2>4, <2>5
  <2> HIDE DEF op
  <2> QED BY <1>1, <1>2, <2>5, <2>6, DeliveryKeeps DEF IInv, Plain
<1> QED BY <1>3, <1>4 DEF MigrationInspected

LEMMA MigrationWrittenKeeps == ASSUME IInv, NEW n \in DOMAIN ops, MigrationWritten(n) PROVE IInv'
<1>1. Deliver(n, "migrate", "write")
    BY DEF MigrationWritten
<1>2. CASE Fail(n)
    BY <1>1, <1>2, FailureKeeps
<1>3. CASE /\ ops[n].value # Failure /\ Show(n, ops[n].value) /\ End(n)
           /\ draft' = [draft EXCEPT ![ops[n].tab] = Imported(ops[n].value)] /\ UNCHANGED error
  <2>1. ops[n].value \in Bytes
      BY <1>1, <1>3, Delivery DEF Step
  <2>2. draft' \in [Tabs -> Draft]
      BY <1>3, <2>1, Statuses DEF IInv, Plain
  <2> QED BY <1>1, <1>3, <2>2, ShowingKeeps DEF IInv, Plain
<1> QED BY <1>2, <1>3 DEF MigrationWritten

LEMMA RemovedKeeps == ASSUME IInv, NEW n \in DOMAIN ops, Removed(n) PROVE IInv'
<1>1. Deliver(n, "delete", "remove")
    BY DEF Removed
<1>2. CASE Fail(n)
    BY <1>1, <1>2, FailureKeeps
<1>3. CASE /\ ops[n].value # Failure /\ Show(n, NoBytes) /\ End(n)
           /\ error' = [error EXCEPT ![ops[n].tab] = FALSE] /\ UNCHANGED draft
  <2>1. ops[n].value = NoBytes
      BY <1>1, <1>3, Delivery DEF Step
  <2>2. error' \in [Tabs -> BOOLEAN] /\ draft' \in [Tabs -> Draft]
      BY <1>3 DEF IInv, Plain
  <2> QED BY <1>1, <1>3, <2>1, <2>2, ShowingKeeps
<1> QED BY <1>2, <1>3 DEF Removed

----------------------------------------------------------------------------
(* What the user does *)

LEMMA AnswerKeeps == ASSUME IInv, NEW n \in DOMAIN ops, NEW yes \in BOOLEAN, Answer(n, yes) PROVE IInv'
<1>1. /\ ops[n].stage = "confirm" /\ store' = store /\ replies' = replies /\ opened' = opened
      /\ draft' = draft /\ saved' = saved /\ error' = error
    BY DEF Answer
<1>2. n \notin ToSet(queue) /\ n \in Ids /\ ops[n] \in OperationRecords /\ Step(ops[n])
      /\ \A t \in Tabs : n \notin ToSet(replies[t])
    BY <1>1 DEF IInv, Waits, OpsHold
<1>3. Plain'
    BY <1>1 DEF IInv, Plain
<1>4. CASE End(n)
  <2>1. /\ DOMAIN ops' = DOMAIN ops \ {n} /\ queue' = queue
        /\ \A m \in DOMAIN ops' : ops'[m] = ops[m]
        /\ ops' = [m \in DOMAIN ops' |-> ops'[m]]
      BY <1>4, EndedOps DEF End, Restrict
  <2>2. OpsHold'
      BY <2>1, <1>1 DEF IInv, OpsHold
  <2>3. Waits'
      BY <2>1, <1>1, <1>2 DEF IInv, Waits, Line
  <2>4. Guarded'
      BY <2>1, <1>1 DEF IInv, Guarded, Protected
  <2>5. \A t \in Tabs : \A m \in ToSet(replies[t]) : ops'[m] = ops[m]
      BY <2>1, <1>2 DEF IInv, Waits, Line
  <2>6. ASSUME NEW t \in Tabs, opened = {t} PROVE Expects(t)' /\ Knows(t)'
    <3>1. Expects(t) /\ Knows(t)
        BY <2>6 DEF IInv, Informed
    <3>2. Expects(t)'
        BY <3>1, <2>5, <1>1 DEF Expects, Changed, ToSet
    <3>3. Knows(t)'
        BY <3>1, <2>1, <2>5, <1>1 DEF Knows, Changed
    <3> QED BY <3>2, <3>3
  <2> QED BY <1>1, <1>3, <2>2, <2>3, <2>4, <2>6 DEF IInv, Informed
<1>5. CASE /\ ops' = [ops EXCEPT ![n].stage = "read", ![n].confirmed = TRUE]
           /\ queue' = Append(queue, n)
  <2> DEFINE op == [ops[n] EXCEPT !.stage = "read", !.confirmed = TRUE]
  <2>1. /\ DOMAIN ops' = DOMAIN ops /\ ops'[n] = op
        /\ \A m \in DOMAIN ops : m # n => ops'[m] = ops[m]
        /\ ops' = [m \in DOMAIN ops' |-> ops'[m]]
      BY <1>5 DEF IInv, OpsHold
  <2>2. /\ op \in OperationRecords /\ Step(op) /\ op.tab = ops[n].tab /\ op.stage = "read"
        /\ op.transaction = "read"
      BY <1>1, <1>2 DEF OperationRecords, Stages, Step
  <2> HIDE DEF op
  <2>3. OpsHold'
      BY <2>1, <2>2, <1>1 DEF IInv, OpsHold
  <2>4. queue' \in Seq(Ids) /\ Distinct(queue') /\ ToSet(queue') = ToSet(queue) \cup {n}
      BY <1>5, <1>2, Pushed DEF IInv, Waits, Line
  <2>5. Waits'
    <3>1. Line(queue)' /\ \A t \in Tabs : Line(replies[t])'
        BY <1>1, <2>1, <2>4 DEF IInv, Waits, Line
    <3>2. \A m \in ToSet(queue') : ops'[m].stage # "confirm"
              /\ (ops'[m].transaction = "replace" => ops'[m].value # Failure)
        BY <2>1, <2>2, <2>4, <1>2 DEF IInv, Waits, Line
    <3>3. \A t \in Tabs : \A m \in ToSet(replies'[t]) :
              ops'[m].tab = t /\ ops'[m].stage # "confirm" /\ m \notin ToSet(queue')
        BY <1>1, <1>2, <2>1, <2>4 DEF IInv, Waits, Line
    <3> QED BY <1>1, <3>1, <3>2, <3>3 DEF IInv, Waits
  <2>6. Guarded'
    <3>1. ASSUME Protected(store), NEW m \in DOMAIN ops, m # n
          PROVE  /\ ops[m].kind \in {"save", "migrate"} /\ ops[m].stage = "read"
                    /\ m \in ToSet(replies[ops[m].tab]) => ops[m].value \in {store, Failure}
                 /\ ~(ops[m].kind = "save" /\ ops[m].stage = "write")
                 /\ ops[m].stage = "write" /\ m \in ToSet(queue') => ops[m].value = Migrated(store)
        BY <3>1, <2>4 DEF IInv, Guarded
    <3>2. n \notin ToSet(replies'[op.tab])
        BY <1>1, <1>2, <2>2 DEF OperationRecords
    <3> QED BY <1>1, <2>1, <2>2, <3>1, <3>2 DEF Guarded, Protected
  <2>7. \A t \in Tabs : \A m \in ToSet(replies[t]) : ops'[m] = ops[m]
      BY <2>1, <1>2 DEF IInv, Waits, Line
  <2>8. ASSUME NEW t \in Tabs, opened = {t} PROVE Expects(t)' /\ Knows(t)'
    <3>1. Expects(t) /\ Knows(t)
        BY <2>8 DEF IInv, Informed
    <3>2. Expects(t)'
        BY <3>1, <2>7, <1>1 DEF Expects, Changed, ToSet
    <3>3. Knows(t)'
        BY <3>1, <2>1, <2>7, <1>1 DEF Knows, Changed
    <3> QED BY <3>2, <3>3
  <2> QED BY <1>1, <1>3, <2>3, <2>5, <2>6, <2>8 DEF IInv, Informed
<1> QED BY <1>4, <1>5 DEF Answer

\* A use case begins: its operation is new, and so in no line.
LEMMA Begun ==
    ASSUME IInv, NEW op \in OperationRecords, Step(op), op.stage \notin {"confirm", "write"},
           op.tab \in opened', opened \subseteq opened', opened' \subseteq Tabs,
           Begins(op), UNCHANGED <<store, replies, draft, saved, error>>,
           opened' # opened => op.stage = "inspect"
    PROVE  IInv'
<1>1. PICK n \in Ids : /\ n \notin DOMAIN ops /\ queue' = Append(queue, n)
                       /\ ops' = [m \in DOMAIN ops \cup {n} |-> IF m = n THEN op ELSE ops[m]]
    BY DEF Begins, Ids
<1>2. n \notin ToSet(queue) /\ \A t \in Tabs : n \notin ToSet(replies[t])
    BY <1>1 DEF IInv, Waits, Line
<1>3. /\ DOMAIN ops' = DOMAIN ops \cup {n} /\ ops'[n] = op
      /\ \A m \in DOMAIN ops : m # n /\ ops'[m] = ops[m]
      /\ ops' = [m \in DOMAIN ops' |-> ops'[m]]
    BY <1>1
<1>4. queue' \in Seq(Ids) /\ Distinct(queue') /\ ToSet(queue') = ToSet(queue) \cup {n}
    BY <1>1, <1>2, Pushed DEF IInv, Waits, Line
<1>5. Plain'
    BY DEF IInv, Plain
<1>6. OpsHold'
    BY <1>3 DEF IInv, OpsHold
<1>7. Waits'
  <2>1. Line(queue)' /\ \A t \in Tabs : Line(replies[t])'
      BY <1>3, <1>4 DEF IInv, Waits, Line
  <2>2. op.transaction # "replace"
      BY DEF Step
  <2>3. \A m \in ToSet(queue') : ops'[m].stage # "confirm"
            /\ (ops'[m].transaction = "replace" => ops'[m].value # Failure)
      BY <1>3, <1>4, <2>2 DEF IInv, Waits, Line
  <2>4. \A t \in Tabs : \A m \in ToSet(replies'[t]) :
            ops'[m].tab = t /\ ops'[m].stage # "confirm" /\ m \notin ToSet(queue')
      BY <1>2, <1>3, <1>4 DEF IInv, Waits, Line
  <2> QED BY <2>1, <2>3, <2>4 DEF IInv, Waits
<1>8. Guarded'
  <2>1. ASSUME Protected(store), NEW m \in DOMAIN ops
        PROVE  /\ ops[m].kind \in {"save", "migrate"} /\ ops[m].stage = "read"
                  /\ m \in ToSet(replies[ops[m].tab]) => ops[m].value \in {store, Failure}
               /\ ~(ops[m].kind = "save" /\ ops[m].stage = "write")
               /\ ops[m].stage = "write" /\ m \in ToSet(queue') => ops[m].value = Migrated(store)
      BY <1>3, <1>4, <2>1 DEF IInv, Guarded
  <2>2. n \notin ToSet(replies'[op.tab])
      BY <1>2
  <2> QED BY <1>3, <2>1, <2>2 DEF Guarded, Protected
<1>9. \A t \in Tabs : \A m \in ToSet(replies[t]) : ops'[m] = ops[m]
    BY <1>3 DEF IInv, Waits, Line
<1>10. ASSUME NEW t \in Tabs, opened' = {t} PROVE Expects(t)' /\ Knows(t)'
  <2>1. CASE opened = {t}
    <3>1. Expects(t) /\ Knows(t)
        BY <2>1 DEF IInv, Informed
    <3>2. Expects(t)'
        BY <3>1, <1>9 DEF Expects, Changed, ToSet
    <3>3. Knows(t)'
        BY <3>1, <1>3, <1>9 DEF Knows, Changed
    <3> QED BY <3>2, <3>3
  <2>2. CASE opened # {t}
    <3>1. opened = {} /\ op.stage = "inspect"
        BY <1>10, <2>2
    <3>2. DOMAIN ops = {}
        BY <3>1 DEF IInv, OpsHold
    <3>3. ToSet(replies[t]) = {}
        BY <3>2 DEF IInv, Waits, Line
    <3>4. Expects(t)'
        BY <3>3 DEF Expects, ToSet
    <3>5. Knows(t)'
        BY <3>1, <1>3 DEF Knows
    <3> QED BY <3>4, <3>5
  <2> QED BY <2>1, <2>2
<1> QED BY <1>5, <1>6, <1>7, <1>8, <1>10 DEF IInv, Informed

LEMMA OpenKeeps == ASSUME IInv, NEW t \in Tabs, Open(t) PROVE IInv'
<1> DEFINE op == Operation(t, "open", "inspect", "read", NoDraft)
<1>1. op \in OperationRecords /\ Step(op) /\ op.stage = "inspect" /\ op.tab = t
    BY DEF Operation, OperationRecords, Step, Kinds, Stages, Stored
<1>2. /\ opened' = opened \cup {t} /\ Begins(op) /\ UNCHANGED <<store, replies, draft, saved, error>>
      /\ opened \subseteq Tabs
    BY DEF Open, IInv, Plain
<1> HIDE DEF op
<1> QED BY <1>1, <1>2, Begun

LEMMA StartKeeps ==
    ASSUME IInv, NEW t \in Tabs, Save(t) \/ Migrate(t) \/ Delete(t)
    PROVE  IInv'
<1>1. ASSUME NEW op \in OperationRecords, Step(op), op.stage \notin {"confirm", "write"},
             op.tab = t, CanStart(t), Starts(op)
      PROVE  IInv'
  <2>1. /\ t \in opened /\ opened' = opened /\ opened \subseteq Tabs /\ Begins(op)
        /\ UNCHANGED <<store, replies, draft, saved, error>>
      BY <1>1 DEF CanStart, Starts, IInv, Plain
  <2> QED BY <1>1, <2>1, Begun
<1>2. CASE Save(t)
  <2> DEFINE op == Operation(t, "save", "read", "read", draft[t])
  <2>1. /\ op \in OperationRecords /\ Step(op) /\ op.stage \notin {"confirm", "write"} /\ op.tab = t
      BY DEF Operation, OperationRecords, Step, Kinds, Stages, Stored, IInv, Plain
  <2>2. CanStart(t) /\ Starts(op)
      BY <1>2 DEF Save
  <2> HIDE DEF op
  <2> QED BY <1>1, <2>1, <2>2
<1>3. CASE Migrate(t)
  <2> DEFINE op == Operation(t, "migrate", "read", "read", NoDraft)
  <2>1. /\ op \in OperationRecords /\ Step(op) /\ op.stage \notin {"confirm", "write"} /\ op.tab = t
      BY DEF Operation, OperationRecords, Step, Kinds, Stages, Stored
  <2>2. CanStart(t) /\ Starts(op)
      BY <1>3 DEF Migrate
  <2> HIDE DEF op
  <2> QED BY <1>1, <2>1, <2>2
<1>4. CASE Delete(t)
  <2> DEFINE op == Operation(t, "delete", "remove", "remove", NoDraft)
  <2>1. /\ op \in OperationRecords /\ Step(op) /\ op.stage \notin {"confirm", "write"} /\ op.tab = t
      BY DEF Operation, OperationRecords, Step, Kinds, Stages, Stored
  <2>2. CanStart(t) /\ Starts(op)
      BY <1>4 DEF Delete
  <2> HIDE DEF op
  <2> QED BY <1>1, <2>1, <2>2
<1> QED BY <1>2, <1>3, <1>4

\* A step that changes at most the drafts.
LEMMA DraftKeeps ==
    ASSUME IInv, draft' \in [Tabs -> Draft],
           UNCHANGED <<store, queue, replies, ops, opened, saved, error>>
    PROVE  IInv'
<1>1. Plain'
    BY DEF IInv, Plain
<1>2. OpsHold'
    BY DEF IInv, OpsHold
<1>3. Waits'
    BY DEF IInv, Waits, Line
<1>4. Guarded'
    BY DEF IInv, Guarded, Protected
<1>5. Informed'
    BY DEF IInv, Informed, Expects, Knows, Changed
<1> QED BY <1>1, <1>2, <1>3, <1>4, <1>5 DEF IInv

LEMMA EditorKeeps == ASSUME IInv, NEW t \in Tabs, Load(t) \/ Edit(t) PROVE IInv'
<1>1. CASE Load(t)
  <2>1. saved[t] \in Bytes
      BY <1>1, Statuses DEF Load, IInv, Plain
  <2>2. draft' \in [Tabs -> Draft]
      BY <1>1, <2>1, Statuses DEF Load, IInv, Plain
  <2> QED BY <1>1, <2>2, DraftKeeps DEF Load
<1>2. CASE Edit(t)
    BY <1>2, DraftKeeps DEF Edit, IInv, Plain
<1> QED BY <1>1, <1>2

----------------------------------------------------------------------------
(* Transactions *)

\* A transaction hands its tab a completion: the bytes now stored, or a failure.
LEMMA TransactionKeeps ==
    ASSUME IInv, queue # <<>>, NEW n, n = Head(queue), NEW value, Complete(n, value),
           \/ value = Failure /\ store' = store
           \/ /\ value \in Stored /\ store' = value
              /\ ops[n].transaction = "read" => value = store
              /\ ops[n].stage = "write" => value = ops[n].value
              /\ ops[n].kind = "delete" => value = NoBytes
    PROVE  IInv'
<1>0. SUFFICES ASSUME NEW u, u = ops[n].tab, NEW done, done = Append(replies[u], n)
    PROVE  IInv'
    OBVIOUS
<1>1. /\ n \in Ids /\ n \in ToSet(queue) /\ queue' = Tail(queue) /\ queue' \in Seq(Ids)
      /\ Distinct(queue') /\ ToSet(queue') = ToSet(queue) \ {n}
    BY Popped DEF Complete, IInv, Waits, Line
<1>2. /\ n \in DOMAIN ops /\ ops[n] \in OperationRecords /\ Step(ops[n]) /\ u \in opened
      /\ u \in Tabs /\ ops[n].stage # "confirm" /\ \A t \in Tabs : n \notin ToSet(replies[t])
      /\ ops[n].transaction = "replace" => ops[n].value # Failure
    BY <1>0, <1>1 DEF IInv, Waits, Line, OpsHold, Plain
<1>3. /\ ops' = [ops EXCEPT ![n].value = value] /\ replies' = [replies EXCEPT ![u] = done]
      /\ opened' = opened /\ draft' = draft /\ saved' = saved /\ error' = error
    BY <1>0 DEF Complete, Reply
<1>4. value \in Stored \cup {Failure} /\ store' \in Stored
    BY DEF IInv, Plain
<1>5. /\ DOMAIN ops' = DOMAIN ops /\ ops'[n] = [ops[n] EXCEPT !.value = value]
      /\ \A m \in DOMAIN ops : m # n => ops'[m] = ops[m]
      /\ ops' = [m \in DOMAIN ops' |-> ops'[m]]
    BY <1>2, <1>3 DEF IInv, OpsHold
<1>6. /\ ops'[n] \in OperationRecords /\ ops'[n].value = value /\ ops'[n].tab = u
      /\ ops'[n].stage = ops[n].stage /\ ops'[n].transaction = ops[n].transaction
      /\ ops'[n].kind = ops[n].kind /\ ops'[n].draft = ops[n].draft
    BY <1>0, <1>2, <1>4, <1>5 DEF OperationRecords
<1>7. Step(ops'[n])
    BY <1>2, <1>6 DEF Step
<1>8. /\ done \in Seq(Ids) /\ Distinct(done) /\ ToSet(done) = ToSet(replies[u]) \cup {n}
      /\ Len(replies[u]) \in Nat /\ DOMAIN replies[u] = 1..Len(replies[u])
      /\ DOMAIN done = 1..Len(replies[u]) + 1 /\ done[Len(replies[u]) + 1] = n
      /\ \A i \in DOMAIN replies[u] : done[i] = replies[u][i]
    BY <1>0, <1>1, <1>2, Pushed DEF IInv, Waits, Line
<1>9. DOMAIN replies' = Tabs /\ \A t \in Tabs : replies'[t] = IF t = u THEN done ELSE replies[t]
    BY <1>2, <1>3 DEF IInv, Waits
<1>10. Plain'
    BY <1>3, <1>4 DEF IInv, Plain
<1>11. OpsHold'
    BY <1>2, <1>3, <1>5, <1>6, <1>7 DEF IInv, OpsHold
<1>12. Waits'
  <2>1. Line(queue)' /\ \A t \in Tabs : Line(replies[t])'
    <3>1. Line(queue)'
        BY <1>1, <1>5 DEF IInv, Waits, Line
    <3>2. ASSUME NEW t \in Tabs, t # u PROVE Line(replies[t])'
        BY <1>5, <1>9, <3>2 DEF IInv, Waits, Line
    <3>3. Line(replies[u])'
        BY <1>2, <1>5, <1>8, <1>9 DEF IInv, Waits, Line
    <3> QED BY <3>1, <3>2, <3>3
  <2>2. \A m \in ToSet(queue') : ops'[m].stage # "confirm"
            /\ (ops'[m].transaction = "replace" => ops'[m].value # Failure)
      BY <1>1, <1>5 DEF IInv, Waits, Line
  <2>3. ASSUME NEW t \in Tabs, NEW m \in ToSet(replies'[t])
        PROVE  ops'[m].tab = t /\ ops'[m].stage # "confirm" /\ m \notin ToSet(queue')
    <3>1. CASE m = n
        BY <1>1, <1>2, <1>6, <1>9, <2>3, <3>1
    <3>2. CASE m # n
      <4>1. m \in ToSet(replies[t])
          BY <1>8, <1>9, <2>3, <3>2
      <4> QED BY <1>1, <1>5, <3>2, <4>1 DEF IInv, Waits, Line
    <3> QED BY <3>1, <3>2
  <2> QED BY <1>9, <2>1, <2>2, <2>3 DEF Waits
<1>13. store' = store \/ /\ ops[n].transaction \in {"replace", "remove"} /\ value # Failure
                         /\ ~Protected(store')
  <2>1. CASE value = Failure
      BY <2>1, Statuses
  <2>2. CASE value # Failure /\ ops[n].transaction = "read"
      BY <2>2
  <2>3. CASE value # Failure /\ ops[n].transaction = "replace"
    <3>1. value = ops[n].value /\ store' = value
        BY <1>2, <2>3 DEF Step
    <3>2. value \in Bytes /\ value.format = "current"
        BY <1>2, <2>3, <3>1 DEF Step
    <3>3. ~Protected(value)
        BY <3>2, Statuses DEF Stored
    <3> QED BY <2>3, <3>1, <3>3
  <2>4. CASE value # Failure /\ ops[n].transaction = "remove"
      BY <1>2, <2>4, Statuses DEF Step
  <2> QED BY <1>2, <2>1, <2>2, <2>3, <2>4 DEF OperationRecords
<1>14. Guarded'
  <2> SUFFICES ASSUME Protected(store'), NEW m \in DOMAIN ops
      PROVE  /\ ops'[m].kind \in {"save", "migrate"} /\ ops'[m].stage = "read"
                /\ m \in ToSet(replies'[ops'[m].tab]) => ops'[m].value \in {store', Failure}
             /\ ~(ops'[m].kind = "save" /\ ops'[m].stage = "write")
             /\ ops'[m].stage = "write" /\ m \in ToSet(queue') => ops'[m].value = Migrated(store')
      BY <1>5 DEF Guarded, Protected, Status
  <2>1. store' = store /\ Protected(store)
      BY <1>13
  <2>2. CASE m = n
    <3>1. ops[n].stage = "read" => ops[n].transaction = "read"
        BY <1>2 DEF Step, OperationRecords
    <3>2. ops[n].stage = "read" => value \in {store, Failure}
        BY <3>1
    <3>3. ~(ops[n].kind = "save" /\ ops[n].stage = "write")
        BY <1>2, <2>1 DEF IInv, Guarded
    <3> QED BY <1>1, <1>6, <2>1, <2>2, <3>2, <3>3
  <2>3. CASE m # n
    <3>1. ops'[m] = ops[m] /\ ops[m].tab \in Tabs
        BY <1>5, <2>3 DEF IInv, OpsHold, Plain
    <3>2. m \in ToSet(replies'[ops[m].tab]) => m \in ToSet(replies[ops[m].tab])
        BY <1>8, <1>9, <2>3, <3>1
    <3> QED BY <1>1, <2>1, <3>1, <3>2 DEF IInv, Guarded
  <2> QED BY <2>2, <2>3
<1>15. ASSUME NEW t \in Tabs, opened = {t} PROVE Expects(t)' /\ Knows(t)'
  <2>1. t = u /\ replies'[t] = done /\ Expects(t) /\ Knows(t)
      BY <1>0, <1>2, <1>9, <1>15 DEF IInv, Informed
  <2>2. \A m \in ToSet(replies[t]) : m # n /\ ops'[m] = ops[m]
      BY <1>2, <1>5, <2>1 DEF IInv, Waits, Line
  <2>3. store' = store \/ Changed(n)'
      BY <1>6, <1>13 DEF Changed
  <2>4. value \in {store', Failure}
      OBVIOUS
  <2>5. Expects(t)'
    <3> SUFFICES ASSUME NEW i \in DOMAIN done
        PROVE  \/ ops'[done[i]].value \in {store', Failure}
               \/ \E j \in DOMAIN done : i < j /\ Changed(done[j])'
        BY <1>9, <2>1 DEF Expects
    <3>1. CASE i = Len(replies[u]) + 1
        BY <1>6, <1>8, <2>4, <3>1
    <3>2. CASE i \in DOMAIN replies[u]
      <4>1. done[i] = replies[t][i] /\ replies[t][i] \in ToSet(replies[t])
          BY <1>8, <2>1, <3>2 DEF ToSet
      <4>2. CASE Changed(n)'
        <5>1. PICK j \in DOMAIN done : i < j /\ done[j] = n
            BY <1>8, <3>2
        <5>2. Changed(done[j])'
            BY <4>2, <5>1 DEF Changed
        <5> QED BY <5>1, <5>2
      <4>3. CASE store' = store /\ ops[replies[t][i]].value \in {store, Failure}
          BY <2>2, <4>1, <4>3
      <4>4. CASE store' = store /\ \E j \in DOMAIN replies[t] : i < j /\ Changed(replies[t][j])
        <5>1. PICK j \in DOMAIN replies[t] : i < j /\ Changed(replies[t][j])
            BY <4>4
        <5>2. j \in DOMAIN done /\ done[j] = replies[t][j] /\ replies[t][j] \in ToSet(replies[t])
            BY <1>8, <2>1, <5>1 DEF ToSet
        <5>3. ops'[replies[t][j]].transaction \in {"replace", "remove"} /\ ops'[replies[t][j]].value # Failure
            BY <2>2, <5>1, <5>2 DEF Changed
        <5> QED BY <5>1, <5>2, <5>3 DEF Changed
      <4> QED BY <2>1, <2>3, <3>2, <4>2, <4>3, <4>4 DEF Expects
    <3> QED BY <1>8, <3>1, <3>2
  <2>6. Knows(t)'
    <3>1. CASE store' = store
        BY <1>3, <1>5, <1>6, <1>8, <2>1, <2>2, <3>1 DEF Knows, Changed
    <3>2. CASE Changed(n)'
        BY <1>8, <2>1, <3>2 DEF Knows, Changed
    <3> QED BY <2>3, <3>1, <3>2
  <2> QED BY <2>5, <2>6
<1> QED BY <1>3, <1>10, <1>11, <1>12, <1>14, <1>15 DEF IInv, Informed

LEMMA TransactsKeeps == ASSUME IInv, Transacts PROVE IInv'
<1>1. CASE TransactionFails
    BY <1>1, TransactionKeeps DEF TransactionFails
<1>2. CASE TransactionRuns
  <2> SUFFICES ASSUME NEW n, n = Head(queue), queue # <<>> PROVE IInv'
      BY <1>2 DEF TransactionRuns
  <2>1. ops[n] \in OperationRecords /\ Step(ops[n]) /\ n \in ToSet(queue)
      BY Popped DEF IInv, Waits, Line, OpsHold
  <2>2. /\ ops[n].transaction = "read" => ops[n].stage # "write" /\ ops[n].kind # "delete"
        /\ ops[n].transaction = "replace" => /\ ops[n].stage = "write" /\ ops[n].kind # "delete"
                                             /\ ops[n].value \in Stored
        /\ ops[n].transaction = "remove" => ops[n].stage # "write"
    <3>1. ops[n].transaction = "replace" => ops[n].value # Failure
        BY <2>1 DEF IInv, Waits
    <3> QED BY <2>1, <3>1 DEF Step, Stored
  <2>3. CASE ops[n].transaction = "read" /\ Complete(n, store) /\ UNCHANGED store
      BY <2>2, <2>3, TransactionKeeps DEF IInv, Plain
  <2>4. CASE ops[n].transaction = "replace" /\ Complete(n, ops[n].value) /\ store' = ops[n].value
      BY <2>2, <2>4, TransactionKeeps
  <2>5. CASE ops[n].transaction = "remove" /\ Complete(n, NoBytes) /\ store' = NoBytes
      BY <2>2, <2>5, TransactionKeeps, Statuses
  <2> QED BY <1>2, <2>3, <2>4, <2>5 DEF TransactionRuns
<1> QED BY <1>1, <1>2 DEF Transacts

----------------------------------------------------------------------------
LEMMA Initially == Init => IInv
<1> SUFFICES ASSUME Init PROVE IInv
    OBVIOUS
<1>1. /\ queue = <<>> /\ ops = <<>> /\ opened = {} /\ DOMAIN ops = {} /\ DOMAIN queue = {}
      /\ \A t \in Tabs : replies[t] = <<>> /\ DOMAIN replies[t] = {}
    BY DEF Init
<1>2. Plain
    BY PersistenceAssumption DEF Init, Plain, Stored
<1>3. OpsHold
  <2>1. ops = [m \in DOMAIN ops |-> ops[m]]
      BY <1>1
  <2> QED BY <1>1, <2>1 DEF OpsHold
<1>4. Waits
    BY <1>1 DEF Init, Waits, Line, Distinct, ToSet
<1>5. Guarded
    BY <1>1 DEF Guarded
<1>6. Informed
    BY <1>1 DEF Informed
<1> QED BY <1>2, <1>3, <1>4, <1>5, <1>6 DEF IInv

LEMMA Inductive == IInv /\ [Next]_vars => IInv'
<1> SUFFICES ASSUME IInv, [Next]_vars PROVE IInv'
    OBVIOUS
<1>1. CASE Transacts
    BY <1>1, TransactsKeeps
<1>2. ASSUME NEW n \in DOMAIN ops, Continue(n) PROVE IInv'
    BY <1>2, InspectedKeeps, SaveInspectedKeeps, SaveWrittenKeeps, MigrationInspectedKeeps,
       MigrationWrittenKeeps, RemovedKeeps DEF Continue
<1>3. ASSUME NEW n \in DOMAIN ops, NEW yes \in BOOLEAN, Answer(n, yes) PROVE IInv'
    BY <1>3, AnswerKeeps
<1>4. ASSUME NEW t \in Tabs, Open(t) PROVE IInv'
    BY <1>4, OpenKeeps
<1>5. ASSUME NEW t \in Tabs, Save(t) \/ Migrate(t) \/ Delete(t) PROVE IInv'
    BY <1>5, StartKeeps
<1>6. ASSUME NEW t \in Tabs, Load(t) \/ Edit(t) PROVE IInv'
    BY <1>6, EditorKeeps
<1>7. CASE UNCHANGED vars
    BY <1>7, DraftKeeps DEF vars, IInv, Plain
<1> QED BY <1>1, <1>2, <1>3, <1>4, <1>5, <1>6, <1>7 DEF Next

LEMMA Invariance == Spec => []IInv
<1> QED BY Initially, Inductive, PTL DEF Spec

\* Every variable keeps its type, and every queued transaction its use case.
THEOREM TypeCorrect == Spec => []TypeOK
<1>1. IInv => TypeOK
  <2> SUFFICES ASSUME IInv PROVE TypeOK
      OBVIOUS
  <2>1. \A n \in DOMAIN ops : /\ ops[n].tab \in Tabs /\ ops[n].draft \in Draft \cup {NoDraft}
                              /\ ops[n].value \in Stored \cup {Failure}
      BY DEF IInv, OpsHold, OperationRecords
  <2> QED BY <2>1 DEF IInv, Plain, OpsHold, Waits, Line, TypeOK, Ids
<1> QED BY <1>1, Invariance, PTL

\* In any number of overlapping use cases, a tab that has the origin to itself
\* ends up showing what is stored, or an error (savePersonalModel,
\* migratePersistedPersonalModel, deletePersistedPersonalModel and their handlers).
THEOREM TabShowsStore == Spec => []SavedStateIsStored
<1>1. IInv => SavedStateIsStored
  <2> SUFFICES ASSUME IInv, NEW t \in Tabs, opened = {t}, Settled(t) PROVE saved[t] = store
      BY DEF SavedStateIsStored
  <2>1. DOMAIN ops = {} /\ ~error[t]
      BY DEF Settled
  <2>2. ToSet(replies[t]) = {}
      BY <2>1 DEF IInv, Waits, Line
  <2> QED BY <2>1, <2>2 DEF IInv, Informed, Knows
<1> QED BY <1>1, Invariance, PTL

\* Whatever the tabs do at the same time, bytes the application cannot read are
\* replaced only by their own migration and removed only on request.
THEOREM ProtectedBytesAreKept == Spec => ProtectedBytesSurvive
<1> DEFINE Kept == store.format \in {"old", "unusable"} /\ store' # store =>
                       \/ ops[Head(queue)].kind = "delete"
                       \/ ops[Head(queue)].kind = "migrate" /\ store' = Migrated(store)
<1>1. IInv /\ [Next]_vars => [Kept]_vars
  <2> SUFFICES ASSUME IInv, Next, store.format \in {"old", "unusable"}, store' # store
      PROVE  \/ ops[Head(queue)].kind = "delete"
             \/ ops[Head(queue)].kind = "migrate" /\ store' = Migrated(store)
      OBVIOUS
  <2>1. TransactionRuns
      BY DEF Next, Transacts, TransactionFails, Continue, Inspected, SaveInspected, SaveWritten,
             MigrationInspected, MigrationWritten, Removed, Deliver, Answer, Open, Save, Migrate,
             Delete, Starts, Load, Edit
  <2> SUFFICES ASSUME NEW n, n = Head(queue), queue # <<>>
      PROVE  ops[n].kind = "delete" \/ (ops[n].kind = "migrate" /\ store' = Migrated(store))
      BY <2>1 DEF TransactionRuns
  <2>2. n \in ToSet(queue) /\ n \in DOMAIN ops
      BY Popped DEF IInv, Waits, Line
  <2>3. ops[n] \in OperationRecords /\ Step(ops[n])
      BY <2>2 DEF IInv, OpsHold
  <2>4. Protected(store)
      BY Statuses DEF IInv, Plain
  <2>5. CASE ops[n].transaction = "replace" /\ store' = ops[n].value
      BY <2>2, <2>3, <2>4, <2>5 DEF IInv, Guarded, Step, OperationRecords, Kinds
  <2>6. CASE ops[n].transaction = "remove"
      BY <2>3, <2>6 DEF Step
  <2> QED BY <2>1, <2>5, <2>6 DEF TransactionRuns
<1> QED BY <1>1, Invariance, PTL DEF Spec, ProtectedBytesSurvive
=============================================================================
