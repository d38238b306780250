--------------------------- MODULE Timeline_proofs ---------------------------
(***************************************************************************)
(* Timeline for every set of plans, horizons and work: results can always  *)
(* be resumed, occurrences happen once, and a run implements PeriodLog.     *)
(* The inductive invariant relates the period in execution to the period   *)
(* committed last, which is what makes a commit a whole and final step.    *)
(* Memory relates what is registered to what the primitive states hold.    *)
(***************************************************************************)
EXTENDS Timeline, SequenceTheorems, WellFoundedInduction, TLAPS

\* What a period did between two states: each effect once, none done before.
Faithful(opening, effects, closing) ==
  /\ \A j, k \in DOMAIN effects : effects[j] = effects[k] => j = k
  /\ \A j \in DOMAIN effects : effects[j] \notin opening.ids
  /\ closing.ids = opening.ids \cup {effects[j] : j \in DOMAIN effects}

\* The pairs of states in the system belong together.
Pairs ==
  /\ \A h \in held : Consistent(h.state, h.store)
  /\ Consistent(call.state, call.store)
  /\ \A i \in DOMAIN committed : Consistent(committed[i].state, committed[i].store)
  /\ candidate.open => Consistent(candidate.state, candidate.store)

\* The candidate is what its effects made of the state committed last.
CandidateFaithful ==
  candidate.open => Faithful(Last.state, candidate.effects, candidate.state)

\* The committed periods are the first of the plan, the candidate's the next.
OnPlan ==
  /\ result.status = "running" => Contiguous(call.plan, call.horizon) /\ call.horizon \in Horizons
  /\ candidate.open => /\ result.status = "running"
                       /\ Len(committed) < Len(call.plan)
                       /\ candidate.period = call.plan[Len(committed) + 1]
  /\ Len(committed) <= Len(call.plan)
  /\ \A i \in DOMAIN committed : committed[i].period = call.plan[i]

IInv == TypeOK /\ Pairs /\ CandidateFaithful /\ OnPlan /\ OccurrenceOnce

----------------------------------------------------------------------------
(* Naturals and sequences *)

\* A nonempty set of natural numbers has a least member.
LEMMA LeastMember ==
  ASSUME NEW T \in SUBSET Nat, T # {}
  PROVE  \E x \in T : \A y \in T : x <= y
<1> DEFINE R == OpToRel(<, Nat)
<1>1. \A x, y \in Nat : <<y, x>> \in R <=> y < x
  BY DEF OpToRel
<1>2. IsWellFoundedOn(R, Nat)
  BY NatLessThanWellFounded
<1> HIDE DEF R
<1>3. PICK x \in T : \A y \in T : ~ (<<y, x>> \in R)
  BY <1>2, WFMin
<1>4. \A y \in T : x <= y
  <2> TAKE y \in T
  <2>1. ~(y < x)
    BY <1>1, <1>3
  <2> QED BY <2>1
<1> QED BY <1>4

\* No period of a contiguous plan ends after the horizon: otherwise the last
\* that does, counted from the end, would be followed by one that does not.
LEMMA PlanWithinHorizon ==
  ASSUME NEW plan \in Seq(Period), NEW horizon \in Period, Contiguous(plan, horizon),
         NEW i \in DOMAIN plan
  PROVE  plan[i].end <= horizon.end
<1> DEFINE T == {k \in Nat : k < Len(plan) /\ plan[Len(plan) - k].end > horizon.end}
<1>0. /\ Len(plan) \in Nat /\ DOMAIN plan = 1..Len(plan)
      /\ \A j \in 1..Len(plan) : plan[j] \in Period
  BY LenProperties, ElementOfSeq
<1>1. T = {}
  <2> SUFFICES ASSUME T # {} PROVE FALSE
    OBVIOUS
  <2>1. PICK k \in T : \A y \in T : k <= y
    BY LeastMember
  <2>2. k \in Nat /\ k < Len(plan) /\ plan[Len(plan) - k].end > horizon.end
    BY <2>1
  <2>3. CASE k = 0
    BY <2>2, <2>3, <1>0 DEF Contiguous, Period
  <2>4. CASE k # 0
    <3> DEFINE j == Len(plan) - k + 1
    <3>1. j \in 2..Len(plan) /\ j \in 1..Len(plan) /\ j - 1 \in 1..Len(plan) /\ j - 1 = Len(plan) - k
      BY <2>2, <2>4, <1>0
    <3>2. k - 1 \in Nat /\ k - 1 < Len(plan) /\ Len(plan) - (k - 1) = j
      BY <2>2, <2>4, <1>0
    <3>3. ~(k <= k - 1)
      BY <2>2
    <3>4. k - 1 \notin T
      BY <2>1, <3>3
    <3>5. ~(plan[j].end > horizon.end)
      BY <3>2, <3>4
    <3>6. plan[j].start = plan[j - 1].end /\ plan[j].start < plan[j].end
      BY <3>1, <1>0 DEF Contiguous
    <3>7. plan[j - 1].end > horizon.end
      BY <2>2, <3>1
    <3>8. plan[j] \in Period /\ plan[j - 1] \in Period
      BY <3>1, <1>0
    <3>9. /\ plan[j].start \in Nat /\ plan[j].end \in Nat /\ plan[j - 1].end \in Nat
          /\ horizon.end \in Nat
      BY <3>8 DEF Period
    <3> HIDE DEF j
    <3> QED BY <3>5, <3>6, <3>7, <3>9, SMTT(60)
  <2> QED BY <2>3, <2>4
<1>2. Len(plan) - i \notin T /\ Len(plan) - i \in Nat /\ Len(plan) - i < Len(plan)
      /\ Len(plan) - (Len(plan) - i) = i
  BY <1>0, <1>1
<1>3. ~(plan[i].end > horizon.end)
  BY <1>2
<1> QED BY <1>0, <1>3 DEF Period

----------------------------------------------------------------------------
(* Sequences of identities *)

\* The members of a concatenation are those of its parts.
LEMMA MembersConcat ==
  ASSUME NEW S, NEW s \in Seq(S), NEW t \in Seq(S)
  PROVE  Members(s \o t) = Members(s) \cup Members(t)
<1>1. /\ s \o t \in Seq(S) /\ Len(s \o t) = Len(s) + Len(t)
      /\ \A i \in 1..Len(s) : (s \o t)[i] = s[i]
      /\ \A i \in 1..Len(t) : (s \o t)[Len(s) + i] = t[i]
  BY ConcatProperties
<1>2. /\ DOMAIN s = 1..Len(s) /\ DOMAIN t = 1..Len(t) /\ DOMAIN (s \o t) = 1..(Len(s) + Len(t))
      /\ Len(s) \in Nat /\ Len(t) \in Nat
  BY <1>1, LenProperties
<1>3. \A i \in DOMAIN s : i \in DOMAIN (s \o t) /\ (s \o t)[i] = s[i]
  BY <1>1, <1>2
<1>4. \A i \in DOMAIN t : Len(s) + i \in DOMAIN (s \o t) /\ (s \o t)[Len(s) + i] = t[i]
  BY <1>1, <1>2
<1>5. \A i \in DOMAIN (s \o t) :
        \/ i \in DOMAIN s /\ (s \o t)[i] = s[i]
        \/ i - Len(s) \in DOMAIN t /\ (s \o t)[i] = t[i - Len(s)]
  <2> TAKE i \in DOMAIN (s \o t)
  <2>1. CASE i <= Len(s)
    BY <2>1, <1>1, <1>2
  <2>2. CASE i > Len(s)
    <3>1. i - Len(s) \in 1..Len(t) /\ Len(s) + (i - Len(s)) = i
      BY <2>2, <1>2
    <3> QED BY <3>1, <1>1, <1>2
  <2> QED BY <2>1, <2>2, <1>2
<1>6. \A x \in Members(s \o t) : x \in Members(s) \cup Members(t)
  BY <1>5 DEF Members
<1>7. \A x \in Members(s) : x \in Members(s \o t)
  BY <1>3 DEF Members
<1>8. \A x \in Members(t) : x \in Members(s \o t)
  <2> TAKE x \in Members(t)
  <2>1. PICK i \in DOMAIN t : x = t[i]
    BY DEF Members
  <2>2. Len(s) + i \in DOMAIN (s \o t) /\ x = (s \o t)[Len(s) + i]
    BY <2>1, <1>4
  <2> QED BY <2>2 DEF Members
<1> QED BY <1>6, <1>7, <1>8

\* Concatenation repeats nothing if its parts do not and share nothing.
LEMMA ConcatDistinct ==
  ASSUME NEW S, NEW s \in Seq(S), NEW t \in Seq(S),
         \A j, k \in DOMAIN s : s[j] = s[k] => j = k,
         \A j, k \in DOMAIN t : t[j] = t[k] => j = k,
         \A k \in DOMAIN t : t[k] \notin Members(s)
  PROVE  \A j, k \in DOMAIN (s \o t) : (s \o t)[j] = (s \o t)[k] => j = k
<1>1. /\ s \o t \in Seq(S) /\ Len(s \o t) = Len(s) + Len(t)
      /\ \A i \in 1..Len(s) : (s \o t)[i] = s[i]
      /\ \A i \in 1..Len(t) : (s \o t)[Len(s) + i] = t[i]
  BY ConcatProperties
<1>2. /\ DOMAIN s = 1..Len(s) /\ DOMAIN t = 1..Len(t) /\ DOMAIN (s \o t) = 1..(Len(s) + Len(t))
      /\ Len(s) \in Nat /\ Len(t) \in Nat
  BY <1>1, LenProperties
<1>3. \A i \in DOMAIN (s \o t) :
        \/ i \in DOMAIN s /\ (s \o t)[i] = s[i]
        \/ i - Len(s) \in DOMAIN t /\ (s \o t)[i] = t[i - Len(s)]
  <2> TAKE i \in DOMAIN (s \o t)
  <2>1. CASE i <= Len(s)
    BY <2>1, <1>1, <1>2
  <2>2. CASE i > Len(s)
    <3>1. i - Len(s) \in 1..Len(t) /\ Len(s) + (i - Len(s)) = i
      BY <2>2, <1>2
    <3> QED BY <3>1, <1>1, <1>2
  <2> QED BY <2>1, <2>2, <1>2
<1> TAKE j, k \in DOMAIN (s \o t)
<1> HAVE (s \o t)[j] = (s \o t)[k]
<1>4. CASE j \in DOMAIN s /\ (s \o t)[j] = s[j] /\ k \in DOMAIN s /\ (s \o t)[k] = s[k]
  BY <1>4
<1>5. CASE j - Len(s) \in DOMAIN t /\ (s \o t)[j] = t[j - Len(s)]
           /\ k - Len(s) \in DOMAIN t /\ (s \o t)[k] = t[k - Len(s)]
  <2>1. j - Len(s) = k - Len(s)
    BY <1>5
  <2> QED BY <2>1, <1>2
<1>6. CASE j \in DOMAIN s /\ (s \o t)[j] = s[j]
           /\ k - Len(s) \in DOMAIN t /\ (s \o t)[k] = t[k - Len(s)]
  BY <1>6 DEF Members
<1>7. CASE j - Len(s) \in DOMAIN t /\ (s \o t)[j] = t[j - Len(s)]
           /\ k \in DOMAIN s /\ (s \o t)[k] = s[k]
  BY <1>7 DEF Members
<1> QED BY <1>3, <1>4, <1>5, <1>6, <1>7

\* Emits gives the identity if the condition holds, else nothing.
LEMMA EmitsSound ==
  ASSUME NEW condition \in BOOLEAN, NEW identity, NEW S, condition => identity \in S
  PROVE  /\ Emits(condition, identity) \in Seq(S)
         /\ Members(Emits(condition, identity)) = IF condition THEN {identity} ELSE {}
<1>1. CASE condition
  BY <1>1 DEF Emits, Members
<1>2. CASE ~condition
  BY <1>2 DEF Emits, Members
<1> QED BY <1>1, <1>2
----------------------------------------------------------------------------
(* Items *)

PrimitiveItem == [kind : Stateful \cup {"P03"}, instance : Instances, at : Nat,
                  until : Nat \cup {NoInstant}, evaluation : Nat]

\* The kind of an item decides its fields.
LEMMA ItemKinds ==
  ASSUME NEW item \in Item
  PROVE  /\ item.kind \in Stateful \cup {"P03"} => item \in PrimitiveItem
         /\ item.kind \notin Stateful \cup {"P03", "semantic"} => item.kind = "diagnostic"
         /\ item.kind = "semantic" => /\ item.id \in STRING /\ item.amount \in Int
                                      /\ item.cites \in Identities \cup {NoIdentity}
  BY DEF Item, PrimitiveItem, Stateful

\* What a primitive does are identities; for one with a state they are its
\* first and second occurrence, as far as each happens.
LEMMA EffectsSound ==
  ASSUME NEW item \in PrimitiveItem, NEW period \in Period, NEW entry
  PROVE  /\ Effects(item, period, entry) \in Seq(Identities)
         /\ item.kind \in Stateful =>
              Members(Effects(item, period, entry)) =
                (IF Applies(item, period, entry) THEN {First(item)} ELSE {})
                \cup (IF Reverts(item, period, entry) THEN {Second(item)} ELSE {})
<1>1. First(item) \in Identities
  BY DEF First, Occurrence, EffectOf, Identities, PrimitiveItem
<1>2. item.until # NoInstant => Second(item) \in Identities
  BY DEF Second, Occurrence, Identities, PrimitiveItem
<1>3. InPeriod(item.until, period) => item.until # NoInstant
  BY DEF InPeriod, NoInstant, Period
<1>4. CASE item.kind = "P03"
  <2>1. InPeriod(item.at, period) \in BOOLEAN /\ InPeriod(item.until, period) \in BOOLEAN
    BY DEF InPeriod
  <2>2. /\ Emits(InPeriod(item.at, period), First(item)) \in Seq(Identities)
        /\ Emits(InPeriod(item.until, period), Second(item)) \in Seq(Identities)
    BY <2>1, <1>1, <1>2, <1>3, EmitsSound
  <2>3. Effects(item, period, entry) = Emits(InPeriod(item.at, period), First(item))
                                       \o Emits(InPeriod(item.until, period), Second(item))
    BY <1>4 DEF Effects, Stateful
  <2>4. item.kind \notin Stateful
    BY <1>4 DEF Stateful
  <2> QED BY <2>2, <2>3, <2>4, ConcatProperties
<1>5. CASE item.kind \in Stateful
  <2>1. Applies(item, period, entry) \in BOOLEAN /\ Reverts(item, period, entry) \in BOOLEAN
    BY DEF Applies, Pending, Reverts
  <2>2. Reverts(item, period, entry) => Second(item) \in Identities
    BY <1>2, <1>3 DEF Reverts
  <2> DEFINE first == Emits(Applies(item, period, entry), First(item))
             second == Emits(Reverts(item, period, entry), Second(item))
  <2>3. /\ first \in Seq(Identities)
        /\ Members(first) = IF Applies(item, period, entry) THEN {First(item)} ELSE {}
    BY <2>1, <1>1, EmitsSound
  <2>4. /\ second \in Seq(Identities)
        /\ Members(second) = IF Reverts(item, period, entry) THEN {Second(item)} ELSE {}
    BY <2>1, <2>2, EmitsSound
  <2>5. Effects(item, period, entry) = first \o second
    BY <1>5 DEF Effects, Stateful
  <2> HIDE DEF first, second
  <2>6. first \o second \in Seq(Identities)
        /\ Members(first \o second) = Members(first) \cup Members(second)
    BY <2>3, <2>4, ConcatProperties, MembersConcat
  <2> QED BY <2>3, <2>4, <2>5, <2>6
<1> QED BY <1>4, <1>5 DEF PrimitiveItem

\* The next entry claims no occurrence but those of the entry and the effects.
LEMMA NextEntrySound ==
  ASSUME NEW item \in PrimitiveItem, item.kind \in Stateful,
         NEW period \in Period, NEW entry \in EntryType
  PROVE  /\ NextEntry(item, period, entry) \in EntryType
         /\ Identified(NextEntry(item, period, entry)) \subseteq
              Identified(entry) \cup Members(Effects(item, period, entry))
<1>1. First(item) \in Identities
  BY DEF First, Occurrence, EffectOf, Identities, PrimitiveItem
<1>2. Reverts(item, period, entry) => Second(item) \in Identities
  BY DEF Reverts, InPeriod, NoInstant, Period, Second, Occurrence, Identities, PrimitiveItem
<1>3. NextEntry(item, period, entry) \in EntryType
  BY <1>1, <1>2 DEF NextEntry, EntryType
<1>4. Members(Effects(item, period, entry)) =
        (IF Applies(item, period, entry) THEN {First(item)} ELSE {})
        \cup (IF Reverts(item, period, entry) THEN {Second(item)} ELSE {})
  BY EffectsSound
<1>5. /\ NextEntry(item, period, entry).first \in {entry.first} \cup Members(Effects(item, period, entry))
      /\ NextEntry(item, period, entry).second \in {entry.second} \cup Members(Effects(item, period, entry))
  BY <1>4 DEF NextEntry
<1> QED BY <1>3, <1>5 DEF Identified

\* What an item registers are identities.
LEMMA RegistersType ==
  ASSUME NEW item \in Item, candidate.period \in Period
  PROVE  Registers(item) \in Seq(Identities)
<1>1. CASE item.kind = "semantic"
  <2>1. /\ Emits(item.cites # NoIdentity, item.cites) \in Seq(Identities)
        /\ <<<<"transaction", item.id>>>> \in Seq(Identities)
    <3>1. (item.cites # NoIdentity) \in BOOLEAN
          /\ (item.cites # NoIdentity => item.cites \in Identities)
      BY <1>1, ItemKinds
    <3>2. <<"transaction", item.id>> \in Identities
      BY <1>1, ItemKinds DEF Identities
    <3>3. Emits(item.cites # NoIdentity, item.cites) \in Seq(Identities)
      BY <3>1, EmitsSound
    <3>4. <<<<"transaction", item.id>>>> \in Seq(Identities)
      BY <3>2
    <3> QED BY <3>3, <3>4
  <2> QED BY <1>1, <2>1, ConcatProperties DEF Registers
<1>2. CASE item.kind = "diagnostic"
  BY <1>2 DEF Registers
<1>3. CASE item.kind \in Stateful \cup {"P03"}
  <2>1. item.kind # "semantic" /\ item.kind # "diagnostic"
    BY <1>3 DEF Stateful
  <2>2. item \in PrimitiveItem
    BY <1>3, ItemKinds
  <2> QED BY <2>1, <2>2, EffectsSound DEF Registers
<1> QED BY <1>1, <1>2, <1>3, ItemKinds
----------------------------------------------------------------------------
(* The candidate *)

Candidates == [open : BOOLEAN, period : Period, state : StateType, store : StoreType,
               effects : Seq(Identities), todo : SUBSET Item]

\* Executing an accepted item keeps the candidate typed, its two states
\* consistent with one another, and its effects faithful.
LEMMA AfterSound ==
  ASSUME candidate \in Candidates, NEW item \in candidate.todo, Accepted(item),
         Consistent(candidate.state, candidate.store),
         NEW opening, Faithful(opening, candidate.effects, candidate.state)
  PROVE  /\ After(item) \in Candidates
         /\ After(item).open = candidate.open /\ After(item).period = candidate.period
         /\ Consistent(After(item).state, After(item).store)
         /\ Faithful(opening, After(item).effects, After(item).state)
<1> DEFINE ids == Registers(item)
           kept == candidate.store[item.instance]
<1>1. item \in Item /\ candidate.period \in Period /\ candidate.state \in StateType
      /\ candidate.store \in StoreType /\ candidate.effects \in Seq(Identities)
  BY DEF Candidates
<1>2. ids \in Seq(Identities)
  BY <1>1, RegistersType
<1>3. /\ After(item).open = candidate.open /\ After(item).period = candidate.period
      /\ After(item).todo = candidate.todo \ {item}
      /\ After(item).effects = candidate.effects \o ids
      /\ After(item).state = [ids |-> candidate.state.ids \cup Members(ids),
                             cash |-> IF item.kind = "semantic" THEN candidate.state.cash + item.amount
                                      ELSE candidate.state.cash]
      /\ After(item).store = IF item.kind \in Stateful
                             THEN [candidate.store EXCEPT
                                     ![item.instance] = NextEntry(item, candidate.period, kept)]
                             ELSE candidate.store
  <2>1. /\ After(item).open = candidate.open
        /\ After(item).period = candidate.period
        /\ After(item).todo = candidate.todo \ {item}
        /\ After(item).effects = candidate.effects \o ids
        /\ After(item).state = StateAfter(item)
        /\ After(item).store = StoreAfter(item)
    BY DEF After, Candidates
  <2> QED BY <2>1 DEF StateAfter, StoreAfter
<1>4. Members(ids) \subseteq Identities
  BY <1>2, LenProperties, ElementOfSeq DEF Members
<1>5. item.kind = "semantic" => item.amount \in Int /\ candidate.state.cash + item.amount >= 0
  BY <1>1, ItemKinds DEF Accepted
<1>6. After(item).state \in StateType
  BY <1>1, <1>3, <1>4, <1>5 DEF StateType
<1>7. item.kind \in Stateful =>
        /\ item \in PrimitiveItem /\ item.instance \in Instances /\ kept \in EntryType
        /\ NextEntry(item, candidate.period, kept) \in EntryType
        /\ Identified(NextEntry(item, candidate.period, kept)) \subseteq Identified(kept) \cup Members(ids)
  <2> HAVE item.kind \in Stateful
  <2>1. item \in PrimitiveItem
    BY <1>1, ItemKinds
  <2>2. item.instance \in Instances
    BY <2>1 DEF PrimitiveItem
  <2>3. kept \in EntryType
    BY <1>1, <2>2 DEF StoreType
  <2>4. ids = Effects(item, candidate.period, kept)
    BY DEF Registers, Entry, Stateful
  <2> QED BY <1>1, <2>1, <2>2, <2>3, <2>4, NextEntrySound
<1>8. After(item).store \in StoreType
  BY <1>1, <1>3, <1>7 DEF StoreType
<1>9. After(item).effects \in Seq(Identities)
  BY <1>1, <1>2, <1>3, ConcatProperties
<1>10. After(item) \in Candidates
  <2>1. StateAfter(item) \in StateType /\ StoreAfter(item) \in StoreType
        /\ candidate.effects \o Registers(item) \in Seq(Identities)
    BY <1>3, <1>6, <1>8, <1>9 DEF StateAfter, StoreAfter
  <2> QED BY <2>1 DEF After, Candidates
<1>11. Consistent(After(item).state, After(item).store)
  <2> SUFFICES ASSUME NEW i \in Instances
               PROVE  Identified(After(item).store[i]) \subseteq After(item).state.ids
    BY DEF Consistent
  <2>1. Identified(candidate.store[i]) \subseteq candidate.state.ids
    BY DEF Consistent
  <2>2. CASE item.kind \in Stateful /\ i = item.instance
    <3>1. After(item).store[i] = NextEntry(item, candidate.period, kept)
      BY <1>1, <1>3, <2>2 DEF StoreType
    <3> QED BY <1>3, <1>7, <2>1, <2>2, <3>1
  <2>3. CASE ~(item.kind \in Stateful /\ i = item.instance)
    <3>1. After(item).store[i] = candidate.store[i]
      BY <1>1, <1>3, <2>3 DEF StoreType
    <3> QED BY <1>3, <2>1, <3>1
  <2> QED BY <2>2, <2>3
<1>12. Faithful(opening, After(item).effects, After(item).state)
  <2>1. /\ \A i \in DOMAIN ids : ids[i] \notin candidate.state.ids
        /\ \A j, k \in DOMAIN ids : ids[j] = ids[k] => j = k
    BY DEF Accepted, Fresh
  <2>2. candidate.state.ids = opening.ids \cup Members(candidate.effects)
    BY DEF Faithful, Members
  <2>3. \A j, k \in DOMAIN candidate.effects :
          candidate.effects[j] = candidate.effects[k] => j = k
    BY DEF Faithful
  <2> DEFINE all == candidate.effects \o ids
  <2>4. \A j, k \in DOMAIN all : all[j] = all[k] => j = k
    BY <1>1, <1>2, <2>1, <2>2, <2>3, ConcatDistinct
  <2>5. Members(all) = Members(candidate.effects) \cup Members(ids)
    BY <1>1, <1>2, MembersConcat
  <2>6. \A id \in Members(all) : id \notin opening.ids
    <3>1. \A id \in Members(candidate.effects) : id \notin opening.ids
      BY DEF Faithful, Members
    <3>2. \A id \in Members(ids) : id \notin opening.ids
      BY <2>1, <2>2 DEF Members
    <3> QED BY <2>5, <3>1, <3>2
  <2>7. \A j \in DOMAIN all : all[j] \notin opening.ids
    BY <2>6 DEF Members
  <2>8. After(item).state.ids = opening.ids \cup Members(all)
    BY <1>3, <2>2, <2>5
  <2>9. After(item).effects = all
    BY <1>3
  <2> HIDE DEF all
  <2> QED BY <2>4, <2>7, <2>8, <2>9 DEF Faithful, Members
<1> QED BY <1>3, <1>10, <1>11, <1>12
----------------------------------------------------------------------------
(* The inductive invariant *)

LEMMA EmptyStoreType == EmptyStore \in StoreType /\ NoEntry \in EntryType
  BY DEF EmptyStore, StoreType, EntryType, NoEntry

\* A store that claims nothing agrees with every state.
LEMMA EmptyStoreConsistent == ASSUME NEW state PROVE Consistent(state, EmptyStore)
  BY DEF Consistent, EmptyStore, NoEntry, Identified

LEMMA NoCandidateType == NoCandidate \in Candidates /\ ~NoCandidate.open
<1>1. OpeningState \in StateType
  BY DEF OpeningState, StateType
<1>2. NoPeriod \in Period
  BY DEF NoPeriod, Period
<1>3. <<>> \in Seq(Identities)
  OBVIOUS
<1> QED BY <1>1, <1>2, <1>3, EmptyStoreType DEF NoCandidate, Candidates

\* What is known of the present call, the committed periods and the candidate.
LEMMA Shapes ==
  ASSUME TypeOK
  PROVE  /\ candidate \in Candidates
         /\ call.plan \in Seq(Period) /\ call.state \in StateType /\ call.store \in StoreType
         /\ DOMAIN committed = 1..Len(committed) /\ Len(committed) \in Nat
         /\ \A i \in DOMAIN committed : /\ committed[i].period \in Period
                                        /\ committed[i].state \in StateType
                                        /\ committed[i].store \in StoreType
                                        /\ committed[i].effects \in Seq(Identities)
         /\ Last.state \in StateType /\ Last.store \in StoreType
<1>1. candidate \in Candidates
  BY DEF TypeOK, Candidates
<1>2. call.plan \in Seq(Period) /\ call.state \in StateType /\ call.store \in StoreType
  <2>1. /\ call.plan \in Plans \cup {<<>>}
        /\ call.state \in StateType /\ call.store \in StoreType
    BY DEF TypeOK
  <2>2. Plans \subseteq Seq(Period) /\ <<>> \in Seq(Period)
    BY TimelineAssumption DEF TimelineAssumption
  <2> QED BY <2>1, <2>2
<1>3. /\ DOMAIN committed = 1..Len(committed) /\ Len(committed) \in Nat
      /\ \A i \in DOMAIN committed : /\ committed[i].period \in Period
                                     /\ committed[i].state \in StateType
                                     /\ committed[i].store \in StoreType
                                     /\ committed[i].effects \in Seq(Identities)
      /\ committed # <<>> => Len(committed) \in DOMAIN committed
  <2> DEFINE Commits == [period : Period, state : StateType, store : StoreType,
                         effects : Seq(Identities)]
  <2>1. committed \in Seq(Commits)
    BY DEF TypeOK
  <2> HIDE DEF Commits
  <2>2. /\ DOMAIN committed = 1..Len(committed) /\ Len(committed) \in Nat
        /\ \A i \in DOMAIN committed : committed[i] \in Commits
        /\ committed # <<>> => Len(committed) # 0
    BY <2>1, LenProperties, ElementOfSeq, EmptySeq
  <2> QED BY <2>2 DEF Commits
<1>4. Last.state \in StateType /\ Last.store \in StoreType
  BY <1>2, <1>3 DEF Last
<1> QED BY <1>1, <1>2, <1>3, <1>4

LEMMA Initial == Init => IInv
<1> SUFFICES ASSUME Init PROVE IInv
  OBVIOUS
<1> USE DEF Init
<1>1. /\ OpeningState \in StateType /\ NoPeriod \in Period /\ EmptyStore \in StoreType
      /\ candidate \in Candidates /\ ~candidate.open
  BY EmptyStoreType, NoCandidateType DEF OpeningState, StateType, NoPeriod, Period
<1>2. TypeOK
  <2>1. held \subseteq [state : StateType, store : StoreType, whole : BOOLEAN]
    BY <1>1 DEF Held
  <2>2. call \in [state : StateType, store : StoreType, whole : BOOLEAN,
                  plan : Plans \cup {<<>>}, horizon : Horizons \cup {NoPeriod}]
    BY <1>1
  <2>3. result \in [status : {"none", "running", "completed", "incomplete", "invalid_model", "threw"},
                    reached : Nat \cup {NoInstant}, stopped : Nat \cup {NoInstant}]
    BY DEF Answer
  <2>4. runs \in 0..MaxRuns
    BY TimelineAssumption DEF TimelineAssumption
  <2>5. committed \in Seq([period : Period, state : StateType, store : StoreType,
                           effects : Seq(Identities)])
    OBVIOUS
  <2>6. candidate \in [open : BOOLEAN, period : Period, state : StateType, store : StoreType,
                       effects : Seq(Identities), todo : SUBSET Item]
    BY <1>1 DEF Candidates
  <2> HIDE DEF Init
  <2> QED BY <2>1, <2>2, <2>3, <2>4, <2>5, <2>6 DEF TypeOK
<1>3. Pairs
  BY <1>1, EmptyStoreConsistent DEF Pairs, Held
<1>4. CandidateFaithful /\ OccurrenceOnce
  BY <1>1 DEF CandidateFaithful, OccurrenceOnce
<1>5. OnPlan
  BY <1>1 DEF OnPlan, Answer
<1> QED BY <1>2, <1>3, <1>4, <1>5 DEF IInv
----------------------------------------------------------------------------
(* The steps of the invariant *)

ResultType == [status : {"none", "running", "completed", "incomplete", "invalid_model", "threw"},
               reached : Nat \cup {NoInstant}, stopped : Nat \cup {NoInstant}]

\* A call pairs a state of the caller with a store it has, or is refused.
LEMMA CallStep ==
  ASSUME IInv, NEW h \in held, NEW store \in Stores, NEW plan \in Plans, NEW horizon \in Horizons,
         Call(h, store, plan, horizon)
  PROVE  IInv'
<1> USE DEF IInv
<1>1. /\ result.status # "running" /\ runs < MaxRuns /\ runs' = runs + 1
      /\ committed' = <<>> /\ held' = held /\ candidate' = candidate
  BY DEF Call
<1>2. ~candidate.open
  BY <1>1 DEF OnPlan
<1>3. store \in StoreType
  BY EmptyStoreType DEF Stores, TypeOK
<1>4. h.state \in StateType /\ h.whole \in BOOLEAN
  BY DEF TypeOK
<1>5. plan \in Plans \cup {<<>>} /\ horizon \in Horizons \cup {NoPeriod}
  OBVIOUS
<1>6. /\ call' \in [state : StateType, store : StoreType, whole : BOOLEAN,
                    plan : Plans \cup {<<>>}, horizon : Horizons \cup {NoPeriod}]
      /\ result' \in ResultType
      /\ Consistent(call'.state, call'.store)
      /\ result'.status = "running" => Contiguous(call'.plan, call'.horizon) /\ call'.horizon \in Horizons
  <2>1. CASE Contiguous(plan, horizon) /\ Consistent(h.state, store)
    <3>1. /\ call' = [state |-> h.state, store |-> store, plan |-> plan, horizon |-> horizon,
                     whole |-> h.whole /\ store = h.store]
          /\ result' = Running
      BY <2>1 DEF Call
    <3>2. result' \in ResultType
      BY <3>1 DEF Running, Answer, ResultType
    <3>3. (h.whole /\ store = h.store) \in BOOLEAN
      OBVIOUS
    <3> QED BY <2>1, <3>1, <3>2, <3>3, <1>3, <1>4, <1>5
  <2>2. CASE ~(Contiguous(plan, horizon) /\ Consistent(h.state, store))
    <3>1. call' = call /\ result' = Answer("invalid_model", NoInstant, NoInstant)
      BY <2>2 DEF Call
    <3> QED BY <3>1 DEF Answer, ResultType, TypeOK, Pairs
  <2> QED BY <2>1, <2>2
<1>7. TypeOK'
  <2>1. runs' \in 0..MaxRuns
    BY <1>1, TimelineAssumption DEF TypeOK, TimelineAssumption
  <2>2. committed' \in Seq([period : Period, state : StateType, store : StoreType,
                            effects : Seq(Identities)])
    BY <1>1
  <2>3. /\ held' \subseteq [state : StateType, store : StoreType, whole : BOOLEAN]
        /\ candidate' \in [open : BOOLEAN, period : Period, state : StateType, store : StoreType,
                           effects : Seq(Identities), todo : SUBSET Item]
    BY <1>1 DEF TypeOK
  <2> QED BY <1>6, <2>1, <2>2, <2>3 DEF TypeOK, ResultType
<1>8. DOMAIN committed' = {} /\ Len(committed') = 0
  BY <1>1
<1>9. Pairs'
  BY <1>1, <1>2, <1>6, <1>8 DEF Pairs
<1>10. CandidateFaithful' /\ OccurrenceOnce'
  BY <1>1, <1>2, <1>8 DEF CandidateFaithful, OccurrenceOnce
<1>11. OnPlan'
  <2>1. call'.plan \in Seq(Period)
    <3>1. Plans \subseteq Seq(Period) /\ <<>> \in Seq(Period)
      BY TimelineAssumption DEF TimelineAssumption
    <3> QED BY <1>6, <3>1
  <2>2. 0 <= Len(call'.plan)
    BY <2>1, LenProperties
  <2> QED BY <1>1, <1>2, <1>6, <1>8, <2>2 DEF OnPlan
<1> QED BY <1>7, <1>9, <1>10, <1>11

\* A period opens on what was committed last, with nothing done.
LEMMA OpenStep ==
  ASSUME IInv, NEW todo \in WorkSets, OpenPeriod(todo)
  PROVE  IInv'
<1> USE DEF IInv
<1>1. /\ result.status = "running" /\ ~candidate.open /\ Len(committed) < Len(call.plan)
      /\ candidate' = [open |-> TRUE, period |-> call.plan[Len(committed) + 1], state |-> Last.state,
                       store |-> Last.store, effects |-> <<>>, todo |-> todo]
      /\ Consistent(Last.state, Last.store)
      /\ UNCHANGED <<held, call, committed, result, runs>>
  BY DEF OpenPeriod
<1>2. /\ call.plan \in Seq(Period) /\ Last.state \in StateType /\ Last.store \in StoreType
      /\ Len(committed) \in Nat
  BY Shapes
<1>3. Len(committed) + 1 \in 1..Len(call.plan)
  BY <1>1, <1>2, LenProperties
<1>4. call.plan[Len(committed) + 1] \in Period
  BY <1>2, <1>3, ElementOfSeq
<1>5. todo \in SUBSET Item
  BY TimelineAssumption DEF TimelineAssumption
<1>6. candidate' \in [open : BOOLEAN, period : Period, state : StateType, store : StoreType,
                      effects : Seq(Identities), todo : SUBSET Item]
  BY <1>1, <1>2, <1>4, <1>5
<1>7. TypeOK'
  BY <1>1, <1>6 DEF TypeOK
<1>8. Last' = Last
  BY <1>1 DEF Last
<1>9. Pairs'
  BY <1>1 DEF Pairs
<1>10. CandidateFaithful'
  <2>1. Faithful(Last.state, <<>>, Last.state)
    BY DEF Faithful
  <2>2. candidate'.state = Last.state /\ candidate'.effects = <<>>
    BY <1>1
  <2> QED BY <1>8, <2>1, <2>2 DEF CandidateFaithful
<1>11. OnPlan'
  BY <1>1 DEF OnPlan
<1>12. OccurrenceOnce'
  BY <1>1 DEF OccurrenceOnce, OpeningOf
<1> QED BY <1>7, <1>9, <1>10, <1>11, <1>12

\* An item changes the candidate as AfterSound says and nothing else.
LEMMA ExecuteStep ==
  ASSUME IInv, NEW item \in candidate.todo, Execute(item)
  PROVE  IInv'
<1> USE DEF IInv
<1>1. /\ candidate.open /\ Accepted(item) /\ candidate' = After(item)
      /\ UNCHANGED <<held, call, committed, result, runs>>
  BY DEF Execute
<1>2. candidate \in Candidates
  BY Shapes
<1>3. Consistent(candidate.state, candidate.store)
      /\ Faithful(Last.state, candidate.effects, candidate.state)
  BY <1>1 DEF Pairs, CandidateFaithful
<1>4. /\ candidate' \in Candidates
      /\ candidate'.open = candidate.open /\ candidate'.period = candidate.period
      /\ Consistent(candidate'.state, candidate'.store)
      /\ Faithful(Last.state, candidate'.effects, candidate'.state)
  BY <1>1, <1>2, <1>3, AfterSound
<1>5. TypeOK'
  BY <1>1, <1>4 DEF TypeOK, Candidates
<1>6. Pairs'
  BY <1>1, <1>4 DEF Pairs
<1>7. Last' = Last
  BY <1>1 DEF Last
<1>8. CandidateFaithful'
  BY <1>4, <1>7 DEF CandidateFaithful
<1>9. OnPlan'
  BY <1>1, <1>4 DEF OnPlan
<1>10. OccurrenceOnce'
  BY <1>1 DEF OccurrenceOnce, OpeningOf
<1> QED BY <1>5, <1>6, <1>8, <1>9, <1>10
\* A commit appends what the candidate did to what was committed last.
LEMMA CommitStep ==
  ASSUME IInv, CommitPeriod
  PROVE  IInv'
<1> USE DEF IInv
<1> DEFINE entry == [period |-> candidate.period, state |-> candidate.state,
                     store |-> candidate.store, effects |-> candidate.effects]
           Commits == [period : Period, state : StateType, store : StoreType,
                       effects : Seq(Identities)]
           n == Len(committed)
<1>1. /\ candidate.open /\ committed' = Append(committed, entry) /\ candidate' = NoCandidate
      /\ UNCHANGED <<held, call, result, runs>>
  BY DEF CommitPeriod
<1>2. committed \in Seq(Commits) /\ entry \in Commits
  BY DEF TypeOK
<1> HIDE DEF Commits, entry
<1>3. /\ committed' \in Seq(Commits) /\ Len(committed') = n + 1 /\ n \in Nat
      /\ DOMAIN committed' = 1..(n + 1) /\ DOMAIN committed = 1..n
      /\ \A i \in 1..n : committed'[i] = committed[i]
      /\ committed'[n + 1] = entry
  BY <1>1, <1>2, AppendProperties, LenProperties
<1>4. /\ entry.period = candidate.period /\ entry.state = candidate.state
      /\ entry.store = candidate.store /\ entry.effects = candidate.effects
  BY DEF entry
<1>5. TypeOK'
  <2>1. candidate' \in [open : BOOLEAN, period : Period, state : StateType, store : StoreType,
                        effects : Seq(Identities), todo : SUBSET Item]
    BY <1>1, NoCandidateType DEF Candidates
  <2>2. committed' \in Seq([period : Period, state : StateType, store : StoreType,
                            effects : Seq(Identities)])
    BY <1>3 DEF Commits
  <2> QED BY <1>1, <2>1, <2>2 DEF TypeOK
<1>6. ~candidate'.open
  BY <1>1, NoCandidateType
<1>7. Pairs'
  <2>1. \A i \in DOMAIN committed' : Consistent(committed'[i].state, committed'[i].store)
    <3> TAKE i \in DOMAIN committed'
    <3>1. CASE i \in 1..n
      BY <3>1, <1>3 DEF Pairs
    <3>2. CASE i = n + 1
      BY <3>2, <1>1, <1>3, <1>4 DEF Pairs
    <3> QED BY <3>1, <3>2, <1>3
  <2> QED BY <1>1, <1>6, <2>1 DEF Pairs
<1>8. CandidateFaithful'
  BY <1>6 DEF CandidateFaithful
<1>9. OnPlan'
  <2>1. Len(committed) < Len(call.plan) /\ candidate.period = call.plan[n + 1]
    BY <1>1 DEF OnPlan
  <2>2. call.plan \in Seq(Period)
    BY Shapes
  <2>3. Len(committed') <= Len(call'.plan)
    BY <1>1, <1>3, <2>1, <2>2, LenProperties
  <2>4. \A i \in DOMAIN committed' : committed'[i].period = call'.plan[i]
    <3> TAKE i \in DOMAIN committed'
    <3>1. CASE i \in 1..n
      BY <3>1, <1>1, <1>3 DEF OnPlan
    <3>2. CASE i = n + 1
      BY <3>2, <1>1, <1>3, <1>4, <2>1
    <3> QED BY <3>1, <3>2, <1>3
  <2> QED BY <1>1, <1>6, <2>3, <2>4 DEF OnPlan
<1>10. OccurrenceOnce'
  <2>1. \A i \in 1..(n + 1) : Faithful(OpeningOf(i)', committed'[i].effects, committed'[i].state)
    <3> TAKE i \in 1..(n + 1)
    <3>1. CASE i \in 1..n
      <4>1. OpeningOf(i)' = OpeningOf(i)
        <5>1. CASE i = 1
          BY <5>1, <1>1 DEF OpeningOf
        <5>2. CASE i # 1
          <6>1. i - 1 \in 1..n
            BY <3>1, <5>2, <1>3
          <6> QED BY <5>2, <6>1, <1>3 DEF OpeningOf
        <5> QED BY <5>1, <5>2
      <4>2. Faithful(OpeningOf(i), committed[i].effects, committed[i].state)
        BY <3>1, <1>3 DEF OccurrenceOnce, Faithful
      <4> QED BY <3>1, <4>1, <4>2, <1>3
    <3>2. CASE i = n + 1
      <4>1. OpeningOf(i)' = Last.state
        <5>1. CASE n = 0
          <6>1. committed = <<>>
            BY <5>1, <1>2, EmptySeq
          <6> QED BY <3>2, <5>1, <6>1, <1>1 DEF OpeningOf, Last
        <5>2. CASE n # 0
          <6>1. committed # <<>> /\ i # 1 /\ i - 1 = n /\ n \in 1..n
            BY <3>2, <5>2, <1>3
          <6> QED BY <6>1, <1>3 DEF OpeningOf, Last
        <5> QED BY <5>1, <5>2
      <4>2. Faithful(Last.state, candidate.effects, candidate.state)
        BY <1>1 DEF CandidateFaithful
      <4> QED BY <3>2, <4>1, <4>2, <1>3, <1>4
    <3> QED BY <3>1, <3>2, <1>3
  <2> QED BY <1>3, <2>1 DEF OccurrenceOnce, Faithful
<1> QED BY <1>5, <1>7, <1>8, <1>9, <1>10

\* Returning adds to what the caller holds pairs that were committed.
LEMMA ReturnStep ==
  ASSUME IInv, NEW answer \in ResultType, answer.status # "running", Return(answer)
  PROVE  IInv'
<1> USE DEF IInv
<1>1. /\ result' = answer /\ candidate' = NoCandidate
      /\ held' = held \cup {Held(committed[i].state, committed[i].store, call.whole) : i \in DOMAIN committed}
      /\ UNCHANGED <<call, committed, runs>>
  BY DEF Return
<1>2. candidate' \in Candidates /\ ~candidate'.open
  BY <1>1, NoCandidateType
<1>3. \A h \in held' : \/ h \in held
                       \/ \E i \in DOMAIN committed :
                            h = Held(committed[i].state, committed[i].store, call.whole)
  BY <1>1
<1>4. TypeOK'
  <2>1. call.whole \in BOOLEAN
    BY DEF TypeOK
  <2>2. \A i \in DOMAIN committed :
          Held(committed[i].state, committed[i].store, call.whole)
            \in [state : StateType, store : StoreType, whole : BOOLEAN]
    BY <2>1, Shapes DEF Held
  <2>3. held' \subseteq [state : StateType, store : StoreType, whole : BOOLEAN]
    BY <1>3, <2>2 DEF TypeOK
  <2> QED BY <1>1, <1>2, <2>3 DEF TypeOK, Candidates, ResultType
<1>5. Pairs'
  <2>1. \A h \in held' : Consistent(h.state, h.store)
    BY <1>3 DEF Pairs, Held
  <2> QED BY <1>1, <1>2, <2>1 DEF Pairs
<1>6. CandidateFaithful'
  BY <1>2 DEF CandidateFaithful
<1>7. OnPlan'
  BY <1>1, <1>2 DEF OnPlan
<1>8. OccurrenceOnce'
  BY <1>1 DEF OccurrenceOnce, OpeningOf
<1> QED BY <1>4, <1>5, <1>6, <1>7, <1>8

\* What Stop and Complete answer.
LEMMA AnswersTyped ==
  ASSUME IInv
  PROVE  /\ \A item : Stop(item) =>
              \E answer \in ResultType : answer.status # "running" /\ Return(answer)
         /\ Complete => \E answer \in ResultType : answer.status # "running" /\ Return(answer)
<1>1. ReachedThrough \in Nat \cup {NoInstant}
  <2>1. CASE committed = <<>>
    BY <2>1 DEF ReachedThrough
  <2>2. CASE committed # <<>>
    <3>1. Len(committed) \in DOMAIN committed
      <4>1. committed \in Seq([period : Period, state : StateType, store : StoreType,
                               effects : Seq(Identities)])
        BY DEF IInv, TypeOK
      <4> QED BY <2>2, <4>1, EmptySeq, LenProperties
    <3> QED BY <2>2, <3>1, Shapes DEF ReachedThrough, IInv, Period
  <2> QED BY <2>1, <2>2
<1>2. candidate.period.start \in Nat
  BY Shapes DEF IInv, Candidates, Period
<1>3. call.horizon.end \in Nat
  <2>1. Horizons \subseteq Period
    BY TimelineAssumption DEF TimelineAssumption
  <2>2. call.horizon \in Horizons \cup {NoPeriod}
    BY DEF IInv, TypeOK
  <2> QED BY <2>1, <2>2 DEF NoPeriod, Period
<1>4. \A item : Stop(item) =>
        \E answer \in ResultType : answer.status # "running" /\ Return(answer)
  BY <1>1, <1>2 DEF Stop, Answer, ResultType
<1>5. Complete => \E answer \in ResultType : answer.status # "running" /\ Return(answer)
  BY <1>3 DEF Complete, Answer, ResultType
<1> QED BY <1>4, <1>5
\* An error that escapes drops the candidate.
LEMMA EscapeStep ==
  ASSUME IInv, Escape
  PROVE  IInv'
<1> USE DEF IInv
<1>1. /\ result' = Answer("threw", NoInstant, NoInstant) /\ candidate' = NoCandidate
      /\ UNCHANGED <<held, call, committed, runs>>
  BY DEF Escape
<1>2. candidate' \in Candidates /\ ~candidate'.open
  BY <1>1, NoCandidateType
<1>3. result' \in ResultType /\ result'.status # "running"
  BY <1>1 DEF Answer, ResultType
<1>4. TypeOK'
  BY <1>1, <1>2, <1>3 DEF TypeOK, Candidates, ResultType
<1>5. Pairs' /\ CandidateFaithful'
  BY <1>1, <1>2 DEF Pairs, CandidateFaithful
<1>6. OnPlan' /\ OccurrenceOnce'
  BY <1>1, <1>2, <1>3 DEF OnPlan, OccurrenceOnce, OpeningOf
<1> QED BY <1>4, <1>5, <1>6

LEMMA Inductive == IInv /\ [Next]_vars => IInv'
<1> SUFFICES ASSUME IInv, [Next]_vars PROVE IInv'
  OBVIOUS
<1>1. ASSUME NEW h \in held, NEW store \in Stores, NEW plan \in Plans, NEW horizon \in Horizons,
             Call(h, store, plan, horizon)
      PROVE  IInv'
  BY <1>1, CallStep
<1>2. ASSUME NEW todo \in WorkSets, OpenPeriod(todo) PROVE IInv'
  BY <1>2, OpenStep
<1>3. ASSUME NEW item \in candidate.todo, Execute(item) PROVE IInv'
  BY <1>3, ExecuteStep
<1>4. ASSUME NEW item \in candidate.todo, Stop(item) PROVE IInv'
  BY <1>4, AnswersTyped, ReturnStep
<1>5. CASE CommitPeriod
  BY <1>5, CommitStep
<1>6. CASE Complete
  BY <1>6, AnswersTyped, ReturnStep
<1>7. CASE Escape
  BY <1>7, EscapeStep
<1>8. CASE UNCHANGED vars
  BY <1>8 DEF vars, IInv, TypeOK, Pairs, CandidateFaithful, Last, OnPlan, OccurrenceOnce, OpeningOf
<1> QED BY <1>1, <1>2, <1>3, <1>4, <1>5, <1>6, <1>7, <1>8 DEF Next

THEOREM InvariantHolds == Spec => []IInv
  BY Initial, Inductive, PTL DEF Spec

----------------------------------------------------------------------------
(* The invariants of the runs *)

\* Every variable keeps its type, and cash is never negative.
THEOREM TypeCorrect == Spec => []TypeOK
<1>1. IInv => TypeOK
  BY DEF IInv
<1> QED BY <1>1, InvariantHolds, PTL

\* Whatever a run returns, another run can go on from.
THEOREM ResultsAreResumable == Spec => []Resumable
<1>1. IInv => Resumable
  <2> SUFFICES ASSUME IInv PROVE Resumable
    OBVIOUS
  <2>1. Consistent(Last.state, Last.store)
    <3>1. CASE committed = <<>>
      BY <3>1 DEF IInv, Pairs, Last
    <3>2. CASE committed # <<>>
      <4>1. Len(committed) \in DOMAIN committed
        <5>1. committed \in Seq([period : Period, state : StateType, store : StoreType,
                                 effects : Seq(Identities)])
          BY DEF IInv, TypeOK
        <5> QED BY <3>2, <5>1, EmptySeq, LenProperties
      <4> QED BY <3>2, <4>1 DEF IInv, Pairs, Last
    <3> QED BY <3>1, <3>2
  <2> QED BY <2>1 DEF Resumable, IInv, Pairs
<1> QED BY <1>1, InvariantHolds, PTL

\* Nothing that was done is done again, and each period reports what it did.
THEOREM EffectsHappenOnce == Spec => []OccurrenceOnce
<1>1. IInv => OccurrenceOnce
  BY DEF IInv
<1> QED BY <1>1, InvariantHolds, PTL

----------------------------------------------------------------------------
(* The refinement *)

Commits == [period : Period, state : StateType, store : StoreType, effects : Seq(Identities)]

\* The log that PeriodLog sees.
Entries(c) == [i \in DOMAIN c |-> [start |-> c[i].period.start, end |-> c[i].period.end,
                                  done |-> c[i].state.ids]]

LEMMA EntriesSound ==
  ASSUME NEW c \in Seq(Commits)
  PROVE  /\ DOMAIN c = 1..Len(c) /\ Len(c) \in Nat
         /\ DOMAIN Entries(c) = 1..Len(c) /\ Len(Entries(c)) = Len(c)
         /\ Entries(c) \in Seq([start : Nat, end : Nat, done : SUBSET Identities])
         /\ \A i \in 1..Len(c) : /\ Entries(c)[i].start = c[i].period.start
                                 /\ Entries(c)[i].end = c[i].period.end
                                 /\ Entries(c)[i].done = c[i].state.ids
         /\ Entries(c) = <<>> <=> c = <<>>
         /\ c # <<>> => Len(c) \in 1..Len(c)
<1> DEFINE S == [start : Nat, end : Nat, done : SUBSET Identities]
<1>1. DOMAIN c = 1..Len(c) /\ Len(c) \in Nat /\ \A i \in 1..Len(c) : c[i] \in Commits
  BY LenProperties, ElementOfSeq
<1>2. \A i \in DOMAIN c : Entries(c)[i] \in S
  BY <1>1 DEF Entries, Commits, Period, StateType
<1>3. Entries(c) \in [1..Len(c) -> S]
  BY <1>1, <1>2 DEF Entries
<1> HIDE DEF S
<1>4. Entries(c) \in Seq(S)
  BY <1>1, <1>3, SeqDef
<1>5. Len(Entries(c)) \in Nat /\ 1..Len(Entries(c)) = 1..Len(c)
  BY <1>3, <1>4, LenProperties
<1>6. Len(Entries(c)) = Len(c)
  BY <1>1, <1>5
<1>7. c = <<>> <=> Len(c) = 0
  BY EmptySeq
<1>8. Entries(c) = <<>> <=> Len(Entries(c)) = 0
  BY <1>4, EmptySeq
<1>9. c # <<>> => Len(c) \in 1..Len(c)
  BY <1>1, <1>7
<1>10. \A i \in 1..Len(c) : /\ Entries(c)[i].start = c[i].period.start
                           /\ Entries(c)[i].end = c[i].period.end
                           /\ Entries(c)[i].done = c[i].state.ids
  BY <1>1 DEF Entries
<1> QED BY <1>1, <1>3, <1>4, <1>6, <1>7, <1>8, <1>9, <1>10 DEF S

LEMMA InitRefines == Init => Log!Init
<1> SUFFICES ASSUME Init PROVE Log!Init
  OBVIOUS
<1>1. /\ held = {Held(OpeningState, EmptyStore, TRUE)} /\ call.state = OpeningState
      /\ committed = <<>> /\ result.status = "none"
  BY DEF Init, Answer
<1>2. call.state.ids \in {h.state.ids : h \in held}
  BY <1>1 DEF Held
<1>3. Entries(committed) = <<>>
  <2>1. <<>> \in Seq(Commits)
    BY EmptySeq
  <2> QED BY <1>1, <2>1, EntriesSound
<1> QED BY <1>1, <1>2, <1>3 DEF Log!Init, Entries

\* A call starts a run from a state that was saved, or is refused.
LEMMA CallRefines ==
  ASSUME IInv, NEW h \in held, NEW store \in Stores, NEW plan \in Plans, NEW horizon \in Horizons,
         Call(h, store, plan, horizon)
  PROVE  Log!Start \/ Log!Refuse
<1>1. /\ result.status # "running" /\ committed' = <<>> /\ held' = held
  BY DEF Call
<1>2. Entries(committed') = <<>>
  <2>1. <<>> \in Seq(Commits)
    BY EmptySeq
  <2> QED BY <1>1, <2>1, EntriesSound
<1>3. CASE Contiguous(plan, horizon) /\ Consistent(h.state, store)
  <2>1. /\ call'.state = h.state /\ call'.horizon = horizon
        /\ result' = Running
    BY <1>3 DEF Call
  <2>2. horizon.start < horizon.end
    BY TimelineAssumption DEF TimelineAssumption
  <2>3. h.state.ids \in {g.state.ids : g \in held}
    OBVIOUS
  <2>4. Log!Start
    BY <1>1, <1>2, <2>1, <2>2, <2>3 DEF Log!Start, Log!Running, Running, Answer, Entries
  <2> QED BY <2>4
<1>4. CASE ~(Contiguous(plan, horizon) /\ Consistent(h.state, store))
  <2>1. call' = call /\ result' = Answer("invalid_model", NoInstant, NoInstant)
    BY <1>4 DEF Call
  <2>2. Log!Refuse
    BY <1>1, <1>2, <2>1 DEF Log!Refuse, Log!Running, Answer, Entries
  <2> QED BY <2>2
<1> QED BY <1>3, <1>4

\* A commit adds the period that follows, within the horizon, and keeps what
\* was done before it.
LEMMA CommitRefines ==
  ASSUME IInv, CommitPeriod
  PROVE  Log!Commit
<1> DEFINE entry == [period |-> candidate.period, state |-> candidate.state,
                     store |-> candidate.store, effects |-> candidate.effects]
           n == Len(committed)
           new == [start |-> candidate.period.start, end |-> candidate.period.end,
                   done |-> candidate.state.ids]
<1>1. /\ candidate.open /\ committed' = Append(committed, entry)
      /\ UNCHANGED <<held, call, result>>
  BY DEF CommitPeriod
<1>2. committed \in Seq(Commits) /\ entry \in Commits
  BY DEF IInv, TypeOK, Commits
<1>3. /\ committed' \in Seq(Commits) /\ Len(committed') = n + 1 /\ n \in Nat
      /\ \A i \in 1..n : committed'[i] = committed[i]
      /\ committed'[n + 1] = entry
  BY <1>1, <1>2, AppendProperties, LenProperties
<1>4. Entries(committed') = Append(Entries(committed), new)
  <2> DEFINE S == [start : Nat, end : Nat, done : SUBSET Identities]
  <2>1. /\ Entries(committed') \in Seq(S) /\ Len(Entries(committed')) = n + 1
        /\ Entries(committed) \in Seq(S) /\ Len(Entries(committed)) = n
    BY <1>2, <1>3, EntriesSound
  <2>2. new \in S
    BY <1>2 DEF Commits, Period, StateType
  <2>3. /\ Append(Entries(committed), new) \in Seq(S)
        /\ Len(Append(Entries(committed), new)) = n + 1
        /\ \A i \in 1..n : Append(Entries(committed), new)[i] = Entries(committed)[i]
        /\ Append(Entries(committed), new)[n + 1] = new
    BY <2>1, <2>2, AppendProperties
  <2>4. \A i \in 1..(n + 1) : Entries(committed')[i] = Append(Entries(committed), new)[i]
    <3> TAKE i \in 1..(n + 1)
    <3>1. i \in DOMAIN committed'
      BY <1>3, LenProperties
    <3>2. CASE i \in 1..n
      <4>1. i \in DOMAIN committed
        BY <3>2, <1>2, LenProperties
      <4>2. Entries(committed')[i] = Entries(committed)[i]
        BY <3>1, <3>2, <4>1, <1>3 DEF Entries
      <4> QED BY <3>2, <4>2, <2>3
    <3>3. CASE i = n + 1
      <4>1. committed'[i] = entry
        BY <3>3, <1>3
      <4>2. Entries(committed')[i] = new
        BY <3>1, <4>1 DEF Entries
      <4>3. Append(Entries(committed), new)[i] = new
        BY ONLY <3>3, <2>3
      <4> QED BY <4>2, <4>3
    <3>4. i \in 1..n \/ i = n + 1
      BY <1>3
    <3> HIDE DEF S, new
    <3> QED BY <3>2, <3>3, <3>4
  <2> HIDE DEF S, new
  <2> QED BY <2>1, <2>3, <2>4, <1>3, SeqEqual
<1>5. /\ Len(Entries(committed')) = Len(Entries(committed)) + 1
      /\ Entries(committed')[Len(Entries(committed'))] = new
  BY <1>2, <1>3, <1>4, EntriesSound, AppendProperties
<1>6. /\ result.status = "running" /\ n < Len(call.plan) /\ candidate.period = call.plan[n + 1]
      /\ Contiguous(call.plan, call.horizon) /\ call.horizon \in Horizons
      /\ \A i \in DOMAIN committed : committed[i].period = call.plan[i]
  BY <1>1 DEF IInv, OnPlan
<1>7. /\ call.plan \in Seq(Period) /\ n + 1 \in 1..Len(call.plan) /\ n + 1 \in DOMAIN call.plan
      /\ call.horizon \in Period
  BY <1>3, <1>6, Shapes, LenProperties, TimelineAssumption DEF IInv, TimelineAssumption
<1>8. new.start = IF committed = <<>> THEN call.horizon.start ELSE committed[n].period.end
  <2>1. CASE committed = <<>>
    BY <2>1, <1>6 DEF Contiguous
  <2>2. CASE committed # <<>>
    <3>1. n \in DOMAIN committed /\ n # 0 /\ (n + 1) - 1 = n /\ n + 1 \in 2..Len(call.plan)
      BY <2>2, <1>2, <1>3, <1>7, EntriesSound, EmptySeq
    <3> QED BY <2>2, <3>1, <1>6 DEF Contiguous
  <2> QED BY <2>1, <2>2
<1>9. new.start < new.end /\ new.end <= call.horizon.end
  BY <1>6, <1>7, PlanWithinHorizon DEF Contiguous
<1>10. (IF committed = <<>> THEN call.state.ids ELSE committed[n].state.ids) \subseteq new.done
  BY <1>1 DEF IInv, CandidateFaithful, Faithful, Last
<1>11. /\ (IF Entries(committed) = <<>> THEN call.horizon.start
          ELSE Entries(committed)[Len(Entries(committed))].end) = new.start
       /\ (IF Entries(committed) = <<>> THEN call.state.ids
          ELSE Entries(committed)[Len(Entries(committed))].done) \subseteq new.done
  BY <1>2, <1>8, <1>10, EntriesSound
<1> HIDE DEF new, entry
<1> QED BY <1>1, <1>4, <1>5, <1>6, <1>9, <1>11 DEF Log!Commit, Log!Frontier, Log!Done, Entries

\* A run that ends hands over the entries of its log.
LEMMA SavedByReturn ==
  ASSUME IInv, NEW answer, Return(answer)
  PROVE  /\ {h.state.ids : h \in held'} =
              {h.state.ids : h \in held} \cup {Entries(committed)[i].done : i \in DOMAIN Entries(committed)}
         /\ result' = answer /\ UNCHANGED <<call, committed>>
<1>1. /\ held' = held \cup {Held(committed[i].state, committed[i].store, call.whole) : i \in DOMAIN committed}
      /\ result' = answer /\ UNCHANGED <<call, committed>>
  BY DEF Return
<1>2. /\ DOMAIN Entries(committed) = DOMAIN committed
      /\ \A i \in DOMAIN committed :
           Entries(committed)[i].done = Held(committed[i].state, committed[i].store, call.whole).state.ids
  BY DEF Entries, Held
<1>3. \A x \in {h.state.ids : h \in held'} :
        x \in {h.state.ids : h \in held} \cup {Entries(committed)[i].done : i \in DOMAIN Entries(committed)}
  BY <1>1, <1>2
<1>4. \A x \in {h.state.ids : h \in held} : x \in {h.state.ids : h \in held'}
  BY <1>1
<1>5. \A x \in {Entries(committed)[i].done : i \in DOMAIN Entries(committed)} :
        x \in {h.state.ids : h \in held'}
  BY <1>1, <1>2
<1> QED BY <1>1, <1>3, <1>4, <1>5

\* Where the committed periods end, in the log and in the plan.
LEMMA FrontierOnPlan ==
  ASSUME IInv, result.status = "running"
  PROVE  /\ Log!Reached = ReachedThrough
         /\ Len(committed) < Len(call.plan) => Log!Frontier = call.plan[Len(committed) + 1].start
         /\ Len(committed) = Len(call.plan) =>
              Log!Frontier = call.horizon.end /\ ReachedThrough = call.horizon.end
<1> DEFINE n == Len(committed)
<1>1. committed \in Seq(Commits)
  BY DEF IInv, TypeOK, Commits
<1>2. /\ n \in Nat /\ DOMAIN committed = 1..n
      /\ Entries(committed) = <<>> <=> committed = <<>>
      /\ Len(Entries(committed)) = n
      /\ \A i \in 1..n : Entries(committed)[i].end = committed[i].period.end
      /\ committed # <<>> => n \in 1..n
      /\ committed = <<>> => n = 0
  BY <1>1, EntriesSound, EmptySeq
<1>3. /\ Contiguous(call.plan, call.horizon) /\ call.plan \in Seq(Period)
      /\ \A i \in DOMAIN committed : committed[i].period = call.plan[i]
  BY Shapes DEF IInv, OnPlan
<1>4. Len(call.plan) \in Nat /\ DOMAIN call.plan = 1..Len(call.plan)
  BY <1>3, LenProperties
<1>5. Log!Reached = ReachedThrough
  BY <1>2 DEF Log!Reached, ReachedThrough, Entries
<1>6. Log!Frontier = IF committed = <<>> THEN call.horizon.start ELSE committed[n].period.end
  BY <1>2 DEF Log!Frontier, Entries
<1>7. ASSUME n < Len(call.plan) PROVE Log!Frontier = call.plan[n + 1].start
  <2>1. CASE committed = <<>>
    BY <2>1, <1>2, <1>3, <1>6 DEF Contiguous
  <2>2. CASE committed # <<>>
    <3>1. n + 1 \in 2..Len(call.plan) /\ (n + 1) - 1 = n /\ n \in DOMAIN committed
      BY <2>2, <1>2, <1>4, <1>7
    <3> QED BY <2>2, <3>1, <1>3, <1>6 DEF Contiguous
  <2> QED BY <2>1, <2>2
<1>8. ASSUME n = Len(call.plan)
      PROVE  Log!Frontier = call.horizon.end /\ ReachedThrough = call.horizon.end
  <2>1. call.plan # <<>>
    BY <1>3 DEF Contiguous
  <2>2. n # 0
    BY <1>3, <1>8, <2>1, EmptySeq
  <2>3. committed # <<>> /\ n \in DOMAIN committed
    BY <2>2, <1>2
  <2>4. committed[n].period.end = call.horizon.end
    BY <2>3, <1>3, <1>8 DEF Contiguous
  <2> QED BY <2>3, <2>4, <1>6 DEF ReachedThrough
<1> QED BY <1>5, <1>7, <1>8

LEMMA StopRefines ==
  ASSUME IInv, NEW item \in candidate.todo, Stop(item)
  PROVE  Log!Stop
<1> DEFINE answer == Answer("incomplete", ReachedThrough, candidate.period.start)
<1>1. candidate.open /\ Return(answer)
  BY DEF Stop
<1>2. /\ result.status = "running" /\ Len(committed) < Len(call.plan)
      /\ candidate.period = call.plan[Len(committed) + 1]
      /\ Contiguous(call.plan, call.horizon) /\ call.horizon \in Horizons
  BY <1>1 DEF IInv, OnPlan
<1>3. Log!Reached = ReachedThrough /\ Log!Frontier = candidate.period.start
  BY <1>2, FrontierOnPlan
<1>4. Log!Frontier < call.horizon.end
  <2>1. /\ call.plan \in Seq(Period) /\ call.horizon \in Period
        /\ Len(committed) + 1 \in DOMAIN call.plan
    BY <1>2, Shapes, LenProperties, TimelineAssumption DEF IInv, TimelineAssumption
  <2>2. candidate.period.end <= call.horizon.end /\ candidate.period.start < candidate.period.end
    BY <1>2, <2>1, PlanWithinHorizon DEF Contiguous
  <2>3. candidate.period \in Period
    BY <1>2, <2>1, ElementOfSeq, LenProperties
  <2> QED BY <1>3, <2>1, <2>2, <2>3 DEF Period
<1>5. /\ {h.state.ids : h \in held'} =
           {h.state.ids : h \in held} \cup {Entries(committed)[i].done : i \in DOMAIN Entries(committed)}
      /\ result' = answer /\ UNCHANGED <<call, committed>>
  BY <1>1, SavedByReturn
<1> QED BY <1>2, <1>3, <1>4, <1>5 DEF Log!Stop, Log!Return, Answer, Entries

LEMMA CompleteRefines ==
  ASSUME IInv, Complete
  PROVE  Log!Complete
<1> DEFINE answer == Answer("completed", call.horizon.end, call.horizon.end)
<1>1. /\ result.status = "running" /\ Len(committed) = Len(call.plan) /\ Return(answer)
  BY DEF Complete
<1>2. /\ Log!Reached = ReachedThrough /\ ReachedThrough = call.horizon.end
      /\ Log!Frontier = call.horizon.end
  BY <1>1, FrontierOnPlan
<1>3. /\ {h.state.ids : h \in held'} =
           {h.state.ids : h \in held} \cup {Entries(committed)[i].done : i \in DOMAIN Entries(committed)}
      /\ result' = answer /\ UNCHANGED <<call, committed>>
  BY <1>1, SavedByReturn
<1> QED BY <1>1, <1>2, <1>3 DEF Log!Complete, Log!Return, Answer, Entries

\* Every step of a run is a step of the log or none.
LEMMA StepRefines == IInv /\ [Next]_vars => [Log!Next]_(Log!vars)
<1> SUFFICES ASSUME IInv, [Next]_vars PROVE [Log!Next]_(Log!vars)
  OBVIOUS
<1>1. ASSUME NEW h \in held, NEW store \in Stores, NEW plan \in Plans, NEW horizon \in Horizons,
             Call(h, store, plan, horizon)
      PROVE  Log!Next
  BY <1>1, CallRefines DEF Log!Next
<1>2. ASSUME UNCHANGED <<held, call, committed, result>> PROVE UNCHANGED Log!vars
  BY <1>2 DEF Log!vars
<1>3. ASSUME NEW todo \in WorkSets, OpenPeriod(todo) PROVE UNCHANGED Log!vars
  BY <1>2, <1>3 DEF OpenPeriod
<1>4. ASSUME NEW item \in candidate.todo, Execute(item) PROVE UNCHANGED Log!vars
  BY <1>2, <1>4 DEF Execute
<1>5. ASSUME NEW item \in candidate.todo, Stop(item) PROVE Log!Next
  BY <1>5, StopRefines DEF Log!Next
<1>6. CASE CommitPeriod
  BY <1>6, CommitRefines DEF Log!Next
<1>7. CASE Complete
  BY <1>7, CompleteRefines DEF Log!Next
<1>8. CASE Escape
  <2>1. result.status = "running"
    BY <1>8 DEF Escape, IInv, OnPlan
  <2>2. /\ result' = Answer("threw", NoInstant, NoInstant) /\ UNCHANGED <<held, call, committed>>
    BY <1>8 DEF Escape
  <2>3. Log!BreakOff
    BY <2>1, <2>2 DEF Log!BreakOff, Log!Running, Answer
  <2> QED BY <2>3 DEF Log!Next
<1>9. CASE UNCHANGED vars
  BY <1>2, <1>9 DEF vars
<1> QED BY <1>1, <1>3, <1>4, <1>5, <1>6, <1>7, <1>8, <1>9 DEF Next

\* A run commits whole, contiguous periods and can only be resumed from them.
THEOREM TimelineImplementsLog == Spec => ImplementsLog
<1>1. Init => Log!Init
  BY InitRefines
<1>2. IInv /\ [Next]_vars => [Log!Next]_(Log!vars)
  BY StepRefines
<1> QED BY <1>1, <1>2, InvariantHolds, PTL DEF Spec, ImplementsLog, Log!Spec

----------------------------------------------------------------------------
(* What a store remembers *)

\* The pairs of whole runs remember their events, from the call to the candidate, whose
\* work is what callers planned.
Memory ==
  /\ \A h \in held : h.whole => Remembers(h.state, h.store)
  /\ call.whole => Remembers(call.state, call.store)
  /\ call.whole =>
       \A i \in DOMAIN committed : Remembers(committed[i].state, committed[i].store)
  /\ candidate.open /\ call.whole => Remembers(candidate.state, candidate.store)
  /\ candidate.open => \E work \in WorkSets : candidate.todo \subseteq work

\* An event occurrence is of the instance it names and of a kind of event.
LEMMA EventIdentity ==
  ASSUME NEW id \in EventIdentities
  PROVE  id[1] \in Instances /\ id # NoIdentity /\ id[3] # "recognition"
BY DEF EventIdentities, NoIdentity

\* A pair is not an event occurrence.
LEMMA PairIsNoEvent == ASSUME NEW x, NEW y PROVE <<x, y>> \notin EventIdentities
<1>1. \A id \in EventIdentities : Len(id) = 3
  BY DEF EventIdentities
<1>2. Len(<<x, y>>) = 2
  OBVIOUS
<1> QED BY <1>1, <1>2

\* A later entry of an instance keeps what the former claimed and claims what
\* the item did.
LEMMA NextEntryKeeps ==
  ASSUME NEW item \in PrimitiveItem, item.kind \in Stateful,
         NEW period \in Period, NEW entry \in EntryType
  PROVE  Identified(entry) \cup Members(Effects(item, period, entry))
           \subseteq Identified(NextEntry(item, period, entry))
<1>1. Members(Effects(item, period, entry)) =
        (IF Applies(item, period, entry) THEN {First(item)} ELSE {})
        \cup (IF Reverts(item, period, entry) THEN {Second(item)} ELSE {})
  BY EffectsSound
<1>2. First(item) # NoIdentity /\ Second(item) # NoIdentity
  BY DEF First, Second, Occurrence, NoIdentity
<1>3. /\ Applies(item, period, entry) => entry.first = NoIdentity
      /\ Reverts(item, period, entry) => entry.second = NoIdentity
  BY DEF Applies, Pending, Reverts
<1>4. /\ NextEntry(item, period, entry).first =
           IF Applies(item, period, entry) THEN First(item) ELSE entry.first
      /\ NextEntry(item, period, entry).second =
           IF Reverts(item, period, entry) THEN Second(item) ELSE entry.second
  BY DEF NextEntry
<1> QED BY <1>1, <1>2, <1>3, <1>4 DEF Identified

\* Whatever event occurrence an item registers is one of a primitive with a
\* state, under its own instance.
LEMMA RegisteredEvents ==
  ASSUME NEW item \in Item, candidate.period \in Period,
         item.kind = "semantic" => item.cites \notin EventIdentities,
         NEW id \in EventIdentities, id \in Members(Registers(item))
  PROVE  item.kind \in Stateful /\ id[1] = item.instance
<1>1. CASE item.kind = "semantic"
  <2> DEFINE cited == Emits(item.cites # NoIdentity, item.cites)
             own == <<<<"transaction", item.id>>>>
  <2>1. /\ (item.cites # NoIdentity) \in BOOLEAN
        /\ item.cites # NoIdentity => item.cites \in Identities
        /\ <<"transaction", item.id>> \in Identities
    BY <1>1, ItemKinds DEF Identities
  <2>2. /\ cited \in Seq(Identities) /\ Members(cited) \subseteq {item.cites}
    BY <2>1, EmitsSound
  <2>3. own \in Seq(Identities) /\ Members(own) = {<<"transaction", item.id>>}
    BY <2>1 DEF Members
  <2>4. Registers(item) = cited \o own
    BY <1>1 DEF Registers
  <2> HIDE DEF cited, own
  <2>5. Members(Registers(item)) \subseteq {item.cites, <<"transaction", item.id>>}
    BY <2>2, <2>3, <2>4, MembersConcat
  <2> QED BY <1>1, <2>5, PairIsNoEvent
<1>2. CASE item.kind = "diagnostic"
  BY <1>2 DEF Registers, Members
<1>3. CASE item.kind = "P03"
  <2>1. /\ First(item) \notin EventIdentities /\ Second(item) \notin EventIdentities
    BY <1>3, EventIdentity DEF First, Second, EffectOf, Occurrence
  <2> DEFINE first == Emits(InPeriod(item.at, candidate.period), First(item))
             second == Emits(InPeriod(item.until, candidate.period), Second(item))
  <2>2. InPeriod(item.at, candidate.period) \in BOOLEAN
        /\ InPeriod(item.until, candidate.period) \in BOOLEAN
    BY DEF InPeriod
  <2>3. /\ first \in Seq({First(item), Second(item)}) /\ second \in Seq({First(item), Second(item)})
        /\ Members(first) \subseteq {First(item)} /\ Members(second) \subseteq {Second(item)}
    BY <2>2, EmitsSound
  <2>4. Registers(item) = first \o second
    BY <1>3 DEF Registers, Effects, Stateful
  <2> HIDE DEF first, second
  <2>5. Members(Registers(item)) \subseteq {First(item), Second(item)}
    BY <2>3, <2>4, MembersConcat
  <2> QED BY <2>1, <2>5
<1>4. CASE item.kind \in Stateful
  <2>1. item \in PrimitiveItem /\ item.kind # "semantic" /\ item.kind # "diagnostic"
    BY <1>4, ItemKinds DEF Stateful
  <2>2. Registers(item) = Effects(item, candidate.period, Entry(item))
    BY <2>1 DEF Registers
  <2>3. id \in {First(item), Second(item)}
    BY <1>4, <2>1, <2>2, EffectsSound
  <2> QED BY <1>4, <2>3 DEF First, Second, Occurrence
<1> QED BY <1>1, <1>2, <1>3, <1>4, ItemKinds

\* Executing an item keeps the memory of the candidate.
LEMMA AfterRemembers ==
  ASSUME candidate \in Candidates, NEW item \in candidate.todo,
         item.kind = "semantic" => item.cites \notin EventIdentities,
         Remembers(candidate.state, candidate.store)
  PROVE  Remembers(After(item).state, After(item).store)
<1> DEFINE kept == candidate.store[item.instance]
           next == NextEntry(item, candidate.period, kept)
<1>1. /\ item \in Item /\ candidate.period \in Period
      /\ candidate.store \in StoreType
  BY DEF Candidates
<1>2. /\ After(item).state.ids = candidate.state.ids \cup Members(Registers(item))
      /\ After(item).store = IF item.kind \in Stateful
                             THEN [candidate.store EXCEPT ![item.instance] = next]
                             ELSE candidate.store
  BY <1>1 DEF After, StateAfter, StoreAfter, Candidates
<1> SUFFICES ASSUME NEW id \in EventIdentities, id \in After(item).state.ids
             PROVE  id \in Identified(After(item).store[id[1]])
  BY DEF Remembers
<1>3. id[1] \in Instances
  BY EventIdentity
<1>4. CASE item.kind \in Stateful
  <2>1. /\ item \in PrimitiveItem /\ item.kind # "semantic" /\ item.kind # "diagnostic"
        /\ item.instance \in Instances
    BY <1>1, <1>4, ItemKinds DEF Stateful, PrimitiveItem
  <2>2. Registers(item) = Effects(item, candidate.period, kept)
    BY <1>4, <2>1 DEF Registers, Entry
  <2>3. kept \in EntryType
    BY <1>1, <2>1 DEF StoreType
  <2> HIDE DEF next, kept
  <2>4. Identified(kept) \cup Members(Registers(item)) \subseteq Identified(next)
    BY <1>1, <1>4, <2>1, <2>2, <2>3, NextEntryKeeps DEF next
  <2>5. /\ After(item).store[item.instance] = next
        /\ \A i \in Instances : i # item.instance => After(item).store[i] = candidate.store[i]
    BY <1>1, <1>2, <1>4, <2>1 DEF StoreType
  <2>6. CASE id \in candidate.state.ids
    <3>1. id \in Identified(candidate.store[id[1]])
      BY <2>6 DEF Remembers
    <3> QED BY <3>1, <1>3, <2>4, <2>5 DEF kept
  <2>7. CASE id \in Members(Registers(item))
    <3>1. id[1] = item.instance
      BY <1>1, <2>7, RegisteredEvents
    <3> QED BY <2>4, <2>5, <2>7, <3>1
  <2> QED BY <1>2, <2>6, <2>7
<1>5. CASE item.kind \notin Stateful
  <2>1. id \notin Members(Registers(item))
    BY <1>1, <1>5, RegisteredEvents
  <2> QED BY <1>2, <1>5, <2>1 DEF Remembers
<1> QED BY <1>4, <1>5

LEMMA MemoryInitially == Init => Memory
BY NoCandidateType DEF Init, Memory, Held, OpeningState, Remembers

\* A whole call goes on from a state with its own store.
LEMMA CallRemembers ==
  ASSUME IInv, Memory, NEW h \in held, NEW store \in Stores, NEW plan \in Plans,
         NEW horizon \in Horizons, Call(h, store, plan, horizon)
  PROVE  Memory'
<1>1. /\ result.status # "running" /\ committed' = <<>> /\ held' = held /\ candidate' = candidate
  BY DEF Call
<1>2. ~candidate.open
  BY <1>1 DEF IInv, OnPlan
<1>3. call'.whole => Remembers(call'.state, call'.store)
  <2>1. CASE Contiguous(plan, horizon) /\ Consistent(h.state, store)
    <3>1. call' = [state |-> h.state, store |-> store, plan |-> plan, horizon |-> horizon,
                   whole |-> h.whole /\ store = h.store]
      BY <2>1 DEF Call
    <3>2. /\ call'.state = h.state /\ call'.store = store
          /\ call'.whole = (h.whole /\ store = h.store)
      BY <3>1
    <3> QED BY <3>2 DEF Memory
  <2>2. CASE ~(Contiguous(plan, horizon) /\ Consistent(h.state, store))
    BY <2>2 DEF Call, Memory
  <2> QED BY <2>1, <2>2
<1> QED BY <1>1, <1>2, <1>3 DEF Memory

\* The next period starts from what was committed last.
LEMMA OpenRemembers ==
  ASSUME IInv, Memory, NEW todo \in WorkSets, OpenPeriod(todo)
  PROVE  Memory'
<1>1. /\ candidate'.state = Last.state /\ candidate'.store = Last.store
      /\ candidate'.todo = todo
      /\ UNCHANGED <<held, call, committed>>
  BY DEF OpenPeriod
<1>2. call.whole => Remembers(Last.state, Last.store)
  <2>1. CASE committed = <<>>
    BY <2>1 DEF Last, Memory
  <2>2. CASE committed # <<>>
    <3>1. Len(committed) \in DOMAIN committed
      <4>1. DOMAIN committed = 1..Len(committed) /\ Len(committed) \in Nat
        BY Shapes DEF IInv
      <4>2. Len(committed) # 0
        BY <2>2, EmptySeq DEF IInv, TypeOK
      <4> QED BY <4>1, <4>2
    <3> QED BY <2>2, <3>1 DEF Last, Memory
  <2> QED BY <2>1, <2>2
<1> QED BY <1>1, <1>2 DEF Memory

LEMMA ExecuteRemembers ==
  ASSUME CallersCiteNoEvent, IInv, Memory, NEW item \in candidate.todo, Execute(item)
  PROVE  Memory'
<1>1. candidate.open /\ candidate' = After(item) /\ UNCHANGED <<held, call, committed>>
  BY DEF Execute
<1>2. candidate \in Candidates
  BY Shapes DEF IInv
<1>3. item.kind = "semantic" => item.cites \notin EventIdentities
  BY <1>1 DEF Memory, CallersCiteNoEvent
<1>4. call.whole => Remembers(candidate'.state, candidate'.store)
  BY <1>1, <1>2, <1>3, AfterRemembers DEF Memory
<1>5. candidate'.todo \subseteq candidate.todo
  BY <1>1, <1>2 DEF After, Candidates
<1> QED BY <1>1, <1>4, <1>5 DEF Memory

LEMMA CommitRemembers ==
  ASSUME IInv, Memory, CommitPeriod
  PROVE  Memory'
<1> DEFINE entry == [period |-> candidate.period, state |-> candidate.state,
                     store |-> candidate.store, effects |-> candidate.effects]
           n == Len(committed)
<1>1. /\ candidate.open /\ committed' = Append(committed, entry) /\ candidate' = NoCandidate
      /\ UNCHANGED <<held, call>>
  BY DEF CommitPeriod
<1>2. committed \in Seq(Commits) /\ entry \in Commits
  BY DEF IInv, TypeOK, Commits
<1>3. entry.state = candidate.state /\ entry.store = candidate.store
  OBVIOUS
<1> HIDE DEF entry
<1>4. /\ n \in Nat /\ DOMAIN committed' = 1..(n + 1) /\ DOMAIN committed = 1..n
      /\ \A i \in 1..n : committed'[i] = committed[i]
      /\ committed'[n + 1] = entry
  BY <1>1, <1>2, AppendProperties, LenProperties
<1>5. ASSUME call.whole, NEW i \in DOMAIN committed'
      PROVE  Remembers(committed'[i].state, committed'[i].store)
  <2>1. CASE i \in 1..n
    BY <1>4, <1>5, <2>1 DEF Memory
  <2>2. CASE i = n + 1
    BY <1>1, <1>3, <1>4, <1>5, <2>2 DEF Memory
  <2> QED BY <1>4, <1>5, <2>1, <2>2
<1> QED BY <1>1, <1>5, NoCandidateType DEF Memory

LEMMA ReturnRemembers ==
  ASSUME Memory, NEW answer, Return(answer)
  PROVE  Memory'
<1>1. /\ candidate' = NoCandidate
      /\ held' = held \cup {Held(committed[i].state, committed[i].store, call.whole) : i \in DOMAIN committed}
      /\ UNCHANGED <<call, committed>>
  BY DEF Return
<1>2. \A h \in held' : h.whole => Remembers(h.state, h.store)
  BY <1>1 DEF Memory, Held
<1> QED BY <1>1, <1>2, NoCandidateType DEF Memory

LEMMA MemoryKept == CallersCiteNoEvent /\ IInv /\ Memory /\ [Next]_vars => Memory'
<1> SUFFICES ASSUME CallersCiteNoEvent, IInv, Memory, [Next]_vars PROVE Memory'
  OBVIOUS
<1>1. CASE UNCHANGED vars
  BY <1>1 DEF vars, Memory
<1>2. CASE Escape
  BY <1>2, NoCandidateType DEF Escape, Memory
<1>3. ASSUME NEW item \in candidate.todo, Stop(item) PROVE Memory'
  BY <1>3, ReturnRemembers DEF Stop
<1>4. CASE Complete
  BY <1>4, ReturnRemembers DEF Complete
<1> QED BY <1>1, <1>2, <1>3, <1>4, CallRemembers, OpenRemembers, ExecuteRemembers, CommitRemembers
       DEF Next

\* Along runs that resume each financial state with its own primitive states,
\* no event can be applied a second time: whatever was registered of it is in
\* the store that goes with the state.  Callers must not post under the
\* occurrence of an event, which the code cannot tell from its own.
THEOREM EventsAreRemembered == CallersCiteNoEvent => (Spec => []StoreRemembers)
<1> SUFFICES ASSUME CallersCiteNoEvent PROVE Spec => []StoreRemembers
  OBVIOUS
<1>1. IInv /\ Memory => StoreRemembers
  <2> SUFFICES ASSUME IInv, Memory, NEW h \in held, h.whole
               PROVE  Remembers(h.state, h.store)
    BY DEF StoreRemembers
  <2> QED BY DEF Memory
<1>2. IInv /\ Memory /\ [Next]_vars => Memory'
  BY MemoryKept
<1> QED BY <1>1, <1>2, MemoryInitially, InvariantHolds, PTL DEF Spec
=============================================================================
