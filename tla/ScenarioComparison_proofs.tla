---------------------- MODULE ScenarioComparison_proofs ----------------------
(****************************************************************************)
(* For every catalog and every request: a circle of inheritance is found    *)
(* exactly when there is one; the net change of an item is what its         *)
(* operations do one after the other; and what differs between the inputs   *)
(* of a comparison is attributed to a layer the baseline does not have.     *)
(****************************************************************************)
EXTENDS ScenarioComparison, SequenceTheorems, WellFoundedInduction, TLAPS

Definitions == {catalog[k] : k \in DOMAIN catalog}

Circular(S) == S # {} /\ \A id \in S : Scenario(id).base \in S

\* No circle meets what was visited, and one that meets the path holds its
\* end; a verdict is right when it is given.
Climbing ==
    /\ pc \in {"visit", "layer"} => BasesFound
    /\ path # <<>> => pc \in {"visit", "refused"}
    /\ \A k \in 1..Len(path) - 1 : Scenario(path[k]).base = path[k + 1]
    /\ \A S \in SUBSET Declared : Circular(S) =>
          S \cap visited = {} /\ (S \cap OnPath # {} => LastOnPath \in S)
    /\ pc \notin {"declare", "visit", "refused"} => ~Circle
    /\ outcome.verdict = "cycle" => Circle

\* What is due belongs to a stage of the scenario at work.
Working ==
    /\ depth <= Len(layers[turn])
    /\ pc = "apply" => due \subseteq Stage(layers[turn], depth)
    /\ pc \in {"declare", "visit", "layer", "match"} =>
          depth = 0 /\ due = {} /\ inputs = <<request.input, request.input>>
    /\ pc \in {"match", "compared"} => turn = 2
    /\ pc = "compared" => depth = Len(layers[2]) /\ due = {}

Linked(chain) == \A k \in 1..Len(chain) - 1 : chain[k + 1].base = chain[k].id
Rooted(chain) == chain # <<>> /\ chain[1].base = NoBase
Fitting(chain) == \A t \in Lists : \A k \in DOMAIN chain : ~Misplaced(chain, t, k)

\* Layers are linked from a root to the scenario, the baseline is a root
\* without ancestors, and operations that do not fit were refused.
Layered ==
    /\ \A n \in {1, 2} : Linked(layers[n])
    /\ pc \in {"declare", "visit"} => layers[turn] = <<>>
    /\ pc \in {"declare", "visit", "layer"} /\ turn = 1 => layers[2] = <<>>
    /\ pc = "layer" =>
          IF layers[turn] = <<>> THEN cursor \in Declared ELSE cursor = layers[turn][1].base
    /\ pc \notin {"declare", "refused"} => DefinitionsValid
    /\ pc \in {"match", "apply", "compared"} \/ (turn = 2 /\ pc # "refused") =>
          Rooted(layers[1]) /\ Len(layers[1]) = 1 /\ Fitting(layers[1])
    /\ pc \in {"match", "apply", "compared"} => Rooted(layers[2]) /\ Fitting(layers[2])
    /\ pc \in {"apply", "compared"} => layers[1][1].id = layers[2][1].id

\* The operations of a scenario on an item that were applied.
Done(n, t) ==
    {k \in Declaring(layers[n], t) :
       n < turn \/ (n = turn /\ (k < depth \/ (k = depth /\ t \notin due)))}
Passed(n, t) == n < turn \/ (n = turn /\ (depth > 0 \/ t \notin due))
ScalarDone(n, t) == Declaring(layers[n], t) # {} /\ Passed(n, t)

\* What operations applied in order made of an item: the last of them gave it
\* its value, the first of them fitted the input of the request.
LastGives(n, t, l) ==
    IF Op(layers[n], l, t) = "remove" THEN inputs[n][t] = Nothing
    ELSE inputs[n][t] = layers[n][l].changes[t].payload /\ inputs[n][t] # Nothing
FirstFits(n, t, f) == (Op(layers[n], f, t) = "add") <=> request.input[t] = Nothing
ItemHolds(n, t) ==
    /\ Done(n, t) = {} => Configured(inputs[n], t) = Configured(request.input, t)
    /\ Done(n, t) # {} => t \in DOMAIN request.input
    /\ \A l \in Done(n, t) : (\A k \in Done(n, t) : k <= l) => LastGives(n, t, l)
    /\ \A f \in Done(n, t) : (\A k \in Done(n, t) : f <= k) => FirstFits(n, t, f)
ScalarHolds(n, t) ==
    /\ ScalarDone(n, t) => t \in DOMAIN request.input
                            /\ inputs[n][t] = Terminal(layers[n], t).change.payload
    /\ ~ScalarDone(n, t) => Configured(inputs[n], t) = Configured(request.input, t)

\* Items of another slice: only if nothing is left to do to them.
Own == Lists \ Foreign
Unknown == Lists \cap Foreign
UnknownHolds(n, t) ==
    /\ Configured(inputs[n], t) = Configured(request.input, t)
    /\ Passed(n, t) => Effective(layers[n], t) = NoEntry

Applying ==
    /\ pc \in {"apply", "compared"} =>
          \A n \in {1, 2} : /\ \A t \in Own : ItemHolds(n, t)
                            /\ \A t \in Scalars : ScalarHolds(n, t)
                            /\ \A t \in Unknown : UnknownHolds(n, t)
    /\ pc = "compared" => outcome.differences = Differences

\* What is refused at a layer is the first operation on an item, or a payload.
RefusedAtLayer ==
    pc = "refused" /\ depth > 0 =>
      \A t \in due : Least(t, due) =>
        \/ depth = FirstOf(layers[turn], t)
        \/ layers[turn][depth].changes[t].payload \in Refused
        \/ layers[turn][depth].changes[t].op # "remove" /\ layers[turn][depth].changes[t].payload = Nothing

IInv == TypeOK /\ Climbing /\ Working /\ Layered /\ Applying /\ RefusedAtLayer

\* The definition found for a declared id has that id.
LEMMA Found ==
    ASSUME NEW id \in Declared
    PROVE  Scenario(id) \in Definitions /\ Scenario(id).id = id
<1>1. PICK k \in DOMAIN catalog : catalog[k].id = id
    BY DEF Declared
<1>2. \E j \in DOMAIN catalog : catalog[j].id = id
    BY <1>1
<1>3. LET j == CHOOSE j \in DOMAIN catalog : catalog[j].id = id
      IN  j \in DOMAIN catalog /\ catalog[j].id = id
    BY <1>2
<1> QED BY <1>3 DEF Scenario, Definitions

\* Bases that were checked to be there lead from definition to definition.
LEMMA BaseDeclared ==
    ASSUME BasesFound, NEW id \in Declared
    PROVE  Scenario(id).base \in Declared \cup {NoBase}
<1>1. PICK k \in DOMAIN catalog : Scenario(id) = catalog[k]
    BY Found DEF Definitions
<1> QED BY <1>1 DEF BasesFound

LEMMA NoBaseUndeclared == TypeOK => NoBase \notin Declared
    BY DEF TypeOK, IsScenario, Declared, Ids

LEMMA RefuseKeepsType ==
    ASSUME TypeOK, NEW reason, Refuse(reason)
    PROVE  TypeOK'
<1>1. /\ UNCHANGED <<catalog, request, turn, visited, path, cursor, layers, depth, due, inputs>>
      /\ pc' = "refused"
    BY DEF Refuse, given, applying
<1>2. Declared' = Declared
    BY <1>1 DEF Declared
<1> QED BY <1>1, <1>2 DEF TypeOK, Steps


\* What an adapter checks before it applies an entry.
LEMMA Accepted ==
    ASSUME NEW input, NEW entry
    PROVE  Objections(input, entry) = {} <=>
             /\ entry.target \notin Foreign
             /\ entry.target \in DOMAIN input
             /\ entry.change.payload \notin Refused
             /\ entry.target \notin Scalars =>
                  /\ entry.change.op = "add" <=> ~There(input, entry.target)
                  /\ entry.change.op \in {"add", "replace"} => entry.change.payload # Nothing
<1> DEFINE op == entry.change.op
           there == There(input, entry.target)
           empty == entry.change.payload = Nothing
<1>1. CASE entry.target \in Foreign
    BY <1>1 DEF Objections
<1>2. CASE entry.target \in Scalars \ Foreign
  <2>1. Objections(input, entry) = ScalarObjections(input, entry)
      BY <1>2 DEF Objections
  <2>2. ScalarObjections(input, entry) = {} <=> entry.target \in DOMAIN input /\ entry.change.payload \notin Refused
      BY DEF ScalarObjections
  <2> QED BY <1>2, <2>1, <2>2
<1>3. CASE entry.target \notin Scalars \cup Foreign
  <2>1. Objections(input, entry) =
          IF Unprepared(input, entry) # {} THEN Unprepared(input, entry) ELSE OperationObjections(input, entry)
      BY <1>3 DEF Objections
  <2>2. Unprepared(input, entry) = {} <=> entry.target \in DOMAIN input /\ entry.change.payload \notin Refused
      BY DEF Unprepared
  <2>3. OperationObjections(input, entry) = {} <=>
          (op = "add" <=> ~there) /\ (op \in {"add", "replace"} => ~empty)
    <3>1. CASE op = "add"
        BY <3>1 DEF OperationObjections
    <3>2. CASE op # "add" /\ ~there
        BY <3>2 DEF OperationObjections
    <3>3. CASE op = "replace" /\ there /\ empty
        BY <3>3 DEF OperationObjections
    <3>4. CASE op # "add" /\ there /\ ~(op = "replace" /\ empty)
        BY <3>4 DEF OperationObjections
    <3> QED BY <3>1, <3>2, <3>3, <3>4
  <2> QED BY <1>3, <2>1, <2>2, <2>3
<1> QED BY <1>1, <1>2, <1>3

\* No reason of an adapter is mistaken for a circle.
LEMMA Reasons == \A input, entry : "cycle" \notin Objections(input, entry)
    BY DEF Objections, ScalarObjections, Unprepared, OperationObjections

IsEntry(entry) ==
    /\ entry.target \in Targets /\ entry.change \in ChangeType
    /\ (entry.change.op = "set") <=> entry.target \in Scalars
    /\ (entry.change.op = "set") => entry.change.payload # Nothing

\* An entry that is accepted leaves an input of the same targets.
LEMMA AppliedTyped ==
    ASSUME NEW input, IsInput(input), NEW entry, IsEntry(entry), Objections(input, entry) = {}
    PROVE  IsInput(Applied(input, entry)) /\ DOMAIN Applied(input, entry) = DOMAIN input
<1>1. entry.change.op \in {"set", "add", "replace", "remove"} /\ entry.change.payload \in Values \cup {Nothing}
    BY DEF IsEntry, ChangeType
<1>2. entry.change.op \in {"add", "replace"} => entry.change.payload # Nothing
    BY Accepted DEF IsEntry
<1>3. entry.change.op = "remove" => entry.target \in Lists
    BY TargetsAssumption DEF IsEntry, Targets
<1> QED BY <1>1, <1>2, <1>3 DEF IsEntry, Applied, IsInput

----------------------------------------------------------------------------
(* Stages. *)

\* A nonempty set of natural numbers has a least member.
LEMMA LeastMember ==
    ASSUME NEW T \in SUBSET Nat, T # {}
    PROVE  \E x \in T : \A y \in T : x <= y
<1> DEFINE R == OpToRel(<, Nat)
<1>1. \A x, y \in Nat : <<y, x>> \in R <=> y < x
    BY DEF OpToRel
<1>2. IsWellFoundedOn(R, Nat)
    BY NatLessThanWellFounded
<1> HIDE DEF R
<1>3. PICK x \in T : \A y \in T : ~(<<y, x>> \in R)
    BY <1>2, WFMin
<1>4. \A y \in T : x <= y
  <2> TAKE y \in T
  <2>1. ~(y < x)
      BY <1>1, <1>3
  <2> QED BY <2>1
<1> QED BY <1>4

\* And one of bounded natural numbers has a greatest member.
LEMMA GreatestMember ==
    ASSUME NEW n \in Nat, NEW T \in SUBSET (1..n), T # {}
    PROVE  \E x \in T : \A y \in T : y <= x
<1> DEFINE U == {k \in Nat : k <= n /\ n - k \in T}
<1>1. U # {}
  <2>1. PICK y \in T : TRUE
      OBVIOUS
  <2>2. n - y \in Nat /\ n - y <= n /\ n - (n - y) = y
      BY <2>1
  <2> QED BY <2>1, <2>2
<1>2. PICK k \in U : \A j \in U : k <= j
    BY <1>1, LeastMember
<1>3. \A y \in T : n - y \in U
    OBVIOUS
<1> QED BY <1>2, <1>3

\* A target that a chain changes has a first and a last layer that changes it.
LEMMA FirstAndLast ==
    ASSUME NEW X, NEW chain \in Seq(X), NEW t, Declaring(chain, t) # {}
    PROVE  /\ FirstOf(chain, t) \in Declaring(chain, t)
           /\ LastOf(chain, t) \in Declaring(chain, t)
           /\ \A k \in Declaring(chain, t) : FirstOf(chain, t) <= k /\ k <= LastOf(chain, t)
<1>1. Declaring(chain, t) \in SUBSET (1..Len(chain)) /\ Len(chain) \in Nat
    BY DEF Declaring
<1>2. \E k \in Declaring(chain, t) : \A j \in Declaring(chain, t) : k <= j
    BY <1>1, LeastMember
<1>3. \E k \in Declaring(chain, t) : \A j \in Declaring(chain, t) : j <= k
    BY <1>1, GreatestMember
<1> QED BY <1>2, <1>3 DEF FirstOf, LastOf

\* A change of a layer is one of its target.
LEMMA ChangeTyped ==
    ASSUME TypeOK, NEW n \in {1, 2}, NEW k \in DOMAIN layers[n], NEW t \in DOMAIN layers[n][k].changes
    PROVE  IsEntry(Entry(layers[n], k, t))
<1>1. layers[n] \in Seq(Definitions)
    BY DEF TypeOK, Definitions
<1>2. PICK j \in DOMAIN catalog : layers[n][k] = catalog[j]
    BY <1>1 DEF Definitions
<1>3. IsChanges(layers[n][k].changes)
    BY <1>2 DEF TypeOK, IsScenario
<1> QED BY <1>3 DEF IsChanges, IsEntry, Entry

\* An entry of a layer is none that says nothing.
LEMMA EntryPresent ==
    ASSUME TypeOK, NEW n \in {1, 2}, NEW t, NEW k \in Declaring(layers[n], t)
    PROVE  /\ Entry(layers[n], k, t).layer = layers[n][k].id /\ layers[n][k].id # NoBase
           /\ Entry(layers[n], k, t).change = layers[n][k].changes[t]
           /\ Op(layers[n], k, t) = Entry(layers[n], k, t).change.op
           /\ IsEntry(Entry(layers[n], k, t))
           /\ \A op : LET e == WithOperation(Entry(layers[n], k, t), op) IN
                        /\ e # NoEntry /\ e.change.op = op /\ e.target = t
                        /\ e.change.payload = Entry(layers[n], k, t).change.payload
           /\ Entry(layers[n], k, t) # NoEntry
<1>1. layers[n] \in Seq(Definitions) /\ k \in DOMAIN layers[n] /\ t \in DOMAIN layers[n][k].changes
    BY DEF TypeOK, Definitions, Declaring
<1>2. layers[n][k].id # NoBase
    BY <1>1 DEF Definitions, TypeOK, IsScenario, Ids
<1>3. IsEntry(Entry(layers[n], k, t))
    BY <1>1, ChangeTyped
<1>4. DOMAIN layers[n][k].changes[t] = {"op", "payload"}
    BY <1>3 DEF IsEntry, ChangeType, Entry
<1> QED BY <1>2, <1>3, <1>4 DEF Entry, Op, NoEntry, WithOperation

\* What is applied to a scalar is the last value declared for it.
LEMMA ScalarEffective ==
    ASSUME TypeOK, NEW n \in {1, 2}, NEW t \in Scalars
    PROVE  /\ Effective(layers[n], t) = Terminal(layers[n], t)
           /\ Effective(layers[n], t) # NoEntry <=> Declaring(layers[n], t) # {}
<1>1. Effective(layers[n], t) = Terminal(layers[n], t)
    BY TargetsAssumption DEF Effective
<1>2. CASE Declaring(layers[n], t) # {}
  <2>1. layers[n] \in Seq(Definitions)
      BY DEF TypeOK, Definitions
  <2>2. LastOf(layers[n], t) \in Declaring(layers[n], t)
      BY <1>2, <2>1, FirstAndLast
  <2> QED BY <1>1, <1>2, <2>2, EntryPresent DEF Terminal
<1> QED BY <1>1, <1>2 DEF Terminal

\* What is staged for a target is an entry of it.
LEMMA StagedTarget ==
    ASSUME TypeOK, NEW n \in {1, 2}, NEW d \in 0..Len(layers[n]), NEW t \in Stage(layers[n], d)
    PROVE  Staged(layers[n], d, t).target = t
<1> DEFINE chain == layers[n]
           last == Entry(chain, LastOf(chain, t), t)
<1>1. CASE d = 0
  <2>1. Effective(chain, t) # NoEntry /\ Staged(chain, d, t) = Effective(chain, t)
      BY <1>1 DEF Stage, Staged
  <2>2. chain \in Seq(Definitions) /\ Declaring(chain, t) # {}
      BY <2>1 DEF TypeOK, Definitions, Effective, Terminal
  <2>3. LastOf(chain, t) \in Declaring(chain, t)
      BY <2>2, FirstAndLast
  <2>4. last.target = t /\ \A op : WithOperation(last, op).target = t
      BY <2>3, EntryPresent DEF Entry
  <2>5. Effective(chain, t) = EffectiveList(chain, t) \/ Effective(chain, t) = last
      BY <2>2 DEF Effective, Terminal
  <2>6. EffectiveList(chain, t) \in {NoEntry} \cup {WithOperation(last, op) : op \in {"add", "replace", "remove"}}
      BY DEF EffectiveList
  <2> HIDE DEF last
  <2> QED BY <2>1, <2>4, <2>5, <2>6
<1>2. CASE d # 0
    BY <1>2 DEF Staged, Entry
<1> QED BY <1>1, <1>2

\* Nothing of another slice is applied.
LEMMA AcceptedKnown ==
    ASSUME TypeOK, NEW n \in {1, 2}, NEW d \in 0..Len(layers[n]), NEW t \in Stage(layers[n], d),
           NEW input, Objections(input, Staged(layers[n], d, t)) = {}
    PROVE  t \notin Foreign
    BY StagedTarget, Accepted

LEMMA StagedTyped ==
    ASSUME TypeOK, NEW n \in {1, 2}, NEW d \in 0..Len(layers[n]), NEW t \in Stage(layers[n], d), t \notin Foreign
    PROVE  IsEntry(Staged(layers[n], d, t)) /\ Staged(layers[n], d, t).target = t
<1>1. layers[n] \in Seq(Definitions)
    BY DEF TypeOK, Definitions
<1>2. CASE d = 0
  <2>1. t \in Scalars /\ Declaring(layers[n], t) # {}
      BY <1>2, ScalarEffective DEF Stage
  <2>2. LastOf(layers[n], t) \in Declaring(layers[n], t)
      BY <1>1, <2>1, FirstAndLast
  <2>3. Staged(layers[n], d, t) = Entry(layers[n], LastOf(layers[n], t), t)
      BY <1>2, <2>1, ScalarEffective DEF Staged, Terminal
  <2> QED BY <2>2, <2>3, ChangeTyped DEF Declaring, Entry
<1>3. CASE d # 0
  <2>1. d \in DOMAIN layers[n] /\ t \in DOMAIN layers[n][d].changes
      BY <1>1, <1>3 DEF Stage
  <2> QED BY <1>3, <2>1, ChangeTyped DEF Staged, Entry
<1> QED BY <1>2, <1>3

----------------------------------------------------------------------------
(* Types. *)

LEMMA TypeInductive ==
    ASSUME TypeOK, Climbing, Working, [Next]_vars
    PROVE  TypeOK'
<1>a. /\ catalog' = catalog /\ request' = request
    BY DEF Next, vars, given, applying, Declare, EnterVisit, Climb, Select, Layer, Resolve, Match, NextLayer,
           Turn, Compare, Apply, Refuse
<1>b. Declared' = Declared /\ Definitions' = Definitions
    BY <1>a DEF Declared, Definitions
<1>r. ASSUME \E reason : Refuse(reason) PROVE TypeOK'
    BY <1>r, RefuseKeepsType
<1>1. CASE Declare
    BY <1>1, <1>a, <1>b, <1>r DEF Declare, given, TypeOK, Steps
<1>2. CASE EnterVisit
    BY <1>2, <1>a, <1>b DEF EnterVisit, given, TypeOK
<1>3. CASE Climb
  <2> DEFINE base == Scenario(LastOnPath).base
  <2>1. CASE Refuse("cycle")
      BY <2>1, <1>r
  <2>2. CASE base # NoBase /\ ~InCycle(base) /\ path' = Append(path, base)
    <3>1. LastOnPath \in Declared
        BY <1>3 DEF Climb, TypeOK, LastOnPath
    <3>2. base \in Declared
        BY <1>3, <2>2, <3>1, BaseDeclared DEF Climb, Climbing
    <3>3. path' \in Seq(Declared)
        BY <2>2, <3>2 DEF TypeOK
    <3>4. \A j, k \in DOMAIN path' : path'[j] = path'[k] => j = k
        BY <2>2, <3>2 DEF TypeOK, InCycle, OnPath
    <3> HIDE DEF base
    <3>5. UNCHANGED <<given, pc, turn, visited, cursor, layers, depth, due, inputs, outcome>>
        BY <1>3, <2>2 DEF Climb, Refuse, base
    <3> QED BY <1>a, <1>b, <3>3, <3>4, <3>5 DEF given, TypeOK
  <2>3. CASE /\ visited' = visited \cup OnPath /\ path' = <<>>
             /\ UNCHANGED <<given, pc, turn, cursor, layers, depth, due, inputs, outcome>>
      BY <2>3, <1>a, <1>b DEF TypeOK, OnPath, given
  <2> QED BY <1>3, <2>1, <2>2, <2>3 DEF Climb
<1>4. CASE Select
  <2>1. (\E reason : Refuse(reason))
        \/ /\ Selected \in Declared /\ pc' = "layer" /\ cursor' = Selected
           /\ UNCHANGED <<given, turn, visited, path, layers, applying, outcome>>
      BY <1>4 DEF Select
  <2> QED BY <2>1, <1>a, <1>b, <1>r DEF given, applying, TypeOK, Steps
<1>5. CASE Layer
  <2>1. cursor \in Declared /\ Scenario(cursor) \in Definitions /\ Scenario(cursor).base \in Declared \cup {NoBase}
      BY <1>5, Found, BaseDeclared DEF Layer, TypeOK, Climbing
  <2>2. <<Scenario(cursor)>> \o layers[turn] \in Seq(Definitions)
      BY <2>1 DEF TypeOK, Definitions
  <2>3. layers' \in [{1, 2} -> Seq(Definitions)]
      BY <1>5, <2>2 DEF Layer, TypeOK, Definitions
  <2> QED BY <1>5, <1>a, <1>b, <2>1, <2>3 DEF Layer, given, applying, TypeOK, Definitions
<1>6. CASE Resolve
  <2>1. (\E reason : Refuse(reason))
        \/ /\ turn' = 2 /\ pc' \in {"declare", "match"}
           /\ UNCHANGED <<given, visited, path, cursor, layers, depth, due, inputs, outcome>>
      BY <1>6 DEF Resolve
  <2> QED BY <2>1, <1>a, <1>b, <1>r DEF given, TypeOK, Steps
<1>7. CASE Match
  <2>1. Stage(layers[1], 0) \subseteq Targets
      BY TargetsAssumption DEF Stage, Targets
  <2>2. (\E reason : Refuse(reason))
        \/ /\ turn' = 1 /\ pc' = "apply" /\ depth' = 0 /\ due' = Stage(layers[1], 0)
           /\ UNCHANGED <<given, visited, path, cursor, layers, inputs, outcome>>
      BY <1>7 DEF Match
  <2> QED BY <2>1, <2>2, <1>a, <1>b, <1>r DEF given, TypeOK, Steps
<1>8. CASE NextLayer
  <2>1. Stage(layers[turn], depth + 1) \subseteq Targets
      BY DEF Stage, Targets, TypeOK
  <2> QED BY <1>8, <1>a, <1>b, <2>1 DEF NextLayer, given, TypeOK
<1>9. CASE Turn
  <2>1. Stage(layers[2], 0) \subseteq Targets
      BY TargetsAssumption DEF Stage, Targets
  <2> QED BY <1>9, <1>a, <1>b, <2>1 DEF Turn, given, TypeOK
<1>10. CASE Compare
    BY <1>10, <1>a, <1>b DEF Compare, given, applying, TypeOK, Steps
<1>11. ASSUME NEW t \in due, Apply(t) PROVE TypeOK'
  <2> DEFINE entry == Staged(layers[turn], depth, t)
  <2>2. CASE /\ Objections(inputs[turn], entry) = {}
             /\ inputs' = [inputs EXCEPT ![turn] = Applied(@, entry)]
             /\ due' = due \ {t}
             /\ UNCHANGED <<given, pc, turn, visited, path, cursor, layers, depth, outcome>>
    <3>1. t \in Stage(layers[turn], depth) /\ turn \in {1, 2} /\ depth \in 0..Len(layers[turn])
        BY <1>11 DEF Apply, Working, TypeOK
    <3>2. IsEntry(entry)
        BY <2>2, <3>1, AcceptedKnown, StagedTyped
    <3>3. IsInput(Applied(inputs[turn], entry)) /\ DOMAIN Applied(inputs[turn], entry) = DOMAIN inputs[turn]
        BY <2>2, <3>2, AppliedTyped DEF TypeOK
    <3> HIDE DEF entry
    <3>4. DOMAIN inputs' = {1, 2}
          /\ \A n \in {1, 2} : IsInput(inputs'[n]) /\ DOMAIN inputs'[n] = DOMAIN request.input
        BY <2>2, <3>3 DEF TypeOK
    <3> QED BY <1>a, <1>b, <2>2, <3>4 DEF given, TypeOK
  <2> QED BY <1>11, <1>r, <2>2 DEF Apply
<1>12. CASE UNCHANGED vars
    BY <1>12, <1>b DEF vars, TypeOK
<1> QED BY <1>1, <1>2, <1>3, <1>4, <1>5, <1>6, <1>7, <1>8, <1>9, <1>10, <1>11, <1>12 DEF Next

----------------------------------------------------------------------------
(* Circles. *)

LEMMA GivenKept ==
    ASSUME [Next]_vars
    PROVE  /\ catalog' = catalog /\ request' = request
           /\ Declared' = Declared /\ Definitions' = Definitions
           /\ \A id : Scenario(id)' = Scenario(id)
<1>1. catalog' = catalog /\ request' = request
    BY DEF Next, vars, given, applying, Declare, EnterVisit, Climb, Select, Layer, Resolve, Match, NextLayer,
           Turn, Compare, Apply, Refuse
<1> QED BY <1>1 DEF Declared, Definitions, Scenario

LEMMA CircleIsCircular == Circle <=> \E S \in SUBSET Declared : Circular(S)
    BY DEF Circle, Circular

\* Where the walk stands still and nothing is visited, the invariant only
\* depends on the catalog and the verdict.
LEMMA ClimbingKept ==
    ASSUME Climbing, [Next]_vars, UNCHANGED <<visited, path>>,
           path = <<>> \/ pc' \in {"visit", "refused"},
           pc' \in {"visit", "layer"} => BasesFound,
           pc' \notin {"declare", "visit", "refused"} => ~Circle,
           outcome'.verdict = "cycle" => Circle
    PROVE  Climbing'
<1>1. Circle' <=> Circle
    BY GivenKept DEF Circle
<1>2. BasesFound' <=> BasesFound
    BY GivenKept DEF BasesFound
<1>3. \A S : Circular(S)' <=> Circular(S)
    BY GivenKept DEF Circular
<1>4. OnPath' = OnPath /\ LastOnPath' = LastOnPath /\ Declared' = Declared
    BY GivenKept DEF OnPath, LastOnPath
<1>5. (\A k \in 1..Len(path) - 1 : Scenario(path[k]).base = path[k + 1])'
  <2>1. \A k \in 1..Len(path) - 1 : Scenario(path[k]).base = path[k + 1]
      BY DEF Climbing
  <2>2. path' = path
      OBVIOUS
  <2>3. \A k : Scenario(path[k])' = Scenario(path[k])
      BY <2>2, GivenKept DEF Scenario
  <2> QED BY <2>1, <2>2, <2>3
<1> QED BY <1>1, <1>2, <1>3, <1>4, <1>5 DEF Climbing

\* A refusal for another reason leaves the walk where it stands.
LEMMA RefuseKeepsClimbing ==
    ASSUME Climbing, [Next]_vars, NEW reason, Refuse(reason), reason = "cycle" => Circle
    PROVE  Climbing'
    BY ClimbingKept DEF Refuse, Refusal

LEMMA Later ==
    ASSUME NEW n \in Nat, NEW i \in 1..n, NEW k \in i..n, k # n
    PROVE  k \in 1..n - 1 /\ k + 1 \in i..n
    OBVIOUS

LEMMA Before ==
    ASSUME NEW n \in Nat, n # 0, n # 1
    PROVE  n - 1 \in 1..n - 1 /\ (n - 1) + 1 = n /\ n - 1 \in 1..n
    OBVIOUS

\* A walk that comes back to where it was has gone in a circle.
LEMMA WalkCloses ==
    ASSUME TypeOK, Climbing, path # <<>>, Scenario(LastOnPath).base \in OnPath
    PROVE  Circle
<1>1. PICK i \in DOMAIN path : path[i] = Scenario(LastOnPath).base
    BY DEF OnPath
<1> DEFINE S == {path[k] : k \in i..Len(path)}
<1>2. i \in 1..Len(path) /\ Len(path) \in Nat /\ DOMAIN path = 1..Len(path)
    BY DEF TypeOK
<1>3. S \in SUBSET Declared /\ path[i] \in S
    BY <1>2 DEF TypeOK
<1>4. ASSUME NEW k \in i..Len(path) PROVE Scenario(path[k]).base \in S
  <2>1. CASE k = Len(path)
      BY <1>1, <1>3, <2>1 DEF LastOnPath
  <2>2. CASE k # Len(path)
    <3>1. k \in 1..Len(path) - 1 /\ k + 1 \in i..Len(path)
        BY <1>2, <2>2, Later
    <3>2. Scenario(path[k]).base = path[k + 1]
        BY <3>1 DEF Climbing
    <3> QED BY <3>1, <3>2
  <2> QED BY <2>1, <2>2
<1>5. Circular(S)
    BY <1>3, <1>4 DEF Circular
<1> QED BY <1>3, <1>5, CircleIsCircular

LEMMA ClimbingInductive ==
    ASSUME TypeOK, Climbing, [Next]_vars
    PROVE  Climbing'
<1>1. CASE Declare
  <2>1. CASE \E reason : reason # "cycle" /\ Refuse(reason)
      BY <2>1, RefuseKeepsClimbing
  <2>2. CASE /\ BasesFound /\ pc' = "visit" /\ visited' = {}
             /\ UNCHANGED <<given, turn, path, cursor, layers, depth, due, inputs, outcome>>
    <3>1. path = <<>> /\ path' = <<>>
        BY <1>1, <2>2 DEF Declare, Climbing
    <3>2. OnPath' = {} /\ visited' = {}
        BY <2>2, <3>1 DEF OnPath
    <3>3. BasesFound' /\ (Circle' <=> Circle) /\ outcome' = outcome
        BY <2>2, GivenKept DEF BasesFound, Circle
    <3> QED BY <2>2, <3>1, <3>2, <3>3 DEF Climbing
  <2> QED BY <1>1, <2>1, <2>2 DEF Declare
<1>2. CASE EnterVisit
  <2>1. PICK id \in Declared : path' = <<id>>
      BY <1>2 DEF EnterVisit
  <2>2. OnPath' = {id} /\ LastOnPath' = id
      BY <2>1 DEF OnPath, LastOnPath
  <2>3. pc' = "visit" /\ pc = "visit" /\ visited' = visited /\ outcome' = outcome
      BY <1>2 DEF EnterVisit
  <2>4. (BasesFound' <=> BasesFound) /\ (Circle' <=> Circle) /\ \A S : Circular(S)' <=> Circular(S)
      BY GivenKept DEF BasesFound, Circle, Circular
  <2>5. Len(path') = 1
      BY <2>1
  <2> QED BY <2>1, <2>2, <2>3, <2>4, <2>5, GivenKept DEF Climbing
<1>3. CASE Climb
  <2> DEFINE base == Scenario(LastOnPath).base
  <2>a. pc = "visit" /\ path # <<>> /\ BasesFound /\ LastOnPath \in Declared
      BY <1>3 DEF Climb, Climbing, TypeOK, LastOnPath
  <2>b. (BasesFound' <=> BasesFound) /\ (Circle' <=> Circle) /\ \A S : Circular(S)' <=> Circular(S)
      BY GivenKept DEF BasesFound, Circle, Circular
  <2>1. CASE InCycle(base) /\ Refuse("cycle")
      BY <2>a, <2>1, WalkCloses, RefuseKeepsClimbing DEF InCycle
  <2>2. CASE /\ base # NoBase /\ path' = Append(path, base)
             /\ UNCHANGED <<given, pc, turn, visited, cursor, layers, depth, due, inputs, outcome>>
    <3>1. base \in Declared
        BY <2>2, <2>a, BaseDeclared
    <3>2. Len(path') = Len(path) + 1 /\ path'[Len(path) + 1] = base /\ \A k \in 1..Len(path) : path'[k] = path[k]
        BY <2>2 DEF TypeOK
    <3>3. OnPath' = OnPath \cup {base} /\ LastOnPath' = base
      <4>1. DOMAIN path' = 1..Len(path) + 1 /\ DOMAIN path = 1..Len(path) /\ Len(path) \in Nat
          BY <2>2, <3>1 DEF TypeOK
      <4>2. DOMAIN path' = DOMAIN path \cup {Len(path) + 1}
          BY <4>1
      <4> HIDE DEF base
      <4> QED BY <3>2, <4>1, <4>2 DEF OnPath, LastOnPath
    <3>4. ASSUME NEW k \in 1..Len(path') - 1 PROVE Scenario(path'[k]).base = path'[k + 1]
      <4>1. k \in 1..Len(path) /\ Len(path) \in Nat
          BY <3>2 DEF TypeOK
      <4>2. CASE k = Len(path)
          BY <3>2, <4>1, <4>2 DEF LastOnPath
      <4>3. CASE k # Len(path)
        <5>1. k \in 1..Len(path) - 1 /\ k + 1 \in 1..Len(path)
            BY <4>1, <4>3
        <5>2. Scenario(path[k]).base = path[k + 1]
            BY <5>1 DEF Climbing
        <5> QED BY <3>2, <4>1, <5>1, <5>2
      <4> QED BY <4>2, <4>3
    <3>6. (\A k \in 1..Len(path) - 1 : Scenario(path[k]).base = path[k + 1])'
        BY <3>4, GivenKept DEF Scenario
    <3>5. ASSUME NEW S \in SUBSET Declared, Circular(S)
          PROVE  S \cap visited = {} /\ (S \cap OnPath' # {} => base \in S)
      <4>1. S \cap OnPath # {} => LastOnPath \in S
          BY <3>5 DEF Climbing
      <4>2. LastOnPath \in S => base \in S
          BY <3>5 DEF Circular
      <4> QED BY <3>3, <3>5, <4>1, <4>2 DEF Climbing
    <3> HIDE DEF base
    <3> QED BY <2>a, <2>b, <2>2, <3>3, <3>6, <3>5, GivenKept DEF Climbing
  <2>3. CASE /\ base = NoBase \/ base \in visited
             /\ visited' = visited \cup OnPath /\ path' = <<>>
             /\ UNCHANGED <<given, pc, turn, cursor, layers, depth, due, inputs, outcome>>
    <3>1. ASSUME NEW S \in SUBSET Declared, Circular(S) PROVE S \cap visited' = {}
      <4>1. LastOnPath \in S => base \in S
          BY <3>1 DEF Circular
      <4>2. base \notin S
          BY <2>3, <3>1, NoBaseUndeclared DEF Climbing
      <4> QED BY <2>3, <3>1, <4>1, <4>2 DEF Climbing
    <3>2. OnPath' = {}
        BY <2>3 DEF OnPath
    <3> HIDE DEF base
    <3> QED BY <2>a, <2>b, <2>3, <3>1, <3>2, GivenKept DEF Climbing
  <2> QED BY <1>3, <2>1, <2>2, <2>3 DEF Climb
<1>4. CASE Select
  <2>1. CASE Refuse("reference")
      BY <2>1, RefuseKeepsClimbing
  <2>2. CASE pc' = "layer" /\ UNCHANGED <<given, turn, visited, path, layers, applying, outcome>>
    <3>1. pc = "visit" /\ path = <<>> /\ Declared = visited
        BY <1>4 DEF Select
    <3>2. ~Circle
        BY <3>1, CircleIsCircular DEF Climbing, Circular
    <3> QED BY <2>2, <3>1, <3>2, ClimbingKept DEF Climbing
  <2> QED BY <1>4, <2>1, <2>2 DEF Select
<1>5. CASE Layer
    BY <1>5, ClimbingKept DEF Layer, Climbing
<1>6. CASE Resolve
  <2>1. \/ \E reason : reason # "cycle" /\ Refuse(reason)
        \/ /\ pc' \in {"declare", "match"}
           /\ UNCHANGED <<given, visited, path, cursor, layers, depth, due, inputs, outcome>>
      BY <1>6 DEF Resolve, ListRefusals
  <2>2. pc = "layer"
      BY <1>6 DEF Resolve
  <2> QED BY <2>1, <2>2, ClimbingKept, RefuseKeepsClimbing DEF Climbing
<1>7. CASE Match
  <2>1. \/ \E reason : reason # "cycle" /\ Refuse(reason)
        \/ /\ pc' = "apply"
           /\ UNCHANGED <<given, visited, path, cursor, layers, inputs, outcome>>
      BY <1>7 DEF Match
  <2>2. pc = "match"
      BY <1>7 DEF Match
  <2> QED BY <2>1, <2>2, ClimbingKept, RefuseKeepsClimbing DEF Climbing
<1>8. CASE NextLayer \/ Turn
    BY <1>8, ClimbingKept DEF NextLayer, Turn, Climbing
<1>9. CASE Compare
    BY <1>9, ClimbingKept DEF Compare, Climbing
<1>10. ASSUME NEW t \in due, Apply(t) PROVE Climbing'
  <2>1. \/ \E reason : reason # "cycle" /\ Refuse(reason)
        \/ UNCHANGED <<given, pc, turn, visited, path, cursor, layers, depth, outcome>>
      BY <1>10, Reasons DEF Apply
  <2>2. pc = "apply"
      BY <1>10 DEF Apply
  <2> QED BY <2>1, <2>2, ClimbingKept, RefuseKeepsClimbing DEF Climbing
<1>11. CASE UNCHANGED vars
    BY <1>11, ClimbingKept DEF vars, Climbing
<1> QED BY <1>1, <1>2, <1>3, <1>4, <1>5, <1>6, <1>7, <1>8, <1>9, <1>10, <1>11 DEF Next

LEMMA WorkingInductive ==
    ASSUME TypeOK, Working, [Next]_vars
    PROVE  Working'
<1>a. /\ request' = request /\ turn \in {1, 2}
      /\ \A n \in {1, 2} : layers[n] \in Seq(Definitions) /\ Len(layers[n]) \in Nat
    BY GivenKept DEF TypeOK, Definitions
<1>r. ASSUME \E reason : Refuse(reason) PROVE Working'
    BY <1>r DEF Refuse, applying, Working
<1>1. CASE Declare
    BY <1>1, <1>a, <1>r DEF Declare, Working
<1>2. CASE EnterVisit
    BY <1>2, <1>a, <1>r DEF EnterVisit, Working
<1>3. CASE Climb
  <2>1. (\E reason : Refuse(reason))
        \/ (pc = "visit" /\ UNCHANGED <<pc, turn, layers, depth, due, inputs>>)
      BY <1>3 DEF Climb
  <2> QED BY <2>1, <1>a, <1>r DEF Working
<1>4. CASE Select
  <2>1. (\E reason : Refuse(reason))
        \/ (pc = "visit" /\ pc' = "layer" /\ UNCHANGED <<turn, layers, depth, due, inputs>>)
      BY <1>4 DEF Select, applying
  <2> QED BY <2>1, <1>a, <1>r DEF Working
<1>5. CASE Layer
  <2>1. Len(layers'[turn]) \in Nat
      BY <1>5, <1>a DEF Layer
  <2> QED BY <1>5, <2>1, <1>a DEF Layer, applying, Working
<1>6. CASE Resolve
  <2>1. (\E reason : Refuse(reason))
        \/ /\ pc = "layer" /\ turn' = 2 /\ pc' \in {"declare", "match"} /\ UNCHANGED <<layers, depth, due, inputs>>
      BY <1>6 DEF Resolve
  <2> QED BY <2>1, <1>a, <1>r DEF Working
<1>7. CASE Match
  <2>1. (\E reason : Refuse(reason))
        \/ (pc' = "apply" /\ turn' = 1 /\ depth' = 0 /\ due' = Stage(layers[1], 0) /\ layers' = layers)
      BY <1>7 DEF Match
  <2>2. Stage(layers[1], 0)' = Stage(layers'[1], 0)
      BY DEF Stage, Effective, EffectiveList, Terminal, NoEntry, Declaring, FirstOf, LastOf, Entry, Op, WithOperation
  <2> QED BY <2>1, <1>a, <1>r DEF Working
<1>8. CASE NextLayer
    BY <1>8, <1>a DEF NextLayer, Working, TypeOK
<1>9. CASE Turn
    BY <1>9, <1>a DEF Turn, Working
<1>10. CASE Compare
    BY <1>10, <1>a DEF Compare, applying, Working
<1>11. ASSUME NEW t \in due, Apply(t) PROVE Working'
  <2>1. (\E reason : Refuse(reason))
        \/ (pc = "apply" /\ due' = due \ {t} /\ UNCHANGED <<pc, turn, layers, depth>>)
      BY <1>11 DEF Apply
  <2> QED BY <2>1, <1>a, <1>r DEF Working
<1>12. CASE UNCHANGED vars
    BY <1>12 DEF vars, Working
<1> QED BY <1>1, <1>2, <1>3, <1>4, <1>5, <1>6, <1>7, <1>8, <1>9, <1>10, <1>11, <1>12 DEF Next

----------------------------------------------------------------------------
(* Layers. *)

LEMMA LayeredInductive ==
    ASSUME TypeOK, Working, Layered, [Next]_vars
    PROVE  Layered'
<1>a. /\ turn \in {1, 2} /\ pc \in Steps
      /\ layers \in [{1, 2} -> Seq(Definitions)]
    BY DEF TypeOK, Definitions
<1>b. (DefinitionsValid' <=> DefinitionsValid) /\ Declared' = Declared
    BY GivenKept DEF DefinitionsValid, ValidDefinition
<1>c. \A chain : /\ Linked(chain)' <=> Linked(chain)
                 /\ Rooted(chain)' <=> Rooted(chain)
                 /\ Fitting(chain)' <=> Fitting(chain)
    BY DEF Linked, Rooted, Fitting, Misplaced, Follows, Declaring, Op
<1>d. layers' = layers => \A n \in {1, 2} : /\ Linked(layers[n])' <=> Linked(layers[n])
                                            /\ Rooted(layers[n])' <=> Rooted(layers[n])
                                            /\ Fitting(layers[n])' <=> Fitting(layers[n])
    BY DEF Linked, Rooted, Fitting, Misplaced, Follows, Declaring, Op
<1>r. ASSUME \E reason : Refuse(reason) PROVE Layered'
    BY <1>r, <1>d DEF Refuse, applying, Layered
<1>1. CASE Declare
  <2>1. (\E reason : Refuse(reason))
        \/ (pc = "declare" /\ DefinitionsValid /\ pc' = "visit" /\ UNCHANGED <<turn, cursor, layers>>)
      BY <1>1 DEF Declare
  <2> QED BY <2>1, <1>a, <1>b, <1>d, <1>r DEF Layered
<1>2. CASE EnterVisit
    BY <1>2, <1>a, <1>b, <1>d DEF EnterVisit, Layered
<1>3. CASE Climb
  <2>1. (\E reason : Refuse(reason))
        \/ (pc = "visit" /\ UNCHANGED <<pc, turn, cursor, layers>>)
      BY <1>3 DEF Climb
  <2> QED BY <2>1, <1>a, <1>b, <1>d, <1>r DEF Layered
<1>4. CASE Select
  <2>1. (\E reason : Refuse(reason))
        \/ (pc = "visit" /\ pc' = "layer" /\ cursor' = Selected /\ Selected \in Declared /\ UNCHANGED <<turn, layers>>)
      BY <1>4 DEF Select
  <2> QED BY <2>1, <1>a, <1>b, <1>d, <1>r DEF Layered
<1>5. CASE Layer
  <2> DEFINE chain == layers[turn]
             longer == <<Scenario(cursor)>> \o chain
  <2>1. cursor \in Declared /\ Scenario(cursor) \in Definitions /\ Scenario(cursor).id = cursor
      BY <1>5, Found DEF Layer, TypeOK
  <2>2. /\ chain \in Seq(Definitions) /\ Len(chain) \in Nat
        /\ longer \in Seq(Definitions) /\ Len(longer) = Len(chain) + 1 /\ longer[1] = Scenario(cursor)
        /\ \A k \in 1..Len(chain) : longer[k + 1] = chain[k]
      BY <1>a, <2>1
  <2>3. ASSUME NEW k \in 1..Len(longer) - 1 PROVE longer[k + 1].base = longer[k].id
    <3>1. CASE k = 1
      <4>1. chain # <<>> /\ cursor = chain[1].base
          BY <1>5, <2>2, <3>1 DEF Layer, Layered
      <4> QED BY <2>1, <2>2, <3>1, <4>1
    <3>2. CASE k # 1
      <4>1. k \in 1..Len(chain) /\ k - 1 \in 1..Len(chain) - 1 /\ (k - 1) + 1 = k
          BY <2>2, <3>2
      <4>2. chain[(k - 1) + 1].base = chain[k - 1].id
          BY <1>a, <4>1 DEF Layered, Linked
      <4>3. longer[k] = chain[k - 1]
          BY <2>2, <4>1
      <4> QED BY <2>2, <4>1, <4>2, <4>3
    <3> QED BY <3>1, <3>2
  <2>4. longer # <<>>
      BY <2>2
  <2> HIDE DEF longer
  <2>5. /\ layers' = [layers EXCEPT ![turn] = longer] /\ cursor' = longer[1].base
        /\ pc = "layer" /\ pc' = "layer" /\ turn' = turn
      BY <1>5, <2>2 DEF Layer, longer
  <2>6. layers'[turn] = longer /\ \A n \in {1, 2} : n # turn => layers'[n] = layers[n]
      BY <1>a, <2>5
  <2>7. \A n \in {1, 2} : Linked(layers'[n])
      BY <2>3, <2>6 DEF Linked, Layered
  <2>8. (\A n \in {1, 2} : Linked(layers[n]))'
      BY <2>7 DEF Linked
  <2>9. turn = 2 => (Rooted(layers[1]) /\ Len(layers[1]) = 1 /\ Fitting(layers[1]))'
      BY <2>5, <2>6 DEF Layered, Rooted, Fitting, Misplaced, Follows, Declaring, Op
  <2> QED BY <1>a, <1>b, <2>4, <2>5, <2>6, <2>8, <2>9 DEF Layered
<1>6. CASE Resolve
  <2> DEFINE chain == layers[turn]
  <2>1. \/ \E reason : Refuse(reason)
        \/ /\ UNION {ListRefusals(chain, t) : t \in Lists} = {}
           /\ turn = 1 => chain[Len(chain)].base = NoBase
           /\ turn' = 2 /\ pc' = IF turn = 1 THEN "declare" ELSE "match"
           /\ UNCHANGED <<cursor, layers>>
      BY <1>6 DEF Resolve
  <2>2. CASE /\ UNION {ListRefusals(chain, t) : t \in Lists} = {}
             /\ turn = 1 => chain[Len(chain)].base = NoBase
             /\ turn' = 2 /\ pc' = IF turn = 1 THEN "declare" ELSE "match"
             /\ UNCHANGED <<cursor, layers>>
    <3>1. Fitting(chain)
      <4> SUFFICES ASSUME NEW t \in Lists, NEW k \in DOMAIN chain, Misplaced(chain, t, k) PROVE FALSE
          BY DEF Fitting
      <4>1. ListRefusals(chain, t) # {}
          BY DEF ListRefusals
      <4> QED BY <2>2, <4>1
    <3>2. pc = "layer" /\ cursor = NoBase
        BY <1>6 DEF Resolve
    <3>3. Rooted(chain)
        BY <3>2, NoBaseUndeclared DEF Layered, Rooted
    <3>4. turn = 1 => Len(chain) = 1
      <4> SUFFICES ASSUME turn = 1, Len(chain) # 1 PROVE FALSE
          OBVIOUS
      <4>1. chain \in Seq(Definitions) /\ Len(chain) \in Nat /\ Len(chain) # 0
          BY <1>a, <3>3 DEF Rooted
      <4> DEFINE j == Len(chain) - 1
      <4>2. j \in 1..Len(chain) - 1 /\ j + 1 = Len(chain) /\ j \in 1..Len(chain)
          BY <4>1, Before
      <4>3. Linked(chain)
          BY <1>a DEF Layered
      <4> HIDE DEF j, chain
      <4>4. chain[Len(chain)].base = chain[j].id
          BY <4>2, <4>3 DEF Linked
      <4>5. chain[j] \in Definitions
          BY <4>1, <4>2
      <4>6. chain[j].id # NoBase
          BY <4>5 DEF Definitions, TypeOK, IsScenario, Ids
      <4> QED BY <2>2, <4>4, <4>6 DEF chain
    <3> HIDE DEF chain
    <3>5. turn = 2 \/ turn = 1
        BY <1>a
    <3>6. chain = layers[turn]
        BY DEF chain
    <3>7. CASE turn = 1
        BY <1>b, <1>d, <2>2, <3>1, <3>2, <3>3, <3>4, <3>6, <3>7 DEF Layered
    <3>8. CASE turn = 2
        BY <1>b, <1>d, <2>2, <3>1, <3>2, <3>3, <3>6, <3>8 DEF Layered
    <3> QED BY <3>5, <3>7, <3>8
  <2> QED BY <1>r, <2>1, <2>2
<1>7. CASE Match
  <2>1. (\E reason : Refuse(reason))
        \/ (pc = "match" /\ pc' = "apply" /\ turn' = 1 /\ Comparable /\ UNCHANGED <<cursor, layers>>)
      BY <1>7 DEF Match
  <2>2. Comparable => layers[1][1].id = layers[2][1].id
      BY DEF Comparable
  <2> QED BY <2>1, <2>2, <1>a, <1>b, <1>d, <1>r DEF Layered
<1>8. CASE NextLayer
    BY <1>8, <1>b, <1>d DEF NextLayer, Layered
<1>9. CASE Turn
    BY <1>9, <1>b, <1>d DEF Turn, Layered
<1>10. CASE Compare
    BY <1>10, <1>b, <1>d DEF Compare, Layered
<1>11. ASSUME NEW t \in due, Apply(t) PROVE Layered'
  <2>1. (\E reason : Refuse(reason)) \/ (pc = "apply" /\ UNCHANGED <<pc, turn, cursor, layers>>)
      BY <1>11 DEF Apply
  <2> QED BY <2>1, <1>a, <1>b, <1>d, <1>r DEF Layered
<1>12. CASE UNCHANGED vars
    BY <1>12, <1>b, <1>d DEF vars, Layered
<1> QED BY <1>1, <1>2, <1>3, <1>4, <1>5, <1>6, <1>7, <1>8, <1>9, <1>10, <1>11, <1>12 DEF Next

----------------------------------------------------------------------------
(* Application. *)

\* Net changes are those of the layers.
LEMMA EffectiveKept ==
    ASSUME layers' = layers, NEW n, NEW t
    PROVE  Effective(layers[n], t)' = Effective(layers[n], t) /\ Terminal(layers[n], t)' = Terminal(layers[n], t)
<1>1. Terminal(layers[n], t)' = Terminal(layers[n], t)
    BY DEF Terminal, Declaring, Entry, LastOf
<1>2. EffectiveList(layers[n], t)' = EffectiveList(layers[n], t)
    BY DEF EffectiveList, Declaring, Entry, LastOf, FirstOf, Op
<1> QED BY <1>1, <1>2 DEF Effective, Declaring

\* A target whose value and whose applied operations stay keeps its claims.
LEMMA HoldsKept ==
    ASSUME UNCHANGED <<request, layers>>, NEW n \in {1, 2}, NEW t, n \in DOMAIN inputs,
           DOMAIN inputs'[n] = DOMAIN inputs[n],
           t \in DOMAIN inputs[n] => inputs'[n][t] = inputs[n][t],
           DOMAIN inputs[n] = DOMAIN request.input
    PROVE  /\ Done(n, t)' = Done(n, t) => (ItemHolds(n, t)' <=> ItemHolds(n, t))
           /\ (ScalarDone(n, t)' <=> ScalarDone(n, t)) => (ScalarHolds(n, t)' <=> ScalarHolds(n, t))
           /\ UnknownHolds(n, t) /\ (Passed(n, t)' => Passed(n, t) \/ Effective(layers[n], t) = NoEntry) =>
                 UnknownHolds(n, t)'
<1>1. t \in DOMAIN request.input =>
        \A l : /\ LastGives(n, t, l)' <=> LastGives(n, t, l)
               /\ FirstFits(n, t, l)' <=> FirstFits(n, t, l)
    BY DEF LastGives, FirstFits, Op
<1>2. Terminal(layers[n], t)' = Terminal(layers[n], t)
    BY DEF Terminal, Declaring, Entry, LastOf
<1>3. Configured(inputs[n], t)' = Configured(inputs[n], t) /\ Configured(request.input, t)' = Configured(request.input, t)
    BY DEF Configured
<1>4. Effective(layers[n], t)' = Effective(layers[n], t)
    BY EffectiveKept
<1> QED BY <1>1, <1>2, <1>3, <1>4 DEF ItemHolds, ScalarHolds, UnknownHolds

\* The good case of Apply.
Accepts(t) ==
    LET entry == Staged(layers[turn], depth, t) IN
    /\ pc = "apply" /\ Least(t, due) /\ Objections(inputs[turn], entry) = {}
    /\ inputs' = [inputs EXCEPT ![turn] = Applied(@, entry)]
    /\ due' = due \ {t}
    /\ UNCHANGED <<given, pc, turn, visited, path, cursor, layers, depth, outcome>>

LEMMA AcceptsOrRefuses ==
    ASSUME NEW t, Apply(t)
    PROVE  Accepts(t) \/ \E reason \in Objections(inputs[turn], Staged(layers[turn], depth, t)) : Refuse(reason)
    BY DEF Apply, Accepts

\* While an item is due at a layer, its earlier operations were applied.
LEMMA DueAtLayer ==
    ASSUME TypeOK, Working, pc = "apply", NEW t \in due, depth # 0
    PROVE  /\ t \in Own /\ depth \in DOMAIN layers[turn] /\ depth \in Declaring(layers[turn], t)
           /\ Staged(layers[turn], depth, t) = Entry(layers[turn], depth, t)
           /\ Done(turn, t) = {k \in Declaring(layers[turn], t) : k < depth}
           /\ Declaring(layers[turn], t) \in SUBSET Nat
<1>1. turn \in {1, 2} /\ layers[turn] \in Seq(Definitions)
    BY DEF TypeOK, Definitions
<1>2. depth \in 1..Len(layers[turn]) /\ DOMAIN layers[turn] = 1..Len(layers[turn])
    BY <1>1 DEF Working, TypeOK
<1>3. t \in DOMAIN layers[turn][depth].changes \cap Own
    BY DEF Working, Stage, Own
<1>4. Declaring(layers[turn], t) \in SUBSET Nat
    BY <1>2 DEF Declaring
<1> QED BY <1>1, <1>2, <1>3, <1>4 DEF Declaring, Staged, Done

\* An operation is applied to what the ones before it left: the one it
\* follows is the last of them, and resolution found that it fits.
LEMMA OperationFits ==
    ASSUME TypeOK, Working, Layered, Applying, pc = "apply", NEW t \in due, depth # 0, Done(turn, t) # {}
    PROVE  /\ t \in DOMAIN request.input
           /\ (Op(layers[turn], depth, t) = "add") <=> inputs[turn][t] = Nothing
<1> DEFINE chain == layers[turn]
<1>1. /\ t \in Own /\ depth \in DOMAIN chain /\ depth \in Declaring(chain, t)
      /\ Done(turn, t) = {k \in Declaring(chain, t) : k < depth}
    BY DueAtLayer
<1>2. turn \in {1, 2} /\ chain \in Seq(Definitions)
    BY DEF TypeOK, Definitions
<1>3. Len(chain) \in Nat /\ Done(turn, t) \in SUBSET (1..Len(chain))
    BY <1>1, <1>2 DEF Declaring
<1>4. PICK l \in Done(turn, t) : \A k \in Done(turn, t) : k <= l
    BY <1>3, GreatestMember
<1>5. Follows(chain, t, l, depth)
    BY <1>1, <1>3, <1>4, DueAtLayer DEF Follows, TypeOK
<1>6. l \in DOMAIN chain
    BY <1>1, <1>4 DEF Declaring
<1>7. Fitting(chain)
    BY <1>2 DEF Layered
<1>8. ~Misplaced(chain, t, depth)
    BY <1>1, <1>7 DEF Fitting, Own
<1>9. (Op(chain, depth, t) = "add") <=> Op(chain, l, t) = "remove"
    BY <1>5, <1>6, <1>8 DEF Misplaced
<1>10. ItemHolds(turn, t)
    BY <1>1, <1>2 DEF Applying
<1>11. LastGives(turn, t, l) /\ t \in DOMAIN request.input
    BY <1>4, <1>10 DEF ItemHolds
<1> QED BY <1>9, <1>11 DEF LastGives

\* The operation that is applied is the last that was, and its value is there.
LEMMA ItemStep ==
    ASSUME TypeOK, Working, Layered, Applying, NEW t \in due, depth # 0, Accepts(t)
    PROVE  ItemHolds(turn, t)'
<1> DEFINE chain == layers[turn]
           entry == Staged(chain, depth, t)
<1>1. /\ t \in Own /\ depth \in DOMAIN chain /\ depth \in Declaring(chain, t)
      /\ entry = Entry(chain, depth, t)
      /\ Done(turn, t) = {k \in Declaring(chain, t) : k < depth}
      /\ Declaring(chain, t) \in SUBSET Nat /\ depth \in Nat
    BY DueAtLayer DEF Accepts, TypeOK
<1>2. /\ turn' = turn /\ layers' = layers /\ depth' = depth /\ request' = request
      /\ due' = due \ {t} /\ inputs' = [inputs EXCEPT ![turn] = Applied(inputs[turn], entry)]
    BY DEF Accepts, given
<1>3. /\ turn \in {1, 2} /\ DOMAIN inputs = {1, 2} /\ DOMAIN inputs[turn] = DOMAIN request.input
      /\ t \in Targets /\ IsEntry(entry) /\ entry.target = t
  <2>1. depth \in 0..Len(layers[turn]) /\ t \in Stage(layers[turn], depth) /\ turn \in {1, 2}
      BY DEF Working, TypeOK, Accepts
  <2> QED BY <1>1, <2>1, StagedTyped DEF TypeOK, Own
<1>4. Op(chain, depth, t) = entry.change.op /\ chain[depth].changes[t].payload = entry.change.payload
    BY <1>1 DEF Op, Entry
<1>5. Done(turn, t)' = Done(turn, t) \cup {depth}
  <2>1. Done(turn, t)' = {k \in Declaring(chain, t) : k < depth \/ k = depth}
      BY <1>1, <1>2, <1>3 DEF Done, Declaring, TypeOK
  <2> QED BY <1>1, <2>1
<1>6. /\ t \in DOMAIN request.input
      /\ Op(chain, depth, t) # "add" => inputs[turn][t] # Nothing
      /\ Op(chain, depth, t) = "add" => inputs[turn][t] = Nothing
      /\ Op(chain, depth, t) # "remove" => entry.change.payload # Nothing
  <2>1. Objections(inputs[turn], entry) = {}
      BY DEF Accepts
  <2>2. t \notin Scalars
      BY <1>1, TargetsAssumption DEF Own
  <2>4. /\ t \in DOMAIN inputs[turn]
        /\ entry.change.op \in {"add", "replace"} => entry.change.payload # Nothing
        /\ entry.change.op = "add" <=> ~There(inputs[turn], t)
      BY <1>3, <2>1, <2>2, Accepted
  <2>3. entry.change.op \in {"set", "add", "replace", "remove"} /\ entry.change.op # "set"
      BY <1>3, <2>2 DEF IsEntry, ChangeType
  <2> QED BY <1>3, <1>4, <2>4, <2>3 DEF There
<1>7. inputs'[turn][t] = IF Op(chain, depth, t) = "remove" THEN Nothing ELSE entry.change.payload
    BY <1>2, <1>3, <1>4, <1>6 DEF Applied
<1>8. LastGives(turn, t, depth)'
    BY <1>2, <1>4, <1>6, <1>7 DEF LastGives, Op
<1>9. \A l \in Done(turn, t)' : (\A k \in Done(turn, t)' : k <= l) => l = depth
    BY <1>1, <1>5
<1>10. ItemHolds(turn, t)
    BY <1>1, <1>3 DEF Applying, Accepts
<1>11. ASSUME NEW f \in Done(turn, t)', \A k \in Done(turn, t)' : f <= k
       PROVE  FirstFits(turn, t, f)'
  <2>1. CASE Done(turn, t) = {}
    <3>1. f = depth /\ inputs[turn][t] = request.input[t]
        BY <1>3, <1>5, <1>6, <1>10, <2>1 DEF ItemHolds, Configured
    <3> QED BY <1>2, <1>6, <3>1 DEF FirstFits, Op
  <2>2. CASE Done(turn, t) # {}
    <3>1. f \in Done(turn, t) /\ \A k \in Done(turn, t) : f <= k
        BY <1>1, <1>5, <1>11, <2>2
    <3>2. FirstFits(turn, t, f)
        BY <1>10, <3>1 DEF ItemHolds
    <3> QED BY <1>2, <3>2 DEF FirstFits, Op
  <2> QED BY <2>1, <2>2
<1>12. turn' = turn /\ (t \in DOMAIN request.input)' /\ Done(turn, t)' # {}
    BY <1>2, <1>5, <1>6
<1> HIDE DEF chain, entry
<1>13. (\A l \in Done(turn, t) : (\A k \in Done(turn, t) : k <= l) => LastGives(turn, t, l))'
    BY <1>2, <1>8, <1>9
<1>14. (\A f \in Done(turn, t) : (\A k \in Done(turn, t) : f <= k) => FirstFits(turn, t, f))'
    BY <1>11
<1> QED BY <1>12, <1>13, <1>14 DEF ItemHolds

\* A scalar is set to the last value declared for it.
LEMMA ScalarStep ==
    ASSUME TypeOK, Working, Applying, NEW t \in due, depth = 0, Accepts(t)
    PROVE  ScalarHolds(turn, t)' /\ t \in Scalars \ Foreign
<1> DEFINE chain == layers[turn]
           entry == Staged(chain, depth, t)
<1>1. /\ turn' = turn /\ layers' = layers /\ depth' = depth /\ request' = request /\ turn \in {1, 2}
      /\ due' = due \ {t} /\ inputs' = [inputs EXCEPT ![turn] = Applied(inputs[turn], entry)]
      /\ DOMAIN inputs = {1, 2} /\ DOMAIN inputs[turn] = DOMAIN request.input
    BY DEF Accepts, given, TypeOK
<1>a. depth \in 0..Len(layers[turn]) /\ t \in Stage(layers[turn], depth) /\ t \notin Foreign
  <2>1. depth \in 0..Len(layers[turn]) /\ t \in Stage(layers[turn], depth)
      BY DEF Working, TypeOK, Accepts
  <2> QED BY <1>1, <2>1, AcceptedKnown DEF Accepts
<1>2. /\ t \in Scalars /\ Declaring(chain, t) # {} /\ entry = Terminal(chain, t)
    BY <1>1, <1>a, ScalarEffective DEF Stage, Staged
<1>3. IsEntry(entry) /\ entry.target = t
    BY <1>1, <1>a, StagedTyped
<1>4. t \in DOMAIN inputs[turn] /\ entry.change.op # "remove"
    BY <1>2, <1>3, Accepted DEF Accepts, IsEntry
<1>5. inputs'[turn][t] = entry.change.payload
    BY <1>1, <1>3, <1>4 DEF Applied
<1>6. ScalarDone(turn, t)'
    BY <1>1, <1>2 DEF ScalarDone, Passed, Declaring
<1>7. Terminal(layers[turn], t)' = entry
    BY <1>1, <1>2 DEF Terminal, Declaring, Entry, LastOf
<1>8. inputs'[turn][t] = Terminal(layers[turn], t)'.change.payload /\ (t \in DOMAIN request.input)'
    BY <1>1, <1>4, <1>5, <1>7
<1> QED BY <1>1, <1>a, <1>2, <1>6, <1>8 DEF ScalarHolds

\* Between operations nothing changes but what is due.
LEMMA StageKept ==
    ASSUME TypeOK, Working, Applying, pc = "apply", pc' = "apply", UNCHANGED <<request, layers, inputs>>,
           \A n \in {1, 2} :
             /\ \A t \in Own : Done(n, t)' = Done(n, t)
             /\ \A t \in Scalars : ScalarDone(n, t)' <=> ScalarDone(n, t)
             /\ \A t \in Unknown : Passed(n, t)' => Passed(n, t) \/ Effective(layers[n], t) = NoEntry
    PROVE  Applying'
<1>1. ASSUME NEW n \in {1, 2}, NEW t \in Own PROVE ItemHolds(n, t)'
    BY HoldsKept DEF Applying, TypeOK
<1>2. ASSUME NEW n \in {1, 2}, NEW t \in Scalars PROVE ScalarHolds(n, t)'
    BY HoldsKept DEF Applying, TypeOK
<1>3. ASSUME NEW n \in {1, 2}, NEW t \in Unknown PROVE UnknownHolds(n, t)'
    BY HoldsKept DEF Applying, TypeOK
<1>4. \A n \in {1, 2} : /\ \A t \in Own : ItemHolds(n, t)'
                        /\ \A t \in Scalars : ScalarHolds(n, t)'
                        /\ \A t \in Unknown : UnknownHolds(n, t)'
    BY <1>1, <1>2, <1>3
<1> QED BY <1>4 DEF Applying, Own, Unknown

LEMMA DifferencesKept ==
    ASSUME UNCHANGED <<layers, inputs>>
    PROVE  Differences' = Differences
<1>1. ASSUME NEW n, NEW u
      PROVE  Effective(layers[n], u)' = Effective(layers[n], u) /\ Terminal(layers[n], u)' = Terminal(layers[n], u)
    BY EffectiveKept
<1>2. ASSUME NEW u PROVE (Reported(u)' <=> Reported(u)) /\ Difference(u)' = Difference(u)
    BY <1>1 DEF Reported, Difference, Configured
<1> QED BY <1>2 DEF Differences

LEMMA ApplyingInductive ==
    ASSUME TypeOK, Working, Layered, Applying, [Next]_vars
    PROVE  Applying'
<1>a. /\ turn \in {1, 2} /\ depth \in Nat /\ request' = request
      /\ \A n \in {1, 2} : layers[n] \in Seq(Definitions) /\ Len(layers[n]) \in Nat
      /\ \A n \in {1, 2} : \A t : Declaring(layers[n], t) \subseteq 1..Len(layers[n])
    BY GivenKept DEF TypeOK, Definitions, Declaring
<1>n. ASSUME pc' \notin {"apply", "compared"} PROVE Applying'
    BY <1>n DEF Applying
<1>1. CASE Declare \/ EnterVisit \/ Climb \/ Select \/ Layer \/ Resolve
    BY <1>1, <1>n DEF Declare, EnterVisit, Climb, Select, Layer, Resolve, Refuse
<1>2. CASE Match
  <2>1. CASE \E reason : Refuse(reason)
      BY <2>1, <1>n DEF Refuse
  <2>2. CASE /\ pc' = "apply" /\ turn' = 1 /\ depth' = 0 /\ due' = Stage(layers[1], 0)
             /\ UNCHANGED <<given, visited, path, cursor, layers, inputs, outcome>>
    <3>1. \A n \in {1, 2} : inputs'[n] = request.input
        BY <1>2, <2>2 DEF Match, Working
    <3>2. \A n \in {1, 2} : \A t : Done(n, t)' = {}
      <4> SUFFICES ASSUME NEW n \in {1, 2}, NEW t, NEW k \in Declaring(layers[n], t)
                   PROVE  ~(n < 1 \/ (n = 1 /\ (k < 0 \/ (k = 0 /\ t \notin due'))))
          BY <2>2 DEF Done, Declaring
      <4> QED BY <1>a
    <3>3. \A n \in {1, 2} : \A t \in Scalars : ~ScalarDone(n, t)'
      <4>1. \A t \in Scalars : t \notin due' => Declaring(layers[1], t) = {}
          BY <2>2, ScalarEffective DEF Stage
      <4> QED BY <2>2, <4>1 DEF ScalarDone, Passed, Declaring
    <3>5. \A n \in {1, 2} : \A t \in Unknown : Passed(n, t)' => Effective(layers[n], t)' = NoEntry
      <4>1. \A t \in Unknown : t \notin due' => Effective(layers[1], t) = NoEntry
          BY <2>2 DEF Stage, Unknown
      <4>2. \A n, t : Effective(layers[n], t)' = Effective(layers[n], t)
          BY <2>2, EffectiveKept
      <4> QED BY <2>2, <4>1, <4>2 DEF Passed
    <3>4. \A n \in {1, 2} : /\ \A t \in Own : ItemHolds(n, t)'
                            /\ \A t \in Scalars : ScalarHolds(n, t)'
                            /\ \A t \in Unknown : UnknownHolds(n, t)'
        BY <1>a, <3>1, <3>2, <3>3, <3>5 DEF ItemHolds, ScalarHolds, UnknownHolds, Configured
    <3> QED BY <2>2, <3>4 DEF Applying, Own, Unknown
  <2> QED BY <1>2, <2>1, <2>2 DEF Match
<1>3. CASE NextLayer
  <2>1. /\ pc = "apply" /\ pc' = "apply" /\ due = {} /\ depth' = depth + 1 /\ due' = Stage(layers[turn], depth + 1)
        /\ UNCHANGED <<request, turn, layers, inputs>>
      BY <1>3, <1>a DEF NextLayer, given
  <2>2. ASSUME NEW n \in {1, 2}, NEW t \in Own PROVE Done(n, t)' = Done(n, t)
    <3>1. \A k \in Declaring(layers[turn], t) : k = depth + 1 => t \in due'
        BY <1>a, <2>1 DEF Stage, Declaring, Own
    <3>2. ASSUME NEW k \in Declaring(layers[n], t)
          PROVE  (n < turn \/ (n = turn /\ (k < depth + 1 \/ (k = depth + 1 /\ t \notin due'))))
                 <=> (n < turn \/ (n = turn /\ (k < depth \/ (k = depth /\ t \notin due))))
        BY <1>a, <2>1, <3>1
    <3> QED BY <2>1, <3>2 DEF Done, Declaring
  <2>3. ASSUME NEW n \in {1, 2}, NEW t \in Scalars PROVE ScalarDone(n, t)' <=> ScalarDone(n, t)
      BY <1>a, <2>1 DEF ScalarDone, Passed, Declaring
  <2>4. ASSUME NEW n \in {1, 2}, NEW t \in Unknown PROVE Passed(n, t)' => Passed(n, t)
      BY <2>1 DEF Passed
  <2> QED BY <2>1, <2>2, <2>3, <2>4, StageKept
<1>4. CASE Turn
  <2>1. /\ pc = "apply" /\ pc' = "apply" /\ due = {} /\ depth = Len(layers[1]) /\ turn = 1
        /\ turn' = 2 /\ depth' = 0 /\ due' = Stage(layers[2], 0) /\ UNCHANGED <<request, layers, inputs>>
      BY <1>4 DEF Turn, given
  <2>2. ASSUME NEW n \in {1, 2}, NEW t \in Own PROVE Done(n, t)' = Done(n, t)
    <3>1. ASSUME NEW k \in Declaring(layers[n], t)
          PROVE  (n < 2 \/ (n = 2 /\ (k < 0 \/ (k = 0 /\ t \notin due'))))
                 <=> (n < turn \/ (n = turn /\ (k < depth \/ (k = depth /\ t \notin due))))
        BY <1>a, <2>1
    <3> QED BY <2>1, <3>1 DEF Done, Declaring
  <2>3. ASSUME NEW n \in {1, 2}, NEW t \in Scalars PROVE ScalarDone(n, t)' <=> ScalarDone(n, t)
    <3>1. \A u \in Scalars : u \notin due' => Declaring(layers[2], u) = {}
        BY <2>1, ScalarEffective DEF Stage
    <3> QED BY <1>a, <2>1, <3>1 DEF ScalarDone, Passed, Declaring
  <2>4. ASSUME NEW n \in {1, 2}, NEW t \in Unknown
        PROVE  Passed(n, t)' => Passed(n, t) \/ Effective(layers[n], t) = NoEntry
    <3>1. t \notin due' => Effective(layers[2], t) = NoEntry
        BY <2>1 DEF Stage, Unknown
    <3> QED BY <1>a, <2>1, <3>1 DEF Passed
  <2> QED BY <2>1, <2>2, <2>3, <2>4, StageKept
<1>5. CASE Compare
  <2>1. /\ pc = "apply" /\ pc' = "compared" /\ outcome'.differences = Differences
        /\ UNCHANGED <<request, catalog, turn, layers, depth, due, inputs>>
      BY <1>5 DEF Compare, given, applying
  <2>2. Differences' = Differences
      BY <2>1, DifferencesKept
  <2>3. \A n \in {1, 2} : \A t : /\ ItemHolds(n, t)' <=> ItemHolds(n, t)
                                 /\ ScalarHolds(n, t)' <=> ScalarHolds(n, t)
                                 /\ UnknownHolds(n, t) => UnknownHolds(n, t)'
    <3>1. \A n \in {1, 2} : \A t : /\ Done(n, t)' = Done(n, t) /\ (Passed(n, t)' <=> Passed(n, t))
                                   /\ ScalarDone(n, t)' <=> ScalarDone(n, t)
        BY <2>1 DEF Done, ScalarDone, Passed, Declaring
    <3> QED BY <2>1, <3>1, HoldsKept DEF TypeOK
  <2> QED BY <2>1, <2>2, <2>3 DEF Applying, Own, Unknown
<1>6. ASSUME NEW t \in due, Apply(t) PROVE Applying'
  <2>1. CASE \E reason : Refuse(reason)
      BY <2>1, <1>n DEF Refuse
  <2>2. CASE Accepts(t)
    <3>1. /\ pc = "apply" /\ pc' = "apply" /\ due' = due \ {t}
          /\ UNCHANGED <<request, turn, layers, depth>>
        BY <2>2, <1>a DEF Accepts
    <3>2. /\ inputs' = [inputs EXCEPT ![turn] = Applied(inputs[turn], Staged(layers[turn], depth, t))]
          /\ Staged(layers[turn], depth, t).target = t
      <4>1. depth \in 0..Len(layers[turn]) /\ t \in Stage(layers[turn], depth)
          BY <1>a, <3>1 DEF Working
      <4> QED BY <2>2, <1>a, <4>1, StagedTarget DEF Accepts
    <3>3. ASSUME NEW n \in {1, 2}, NEW u, n # turn \/ u # t
          PROVE  /\ ItemHolds(n, u) => ItemHolds(n, u)'
                 /\ ScalarHolds(n, u) => ScalarHolds(n, u)'
                 /\ UnknownHolds(n, u) => UnknownHolds(n, u)'
      <4>1. /\ DOMAIN inputs'[n] = DOMAIN inputs[n]
            /\ u \in DOMAIN inputs[n] => inputs'[n][u] = inputs[n][u]
          BY <1>a, <3>2, <3>3 DEF Applied, TypeOK
      <4>2. /\ Done(n, u)' = Done(n, u) /\ (Passed(n, u)' <=> Passed(n, u))
            /\ ScalarDone(n, u)' <=> ScalarDone(n, u)
          BY <3>1, <3>3 DEF Done, ScalarDone, Passed, Declaring
      <4> QED BY <3>1, <4>1, <4>2, HoldsKept DEF TypeOK
    <3>4. ASSUME NEW n \in {1, 2}, NEW u \in Own PROVE ItemHolds(n, u)'
      <4>1. CASE n # turn \/ u # t
          BY <3>1, <3>3, <4>1 DEF Applying
      <4>2. CASE n = turn /\ u = t
        <5>1. depth # 0
            BY <3>4, <4>2, <2>2, ScalarStep, TargetsAssumption DEF Own
        <5>2. ItemHolds(turn, t)'
            BY <5>1, <2>2, ItemStep
        <5> QED BY <3>1, <4>2, <5>2
      <4> QED BY <4>1, <4>2
    <3>5. ASSUME NEW n \in {1, 2}, NEW u \in Scalars PROVE ScalarHolds(n, u)'
      <4>1. CASE n # turn \/ u # t
          BY <3>1, <3>3, <4>1 DEF Applying
      <4>2. CASE n = turn /\ u = t
        <5>1. depth = 0
            BY <3>1, <3>5, <4>2, DueAtLayer, TargetsAssumption DEF Own
        <5>2. ScalarHolds(turn, t)'
            BY <5>1, <2>2, ScalarStep
        <5> QED BY <3>1, <4>2, <5>2
      <4> QED BY <4>1, <4>2
    <3>6. ASSUME NEW n \in {1, 2}, NEW u \in Unknown PROVE UnknownHolds(n, u)'
      <4>1. t \notin Unknown
          BY <2>2, <3>1, ScalarStep, DueAtLayer, TargetsAssumption DEF Own, Unknown
      <4> QED BY <3>1, <3>3, <3>6, <4>1 DEF Applying
    <3>7. \A n \in {1, 2} : /\ \A u \in Own : ItemHolds(n, u)'
                            /\ \A u \in Scalars : ScalarHolds(n, u)'
                            /\ \A u \in Unknown : UnknownHolds(n, u)'
        BY <3>4, <3>5, <3>6
    <3> QED BY <3>1, <3>7 DEF Applying, Own, Unknown
  <2> QED BY <1>6, <2>1, <2>2, AcceptsOrRefuses
<1>7. CASE UNCHANGED vars
  <2>1. Differences' = Differences
      BY <1>7, DifferencesKept DEF vars
  <2>2. \A n \in {1, 2} : \A t : /\ Done(n, t)' = Done(n, t) /\ (Passed(n, t)' <=> Passed(n, t))
                                 /\ ScalarDone(n, t)' <=> ScalarDone(n, t)
      BY <1>7 DEF vars, Done, ScalarDone, Passed, Declaring
  <2>3. \A n \in {1, 2} : \A t : /\ ItemHolds(n, t)' <=> ItemHolds(n, t)
                                 /\ ScalarHolds(n, t)' <=> ScalarHolds(n, t)
                                 /\ UnknownHolds(n, t) => UnknownHolds(n, t)'
      BY <1>7, <2>2, HoldsKept DEF vars, TypeOK
  <2> QED BY <1>7, <2>1, <2>3 DEF vars, Applying, Own, Unknown
<1> QED BY <1>1, <1>2, <1>3, <1>4, <1>5, <1>6, <1>7 DEF Next

----------------------------------------------------------------------------
(* The theorems. *)

LEMMA RefusalInductive ==
    ASSUME TypeOK, Working, Layered, Applying, RefusedAtLayer, [Next]_vars
    PROVE  RefusedAtLayer'
<1>a. turn \in {1, 2} /\ depth \in Nat
    BY DEF TypeOK
<1>n. ASSUME pc' # "refused" \/ depth' = 0 PROVE RefusedAtLayer'
    BY <1>a, <1>n DEF RefusedAtLayer
<1>r. ASSUME \E reason : Refuse(reason), pc \in {"declare", "visit", "layer", "match"} PROVE RefusedAtLayer'
    BY <1>r, <1>n DEF Refuse, applying, Working
<1>1. CASE Declare \/ EnterVisit \/ Climb \/ Select \/ Layer \/ Resolve \/ Match
  <2>1. pc \in {"declare", "visit", "layer", "match"} /\ ((\E reason : Refuse(reason)) \/ pc' # "refused")
      BY <1>1 DEF Declare, EnterVisit, Climb, Select, Layer, Resolve, Match
  <2> QED BY <2>1, <1>n, <1>r
<1>2. CASE NextLayer \/ Turn \/ Compare
    BY <1>2, <1>n DEF NextLayer, Turn, Compare
<1>3. ASSUME NEW t \in due, Apply(t) PROVE RefusedAtLayer'
  <2> DEFINE chain == layers[turn]
             entry == Staged(chain, depth, t)
  <2>1. CASE Accepts(t)
      BY <2>1, <1>n DEF Accepts
  <2>2. ASSUME Objections(inputs[turn], entry) # {}, depth # 0
        PROVE  \/ depth = FirstOf(chain, t)
               \/ chain[depth].changes[t].payload \in Refused
               \/ chain[depth].changes[t].op # "remove" /\ chain[depth].changes[t].payload = Nothing
    <3>a. pc = "apply"
        BY <1>3 DEF Apply
    <3>1. /\ t \in Own /\ depth \in DOMAIN chain /\ depth \in Declaring(chain, t)
          /\ entry = Entry(chain, depth, t)
          /\ Done(turn, t) = {k \in Declaring(chain, t) : k < depth}
          /\ Declaring(chain, t) \in SUBSET Nat
        BY <2>2, <3>a, DueAtLayer
    <3>2. CASE Done(turn, t) = {}
      <4>1. chain \in Seq(Definitions)
          BY DEF TypeOK, Definitions
      <4>2. FirstOf(chain, t) \in Declaring(chain, t) /\ \A k \in Declaring(chain, t) : FirstOf(chain, t) <= k
          BY <3>1, <4>1, FirstAndLast
      <4> QED BY <1>a, <3>1, <3>2, <4>2
    <3>3. CASE Done(turn, t) # {}
      <4>1. /\ t \in DOMAIN request.input
            /\ (Op(chain, depth, t) = "add") <=> inputs[turn][t] = Nothing
          BY <2>2, <3>a, <3>3, OperationFits
      <4>2. entry.target = t /\ entry.change = chain[depth].changes[t] /\ Op(chain, depth, t) = entry.change.op
          BY <3>1 DEF Entry, Op
      <4>3. t \notin Foreign /\ t \in DOMAIN inputs[turn]
          BY <1>a, <3>1, <4>1 DEF TypeOK, Own
      <4> HIDE DEF entry
      <4>4. There(inputs[turn], t) <=> entry.change.op # "add"
          BY <4>1, <4>2, <4>3 DEF There
      <4> QED BY <2>2, <4>2, <4>3, <4>4, Accepted
    <3> QED BY <3>2, <3>3
  <2>3. ASSUME NEW reason \in Objections(inputs[turn], entry), Refuse(reason) PROVE RefusedAtLayer'
    <3>1. UNCHANGED <<turn, layers, depth, due>> /\ Least(t, due) /\ due \subseteq Nat
        BY <1>3, <2>3, TargetsAssumption DEF Refuse, applying, Apply, TypeOK
    <3>2. \A u \in due : Least(u, due) => u = t
        BY <3>1 DEF Least
    <3>3. FirstOf(layers[turn], t)' = FirstOf(layers[turn], t)
        BY <3>1 DEF FirstOf, Declaring
    <3> QED BY <1>a, <2>2, <2>3, <3>1, <3>2, <3>3 DEF RefusedAtLayer, Least
  <2> QED BY <1>3, <2>1, <2>3, AcceptsOrRefuses
<1>4. CASE UNCHANGED vars
    BY <1>4 DEF vars, RefusedAtLayer, Least, FirstOf, Declaring
<1> QED BY <1>1, <1>2, <1>3, <1>4 DEF Next

LEMMA NoLayers ==
    ASSUME NEW S, NEW empty \in S
    PROVE  <<empty, empty>> \in [{1, 2} -> S]
<1>1. 1..2 = {1, 2}
    OBVIOUS
<1>2. DOMAIN <<empty, empty>> = 1..2
    OBVIOUS
<1>3. <<empty, empty>> = [k \in 1..2 |-> empty]
    BY <1>1
<1> QED BY <1>1, <1>3

LEMMA Initially == Init => IInv
<1> SUFFICES ASSUME Init PROVE IInv
    OBVIOUS
<1>1. PICK c \in Catalogs : c = catalog
    BY DEF Init
<1>2. (\A k \in DOMAIN catalog : IsScenario(catalog[k])) /\ IsRequest(request)
    BY <1>1, RequestsAssumption DEF Init
<1>3. layers = <<<<>>, <<>>>> /\ layers[1] = <<>> /\ layers[2] = <<>> /\ path = <<>>
    BY DEF Init
<1>4. TypeOK
  <2>1. layers \in [{1, 2} -> Seq({catalog[k] : k \in DOMAIN catalog})]
    <3>1. <<>> \in Seq(Definitions)
        OBVIOUS
    <3>2. layers \in [{1, 2} -> Seq(Definitions)]
        BY <1>3, <3>1, NoLayers
    <3> QED BY <3>2 DEF Definitions
  <2>2. DOMAIN inputs = {1, 2} /\ inputs[1] = request.input /\ inputs[2] = request.input /\ IsInput(request.input)
      BY <1>2 DEF Init, IsRequest
  <2>3. path \in Seq(Declared) /\ DOMAIN path = {}
      BY <1>3
  <2> QED BY <1>2, <2>1, <2>2, <2>3 DEF Init, TypeOK, Steps
<1>5. Climbing
    BY <1>3 DEF Init, Climbing, OnPath, Undecided
<1>6. Working /\ Applying /\ RefusedAtLayer
    BY <1>3 DEF Init, Working, Applying, RefusedAtLayer
<1>7. Layered
    BY <1>3 DEF Init, Layered, Linked
<1> QED BY <1>4, <1>5, <1>6, <1>7 DEF IInv

LEMMA Inductive == IInv /\ [Next]_vars => IInv'
    BY TypeInductive, ClimbingInductive, WorkingInductive, LayeredInductive, ApplyingInductive, RefusalInductive
    DEF IInv

LEMMA Invariance == Spec => []IInv
    BY Initially, Inductive, PTL DEF Spec

\* The types hold for every catalog and every request.
THEOREM TypeCorrect == Spec => []TypeOK
    BY Invariance, PTL DEF IInv

\* A circle is reported when there is one, and nothing is layered before it
\* is known that there is none, however many definitions the catalog has.
THEOREM CirclesFound == Spec => []CycleVerdict
<1>1. IInv => CycleVerdict
    BY DEF IInv, Climbing, CycleVerdict
<1> QED BY <1>1, Invariance, PTL

\* Once an input is prepared, all operations on its items were applied.
LEMMA AllDone ==
    ASSUME TypeOK, Working, Layered, Applying, NEW n \in Prepared
    PROVE  /\ n \in {1, 2}
           /\ \A t \in Own : Done(n, t) = Declaring(layers[n], t) /\ ItemHolds(n, t)
           /\ \A t \in Scalars : (ScalarDone(n, t) <=> Declaring(layers[n], t) # {}) /\ ScalarHolds(n, t)
           /\ \A t \in Unknown : Passed(n, t) /\ UnknownHolds(n, t)
<1>1. /\ n \in {1, 2} /\ turn \in {1, 2} /\ layers[n] \in Seq(Definitions)
      /\ n < turn \/ (n = turn /\ due = {} /\ depth = Len(layers[n]))
      /\ pc \in {"apply", "compared"}
    BY DEF Prepared, TypeOK, Definitions, Working
<1>2. Len(layers[n]) \in Nat /\ \A t : Declaring(layers[n], t) \subseteq 1..Len(layers[n])
    BY <1>1 DEF Declaring
<1>3. ASSUME NEW t PROVE Done(n, t) = Declaring(layers[n], t)
    BY <1>1, <1>2 DEF Done
<1>4. ASSUME NEW t \in Scalars PROVE ScalarDone(n, t) <=> Declaring(layers[n], t) # {}
    BY <1>1 DEF ScalarDone, Passed
<1>5. ASSUME NEW t PROVE Passed(n, t)
    BY <1>1 DEF Passed
<1> QED BY <1>1, <1>3, <1>4, <1>5 DEF Applying

\* The effective change of a target tells what its input holds.
NetHolds(n, t) ==
    /\ inputs[n][t] = NetEffect(Effective(layers[n], t), request.input[t])
    /\ Effective(layers[n], t).change.op = "add" => request.input[t] = Nothing
    /\ Effective(layers[n], t).change.op = "replace" => request.input[t] # Nothing

LEMMA Untouched ==
    ASSUME NEW n, NEW t, Declaring(layers[n], t) = {}, inputs[n][t] = request.input[t]
    PROVE  NetHolds(n, t)
    BY DEF NetHolds, Effective, Terminal, NetEffect, NoEntry

LEMMA ItemNet ==
    ASSUME TypeOK, Working, Layered, Applying, NEW n \in Prepared, NEW t \in Own, t \in DOMAIN request.input
    PROVE  NetHolds(n, t)
<1> DEFINE chain == layers[n]
           l == LastOf(chain, t)
           f == FirstOf(chain, t)
           last == Entry(chain, l, t)
<1>1. n \in {1, 2} /\ chain \in Seq(Definitions) /\ DOMAIN inputs[n] = DOMAIN request.input
    BY AllDone DEF TypeOK, Definitions
<1>2. Done(n, t) = Declaring(chain, t) /\ ItemHolds(n, t)
    BY AllDone
<1>3. CASE Declaring(chain, t) = {}
  <2>1. inputs[n][t] = request.input[t]
      BY <1>1, <1>2, <1>3 DEF ItemHolds, Configured
  <2> QED BY <1>3, <2>1, Untouched
<1>4. CASE Declaring(chain, t) # {}
  <2>1. /\ l \in Declaring(chain, t) /\ f \in Declaring(chain, t)
        /\ \A k \in Declaring(chain, t) : f <= k /\ k <= l
      BY <1>1, <1>4, FirstAndLast
  <2> HIDE DEF l, f
  <2>2. LastGives(n, t, l) /\ FirstFits(n, t, f)
      BY <1>2, <2>1 DEF ItemHolds
  <2>3. /\ Op(chain, l, t) = last.change.op /\ chain[l].changes[t] = last.change
        /\ \A op : LET e == WithOperation(last, op) IN
                     e # NoEntry /\ e.change.op = op /\ e.change.payload = last.change.payload
      BY <1>1, <2>1, EntryPresent
  <2> DEFINE added == Op(chain, f, t) = "add"
             exists == last.change.op # "remove"
  <2> HIDE DEF last
  <2>4. Effective(chain, t) = EffectiveList(chain, t)
      BY <1>4 DEF Effective, Own
  <2>5. /\ added /\ exists => EffectiveList(chain, t) = WithOperation(last, "add")
        /\ added /\ ~exists => EffectiveList(chain, t) = NoEntry
        /\ ~added /\ exists => EffectiveList(chain, t) = WithOperation(last, "replace")
        /\ ~added /\ ~exists => EffectiveList(chain, t) = WithOperation(last, "remove")
      BY DEF EffectiveList, l, f, last
  <2>6. (added <=> request.input[t] = Nothing)
        /\ inputs[n][t] = IF exists THEN last.change.payload ELSE Nothing
      BY <2>2, <2>3 DEF LastGives, FirstFits
  <2> HIDE DEF added, exists
  <2>7. NoEntry.change.op = "none"
      BY DEF NoEntry
  <2>8. CASE added /\ ~exists
      BY <2>4, <2>5, <2>6, <2>7, <2>8 DEF NetHolds, NetEffect
  <2>9. CASE added /\ exists
      BY <2>3, <2>4, <2>5, <2>6, <2>9 DEF NetHolds, NetEffect
  <2>10. CASE ~added
      BY <2>3, <2>4, <2>5, <2>6, <2>10 DEF NetHolds, NetEffect
  <2> QED BY <2>8, <2>9, <2>10
<1> QED BY <1>3, <1>4

LEMMA ScalarNet ==
    ASSUME TypeOK, Working, Layered, Applying, NEW n \in Prepared, NEW t \in Scalars, t \in DOMAIN request.input
    PROVE  NetHolds(n, t)
<1> DEFINE chain == layers[n]
           last == Entry(chain, LastOf(chain, t), t)
<1>1. n \in {1, 2} /\ chain \in Seq(Definitions) /\ DOMAIN inputs[n] = DOMAIN request.input /\ t \notin Lists
    BY AllDone, TargetsAssumption DEF TypeOK, Definitions
<1>2. (ScalarDone(n, t) <=> Declaring(chain, t) # {}) /\ ScalarHolds(n, t)
    BY AllDone
<1>3. CASE Declaring(chain, t) = {}
  <2>1. inputs[n][t] = request.input[t]
      BY <1>1, <1>2, <1>3 DEF ScalarHolds, Configured
  <2> QED BY <1>3, <2>1, Untouched
<1>4. CASE Declaring(chain, t) # {}
  <2>1. Effective(chain, t) = last /\ inputs[n][t] = last.change.payload
      BY <1>1, <1>2, <1>4 DEF Effective, Terminal, ScalarHolds
  <2>2. LastOf(chain, t) \in Declaring(chain, t)
      BY <1>1, <1>4, FirstAndLast
  <2>3. last # NoEntry /\ IsEntry(last) /\ last.target = t
      BY <1>1, <2>2, EntryPresent DEF Entry
  <2>4. last.change.op = "set"
      BY <2>3 DEF IsEntry
  <2> HIDE DEF last
  <2> QED BY <2>1, <2>3, <2>4 DEF NetHolds, NetEffect
<1> QED BY <1>3, <1>4

\* Nothing is done to an item of another slice, and nothing was to be done.
LEMMA UnknownNet ==
    ASSUME TypeOK, Working, Layered, Applying, NEW n \in Prepared, NEW t \in Unknown, t \in DOMAIN request.input
    PROVE  NetHolds(n, t)
<1>1. n \in {1, 2} /\ DOMAIN inputs[n] = DOMAIN request.input
    BY AllDone DEF TypeOK
<1>2. UnknownHolds(n, t) /\ Passed(n, t)
    BY AllDone
<1>3. Effective(layers[n], t) = NoEntry /\ inputs[n][t] = request.input[t]
    BY <1>1, <1>2 DEF UnknownHolds, Configured
<1> QED BY <1>3 DEF NetHolds, NetEffect, NoEntry

LEMMA PreparedNet ==
    ASSUME TypeOK, Working, Layered, Applying, NEW n \in Prepared, NEW t \in DOMAIN request.input
    PROVE  NetHolds(n, t)
<1>1. t \in Own \cup Scalars \cup Unknown
    BY DEF TypeOK, IsRequest, IsInput, Targets, Own, Unknown
<1> QED BY <1>1, ItemNet, ScalarNet, UnknownNet

\* The net change of every target is what the operations of the layers do to
\* it one after the other, and resolution leaves only first operations and
\* payloads to be refused when they are applied.
THEOREM NetChangesApply == Spec => []OverlaysAgree
<1>1. IInv => OverlaysAgree
  <2> SUFFICES ASSUME IInv PROVE OverlaysAgree
      OBVIOUS
  <2>1. \A n \in Prepared : \A t \in DOMAIN request.input : NetHolds(n, t)
      BY PreparedNet DEF IInv
  <2> QED BY <2>1 DEF IInv, OverlaysAgree, NetHolds, RefusedAtLayer
<1> QED BY <1>1, Invariance, PTL

----------------------------------------------------------------------------
(* Attribution. *)

\* What is not reported has the same net change, so the inputs agree on it.
LEMMA DifferentIsReported ==
    ASSUME IInv, pc = "compared", NEW t, Configured(inputs[1], t) # Configured(inputs[2], t)
    PROVE  /\ t \in DOMAIN request.input /\ t \in Targets
           /\ Effective(layers[1], t).change # Effective(layers[2], t).change
<1>1. /\ DOMAIN inputs[1] = DOMAIN request.input /\ DOMAIN inputs[2] = DOMAIN request.input
      /\ DOMAIN request.input \subseteq Targets
    BY DEF IInv, TypeOK, IsRequest, IsInput
<1>2. t \in DOMAIN request.input
    BY <1>1 DEF Configured
<1>3. NetHolds(1, t) /\ NetHolds(2, t)
    BY <1>2, PreparedNet DEF IInv, Prepared
<1>4. inputs[1][t] # inputs[2][t]
    BY <1>1, <1>2 DEF Configured
<1>5. ASSUME NEW n \in {1, 2}
      PROVE  Effective(layers[n], t) = NoEntry <=> Effective(layers[n], t).change.op = "none"
  <2> DEFINE chain == layers[n]
  <2>1. chain \in Seq(Definitions)
      BY DEF IInv, TypeOK, Definitions
  <2>2. CASE Declaring(chain, t) = {}
      BY <2>2 DEF Effective, Terminal, NoEntry
  <2>3. CASE Declaring(chain, t) # {}
    <3>1. LastOf(chain, t) \in Declaring(chain, t)
        BY <2>1, <2>3, FirstAndLast
    <3> DEFINE last == Entry(chain, LastOf(chain, t), t)
    <3>2. /\ last # NoEntry /\ IsEntry(last)
          /\ \A op : LET e == WithOperation(last, op) IN e # NoEntry /\ e.change.op = op
        BY <3>1, EntryPresent DEF IInv
    <3>3. last.change.op # "none"
        BY <3>2 DEF IsEntry, ChangeType
    <3> HIDE DEF last
    <3>4. CASE t \in Lists
      <4>1. EffectiveList(chain, t) \in {NoEntry} \cup {WithOperation(last, op) : op \in {"add", "replace", "remove"}}
          BY DEF EffectiveList, last
      <4>2. Effective(chain, t) = EffectiveList(chain, t)
          BY <2>3, <3>4 DEF Effective
      <4> QED BY <3>2, <4>1, <4>2 DEF NoEntry
    <3>5. CASE t \notin Lists
        BY <2>3, <3>2, <3>3, <3>5 DEF Effective, Terminal, last
    <3> QED BY <3>4, <3>5
  <2> QED BY <2>2, <2>3
<1>6. ASSUME Effective(layers[1], t).change = Effective(layers[2], t).change PROVE FALSE
  <2> DEFINE a == Effective(layers[1], t)
             b == Effective(layers[2], t)
  <2>1. (a = NoEntry) <=> (b = NoEntry)
      BY <1>5, <1>6
  <2>2. NetEffect(a, request.input[t]) = NetEffect(b, request.input[t])
      BY <1>6, <2>1 DEF NetEffect
  <2> QED BY <1>3, <1>4, <2>2 DEF NetHolds
<1> QED BY <1>1, <1>2, <1>6

LEMMA SameDefinition ==
    ASSUME DefinitionsValid, NEW a \in Definitions, NEW b \in Definitions, a.id = b.id
    PROVE  a = b
    BY DEF DefinitionsValid, Definitions

\* Where only the first of its layers changes a target, a chain agrees on it
\* with the chain of that layer alone.
LEMMA RootOnly ==
    ASSUME NEW X, NEW one \in Seq(X), NEW other \in Seq(X), NEW t, Len(one) = 1, other # <<>>, one[1] = other[1],
           Declaring(other, t) \subseteq {1}
    PROVE  Effective(one, t) = Effective(other, t)
<1>1. 1 \in DOMAIN one /\ 1 \in DOMAIN other /\ DOMAIN one = {1}
    OBVIOUS
<1>2. Declaring(one, t) = Declaring(other, t)
    BY <1>1 DEF Declaring
<1>3. CASE Declaring(one, t) = {}
    BY <1>2, <1>3 DEF Effective, Terminal
<1>4. CASE Declaring(one, t) # {}
  <2>1. LastOf(one, t) = 1 /\ LastOf(other, t) = 1 /\ FirstOf(one, t) = 1 /\ FirstOf(other, t) = 1
      BY <1>2, <1>4, FirstAndLast
  <2>2. Entry(one, 1, t) = Entry(other, 1, t) /\ Op(one, 1, t) = Op(other, 1, t)
      BY DEF Entry, Op
  <2>3. Terminal(one, t) = Terminal(other, t) /\ EffectiveList(one, t) = EffectiveList(other, t)
      BY <1>2, <2>1, <2>2 DEF Terminal, EffectiveList
  <2> QED BY <1>2, <2>3 DEF Effective
<1> QED BY <1>3, <1>4

\* Whatever differs between the inputs is reported with both its values, and
\* under a layer the baseline does not have.
THEOREM DifferencesExplained == Spec => []DifferencesAttributed
<1>1. IInv => DifferencesAttributed
  <2> SUFFICES ASSUME IInv, pc = "compared",
                      NEW t \in Targets, Configured(inputs[1], t) # Configured(inputs[2], t)
               PROVE  \E d \in outcome.differences :
                        /\ d.target = t /\ d.before = Configured(inputs[1], t) /\ d.after = Configured(inputs[2], t)
                        /\ d.layer \notin {layers[1][k].id : k \in DOMAIN layers[1]}
      BY DEF DifferencesAttributed
  <2> DEFINE root == layers[1][1]
             chain == layers[2]
             l == LastOf(chain, t)
  <2>1. /\ layers[1] \in Seq(Definitions) /\ chain \in Seq(Definitions)
        /\ Len(layers[1]) = 1 /\ DOMAIN layers[1] = {1} /\ chain # <<>> /\ root.id = chain[1].id
        /\ root.base = NoBase /\ DefinitionsValid /\ Linked(chain)
        /\ outcome.differences = Differences
      BY DEF IInv, TypeOK, Definitions, Layered, Rooted, Applying
  <2>2. root \in Definitions /\ chain[1] \in Definitions /\ root = chain[1]
    <3>1. root \in Definitions /\ chain[1] \in Definitions
        BY <2>1
    <3> QED BY <2>1, <3>1, SameDefinition
  <2>3. Effective(layers[1], t).change # Effective(chain, t).change
      BY DifferentIsReported
  <2>4. ~(Declaring(chain, t) \subseteq {1})
      BY <2>1, <2>2, <2>3, RootOnly
  <2>5. /\ Declaring(chain, t) # {} /\ l \in Declaring(chain, t) /\ l # 1
        /\ Declaring(chain, t) \subseteq 1..Len(chain) /\ Len(chain) \in Nat
    <3>1. Declaring(chain, t) \subseteq 1..Len(chain) /\ Len(chain) \in Nat
        BY <2>1 DEF Declaring
    <3>2. PICK k \in Declaring(chain, t) : k # 1
        BY <2>4
    <3>3. l \in Declaring(chain, t) /\ k <= l
        BY <2>1, <3>2, FirstAndLast
    <3> QED BY <3>1, <3>2, <3>3
  <2>6. Terminal(chain, t) # NoEntry /\ Terminal(chain, t).layer = chain[l].id
    <3>1. Entry(chain, l, t) # NoEntry /\ Entry(chain, l, t).layer = chain[l].id
        BY <2>5, EntryPresent DEF IInv
    <3> QED BY <2>5, <3>1 DEF Terminal
  <2> HIDE DEF l
  <2>7. chain[l].base # NoBase
    <3> DEFINE j == l - 1
    <3>1. j \in 1..Len(chain) - 1 /\ j + 1 = l /\ j \in DOMAIN chain
        BY <2>1, <2>5
    <3> HIDE DEF j
    <3>2. chain[l].base = chain[j].id /\ chain[j] \in Definitions
        BY <2>1, <3>1 DEF Linked
    <3> QED BY <3>2 DEF IInv, TypeOK, Definitions, IsScenario, Ids
  <2>8. chain[l].id # root.id
    <3>1. chain[l] \in Definitions
        BY <2>1, <2>5
    <3> QED BY <2>1, <2>2, <2>7, <3>1, SameDefinition
  <2>9. Difference(t) \in outcome.differences
      BY <2>1, <2>3 DEF Differences, Reported
  <2>10. /\ Difference(t).target = t /\ Difference(t).layer = chain[l].id
         /\ Difference(t).before = Configured(inputs[1], t) /\ Difference(t).after = Configured(inputs[2], t)
      BY <2>6 DEF Difference
  <2> QED BY <2>1, <2>8, <2>9, <2>10
<1> QED BY <1>1, Invariance, PTL
=============================================================================
