-------------------------- MODULE ScenarioComparison --------------------------
(****************************************************************************)
(* Scenarios of src/src/simulation/scenario.ts: a catalog of layers that    *)
(* inherit from one another, its resolution to the layers of a scenario and *)
(* their effective changes, the application of those changes to the input   *)
(* of a slice, and the differences that explain a comparison.               *)
(*                                                                          *)
(* compare(..) is modelled step by step, for one alternative.  A change has *)
(* a semantic target: a scalar (a rate, a date, a policy, a rule binding),  *)
(* which a descendant overrides, or an item of a list (a purchase, an extra *)
(* principal payment), where every layer adds, replaces or removes.  What a *)
(* change sets, with the assumption or event it comes from, is one value;   *)
(* the adapters refuse some values.  The trace references they put on what  *)
(* they change are left out, and the runs between application and           *)
(* differences belong to other modules.                                     *)
(****************************************************************************)
EXTENDS Naturals, Sequences

CONSTANTS
  Scalars,    \* targets of the other kinds of change, ordered as their names are
  Lists,      \* targets of list operations
  Foreign,    \* targets of kinds the adapter of this slice does not support
  Values,     \* what a target can be set to
  Refused,    \* values no adapter accepts: backdated, another convention, ..
  Nothing,    \* no payload, and the value of an item that is not there
  Catalogs,   \* sequences of scenario definitions
  Requests    \* what is compared: see RequestType

Targets == Scalars \cup Lists
NoBase == 0
Ids == Nat \ {NoBase}

ASSUME TargetsAssumption == Targets \subseteq Nat /\ Scalars \cap Lists = {} /\ Foreign \subseteq Targets
ASSUME ValuesAssumption == Refused \subseteq Values /\ Nothing \notin Values

ChangeType == [op : {"set", "add", "replace", "remove"}, payload : Values \cup {Nothing}]

\* A layer changes a target at most once: validateDefinition refuses more, and
\* such a definition is one that is not sound.
IsChanges(changes) ==
  /\ DOMAIN changes \subseteq Targets
  /\ \A t \in DOMAIN changes :
       /\ changes[t] \in ChangeType
       /\ (changes[t].op = "set") <=> t \in Scalars
       /\ (changes[t].op = "set") => changes[t].payload # Nothing
IsScenario(s) ==
  /\ s.id \in Ids /\ s.base \in Nat
  /\ s.sound \in BOOLEAN /\ s.enabled \in BOOLEAN /\ s.stochastic \in BOOLEAN
  /\ s.horizon \in Nat /\ IsChanges(s.changes)

\* Input of a slice: the targets that are there.  A list item without its
\* holder (a payment of a loan that does not exist) has no entry; an absent
\* item of an existing list is Nothing.
IsInput(input) ==
  /\ DOMAIN input \subseteq Targets
  /\ \A t \in DOMAIN input : input[t] \in Values \cup (IF t \in Lists THEN {Nothing} ELSE {})
IsRequest(r) ==
  /\ r.baseline \in Ids /\ r.alternative \in Ids
  /\ r.horizon \in Nat /\ r.realizations \in Nat /\ IsInput(r.input)
  /\ DOMAIN r.runIds \subseteq Ids

ASSUME RequestsAssumption ==
  /\ \A c \in Catalogs : \A k \in DOMAIN c : IsScenario(c[k])
  /\ \A r \in Requests : IsRequest(r)

VARIABLES
  catalog,    \* the definitions given
  request,    \* the comparison asked for
  pc,         \* where compare stands
  turn,       \* the scenario at work: 1 the baseline, 2 the alternative
  visited,    \* ids known to inherit without a cycle
  path,       \* ids being visited, from the one the visit began with
  cursor,     \* next layer to put in front, NoBase at the root
  layers,     \* the layers of both, root first
  depth,      \* what is being applied: the effective changes (0) or a layer's list operations
  due,        \* targets of it that are still to come
  inputs,     \* the input of both, as far as it is built
  outcome     \* why the comparison was refused, or what it reports

vars == <<catalog, request, pc, turn, visited, path, cursor, layers, depth, due, inputs, outcome>>
given == <<catalog, request>>
applying == <<depth, due, inputs>>

----------------------------------------------------------------------------
(* Catalog and layers.                                                     *)

Declared == {catalog[k].id : k \in DOMAIN catalog}
Scenario(id) == catalog[CHOOSE k \in DOMAIN catalog : catalog[k].id = id]

ValidDefinition(s) == s.sound /\ s.base # s.id
DefinitionsValid ==
  /\ \A k \in DOMAIN catalog : ValidDefinition(catalog[k])
  /\ \A j, k \in DOMAIN catalog : catalog[j].id = catalog[k].id => j = k
BasesFound == \A k \in DOMAIN catalog : catalog[k].base \in Declared \cup {NoBase}

OnPath == {path[k] : k \in DOMAIN path}
LastOnPath == path[Len(path)]
Selected == IF turn = 1 THEN request.baseline ELSE request.alternative

Least(x, S) == x \in S /\ \A y \in S : x <= y

----------------------------------------------------------------------------
(* Overlays.                                                               *)

\* The layers that change a target, the first and the last of them.
Declaring(chain, t) == {k \in DOMAIN chain : t \in DOMAIN chain[k].changes}
FirstOf(chain, t) == CHOOSE k \in Declaring(chain, t) : \A j \in Declaring(chain, t) : k <= j
LastOf(chain, t) == CHOOSE k \in Declaring(chain, t) : \A j \in Declaring(chain, t) : j <= k
Follows(chain, t, j, k) ==
  /\ {j, k} \subseteq Declaring(chain, t) /\ j < k
  /\ \A i \in Declaring(chain, t) : i <= j \/ k <= i

Entry(chain, k, t) == [layer |-> chain[k].id, target |-> t, change |-> chain[k].changes[t]]
Op(chain, k, t) == chain[k].changes[t].op

\* resolveListHistory: an inherited item cannot be added, and one that is not
\* inherited cannot be replaced or removed.  The first operation is judged
\* later, by the input it is applied to.
Misplaced(chain, t, k) ==
  \E j \in DOMAIN chain :
    Follows(chain, t, j, k) /\ (Op(chain, k, t) = "add" <=> Op(chain, j, t) # "remove")
ListRefusals(chain, t) ==
  {IF Op(chain, k, t) = "add" THEN "conflict" ELSE "missing" : k \in {n \in DOMAIN chain : Misplaced(chain, t, n)}}

NoEntry == [layer |-> NoBase, target |-> NoBase, change |-> [op |-> "none", payload |-> Nothing]]
WithOperation(entry, op) == [entry EXCEPT !.change.op = op]
\* Variant: the last operation stands for all of them.
EffectiveListLast(chain, t) == Entry(chain, LastOf(chain, t), t)
EffectiveList(chain, t) ==
  LET last == Entry(chain, LastOf(chain, t), t)
      added == Op(chain, FirstOf(chain, t), t) = "add"
      exists == last.change.op # "remove"
  IN  CASE added /\ exists -> WithOperation(last, "add")
        [] added /\ ~exists -> NoEntry
        [] ~added /\ exists -> WithOperation(last, "replace")
        [] ~added /\ ~exists -> WithOperation(last, "remove")

Terminal(chain, t) ==
  IF Declaring(chain, t) = {} THEN NoEntry ELSE Entry(chain, LastOf(chain, t), t)
Effective(chain, t) ==
  IF t \in Lists /\ Declaring(chain, t) # {} THEN EffectiveList(chain, t) ELSE Terminal(chain, t)

\* What an adapter applies: the effective changes but the list operations of
\* its own kind, then each of these, layer by layer, in the order of targets.
Stage(chain, n) ==
  IF n = 0 THEN {t \in Scalars \cup Foreign : Effective(chain, t) # NoEntry}
  ELSE DOMAIN chain[n].changes \cap (Lists \ Foreign)
Staged(chain, n, t) == IF n = 0 THEN Effective(chain, t) ELSE Entry(chain, n, t)

\* Why an adapter may refuse an entry on the input built so far.  The kinds of
\* scalar check in orders of their own: which of two reasons is given is open.
There(input, target) == target \in DOMAIN input /\ input[target] # Nothing
ScalarObjections(input, entry) ==
  {reason \in {"missing", "invalid"} :
     IF reason = "missing" THEN entry.target \notin DOMAIN input ELSE entry.change.payload \in Refused}

\* Slices 3 and 4 look for the holder of an item, then at the payload, before
\* applyListOperation looks for the item.
Unprepared(input, entry) ==
  IF entry.target \notin DOMAIN input THEN {"missing"}
  ELSE IF entry.change.payload \in Refused THEN {"invalid"} ELSE {}
OperationObjections(input, entry) ==
  LET there == There(input, entry.target)
      empty == entry.change.payload = Nothing
  IN  CASE entry.change.op = "add" -> IF there \/ empty THEN {"conflict"} ELSE {}
        [] entry.change.op # "add" /\ ~there -> {"missing"}
        [] entry.change.op = "replace" /\ there /\ empty -> {"invalid"}
        [] OTHER -> {}
Objections(input, entry) ==
  CASE entry.target \in Foreign -> {"unsupported"}
    [] entry.target \in Scalars \ Foreign -> ScalarObjections(input, entry)
    [] OTHER -> IF Unprepared(input, entry) # {} THEN Unprepared(input, entry) ELSE OperationObjections(input, entry)
Applied(input, entry) ==
  [input EXCEPT ![entry.target] = IF entry.change.op = "remove" THEN Nothing ELSE entry.change.payload]

\* configuredValue: what an input holds for a target.
Configured(input, target) == IF target \in DOMAIN input THEN input[target] ELSE Nothing

\* differences: a target is reported when its effective or its last declared
\* change differs, under the last layer of the alternative that declared it.
Reported(t) ==
  \/ Effective(layers[1], t).change # Effective(layers[2], t).change
  \/ Terminal(layers[1], t).change # Terminal(layers[2], t).change
\* Variant: the baseline is asked first who declared the change.
DifferenceOfBaseline(t) ==
  LET inherited == Terminal(layers[1], t) IN
  [target |-> t, layer |-> IF inherited # NoEntry THEN inherited.layer ELSE Terminal(layers[2], t).layer,
   before |-> Configured(inputs[1], t), after |-> Configured(inputs[2], t)]
Difference(t) ==
  LET own == Terminal(layers[2], t) IN
  [target |-> t, layer |-> IF own # NoEntry THEN own.layer ELSE Terminal(layers[1], t).layer,
   before |-> Configured(inputs[1], t), after |-> Configured(inputs[2], t)]
Differences == {Difference(t) : t \in {u \in Targets : Reported(u)}}

----------------------------------------------------------------------------
(* The comparison.                                                         *)

Undecided == [verdict |-> "open", differences |-> {}]
Refusal(reason) == [verdict |-> reason, differences |-> {}]
Refuse(reason) ==
  /\ outcome' = Refusal(reason) /\ pc' = "refused"
  /\ UNCHANGED <<given, turn, visited, path, cursor, layers, applying>>

Init ==
  /\ catalog \in Catalogs /\ request \in Requests
  /\ pc = "declare" /\ turn = 1
  /\ visited = {} /\ path = <<>> /\ cursor = NoBase
  /\ layers = <<<<>>, <<>>>> /\ depth = 0 /\ due = {} /\ inputs = <<request.input, request.input>>
  /\ outcome = Undecided

\* resolveScenario: the whole catalog is validated, not only what is selected.
Declare ==
  /\ pc = "declare"
  /\ IF request.realizations = 0 \/ ~DefinitionsValid THEN Refuse("invalid")
     ELSE IF ~BasesFound THEN Refuse("reference")
     ELSE /\ pc' = "visit" /\ visited' = {}
          /\ UNCHANGED <<given, turn, path, cursor, layers, depth, due, inputs, outcome>>

\* Every scenario is visited in the order of the ids; one that was reached
\* before returns at once.
EnterVisit ==
  /\ pc = "visit" /\ path = <<>> /\ Declared # visited
  /\ \E id \in Declared \ visited : Least(id, Declared \ visited) /\ path' = <<id>>
  /\ UNCHANGED <<given, pc, turn, visited, cursor, layers, depth, due, inputs, outcome>>

InCycle(base) == base \in OnPath
Climb ==
  /\ pc = "visit" /\ path # <<>>
  /\ LET base == Scenario(LastOnPath).base IN
     \/ /\ base # NoBase /\ InCycle(base)
        /\ Refuse("cycle")
     \/ /\ base # NoBase /\ ~InCycle(base) /\ base \notin visited
        /\ path' = Append(path, base)
        /\ UNCHANGED <<given, pc, turn, visited, cursor, layers, depth, due, inputs, outcome>>
     \/ /\ base = NoBase \/ (base \in visited /\ ~InCycle(base))
        /\ visited' = visited \cup OnPath /\ path' = <<>>
        /\ UNCHANGED <<given, pc, turn, cursor, layers, depth, due, inputs, outcome>>

\* Variant: a scenario is layered once it has been visited itself.
SelectReached ==
  /\ pc = "visit" /\ path = <<>> /\ Selected \in visited
  /\ pc' = "layer" /\ cursor' = Selected
  /\ UNCHANGED <<given, turn, visited, path, layers, applying, outcome>>
Select ==
  /\ pc = "visit" /\ path = <<>> /\ Declared = visited
  /\ IF Selected \notin Declared THEN Refuse("reference")
     ELSE /\ pc' = "layer" /\ cursor' = Selected
          /\ UNCHANGED <<given, turn, visited, path, layers, applying, outcome>>

Layer ==
  /\ pc = "layer" /\ cursor # NoBase
  /\ layers' = [layers EXCEPT ![turn] = <<Scenario(cursor)>> \o @]
  /\ cursor' = Scenario(cursor).base
  /\ UNCHANGED <<given, pc, turn, visited, path, applying, outcome>>

\* All layers are there: is the scenario executable, do its layers fit?  A
\* baseline must be a root, before the alternative is resolved.
Resolve ==
  LET chain == layers[turn]
      misplaced == UNION {ListRefusals(chain, t) : t \in Lists}
  IN
  /\ pc = "layer" /\ cursor = NoBase
  /\ IF \E k \in DOMAIN chain : ~chain[k].enabled THEN Refuse("invalid")
     ELSE IF request.realizations > 1 \/ \E k \in DOMAIN chain : chain[k].stochastic THEN Refuse("stochastic")
     ELSE IF misplaced # {} THEN \E reason \in misplaced : Refuse(reason)
     ELSE IF turn = 1 /\ chain[Len(chain)].base # NoBase THEN Refuse("incompatible")
     ELSE /\ turn' = 2 /\ pc' = IF turn = 1 THEN "declare" ELSE "match"
          /\ UNCHANGED <<given, visited, path, cursor, layers, depth, due, inputs, outcome>>

\* One root, one horizon, and a run id of its own for each.
Comparable ==
  LET baseline == layers[1][Len(layers[1])]
      alternative == layers[2][Len(layers[2])]
  IN  /\ Head(layers[2]).id = Head(layers[1]).id
      /\ baseline.horizon = request.horizon /\ alternative.horizon = request.horizon
RunsNamed ==
  /\ {request.baseline, request.alternative} \subseteq DOMAIN request.runIds
  /\ request.runIds[request.baseline] # request.runIds[request.alternative]
Match ==
  /\ pc = "match"
  /\ IF ~Comparable THEN Refuse("incompatible")
     ELSE IF ~RunsNamed THEN Refuse("invalid")
     ELSE /\ pc' = "apply" /\ turn' = 1 /\ depth' = 0 /\ due' = Stage(layers[1], 0)
          /\ UNCHANGED <<given, visited, path, cursor, layers, inputs, outcome>>

\* Each scenario is applied to the input of the request, not to the other's.
Apply(t) ==
  LET entry == Staged(layers[turn], depth, t)
      objections == Objections(inputs[turn], entry)
  IN
  /\ pc = "apply" /\ Least(t, due)
  /\ \/ \E reason \in objections : Refuse(reason)
     \/ /\ objections = {}
        /\ inputs' = [inputs EXCEPT ![turn] = Applied(@, entry)]
        /\ due' = due \ {t}
        /\ UNCHANGED <<given, pc, turn, visited, path, cursor, layers, depth, outcome>>

NextLayer ==
  /\ pc = "apply" /\ due = {} /\ depth < Len(layers[turn])
  /\ depth' = depth + 1 /\ due' = Stage(layers[turn], depth + 1)
  /\ UNCHANGED <<given, pc, turn, visited, path, cursor, layers, inputs, outcome>>

\* The baseline has its input and runs; then the alternative is applied.
Turn ==
  /\ pc = "apply" /\ due = {} /\ depth = Len(layers[turn]) /\ turn = 1
  /\ turn' = 2 /\ depth' = 0 /\ due' = Stage(layers[2], 0)
  /\ UNCHANGED <<given, pc, visited, path, cursor, layers, inputs, outcome>>

Compare ==
  /\ pc = "apply" /\ due = {} /\ depth = Len(layers[turn]) /\ turn = 2
  /\ pc' = "compared" /\ outcome' = [verdict |-> "compared", differences |-> Differences]
  /\ UNCHANGED <<given, turn, visited, path, cursor, layers, applying>>

Next ==
  \/ Declare \/ EnterVisit \/ Climb \/ Select \/ Layer
  \/ Resolve \/ Match \/ NextLayer \/ Turn \/ Compare
  \/ \E t \in due : Apply(t)
Spec == Init /\ [][Next]_vars

----------------------------------------------------------------------------
Steps == {"declare", "visit", "layer", "match", "apply", "compared", "refused"}
\* The variables keep their types: a path holds no id twice, layers are
\* scenarios of the catalog, an input never gains a target.
TypeOK ==
  /\ \A k \in DOMAIN catalog : IsScenario(catalog[k])
  /\ IsRequest(request)
  /\ pc \in Steps /\ turn \in {1, 2}
  /\ visited \subseteq Declared
  /\ path \in Seq(Declared) /\ \A j, k \in DOMAIN path : path[j] = path[k] => j = k
  /\ cursor \in Declared \cup {NoBase}
  /\ layers \in [{1, 2} -> Seq({catalog[k] : k \in DOMAIN catalog})]
  /\ DOMAIN inputs = {1, 2}
  /\ \A n \in {1, 2} : IsInput(inputs[n]) /\ DOMAIN inputs[n] = DOMAIN request.input
  /\ depth \in Nat /\ due \subseteq Targets

\* A catalog is refused for a cycle exactly when scenarios inherit in a
\* circle, whichever of them are compared: nothing is layered before this is
\* known, and the search for it misses none (visit, scenario.ts:494-517).
Circle == \E S \in SUBSET Declared : S # {} /\ \A id \in S : Scenario(id).base \in S
CycleVerdict ==
  /\ outcome.verdict = "cycle" => Circle
  /\ pc \notin {"declare", "visit", "refused"} => ~Circle

\* Two computations agree: the effective change of an item, by which the
\* differences go, has on the input of the request the effect all list
\* operations of the layers had, applied one after the other; and
\* resolution found every conflict between layers, so that what is refused
\* during application is the first operation on an item or its payload
\* (resolveListHistory, scenario.ts:339-383; listHistoryEntries, :438).
NetEffect(entry, value) ==
  CASE entry = NoEntry -> value
    [] entry # NoEntry /\ entry.change.op = "remove" -> Nothing
    [] OTHER -> entry.change.payload
Prepared ==
  {n \in {1, 2} : \/ pc = "compared"
                  \/ pc = "apply" /\ (n < turn \/ (n = turn /\ due = {} /\ depth = Len(layers[n])))}
OverlaysAgree ==
  /\ \A n \in Prepared : \A t \in DOMAIN request.input :
       LET net == Effective(layers[n], t) IN
       /\ inputs[n][t] = NetEffect(net, request.input[t])
       /\ net.change.op = "add" => request.input[t] = Nothing
       /\ net.change.op = "replace" => request.input[t] # Nothing
  /\ pc = "refused" /\ depth > 0 =>
       \A t \in due : Least(t, due) =>
         LET chain == layers[turn] IN
         \/ depth = FirstOf(chain, t)
         \/ chain[depth].changes[t].payload \in Refused
         \/ chain[depth].changes[t].op # "remove" /\ chain[depth].changes[t].payload = Nothing

\* A comparison explains what it compares: every target for which the two
\* runs were given different values is reported, with those values, and
\* under a layer the baseline does not have (differences, scenario.ts:1238).
DifferencesAttributed ==
  pc = "compared" =>
    \A t \in Targets : Configured(inputs[1], t) # Configured(inputs[2], t) =>
      \E d \in outcome.differences :
        /\ d.target = t /\ d.before = Configured(inputs[1], t) /\ d.after = Configured(inputs[2], t)
        /\ d.layer \notin {layers[1][k].id : k \in DOMAIN layers[1]}
=============================================================================
