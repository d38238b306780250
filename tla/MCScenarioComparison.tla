------------------------ MODULE MCScenarioComparison ------------------------
(* Catalogs of three scenarios: every way to inherit, sound or not, with few *)
(* changes; and every history of one item or one scalar along a chain.       *)
EXTENDS ScenarioComparison

Growth == 1
Policy == 2
Purchase == 3
Extra == 4  \* of a loan, which this slice does not know
Set(v) == [op |-> "set", payload |-> v]
List(op, v) == [op |-> op, payload |-> v]
Unchanged == [t \in {} |-> Set("v1")]
Only(t, change) == [u \in {t} |-> change]

Define(id, base, changes) ==
  [id |-> id, base |-> base, sound |-> TRUE, enabled |-> TRUE, stochastic |-> FALSE, horizon |-> 12,
   changes |-> changes]

\* Inheritance: circles of two and three, missing bases, two roots.
Inheriting ==
  {<<Define(1, b[1], Only(Purchase, List("add", "v1"))), Define(2, b[2], Only(Growth, Set("v2"))),
     Define(3, b[3], Unchanged)>> : b \in [1..3 -> 0..4]}
Plain == <<Define(2, 0, Unchanged), Define(3, 2, Unchanged), Define(1, 3, Unchanged)>>
\* One definition that is not sound, not enabled, of another horizon, or twice there.
Odd ==
  {[Plain EXCEPT ![k].sound = FALSE] : k \in 1..3} \cup {[Plain EXCEPT ![k].enabled = FALSE] : k \in 1..3}
  \cup {[Plain EXCEPT ![k].stochastic = TRUE] : k \in 1..3} \cup {[Plain EXCEPT ![k].horizon = 6] : k \in 1..3}
  \cup {Append(Plain, Plain[1])}

Histories(t, changes) ==
  {<<Define(2, 0, h[1]), Define(3, 2, h[2]), Define(1, 3, h[3])>> :
     h \in [1..3 -> {Unchanged} \cup {Only(t, c) : c \in changes}]}
ListChanges ==
  {List(op, v) : op \in {"add", "replace"}, v \in {"v1", "v2", "nothing"}} \cup {List("add", "bad"), List("remove", "nothing")}
\* Layers that change an item, a scalar, or both.
Mixed ==
  LET change == {Unchanged, Only(Growth, Set("v1")), Only(Purchase, List("add", "v1")),
                 [t \in {Growth, Purchase} |-> IF t = Growth THEN Set("v2") ELSE List("replace", "v2")]}
  IN  {<<Define(2, 0, h[1]), Define(3, 2, h[2]), Define(1, 2, h[3])>> : h \in [1..3 -> change]}
ScalarChanges == {Set("v1"), Set("v2"), Set("bad")}

MCCatalogs ==
  Inheriting \cup Odd \cup Mixed \cup Histories(Purchase, ListChanges) \cup Histories(Growth, ScalarChanges)
    \cup {<<Define(2, 0, Only(Policy, Set("v1"))), Define(3, 2, Unchanged)>>}
    \cup Histories(Extra, {List("add", "v1"), List("remove", "nothing")})

InputOf(items) == [t \in items |-> IF t = Purchase THEN "nothing" ELSE "v0"]
Ask(baseline, alternative, input) ==
  [baseline |-> baseline, alternative |-> alternative, horizon |-> 12, realizations |-> 1, input |-> input,
   runIds |-> [id \in 1..3 |-> id]]
Whole == InputOf({Growth, Purchase})
MCRequests ==
  {Ask(2, 1, Whole), Ask(2, 1, [Whole EXCEPT ![Purchase] = "v0"]), Ask(2, 1, InputOf({})),
   Ask(1, 3, Whole), Ask(2, 3, Whole),
   [Ask(2, 1, Whole) EXCEPT !.realizations = 2], [Ask(2, 1, Whole) EXCEPT !.realizations = 0],
   [Ask(2, 1, Whole) EXCEPT !.runIds = [id \in {2} |-> 2]], [Ask(2, 1, Whole) EXCEPT !.runIds = [id \in 1..3 |-> 1]]}
=============================================================================
