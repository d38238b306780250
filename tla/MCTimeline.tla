------------------------------ MODULE MCTimeline ------------------------------
(* Instances of Timeline: a horizon of four instants in one or two periods, *)
(* plans with a gap, an overlap and a wrong start, and items that are       *)
(* executed, suppressed, repeated, refused or late.                         *)
EXTENDS Timeline

MCInstances == {"once", "event", "change", "rent"}
P(start, end) == [start |-> start, end |-> end]
MCHorizons == {P(0, 4)}
MCPlans == {<<P(0, 2), P(2, 4)>>, <<P(0, 4)>>, <<P(0, 1), P(2, 4)>>, <<P(0, 3), P(2, 4)>>, <<P(2, 4)>>, <<>>}

Primitive(kind, instance, at, until, evaluation) ==
  [kind |-> kind, instance |-> instance, at |-> at, until |-> until, evaluation |-> evaluation]
Semantic(id, at, amount, cites, afterCutoff) ==
  [kind |-> "semantic", id |-> id, at |-> at, amount |-> amount, cites |-> cites,
   afterCutoff |-> afterCutoff]

MCWork == {
  Primitive("P02", "once", 1, NoInstant, 0), Primitive("P02", "once", 1, NoInstant, 3),
  Primitive("P27", "event", 1, NoInstant, 1),
  Primitive("P29", "change", 1, 3, 1), Primitive("P29", "change", 1, 3, 3),
  Primitive("P27", "event", 1, NoInstant, 0),
  Primitive("P30", "once", 2, NoInstant, 3),
  Primitive("P03", "rent", 1, 2, 2),
  Semantic("pay", 0, 1, <<"external", "payslip">>, FALSE),
  Semantic("spend", 2, -1, <<"rent", 2, "recognition">>, FALSE),
  Semantic("late", 1, 1, <<"external", "statement">>, TRUE),
  [kind |-> "diagnostic", id |-> "hard stop", error |-> TRUE] }
MCWorkSets == {{}} \cup {{a, b} : a, b \in MCWork}

ASSUME CallersCiteNoEvent
=============================================================================
