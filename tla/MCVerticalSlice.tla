--------------------------- MODULE MCVerticalSlice ---------------------------
(* Two periods, a household that can be short of cash, and requests that     *)
(* compete for it, repeat an identity, reuse an observed fact, settle early  *)
(* or settle too much.                                                       *)
EXTENDS VerticalSlice

Cash(partial) == [first |-> "checking", second |-> NoAccount, allowPartial |-> partial]
Both(partial) == [first |-> "checking", second |-> "retirement", allowPartial |-> partial]

Household(gross, tax, settle, contribution, living, policy) ==
  [gross |-> gross, tax |-> tax, settleCurrentTax |-> settle, contribution |-> contribution,
   living |-> living, policy |-> policy]
MCInputs == {Household(4, 3, TRUE, 1, 1, Both(TRUE)), Household(4, 3, FALSE, 2, 0, Cash(FALSE)),
             Household(0, 0, FALSE, 0, 1, Cash(FALSE))}

MCRequest(id, obligation, amount, period, slot, key, policy) ==
  [id |-> id, obligation |-> obligation, amount |-> amount, period |-> period, slot |-> slot,
   key |-> key, policy |-> policy]
MCRequests == {
  MCRequest(<<"external", 1>>, 1, 2, 2, 0, "k1", Both(TRUE)),
  MCRequest(<<"external", 1>>, 2, 1, 2, 3, NoKey, Cash(FALSE)),
  MCRequest(<<"external", 2>>, 1, 1, 1, 3, "k1", Cash(FALSE)),
  MCRequest(<<"external", 2>>, 1, 3, 2, 0, NoKey, Both(FALSE)),
  MCRequest(<<"external", 3>>, 1, 2, 1, 5, NoKey, Both(FALSE)),
  MCRequest(<<"current", 2>>, 1, 1, 2, 5, NoKey, Both(TRUE))}
=============================================================================
