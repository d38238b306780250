--------------------------- MODULE LatestForecast ---------------------------
(***************************************************************************)
(* What one forecast channel promises its screen, whatever workers, caches *)
(* and timers it uses: at most one question is open, the answer on display *)
(* is the answer to a question that was asked, it is marked fresh only     *)
(* when no newer question was asked after it, and every question ends.     *)
(***************************************************************************)
CONSTANTS Questions, nothing

VARIABLES
  question,  \* the open question, or nothing
  answer,    \* the question whose answer is on display, or nothing
  fresh      \* the answer on display is the answer to the newest question

vars == <<question, answer, fresh>>

TypeOK == /\ question \in Questions \cup {nothing}
          /\ answer \in Questions \cup {nothing}
          /\ fresh \in BOOLEAN

Init == question = nothing /\ answer = nothing /\ fresh = FALSE

\* A new question supersedes an open one; the old answer stays, marked stale.
Ask(q) == question' = q /\ fresh' = FALSE /\ UNCHANGED answer

Answer == /\ question # nothing
          /\ answer' = question /\ fresh' = TRUE /\ question' = nothing

\* A question answered at once from what the channel remembers.
AskKnown(q) == answer' = q /\ fresh' = TRUE /\ question' = nothing

\* The open question fails, or the channel withdraws it.
GiveUp == question' = nothing /\ fresh' = FALSE /\ UNCHANGED answer

Forget == question' = nothing /\ answer' = nothing /\ fresh' = FALSE

Next == \/ \E q \in Questions : Ask(q) \/ AskKnown(q)
        \/ Answer \/ GiveUp \/ Forget

Spec == Init /\ [][Next]_vars /\ WF_vars(Answer \/ (question # nothing /\ GiveUp))
=============================================================================
