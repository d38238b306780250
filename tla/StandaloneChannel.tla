--------------------------- MODULE StandaloneChannel ---------------------------
(***************************************************************************)
(* The standalone forecasts of the application: StandaloneController of    *)
(* ui/forecast/controller.ts, which makes a worker for each run, and the   *)
(* effects of PersonalFinanceApp that withdraw a result when what it was   *)
(* computed from is edited.  React runs these effects before the next      *)
(* click is handled, so an edit and its effects are one action.            *)
(*                                                                         *)
(* A result is identified with the inputs its run was given: the draft,    *)
(* the run settings and the scope.                                         *)
(***************************************************************************)
EXTENDS Naturals

CONSTANTS
    Inputs,       \* what a run can be given
    NoResult,     \* no result to show
    MaxSequence   \* bound on the runs started and stopped

ASSUME InputsAssumption == NoResult \notin Inputs
ASSUME BoundAssumption == MaxSequence \in Nat

VARIABLES
    inputs,      \* what is on screen to run
    view,        \* #view
    runSequence, \* #sequence
    runWorker,   \* the run whose worker is #worker, or 0
    timer,       \* the run whose deadline is set, or 0
    runs,        \* per run its inputs and whether its worker still has handlers
    mounted      \* the component that owns the controller is on screen

runVars == <<inputs, view, runSequence, runWorker, timer, runs, mounted>>

Run == [inputs : Inputs, heard : BOOLEAN]
Views == [pending : BOOLEAN, stale : BOOLEAN, result : Inputs \cup {NoResult},
          error : BOOLEAN, cancelled : BOOLEAN]
NoView == [pending |-> FALSE, stale |-> FALSE, result |-> NoResult,
           error |-> FALSE, cancelled |-> FALSE]
Unmade == [i \in {} |-> NoResult]

\* Every variable stays within its type, runs are numbered by the sequence, and only the
\* worker in use has handlers.
StandaloneTypeOK ==
    /\ inputs \in Inputs /\ view \in Views
    /\ runSequence \in Nat /\ mounted \in BOOLEAN
    /\ runWorker \in DOMAIN runs \cup {0} /\ timer \in DOMAIN runs \cup {0}
    /\ DOMAIN runs \subseteq 1..runSequence
    /\ \A i \in DOMAIN runs : runs[i] \in Run /\ (runs[i].heard => i = runWorker)

StandaloneInit ==
    /\ inputs \in Inputs /\ view = NoView /\ runSequence = 0
    /\ runWorker = 0 /\ timer = 0 /\ runs = Unmade /\ mounted = TRUE

-----------------------------------------------------------------------------
\* #stop takes the handlers from the worker in use.
Stopped(rs) == [i \in DOMAIN rs |-> [rs[i] EXCEPT !.heard = @ /\ i # runWorker]]

\* #stop: whatever ran before has no number any more, no deadline and no handlers.
Stop == runSequence' = runSequence + 1 /\ runWorker' = 0 /\ timer' = 0 /\ runs' = Stopped(runs)

\* Variant: a run leaves the former result marked fresh.
StartedFresh == [view EXCEPT !.pending = TRUE, !.error = FALSE, !.cancelled = FALSE]

Started == [view EXCEPT !.pending = TRUE, !.stale = view.result # NoResult,
                        !.error = FALSE, !.cancelled = FALSE]

\* run(): the inputs are posted to a worker of their own, with a deadline.
Start ==
    /\ mounted /\ runSequence < MaxSequence
    /\ LET id == runSequence + 1
           started == [i \in DOMAIN runs \cup {id} |->
                          IF i = id THEN [inputs |-> inputs, heard |-> TRUE]
                          ELSE Stopped(runs)[i]]
       IN  /\ runSequence' = id /\ runWorker' = id /\ timer' = id /\ runs' = started
    /\ view' = Started
    /\ UNCHANGED <<inputs, mounted>>

\* run() when makeWorker or postMessage throws.
StartFails ==
    /\ mounted /\ runSequence + 1 < MaxSequence
    /\ runSequence' = runSequence + 2 /\ runWorker' = 0 /\ timer' = 0 /\ runs' = Stopped(runs)
    /\ view' = [Started EXCEPT !.pending = FALSE, !.error = TRUE]
    /\ UNCHANGED <<inputs, mounted>>

\* A worker's event counts while its handlers are set and its run is the newest.
Heard(i) == runs[i].heard /\ i = runSequence

RunFails ==
    /\ Stop /\ view' = [view EXCEPT !.pending = FALSE, !.error = TRUE]
    /\ UNCHANGED <<inputs, mounted>>

\* A result with the requested scope, dates and months.
ReplyGood(i) ==
    /\ Heard(i) /\ Stop
    /\ view' = [NoView EXCEPT !.result = runs[i].inputs]
    /\ UNCHANGED <<inputs, mounted>>

\* An error, an event of the worker, or a result that is not the requested one.
ReplyRejected(i) == Heard(i) /\ RunFails

Deadline == timer # 0 /\ timer = runSequence /\ RunFails

-----------------------------------------------------------------------------
Withdrawn == [view EXCEPT !.pending = FALSE, !.stale = view.result # NoResult,
                          !.error = FALSE, !.cancelled = FALSE]

Cancel ==
    /\ mounted /\ runSequence < MaxSequence /\ Stop
    /\ view' = [view EXCEPT !.pending = FALSE, !.stale = view.result # NoResult,
                            !.cancelled = TRUE]
    /\ UNCHANGED <<inputs, mounted>>

\* Variant: an edit marks the result stale and lets the run go on.
EditScopeWithoutStop(i) ==
    /\ mounted /\ inputs' = i /\ view' = Withdrawn
    /\ UNCHANGED <<runSequence, runWorker, timer, runs, mounted>>

\* Another scope is chosen: invalidate().
EditScope(i) ==
    /\ mounted /\ runSequence < MaxSequence
    /\ inputs' = i /\ view' = Withdrawn /\ Stop /\ UNCHANGED mounted

\* The draft or the run settings are edited or replaced: reset().
Edit(i) ==
    /\ mounted /\ runSequence < MaxSequence
    /\ inputs' = i /\ view' = NoView /\ Stop /\ UNCHANGED mounted

Dispose ==
    /\ mounted /\ mounted' = FALSE /\ Stop /\ UNCHANGED <<inputs, view>>

StandaloneNext ==
    \/ Start \/ StartFails \/ Cancel \/ Dispose \/ Deadline
    \/ \E i \in DOMAIN runs : ReplyGood(i) \/ ReplyRejected(i)
    \/ \E i \in Inputs : Edit(i) \/ EditScope(i)

\* The deadline set with setTimeout does pass; no worker is promised to answer.
StandaloneSpec == StandaloneInit /\ [][StandaloneNext]_runVars /\ WF_runVars(Deadline)

-----------------------------------------------------------------------------
\* PersonalFinanceApp shows a result that is neither pending nor stale.
Forecast == IF view.pending \/ view.stale THEN NoResult ELSE view.result

\* A forecast shown as current was computed from exactly what is on screen now, however
\* late the workers of earlier inputs answer: "It must never substitute a household run
\* or shorter dates."
ShownIsCurrent == Forecast # NoResult => Forecast = inputs

\* The channel implements LatestForecast: a pending run is the question, the result on
\* display the answer.
Latest == INSTANCE LatestForecast WITH
    Questions <- Inputs,
    nothing <- NoResult,
    question <- IF mounted /\ view.pending THEN runs[timer].inputs ELSE NoResult,
    answer <- IF mounted THEN view.result ELSE NoResult,
    fresh <- mounted /\ view.result # NoResult /\ ~view.stale

ImplementsLatest == Latest!Spec
=============================================================================
