------------------------------ MODULE PeriodLog ------------------------------
(***************************************************************************)
(* What a multi-period run promises its caller, whatever it executes: the  *)
(* periods it commits are contiguous from the start of its horizon, each   *)
(* of them happens as a whole or not at all and keeps what was done before *)
(* it, the run is complete exactly when they reach the end of the horizon, *)
(* and the caller can only go on from states that were committed.          *)
(***************************************************************************)
EXTENDS Integers, Sequences

CONSTANTS nowhere    \* the instant reached by a run that committed nothing

VARIABLES
  saved,    \* what was done before each state the caller can go on from
  base,     \* what was done before the run
  horizon,  \* the period the run is to simulate
  log,      \* its committed periods: [start, end, done]
  result    \* [status, reached, stopped]

vars == <<saved, base, horizon, log, result>>

Running == [status |-> "running", reached |-> nowhere, stopped |-> nowhere]
Reached == IF log = <<>> THEN nowhere ELSE log[Len(log)].end
Frontier == IF log = <<>> THEN horizon.start ELSE log[Len(log)].end
Done == IF log = <<>> THEN base ELSE log[Len(log)].done

Init == /\ saved # {} /\ base \in saved /\ log = <<>>
        /\ result.status \notin {"running", "completed", "incomplete"}

\* A run goes on from a state the caller has, or is refused before it starts.
Start == /\ result.status # "running"
         /\ base' \in saved /\ log' = <<>> /\ result' = Running
         /\ horizon'.start < horizon'.end
         /\ UNCHANGED saved
Refuse == /\ result.status # "running"
          /\ log' = <<>> /\ result' = [Running EXCEPT !.status = "invalid_model"]
          /\ UNCHANGED <<saved, base, horizon>>

Commit == /\ result.status = "running"
          /\ Len(log') = Len(log) + 1
          /\ LET entry == log'[Len(log')]
             IN  /\ log' = Append(log, entry)
                 /\ entry.start = Frontier
                 /\ entry.start < entry.end /\ entry.end <= horizon.end
                 /\ Done \subseteq entry.done
          /\ UNCHANGED <<saved, base, horizon, result>>

\* The run ends and hands over every period it committed.
Return(status) ==
  /\ result.status = "running"
  /\ result' = [status |-> status, reached |-> Reached, stopped |-> Frontier]
  /\ saved' = saved \cup {log[i].done : i \in DOMAIN log}
  /\ UNCHANGED <<base, horizon, log>>
Complete == Frontier = horizon.end /\ Return("completed")
Stop == Frontier < horizon.end /\ Return("incomplete")

\* The run breaks off without a result, and what it committed is lost.
BreakOff == /\ result.status = "running"
            /\ result' = [Running EXCEPT !.status = "threw"]
            /\ UNCHANGED <<saved, base, horizon, log>>

Next == Start \/ Refuse \/ Commit \/ Complete \/ Stop \/ BreakOff

Spec == Init /\ [][Next]_vars
=============================================================================
