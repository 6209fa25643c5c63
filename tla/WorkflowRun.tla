---------------------------- MODULE WorkflowRun ----------------------------
(***************************************************************************)
(* What Orchestrator.run promises its caller, with nothing of how it does  *)
(* it: the goals of a workflow are decided one at a time in the order they *)
(* are declared, a verdict is never taken back, and the run ends at most   *)
(* once, with success only when every goal was achieved.  The module       *)
(* Orchestrator is shown to implement this specification.                  *)
(***************************************************************************)
EXTENDS Naturals

CONSTANT NGoals

Goals == 1..NGoals

VARIABLES verdict, outcome

vars == <<verdict, outcome>>

Verdicts == {"UNDECIDED", "ACHIEVED", "FAILED"}
Outcomes == {"running", "success", "failure"}

AllAchieved == \A g \in Goals : verdict[g] = "ACHIEVED"

Init ==
  /\ verdict = [g \in Goals |-> "UNDECIDED"]
  /\ outcome = "running"

\* The first undecided goal gets its verdict.
Decide(g, v) ==
  /\ outcome = "running"
  /\ verdict[g] = "UNDECIDED"
  /\ \A h \in Goals : h < g => verdict[h] # "UNDECIDED"
  /\ verdict' = [verdict EXCEPT ![g] = v]
  /\ UNCHANGED outcome

Succeed ==
  /\ outcome = "running"
  /\ AllAchieved
  /\ outcome' = "success"
  /\ UNCHANGED verdict

\* A run may fail at any point, even after its last goal was achieved (the
\* last checkpoint may be refused).
Fail ==
  /\ outcome = "running"
  /\ outcome' = "failure"
  /\ UNCHANGED verdict

Next ==
  \/ \E g \in Goals, v \in Verdicts \ {"UNDECIDED"} : Decide(g, v)
  \/ Succeed
  \/ Fail

Spec == Init /\ [][Next]_vars
=============================================================================
