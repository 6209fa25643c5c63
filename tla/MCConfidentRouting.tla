-------------------------- MODULE MCConfidentRouting --------------------------
(***************************************************************************)
(* Two stages of a fan-out group, two runs.  Both stages have goal g1 with *)
(* one tool; the first has it twice, so that it can be demoted in a run.   *)
(* The match is weak: two failures bring it below the threshold.           *)
(***************************************************************************)
EXTENDS ConfidentRouting

CONSTANTS s1, s2, g1, g2, t1, t2

MCStages == {s1, s2}
MCTools == {t1, t2}
MCProgram == s1 :> <<g1, g1>> @@ s2 :> <<g1, g2>>
MCMatch == g1 :> [tool |-> t1, conf |-> 360] @@ g2 :> [tool |-> t2, conf |-> 500]

Hint(required, floor, fallback) == [required |-> required, floor |-> floor, fallback |-> fallback]
MCHintTables ==
  { g1 :> NoHint @@ g2 :> NoHint,
    g1 :> Hint(t1, 355, None) @@ g2 :> Hint(t1, 600, t2) }

Outcome(ok, made, extended, relevant) ==
  [ok |-> ok, made |-> made, extended |-> extended, relevant |-> relevant]
MCOutcomes == {Outcome(TRUE, 2, 0, TRUE), Outcome(FALSE, 0, 1, FALSE)}
=============================================================================
