--------------------------- MODULE MCOrchestrator ---------------------------
(***************************************************************************)
(* Small workflows for TLC: the second and the fourth goal go to a tool    *)
(* (two tools match), the third is worded as a synthesis goal; one         *)
(* attribute cell is tested by conditions, the other holds prose; two      *)
(* conditions.                                                             *)
(***************************************************************************)
EXTENDS Orchestrator

CONSTANTS score, report, low, high, text, good, vip

MCAttrs == {score, report}
MCVals == {low, high, text}
MCPreds == {good, vip}

MCHits == [g \in Goals |-> [t \in Tools |->
             IF g \in {2, 4} THEN (IF t = 1 THEN {2} ELSE {1, 2}) ELSE {}]]
MCProseCell == [g \in {3} |-> report]
MCInitAttrs == [a \in MCAttrs |-> IF a = score THEN low ELSE Absent]

Attr(a, v) == [kind |-> "attr", attr |-> a, val |-> v]
Pred(p) == [kind |-> "pred", pred |-> p]
Reply(ws, t) == [writes |-> ws, text |-> t]
Output(ok, ws, d) == [success |-> ok, writes |-> ws, dumps |-> d]
Rule(ts, ns, as) == [tests |-> ts, needs |-> ns, adds |-> as]

MCReplies ==
  { Reply(<<Attr(score, high), Attr(score, low)>>, TRUE),
    Reply(<<Attr(score, high), Pred(vip)>>, TRUE),
    Reply(<<Attr(score, high), [kind |-> "bad"], Pred(vip)>>, TRUE),
    Reply(<<[kind |-> "junk"]>>, TRUE),
    Reply(<<>>, TRUE),
    Reply(<<>>, FALSE) }

MCToolOutputs ==
  { Output(TRUE, <<Attr(score, high)>>, TRUE),
    Output(TRUE, <<>>, FALSE),
    Output(FALSE, <<Attr(score, high)>>, TRUE) }

HighScore == [attr |-> score, ok |-> {high}]

\* A chain declared in the order it is derived.
MCRules == << Rule({HighScore}, {}, {good}), Rule({}, {good}, {vip}) >>
\* Four goals: a limit of three is reached, a limit of four is not.
MCConfigs == [mode : {"json", "rl"}, maxIterations : {3, 4},
              pauseOnError : BOOLEAN, autoSave : BOOLEAN]
=============================================================================
