----------------------------- MODULE MCPipeline -----------------------------
(***************************************************************************)
(* A stage, then a group of three stages that share two workers, so that   *)
(* the third waits for one of the others.  Every stage may write x; the    *)
(* seed brings y and z along, one entity more than is injected once x is   *)
(* there.  A value of x is a URL, which the tokenizer cuts.                *)
(***************************************************************************)
EXTENDS Pipeline

CONSTANTS a, b, c, d, x, y, z, old, new, url, junk, seen

MCStages == {a, b, c, d}
MCEntities == {x, y, z}
MCVals == {old, new, url, junk}
MCCarry == [v \in MCVals |-> IF v = url THEN junk ELSE v]

One(s) == [fan |-> FALSE, stages |-> <<s>>, workers |-> 0]
Group(ss, n) == [fan |-> TRUE, stages |-> ss, workers |-> n]
MCSteps == << One(a), Group(<<b, c, d>>, 2) >>

Write(e, v, ps) ==
  [attr |-> [f \in MCEntities |-> IF f = e THEN v ELSE Absent],
   preds |-> [f \in MCEntities |-> IF f = e THEN ps ELSE {}]]
MCWrites == [s \in MCStages |->
               CASE s = a -> {Write(x, old, {}), Write(x, url, {seen})}
                 [] s = b -> {Write(x, new, {})}
                 [] s = c -> {Write(y, new, {seen})}
                 [] s = d -> {Write(x, junk, {})}]

MCConfigs == [onFailure : {"halt", "continue", "retry"}, merge : {"accumulate", "replace"}]
MCSeeds == {[Empty EXCEPT !.attr[y] = old, !.preds[z] = {seen}, !.goals[a] = "FAILED"]}
=============================================================================
