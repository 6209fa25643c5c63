---------------------------- MODULE MCAuditTrail ----------------------------
(***************************************************************************)
(* Two publishers with up to two events, one of which the filter excludes, *)
(* and queues of one or two records: drops, sentinels that have to wait    *)
(* and handlers overtaken by close() all happen.  Of the configurations,   *)
(* one rotates by day, two have faults, with and without rotation, and one *)
(* has an encoding that is not known.                                      *)
(***************************************************************************)
EXTENDS AuditTrail, TLC

CONSTANTS p1, p2

MCPublishers == {p1, p2}
MCRecorded == Records \ {<<p2, 2>>}

Config(daily, badEncoding, faults, second) ==
  [daily |-> daily, badEncoding |-> badEncoding, faults |-> faults, sends |-> (p1 :> 2 @@ p2 :> second)]

MCConfigs == {Config(TRUE, FALSE, FALSE, 1), Config(TRUE, FALSE, TRUE, 0),
              Config(FALSE, FALSE, TRUE, 0), Config(FALSE, TRUE, FALSE, 2)}
=============================================================================
