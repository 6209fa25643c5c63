---------------------------- MODULE MCBotService ----------------------------
(***************************************************************************)
(* Two forced tasks next to the scheduled job, three cycles and one crash or *)
(* shutdown.                                                               *)
(***************************************************************************)
EXTENDS BotService

CONSTANTS f1, f2

MCForced == {f1, f2}
MCBoots == {[pipe |-> TRUE, db |-> TRUE], [pipe |-> FALSE, db |-> TRUE]}
=============================================================================
