---------------------------- MODULE MCHumanInLoop ----------------------------
(* Three questions and three answers: late, early, repeated and half written. *)
EXTENDS HumanInLoop, TLC
=============================================================================
