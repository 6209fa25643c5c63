----------------------------- MODULE MCMCPClient -----------------------------
(***************************************************************************)
(* Two callers with two calls each and a server with two tools.  The first *)
(* caller names no tool and has attributes that must be renamed; the       *)
(* second one names its tool and has a parameter's name for a number.      *)
(***************************************************************************)
EXTENDS MCPClient, TLC

CONSTANTS c1, c2

MCCallers == {c1, c2}
MCAttributes == {"recipient", "text", "phone", "note", "id"}
MCCommon(a, p) == CASE a = "phone" /\ p = "recipient" -> 1
                    [] a = "note" /\ p = "text" -> 1
                    [] a = "note" /\ p = "recipient" -> 1
                    [] OTHER -> 0
MCOverlap == [a \in MCAttributes |-> [p \in MCAttributes |-> MCCommon(a, p)]]
MCKeywords == {"find"}
MCCatalogue ==
  << [name |-> "send", params |-> "recipient" :> "array" @@ "text" :> "string",
      required |-> <<"recipient", "text">>, words |-> {"send", "message"}],
     [name |-> "find", params |-> "id" :> "string", required |-> <<"id">>,
      words |-> {"find", "message"}] >>
MCAsk ==
  c1 :> [name |-> None, phrase |-> {}, score |-> "send" :> 2 @@ "find" :> 1,
         args |-> "phone" :> "digits" @@ "note" :> "word" @@ "id" :> "int"] @@
  c2 :> [name |-> "find", phrase |-> {"send"}, score |-> "send" :> 1 @@ "find" :> 1,
         args |-> "recipient" :> "word" @@ "text" :> "word" @@ "id" :> "int"]
=============================================================================
