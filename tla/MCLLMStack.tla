----------------------------- MODULE MCLLMStack -----------------------------
(***************************************************************************)
(* Two threads share a provider: two retries, two parse retries, a budget  *)
(* of one call and two tokens; each thread makes one request.              *)
(***************************************************************************)
EXTENDS LLMStack

CONSTANTS c1, c2

MCCallers == {c1, c2}
Answer(k, n, own) == [kind |-> k, tokens |-> n, own |-> own]
MCAnswers == {Answer("valid", 1, FALSE), Answer("tool", 0, FALSE), Answer("prose", 2, TRUE),
              Answer("malformed", 1, FALSE)}
Config(t, f, p, m, b) ==
  [tracked |-> t, fallback |-> f, onParse |-> p, mode |-> m, backoff |-> b]
MCConfigs ==
  { Config("outside", TRUE, TRUE, "json", "jittered"),
    Config("inside", TRUE, TRUE, "json", "linear"),
    Config("inside", FALSE, TRUE, "rl", "exponential"),
    Config("outside", FALSE, FALSE, "raw", "constant") }
=============================================================================
