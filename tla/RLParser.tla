------------------------------ MODULE RLParser ------------------------------
(***************************************************************************)
(* The parser of RelateLang: the lines of a workflow become the lists of   *)
(* statements that a run begins with.                                      *)
(*                                                                         *)
(* A line is [words, dot]: its words, and whether it ends with a period.   *)
(* A word is [kw, of, quoted]: the keyword it is or "", what it stands for *)
(* (an entity, an attribute, a value, an expression), whether it is quoted.*)
(* Comments are gone; one that took the period leaves a line without.      *)
(*                                                                         *)
(* A value is a record of at least                                         *)
(*   num    the number float() makes of its text, None where it is none    *)
(*   type   "number", "bool" or "text"                                     *)
(*   marks  0, or how often quotation marks or line ends were put into it  *)
(*   cut    whether there is a "//" in it                                  *)
(***************************************************************************)
EXTENDS Naturals, Sequences, SequencesExt, FiniteSets, Functions

CONSTANTS
  None,
  Entities,
  Begins,   \* entity -> the keyword its name begins with, or ""
  Garbled,  \* the expression that several lines run together are
  Escaped,  \* predicate -> what it is with its quotation marks escaped
  Noted     \* the predicates with a "//" in them

Reserved == {"define", "relate", "ensure", "route", "execute", "assess", "aggregate", "determine"}

ASSUME RLParserAssumption == Begins \in [Entities -> Reserved \cup {""}]

Key(kw) == [kw |-> kw, of |-> None, quoted |-> FALSE]
Word(x) == [kw |-> "", of |-> x, quoted |-> FALSE]
Quoted(x) == [kw |-> "", of |-> x, quoted |-> TRUE]
Line(words) == [words |-> words, dot |-> TRUE]

\* _tokenize: a statement ends where a line ends with a period.
Statements(text) ==
  FoldLeft(LAMBDA read, line :
             IF line.dot THEN [done |-> Append(read.done, read.buffer \o line.words), buffer |-> <<>>]
             ELSE [read EXCEPT !.buffer = @ \o line.words],
           [done |-> <<>>, buffer |-> <<>>], text)

-----------------------------------------------------------------------------
(* The statements' forms.  "w" is a word, "q" a quoted text, "any" a text   *)
(* of which the last may have several words.                               *)

Forms ==
  [route |-> {<<"route", "goal", "q", "via", "w">>},
   define |-> {<<"define", "w", "as", "q">>},
   has |-> {<<"w", "has", "w", "of", "any">>},
   relate |-> {<<"relate", "w", "and", "w", "as", "q">>, <<"relate", "w", "and", "w", "as", "q", "if", "any">>},
   aggregate |-> {<<"aggregate", "w", "as", "w", "using", "w">>},
   if |-> {<<"if", "any", "then ensure", "any">>},
   determine |-> {<<"determine", "w", "label", "as", "q">>},
   execute |-> {<<"execute", "w">>},
   assess |-> {<<"assess", "w", "for", "any">>},
   ensure |-> {<<"ensure", "any">>},
   attributeIs |-> {<<"w", "w", "is", "any">>},
   is |-> {<<"w", "is", "any">>}]

Fits(parser, s) ==
  \E form \in Forms[parser] :
    /\ Len(s) = Len(form) \/ (Len(s) > Len(form) /\ Last(form) = "any")
    /\ \A i \in DOMAIN form :
         CASE form[i] = "w" -> ~s[i].quoted [] form[i] = "q" -> s[i].quoted [] form[i] = "any" -> TRUE
           [] OTHER -> s[i].kw = form[i]

\* What the text of the statement starts with.
FirstKey(s) == IF s[1].kw # "" THEN s[1].kw ELSE Begins[s[1].of]

\* The parsers' `matches`: some look at the whole statement, some only at how it starts.
Matches(parser, s) ==
  CASE parser \in {"define", "has"} -> Fits(parser, s)
    [] parser = "route" -> FirstKey(s) = "route" /\ Fits(parser, s)
    [] parser = "attributeIs" ->
         /\ FirstKey(s) \notin Reserved \cup {"if"} /\ Fits(parser, s)
         /\ s[2].kw \notin Reserved \cup {"if", "creditworthy", "eligible"}
    [] parser = "is" -> FirstKey(s) \notin {"define", "relate", "ensure", "if"} /\ Fits(parser, s)
    [] OTHER -> FirstKey(s) = parser

\* Mutant: the parsers of keywords come first.
ParsersKeywordsFirst ==
  <<"route", "define", "relate", "aggregate", "if", "determine", "execute", "assess", "ensure",
    "has", "attributeIs", "is">>

\* RLParser.__init__: "more specific parsers must come first".
Parsers ==
  <<"route", "define", "has", "relate", "aggregate", "if", "determine", "execute", "assess", "ensure",
    "attributeIs", "is">>

-----------------------------------------------------------------------------
NoStatements ==
  [broken |-> FALSE, defs |-> <<>>, static |-> <<>>, words |-> {}, conds |-> {}, related |-> {},
   goals |-> <<>>]

\* The text from the i-th word on.
From(s, i) == IF Len(s) = i THEN s[i].of ELSE Garbled

\* A text as int() and float() leave it: a number where it reads as one.
AsRead(v) == [v EXCEPT !.type = IF v.num # None THEN "number" ELSE "text"]

\* A text with marks in it that are none of its own; no number is read from it.
Marked(v) == [v EXCEPT !.num = None, !.type = "text", !.marks = @ + 1]

GarbledText ==
  [num |-> None, rank |-> 0, fold |-> Garbled, point |-> TRUE, type |-> "text", marks |-> 0, cut |-> FALSE]

\* The value from the i-th word on, its quotation marks stripped or not.
ValueFrom(s, i, strip) ==
  IF Len(s) # i THEN GarbledText ELSE AsRead(IF s[i].quoted /\ ~strip THEN Marked(s[i].of) ELSE s[i].of)

\* The parsers' `parse` and _append; a routing hint is not kept.
Added(ast, parser, s) ==
  CASE parser = "define" -> [ast EXCEPT !.defs = Append(@, s[2].of)]
    [] parser = "has" -> [ast EXCEPT !.static = Append(@, <<<<s[1].of, s[3].of>>, ValueFrom(s, 5, TRUE)>>)]
    [] parser = "attributeIs" -> [ast EXCEPT !.static = Append(@, <<<<s[1].of, s[2].of>>, ValueFrom(s, 4, FALSE)>>)]
    [] parser = "is" -> [ast EXCEPT !.words = @ \cup {<<s[1].of, From(s, 3)>>}]
    [] parser = "determine" -> [ast EXCEPT !.words = @ \cup {<<s[2].of, s[5].of>>}]
    [] parser \in {"relate", "aggregate"} -> [ast EXCEPT !.related = @ \cup {s[2].of, s[4].of}]
    [] parser = "if" -> [ast EXCEPT !.conds = @ \cup {<<s[2].of, From(s, 4)>>}]
    [] parser = "ensure" -> [ast EXCEPT !.goals = Append(@, From(s, 2))]
    [] parser = "execute" -> [ast EXCEPT !.goals = Append(@, s[2].of)]
    [] parser = "assess" -> [ast EXCEPT !.goals = Append(@, From(s, 4))]
    [] parser = "route" -> ast

\* _parse_statement: the first parser that matches reads it, or raises.  What
\* none of them knows is passed over.
Parse1(ast, s) ==
  LET i == SelectInSeq(Parsers, LAMBDA parser : Matches(parser, s))
  IN IF ast.broken \/ i = 0 THEN ast
     ELSE IF ~Fits(Parsers[i], s) THEN [ast EXCEPT !.broken = TRUE]
     ELSE Added(ast, Parsers[i], s)

\* RLParser.parse; broken stands for a ParseError.
Parsed(text) ==
  LET read == Statements(text)
  IN IF read.buffer # <<>> THEN [NoStatements EXCEPT !.broken = TRUE]
     ELSE FoldLeft(Parse1, NoStatements, read.done)

-----------------------------------------------------------------------------
\* A line of which the last word has a comment sign in it: the period is gone too.
CutLine(words, rest) == [words |-> Append(words, Quoted(rest)), dot |-> FALSE]

\* A number and a bool are bare words, a text is quoted, with marks that no parser undoes.
AttrLine(a, v) ==
  LET words == <<Word(a[1]), Key("has"), Word(a[2]), Key("of")>>
  IN IF v.cut THEN CutLine(words, GarbledText)
     ELSE Line(Append(words, IF v.type # "text" THEN Word(v)
                             ELSE Quoted(IF v.marks = 0 THEN v ELSE Marked(v))))

PredicateLine(w) ==
  LET words == <<Word(w[1]), Key("is")>>
  IN IF w[2] \in Noted THEN CutLine(words, Garbled) ELSE Line(Append(words, Quoted(Escaped[w[2]])))

\* SnapshotSerializer.to_rl: the facts of a snapshot as lines, entity by entity.
\* The descriptions of its entities only define what is defined anyway.
ToRL(attrs, words) ==
  LET OfEntity(e, facts) == SetToSeq({f \in facts : f[1] = e})
      Lines(e) == [i \in DOMAIN OfEntity(e, DOMAIN attrs) |->
                     LET a == OfEntity(e, DOMAIN attrs)[i] IN AttrLine(a, attrs[a])]
                  \o [i \in DOMAIN OfEntity(e, words) |-> PredicateLine(OfEntity(e, words)[i])]
      entities == SetToSeq(Entities)
  IN FlattenSeq([i \in DOMAIN entities |-> Lines(entities[i])])
=============================================================================
