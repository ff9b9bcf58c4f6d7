-------------------------- MODULE ConstraintParser --------------------------
(***************************************************************************)
(* The parser of the constraint language (parser.rs) as it consumes one    *)
(* token after another.  The tokens come from the environment, so that a   *)
(* behaviour is one source text; "wants" is the place in the parser's      *)
(* recursive descent, named for the token it looks at there.               *)
(***************************************************************************)
EXTENDS ConstraintProgram, SequencesExt

CONSTANTS Names,          \* identifiers in source texts
          MaxConstraints, \* bound on the constraints of a text
          MaxRequires     \* bound on the requirements of one constraint
ASSUME ParserBounds == MaxConstraints \in Nat /\ MaxRequires \in Nat

VARIABLES wants, consumed, program, building
parserVars == <<wants, consumed, program, building>>

Word(k)  == [kind |-> k, text |-> ""]
Ident(n) == [kind |-> "Ident", text |-> n]
Str(n)   == [kind |-> "String", text |-> n]
Tokens == {Word(k) : k \in {"validity", "require", "deny", "otherwise", "reject",
                            "accept", "(", ")", "{", "}", ";", "eof"}}
          \cup {Ident(n) : n \in Names} \cup {Str(n) : n \in Names}

ParserInit == /\ wants = "validity" /\ consumed = <<>> /\ program = <<>>
              /\ building = Constraint("", "", <<>>, "Reject")

\* What each function takes in each of its places, and where that leads.
\* parse(): constraints up to the end of the text.
ProgramMoves == {<<"validity", "validity", "(">>, <<"validity", "eof", "accepted">>}
\* parse_constraint(): the name, the parameter, the clauses, the end.
ConstraintMoves ==
  {<<"(", "(", "name">>, <<"name", "Ident", ")">>, <<")", ")", "param">>,
   <<"param", "Ident", "{">>, <<"param", "String", "{">>, <<"{", "{", "clause">>,
   <<"clause", "require", "requirement">>, <<"clause", "otherwise", "action">>,
   <<"require ;", ";", "clause">>, <<"action", "reject", "action ;">>,
   <<"action", "accept", "action ;">>, <<"action ;", ";", "}">>,
   <<"clause", "}", "validity">>, <<"}", "}", "validity">>}
\* parse_requirement(): a name, and () after it when it is a check.
RequirementMoves ==
  {<<"requirement", "Ident", "predicate">>, <<"predicate", "(", "check )">>,
   <<"predicate", ";", "clause">>, <<"check )", ")", "require ;">>}
Moves == ProgramMoves \cup ConstraintMoves \cup RequirementMoves

\* What taking a token does to the constraint being built.  Constraint::new
\* runs after the parameter and starts with no requirements and Reject.
\* Mutant: the requirements are not reset.
X_BuildConstraint(tok) ==
  CASE wants = "name"   -> [building EXCEPT !.name = tok.text]
    [] wants = "param"  -> [building EXCEPT !.param = tok.text, !.otherwise = "Reject"]
    [] wants = "action" -> [building EXCEPT !.otherwise =
                              IF tok.kind = "accept" THEN "Accept" ELSE "Reject"]
    [] OTHER            -> building
BuildConstraint(tok) ==
  CASE wants = "name"   -> [building EXCEPT !.name = tok.text]
    [] wants = "param"  -> Constraint(building.name, tok.text, <<>>, "Reject")
    [] wants = "action" -> [building EXCEPT !.otherwise =
                              IF tok.kind = "accept" THEN "Accept" ELSE "Reject"]
    [] OTHER            -> building
BuildRequirement(tok) ==
  CASE wants = "requirement" -> [building EXCEPT !.requires = Append(@, Predicate(tok.text))]
    [] wants = "check )" -> [building EXCEPT !.requires = Append(Front(@), Check(Last(@).name))]
    [] OTHER -> building

Take(tok, moves) ==
  \E m \in moves : /\ m[1] = wants /\ m[2] = tok.kind
                   /\ wants' = m[3] /\ consumed' = Append(consumed, tok)
parse(tok) == Take(tok, ProgramMoves) /\ UNCHANGED <<program, building>>
parse_constraint(tok) ==
  /\ Take(tok, ConstraintMoves)
  /\ building' = BuildConstraint(tok)
  /\ program' = IF tok.kind = "}" THEN Append(program, building) ELSE program
parse_requirement(tok) ==
  /\ Take(tok, RequirementMoves)
  /\ building' = BuildRequirement(tok)
  /\ UNCHANGED program
\* Any other token ends the parse with Err, and no program is returned.
SyntaxError(tok) ==
  /\ ~ \E m \in Moves : m[1] = wants /\ m[2] = tok.kind
  /\ wants' = "error" /\ program' = <<>>
  /\ UNCHANGED <<consumed, building>>

\* The bounds cut the texts, not the parser.
InBounds(tok) ==
  /\ wants = "validity" /\ tok.kind = "validity" => Len(program) < MaxConstraints
  /\ wants = "clause" /\ tok.kind = "require" => Len(building.requires) < MaxRequires

ParserNext == \E tok \in Tokens :
  /\ wants \notin {"accepted", "error"} /\ InBounds(tok)
  /\ parse(tok) \/ parse_constraint(tok) \/ parse_requirement(tok) \/ SyntaxError(tok)

ParserSpec == ParserInit /\ [][ParserNext]_parserVars

(***************************************************************************)
(* Properties                                                              *)
(***************************************************************************)

\* A program written out again.  A clause "otherwise reject;" may be left out.
RequirementText(r) ==
  <<Word("require"), Ident(r.name)>>
  \o (IF r.kind = "Check" THEN <<Word("("), Word(")")>> ELSE <<>>) \o <<Word(";")>>
ConstraintText(c, param, clause) ==
  <<Word("validity"), Word("("), Ident(c.name), Word(")"), param, Word("{")>>
  \o FlattenSeq([i \in DOMAIN c.requires |-> RequirementText(c.requires[i])])
  \o (IF clause
      THEN <<Word("otherwise"), Word(IF c.otherwise = "Accept" THEN "accept" ELSE "reject"), Word(";")>>
      ELSE <<>>)
  \o <<Word("}")>>
\* The program p with the parameters in q quoted and the clauses in w written.
ProgramText(p, q, w) ==
  FlattenSeq([i \in DOMAIN p |-> ConstraintText(p[i], IF q[i] THEN Str(p[i].param) ELSE Ident(p[i].param), w[i])])
Clauses(p) == {w \in [DOMAIN p -> BOOLEAN] : \A i \in DOMAIN p : p[i].otherwise = "Accept" => w[i]}
ProgramTexts(p) == {ProgramText(p, q, w) : q \in [DOMAIN p -> BOOLEAN], w \in Clauses(p)}

\* What the four ways to ask say of a program: all pass exactly when the count
\* is full and no line of the report fails, none asked for by name then fails, and binding one
\* more name to true never turns a passing program into a failing one.
EvaluationAgrees(p) ==
  \A T \in SUBSET Names :
    LET b == [n \in T |-> TRUE] IN
    /\ evaluate(p, b) <=> count_passing(p, b) = Len(p)
    /\ evaluate(p, b) <=> FALSE \notin Range(report(p, b).lines)
    /\ evaluate(p, b) =>
         /\ \A i \in DOMAIN p : evaluate_constraint(p, p[i].name, b) = TRUE
         /\ \A n \in Names : evaluate(p, [m \in T \cup {n} |-> TRUE])

\* An accepted text is the program written out: nothing the text says is
\* lost, merged into a neighbouring constraint, reordered or made up; and the
\* evaluator's four questions about it have one answer.
ParsedIsTheText ==
  wants = "accepted" => Front(consumed) \in ProgramTexts(program) /\ EvaluationAgrees(program)
=============================================================================
