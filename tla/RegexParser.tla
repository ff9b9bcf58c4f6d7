---------------------------- MODULE RegexParser ----------------------------
(***************************************************************************)
(* Stage 1 of the C pipeline, regex_parser.c: look for a dangerous         *)
(* pattern, then cut the input into tokens, one step of the loop at a      *)
(* time.  A text is a sequence of characters; which of the patterns it     *)
(* matches is given with it.  regcomp is not asked why it failed: a        *)
(* pattern that does not compile is left out.                              *)
(***************************************************************************)
EXTENDS Naturals, Sequences, FiniteSets, FiniteSetsExt

CONSTANTS Texts,    \* inputs: [text |-> characters, matches |-> places in the table]
          Compiles, \* the places regcomp accepts; glibc not the last, which has "(?!"
          MaxTokens1024 \* tokens that fit, 1024 in the code

VARIABLES subject, \* the input of the call
          place,   \* the next character
          tokens,
          parse_result
regexVars == <<subject, place, tokens, parse_result>>

DANGEROUS_PATTERNS ==
  << "XXE_DOCTYPE", "XXE_ENTITY", "XXE_SYSTEM_REF", "FILE_PROTOCOL", "CODE_EVAL",
     "CODE_EXEC", "PROCESS_FORK", "PYTHON_IMPORT", "SUBPROCESS_CALL", "OS_SYSTEM",
     "INFINITE_LOOP", "INFINITE_LOOP", "EMBEDDED_PASSWORD", "EMBEDDED_API_KEY",
     "EMBEDDED_SECRET", "AWS_SECRET", "UNAUTHORIZED_TELEMETRY" >>

\* Patterns fail to compile only behind those that compile; texts are strings.
ASSUME TableAssumption ==
  /\ \E n \in 0 .. Len(DANGEROUS_PATTERNS) : Compiles = 1 .. n
  /\ MaxTokens1024 \in Nat \ {0}
  /\ \A t \in Texts : t.text \in Seq({t.text[i] : i \in DOMAIN t.text})

\* Compiled patterns keep their place, but only as many as compiled are
\* tried: right because the one that may fail is the last.
num_patterns == Cardinality(Compiles)
Dangers(matches) == {i \in matches \cap Compiles : i <= num_patterns}

Space    == {" "}
Digit    == {"7"}
Alpha    == {"i", "f", "x"}
WordChar == Alpha \cup Digit \cup {"_"}
Number   == Digit \cup {"."}
Quote    == {"\"", "'"}
Punct    == {"+", "."}

Text   == subject.text
In(i)  == i \in DOMAIN Text
\* The first place from i on whose character is not one of the class.
RunEnd(i, class) == Min({k \in i .. Len(Text) + 1 : k = Len(Text) + 1 \/ Text[k] \notin class})
\* Mutant: an escape at the very end skips past it.
X_StringEnd(start) ==
  LET scan[i \in Nat] ==
        IF ~In(i) \/ Text[i] = Text[start] THEN i
        ELSE scan[IF Text[i] = "\\" THEN i + 2 ELSE i + 1]
      stop == scan[start + 1]
  IN IF In(stop) THEN stop + 1 ELSE stop
\* Behind the closing quote, or at the end of the text when there is none.
StringEnd(start) ==
  LET scan[i \in Nat] ==
        IF ~In(i) \/ Text[i] = Text[start] THEN i
        ELSE scan[IF Text[i] = "\\" /\ In(i + 1) THEN i + 2 ELSE i + 1]
      stop == scan[start + 1]
  IN IF In(stop) THEN stop + 1 ELSE stop
\* A keyword takes two characters or three, whichever it is.
Keyword(i) == In(i + 1) /\ Text[i] = "i" /\ Text[i + 1] = "f"
KeywordEnd(i) ==
  IF ~In(i + 2) \/ ~(In(i + 3) /\ Text[i + 3] \in Alpha \cup Digit)
  THEN i + 2 ELSE i + 3

NextToken(i) ==
  LET Tok(type, end) == [type |-> type, start |-> i, end |-> end]
      c == Text[i]
  IN CASE c \in Space           -> Tok("WHITESPACE", RunEnd(i, Space))
       [] Keyword(i)           -> Tok("STRUCTURAL", KeywordEnd(i))
       [] ~Keyword(i) /\ c \in Alpha \cup {"_"} -> Tok("IDENTIFIER", RunEnd(i, WordChar))
       [] c \in Quote           -> Tok("LITERAL", StringEnd(i))
       [] c \in Digit           -> Tok("LITERAL", RunEnd(i, Number))
       [] c \in Punct           -> Tok("PUNCTUATION", i + 1)
       [] OTHER                -> Tok("UNKNOWN", i + 1)

Idle == "idle"
Running == "running"
RegexInit == subject = [text |-> <<>>, matches |-> {}] /\ place = 1 /\ tokens = <<>>
             /\ parse_result = Idle

\* A NULL input is answered with an error, and so is an array that cannot be
\* allocated for a text with nothing dangerous in it.
hk_parse_input ==
  /\ parse_result = Idle /\ UNCHANGED <<place, tokens>>
  /\ \/ parse_result' = "null_input" /\ UNCHANGED subject
     \/ /\ subject' \in Texts
        /\ parse_result' \in IF Dangers(subject'.matches) = {}
                            THEN {Running, "tokenization_failed"}
                            ELSE {DANGEROUS_PATTERNS[Min(Dangers(subject'.matches))]}
tokenize ==
  /\ parse_result = Running /\ In(place) /\ Len(tokens) < MaxTokens1024
  /\ tokens' = Append(tokens, NextToken(place))
  /\ place' = NextToken(place).end
  /\ UNCHANGED <<subject, parse_result>>
HK_PARSE_OK ==
  /\ parse_result = Running /\ ~(In(place) /\ Len(tokens) < MaxTokens1024)
  /\ parse_result' = "OK" /\ UNCHANGED <<subject, place, tokens>>
hk_parse_result_free ==
  /\ parse_result \notin {Idle, Running}
  /\ subject' = [text |-> <<>>, matches |-> {}] /\ place' = 1 /\ tokens' = <<>>
  /\ parse_result' = Idle
RegexNext == hk_parse_input \/ tokenize \/ HK_PARSE_OK \/ hk_parse_result_free
RegexSpec == RegexInit /\ [][RegexNext]_regexVars

(***************************************************************************)
(* Property                                                                *)
(***************************************************************************)

\* The tokens tile the text: none is empty, none overlaps or leaves a gap, no
\* quote, escape or keyword at the very end reads or runs past it, and they
\* reach its end unless the array is full, when the rest is dropped without
\* an error.  Text is only cut when no pattern that compiles matches it, and a
\* text refused with a reason matches a pattern of that reason.
TokensTileTheText ==
  /\ \A k \in DOMAIN tokens :
       /\ tokens[k].start < tokens[k].end /\ tokens[k].end <= Len(Text) + 1
       /\ tokens[k].start = IF k = 1 THEN 1 ELSE tokens[k - 1].end
  /\ parse_result = "OK" =>
       /\ subject.matches \cap Compiles = {}
       /\ Len(tokens) < MaxTokens1024 =>
            IF tokens = <<>> THEN Text = <<>> ELSE tokens[Len(tokens)].end = Len(Text) + 1
  /\ tokens # <<>> => parse_result \in {Running, "OK"}
  /\ \A i \in DOMAIN DANGEROUS_PATTERNS :
       parse_result = DANGEROUS_PATTERNS[i] =>
         \E j \in subject.matches \cap Compiles : DANGEROUS_PATTERNS[j] = parse_result
=============================================================================
