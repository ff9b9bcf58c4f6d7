-------------------------- MODULE ConstraintLexers --------------------------
(***************************************************************************)
(* The two lexers of the constraint language: Lexer of hyperkitty-         *)
(* constraints, which the parser uses, and lex of hyperkitty-parser, which *)
(* never fails.  A text is a sequence of characters, typed one at a time;  *)
(* each character stands for its class.                                    *)
(***************************************************************************)
EXTENDS Naturals, Sequences, FiniteSetsExt, SequencesExt

CONSTANTS Typed,    \* the characters that are typed
          Keywords, \* words both lexers make tokens of their own (require, otherwise,
                    \* reject); those only one of them keeps are not written
          Int64Numbers, \* the numbers, as written, that fit 64 bits
          MaxTyped  \* bound on the text
ASSUME LexerBounds == MaxTyped \in Nat

VARIABLE typed
lexVars == <<typed>>

Blank     == {" ", "newline"}
Delimiter == {"(", ")", "{", "}", ";", ","}
Digits    == {"7"}
Letters   == {"n", "a"}
WordChars == Letters \cup Digits \cup {"_"}
Hash        == "#"
DoubleQuote == "\""
Apostrophe  == "'"
Backslash   == "\\"
Point       == "."
Colon       == ":"
Equals      == "="
More        == ">"
Less        == "<"

Token(kind, text, end) == [kind |-> kind, text |-> text, end |-> end]
Error == [kind |-> "error"]
Skipped(end) == Token("skipped", <<>>, end)
\* The first place from i on that is not in the class.
While(s, i, class) == Min({k \in i .. Len(s) + 1 : k = Len(s) + 1 \/ s[k] \notin class})
Run(s, i, class)   == SubSeq(s, i, While(s, i, class) - 1)
WordToken(s, i) ==
  LET w == Run(s, i, WordChars)
  IN Token(IF w \in Keywords THEN "keyword" ELSE "ident", w, While(s, i, WordChars))
NumberToken(s, i, class) == Token("number", Run(s, i, class), While(s, i, class))

\* The tokens of a text, given what a lexer reads at each place of it: up to the
\* end, or up to the error that is returned in their place.
Kept(t) == IF t.kind = "skipped" THEN <<>> ELSE <<Token(t.kind, t.text, 0)>>
TokensOf(found) ==
  LET from[i \in 1 .. Len(found) + 1] ==
        IF i > Len(found) THEN <<>>
        ELSE IF found[i] = Error THEN <<Error>> ELSE Kept(found[i]) \o from[found[i].end]
  IN from[1]

(***************************************************************************)
(* Lexer: comments, two quotes, escapes; an error ends it.                 *)
(***************************************************************************)
X_AfterLine(s, i) == Len(s) + 1 \* Mutant: a comment runs to the end of the text.
AfterLine(s, i) == Min({k \in i .. Len(s) : s[k] = "newline"} \cup {Len(s)}) + 1
\* A turn of its loop.
skip_whitespace(s, i) == Skipped(IF s[i] = Hash THEN AfterLine(s, i) ELSE i + 1)

Escaped(c) == IF c = "n" THEN "newline" ELSE c
Behind(c, rest) == IF rest = Error THEN Error ELSE Token("string", <<c>> \o rest.text, rest.end)
read_string(s, i, quote) ==
  LET read[k \in 1 .. Len(s) + 1] ==
        IF k > Len(s) \/ (k = Len(s) /\ s[k] = Backslash) THEN Error
        ELSE IF s[k] = quote THEN Token("string", <<>>, k + 1)
        ELSE IF s[k] = Backslash THEN Behind(Escaped(s[k + 1]), read[k + 2])
        ELSE Behind(s[k], read[k + 1])
  IN read[i]

ReadToken(s, i) ==
  IF s[i] \in Blank \cup {Hash} THEN skip_whitespace(s, i)
  ELSE IF s[i] \in Delimiter \cup {Colon} THEN Token(s[i], <<>>, i + 1)
  ELSE IF s[i] = Equals /\ i < Len(s) /\ s[i + 1] = More THEN Token("arrow", <<>>, i + 2)
  ELSE IF s[i] \in {DoubleQuote, Apostrophe} THEN read_string(s, i + 1, s[i])
  ELSE IF s[i] \in Digits THEN NumberToken(s, i, Digits \cup {Point})
  ELSE IF s[i] \in Letters \cup {"_"} THEN WordToken(s, i)
  ELSE Error
tokenize_source(s) ==
  LET tokens == TokensOf([i \in DOMAIN s |-> ReadToken(s, i)])
  IN IF Error \in ToSet(tokens) THEN <<Error>> ELSE tokens

(***************************************************************************)
(* lex: what it does not know it drops, and a number beyond 64 bits too.   *)
(***************************************************************************)
IntegerToken(s, i) ==
  IF Run(s, i, Digits) \in Int64Numbers THEN NumberToken(s, i, Digits)
  ELSE Skipped(While(s, i, Digits))
QuotedToken(s, i) ==
  LET close == While(s, i, ToSet(s) \ {DoubleQuote})
  IN Token("string", SubSeq(s, i, close - 1), Min({close, Len(s)}) + 1)
LexToken(s, i) ==
  IF s[i] \in Delimiter THEN Token(s[i], <<>>, i + 1)
  ELSE IF s[i] = Equals
    THEN Token("equals", <<>>, IF i < Len(s) /\ s[i + 1] = Equals THEN i + 2 ELSE i + 1)
  ELSE IF s[i] = Less /\ i < Len(s) /\ s[i + 1] = Equals THEN Token("at most", <<>>, i + 2)
  ELSE IF s[i] = DoubleQuote THEN QuotedToken(s, i + 1)
  ELSE IF s[i] \in Digits THEN IntegerToken(s, i)
  ELSE IF s[i] \in Letters \cup {"_"} THEN WordToken(s, i)
  ELSE Skipped(i + 1)
lex(s) == TokensOf([i \in DOMAIN s |-> LexToken(s, i)])

LexInit == typed = <<>>
Type(c) == Len(typed) < MaxTyped /\ typed' = Append(typed, c)
LexNext == \E c \in Typed : Type(c)

LexSpec == LexInit /\ [][LexNext]_lexVars

(***************************************************************************)
(* Property                                                                *)
(***************************************************************************)

\* Lines can be read one by one: a text the lexer accepts up to the end of a
\* line reads as the tokens so far and then those of the rest, so that no
\* comment, string or number reaches over a line that was accepted.  And where
\* a text uses only what both lexers know (no comment, no escape, no single
\* quote, nothing but delimiters, words, closed strings and whole numbers of 64
\* bits), both read the same tokens.
Common == Blank \cup Delimiter \cup Digits \cup Letters \cup {"_", DoubleQuote}
FitsInt64(t) == t.kind = "number" => t.text \in Int64Numbers
LinesReadAlone ==
  LET whole == tokenize_source(typed) IN
  /\ \A k \in DOMAIN typed :
       typed[k] = "newline" =>
         LET upper == tokenize_source(SubSeq(typed, 1, k))
             lower == tokenize_source(SubSeq(typed, k + 1, Len(typed)))
         IN upper # <<Error>> =>
              whole = IF lower = <<Error>> THEN <<Error>> ELSE upper \o lower
  /\ /\ ToSet(typed) \subseteq Common /\ whole # <<Error>>
     /\ \A t \in ToSet(whole) : FitsInt64(t)
     => lex(typed) = whole
=============================================================================
