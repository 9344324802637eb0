------------------------------- MODULE FccLexer -------------------------------
(***************************************************************************)
(* The tokens of a line that was written (fcc_lexer.c), the pool that      *)
(* keeps their names, and the values the parser gives its literals         *)
(* (fcc_parser.c).  Together with the modules it extends it follows a      *)
(* program from the definitions of its macros to what the parser is given. *)
(***************************************************************************)
EXTENDS FccDirectives, FccStringPool

VARIABLES
  source,      \* bytes: the line, with the newline at its end
  next_offset, \* where the next token is looked for
  tokens,      \* the tokens found: [kind, text]
  literals     \* the tokens as the parser takes them, its literals with their values

lexerVars == <<source, next_offset, tokens, literals>>
vars == <<expansionVars, directiveVars, poolVars, lexerVars>>

Newline == "\n"

Lexed(kind, next) == [kind |-> kind, next |-> next]

\* Mistaken form: the star that begins a comment may end it, too.
CommentEndFromStar(s, i) == FirstFrom(s, i + 1, LAMBDA j : Stands(s, j, <<"*", "/">>)) + 2

\* Behind the comment at i, or further than the text reaches.
BlockCommentEnd(s, i) == FirstFrom(s, i + 2, LAMBDA j : Stands(s, j, <<"*", "/">>)) + 2

\* skip_ignored: the first position from i on that is in no comment and no
\* space; a comment without an end is not skipped.
RECURSIVE Ignored(_, _)
Ignored(s, i) ==
  CASE i <= Len(s) /\ s[i] \in {Space, Newline} -> Ignored(s, i + 1)
    [] Stands(s, i, <<"/", "/">>) -> Ignored(s, FirstFrom(s, i, LAMBDA j : s[j] = Newline))
    [] Stands(s, i, <<"/", "*">>) /\ BlockCommentEnd(s, i) <= Len(s) + 1 ->
         Ignored(s, BlockCommentEnd(s, i))
    [] OTHER -> i

(***************************************************************************)
(* The token at i, which is not ignored: none if it is not valid.  A text  *)
(* ends with a newline, so what stands behind a token can be looked at.    *)
(***************************************************************************)
Keywords ==
  {<<word>> : word \in
    {"int", "void", "char", "signed", "unsigned", "short", "long", "_Bool", "struct", "union",
     "enum", "typedef", "return", "if", "else", "while", "do", "for", "switch", "case", "default",
     "goto", "break", "continue", "static", "extern", "const", "sizeof", "_Alignof",
     "_Static_assert"}}

\* lex_identifier_or_keyword
NameToken(s, i) ==
  {Lexed(IF NameAt(s, i) \in Keywords THEN "keyword" ELSE "identifier", NameEnd(s, i))}

\* consume_integer_suffix
LongSuffixEnd(s, i) ==
  CHOOSE j \in i .. i + 2 :
    /\ \A k \in i .. j - 1 : s[k] \in {"l", "L"}
    /\ j = i + 2 \/ s[j] \notin {"l", "L"}
SuffixEnd(s, i) ==
  LET long == LongSuffixEnd(s, i)
  IN CASE s[i] \in {"u", "U"} -> LongSuffixEnd(s, i + 1)
       [] long > i /\ s[long] \in {"u", "U"} -> long + 1
       [] OTHER -> long

\* lex_integer_literal: floating literals are not supported.
NumberToken(s, i) ==
  LET hexadecimal == s[i] = "0" /\ s[i + 1] \in {"x", "X"}
      first == IF hexadecimal THEN i + 2 ELSE i
      end == FirstFrom(s, first, LAMBDA j : ~IsDigit(s[j], IF hexadecimal THEN 16 ELSE 10))
  IN IF \/ end = first
        \/ ~hexadecimal /\ s[end] \in {".", "e", "E"}
        \/ InName(s[SuffixEnd(s, end)])
     THEN {} ELSE {Lexed("integer", SuffixEnd(s, end))}

\* lex_quoted_literal
QuotedToken(s, i) ==
  LET close == FirstFrom(s, i + 1, LAMBDA j : s[j] \in {s[i], Newline} /\ ~Escaped(s, i, j))
  IN IF close > Len(s) \/ s[close] = Newline THEN {}
     ELSE {Lexed(IF s[i] = "'" THEN "character" ELSE "string", close + 1)}

FccPunctuators ==
  {<<p>> : p \in {"(", ")", "{", "}", "[", "]", ";", ",", ".", "?", ":", "+", "-", "*", "/", "%",
                  "=", "!", "<", ">", "&", "|", "^", "~"}}
  \cup {<<".", ".", ".">>, <<"+", "+">>, <<"-", "-">>, <<"-", ">">>, <<"<", "<">>, <<">", ">">>,
        <<"<", "=">>, <<">", "=">>, <<"=", "=">>, <<"!", "=">>, <<"&", "&">>, <<"|", "|">>,
        <<"+", "=">>, <<"-", "=">>, <<"*", "=">>, <<"/", "=">>, <<"%", "=">>, <<"&", "=">>,
        <<"|", "=">>, <<"^", "=">>, <<"<", "<", "=">>, <<">", ">", "=">>}

\* lex_punctuation_or_operator: the longest that stands there.
PunctuatorToken(s, i) ==
  LET ends == {i + Len(p) : p \in {p \in FccPunctuators : Stands(s, i, p)}}
  IN {Lexed("punctuator", end) : end \in {end \in ends : \A e \in ends : e <= end}}

\* next
TokenAt(s, i) ==
  CASE Stands(s, i, <<"/", "*">>) -> {}
    [] StartsName(s[i]) -> NameToken(s, i)
    [] s[i] \in Digits -> NumberToken(s, i)
    [] s[i] \in Quotes -> QuotedToken(s, i)
    [] OTHER -> PunctuatorToken(s, i)

(***************************************************************************)
(* The values of literals, as the parser decodes them.                     *)
(***************************************************************************)

\* parse_integer_value: a first digit 0 means nothing.
IntegerLiteral(s) ==
  LET hexadecimal == Len(s) > 1 /\ s[1] = "0" /\ s[2] \in {"x", "X"}
      base == IF hexadecimal THEN 16 ELSE 10
      first == IF hexadecimal THEN 3 ELSE 1
      end == FirstFrom(s, first, LAMBDA j : s[j] \in {"u", "U", "l", "L"})
  IN {v \in {ValueOfDigits(SubSeq(s, first, end - 1), base)} : v < 2 ^ WordBits}

\* The character an escape stands for; an unknown one stands for itself.
EscapeValue(x) ==
  CASE x = "0" -> 0
    [] x = "a" -> Code("bell")
    [] x = "b" -> Code("backspace")
    [] x = "f" -> Code("\f")
    [] x = "n" -> Code("\n")
    [] x = "r" -> Code("\r")
    [] x = "t" -> Code("\t")
    [] x = "v" -> Code("vertical tab")
    [] OTHER -> Code(x)

\* copy_string_literal, from i on
RECURSIVE Decoded(_, _)
Decoded(s, i) ==
  IF i >= Len(s) THEN << >>
  ELSE IF s[i] = Backslash THEN <<EscapeValue(s[i + 1])>> \o Decoded(s, i + 2)
  ELSE <<Code(s[i])>> \o Decoded(s, i + 1)

\* parse_char_literal_value: one character.
CharacterLiteral(s) ==
  LET escaped == s[2] = Backslash
  IN IF Len(s) # (IF escaped THEN 4 ELSE 3) THEN {}
     ELSE {<<IF escaped THEN EscapeValue(s[3]) ELSE Code(s[2])>>}

\* What the parser takes a token for: none if its literal is wrong.
Taken(t) ==
  CASE t.kind = "integer" -> {ParserToken("integer", << >>, <<v>>) : v \in IntegerLiteral(t.text)}
    [] t.kind = "character" -> {ParserToken("character", << >>, v) : v \in CharacterLiteral(t.text)}
    [] t.kind = "string" -> {ParserToken("string", << >>, Decoded(t.text, 2))}
    [] OTHER -> {ParserToken(t.kind, t.text, << >>)}

\* parse_string_literal_expression: strings side by side are one.
Take(ts, t) ==
  IF t.kind = "string" /\ ts # << >> /\ Last(ts).kind = "string"
  THEN Append(Front(ts), [Last(ts) EXCEPT !.value = @ \o t.value])
  ELSE Append(ts, t)

-----------------------------------------------------------------------------
Init ==
  /\ DirectivesInit /\ PoolInit
  /\ source = << >> /\ next_offset = 1 /\ tokens = << >> /\ literals = << >>

\* The file is lexed if nothing was reported.
StartLexing ==
  /\ status = "written" /\ reports = 0
  /\ source' = Append(buffer.text, Newline)
  /\ status' = "lexing"
  /\ UNCHANGED <<macros, buffer, copies, directiveVars, poolVars, next_offset, tokens, literals>>

\* fcc_lexer_next, when the last token is complete.
Lexing == status = "lexing" /\ phase = "idle"
NextToken == {Ignored(source, next_offset)}
TokensAt(i) == IF i <= Len(source) THEN TokenAt(source, i) ELSE {}

Advance(i, t) ==
  /\ next_offset' = t.next
  /\ tokens' = Append(tokens, [kind |-> t.kind, text |-> SubSeq(source, i, t.next - 1)])
  /\ UNCHANGED <<expansionVars, directiveVars, source, literals>>

LexToken ==
  /\ Lexing
  /\ \E i \in NextToken : \E t \in TokensAt(i) : t.kind # "identifier" /\ Advance(i, t)
  /\ UNCHANGED poolVars

\* A name is interned: the token is complete when the pool has returned it.
LexIdentifier ==
  /\ Lexing
  /\ \E i \in NextToken : \E t \in TokensAt(i) :
       t.kind = "identifier" /\ Advance(i, t) /\ InternName(SubSeq(source, i, t.next - 1))

InternStep ==
  /\ status = "lexing" /\ PoolStep
  /\ UNCHANGED <<expansionVars, directiveVars, lexerVars>>

Stop(result) ==
  /\ status' = result
  /\ UNCHANGED <<macros, buffer, copies, directiveVars, poolVars, source, next_offset, tokens>>

\* An invalid token ends the lexing, and so does a name that cannot be interned.
LexInvalid ==
  /\ Lexing
  /\ \E i \in NextToken : i <= Len(source) /\ TokensAt(i) = {}
  /\ Stop("invalid") /\ UNCHANGED literals

LexUninterned ==
  /\ status = "lexing" /\ phase = "failed"
  /\ Stop("out of memory") /\ UNCHANGED literals

LexEnd ==
  /\ Lexing /\ \E i \in NextToken : i > Len(source)
  /\ Stop("lexed") /\ UNCHANGED literals

\* The parser comes to the next token.
ParseToken ==
  /\ status = "lexed" /\ tokens # << >>
  /\ \E t \in Taken(tokens[1]) : literals' = Take(literals, t)
  /\ tokens' = Tail(tokens)
  /\ UNCHANGED <<expansionVars, directiveVars, poolVars, source, next_offset>>

ParseWrongLiteral ==
  /\ status = "lexed" /\ tokens # << >> /\ Taken(tokens[1]) = {}
  /\ Stop("bad literal") /\ UNCHANGED literals

ParseEnd ==
  /\ status = "lexed" /\ tokens = << >>
  /\ Stop("parsed") /\ UNCHANGED literals

Next ==
  \/ DirectivesNext /\ UNCHANGED <<poolVars, lexerVars>>
  \/ StartLexing
  \/ LexToken \/ LexIdentifier \/ InternStep \/ LexInvalid \/ LexUninterned \/ LexEnd
  \/ ParseToken \/ ParseWrongLiteral \/ ParseEnd

Spec == Init /\ [][Next]_vars

-----------------------------------------------------------------------------
Promised == Meaning(program.directives, program.use.text)

\* A line is written as C replaces it, and a definition, a call or a list of
\* arguments is reported only if C gives it no meaning: copying the text over
\* and over, with the macros in progress on a stack and marks on names, comes
\* to the same as hide sets on tokens.
ExpandsAsC ==
  status \in {"written", "malformed"} =>
    \A promised \in {Promised} :
      IF status = "written" /\ reports = 0
      THEN Spellings(Tokens(buffer.text)) \in promised
      ELSE promised = {}

\* The two limits stop no line a compiler should manage: a macro is never
\* replaced inside itself, so replacements nest no deeper than there are
\* macros, and every copy but the first and the last finds a call that the
\* copy before it has completed, at a parenthesis of the line.
LimitsStopOnlyLongLines ==
  status = "too deep" =>
    \/ Cardinality(DOMAIN macros) > NestingLimit
    \/ Cardinality({i \in DOMAIN program.use.text : program.use.text[i] = "("}) >= RescanLimit

\* An #if goes the way C says, whatever is read from the text of the expression
\* without tokens: an operator is never taken for the beginning of a longer
\* one, or it for two, the operators bind as in C, and only an expression with
\* an operation that has no value is refused, or stops the compiler.
ConditionsAsC ==
  status \in {"evaluated", "refused", "crashed"} =>
    \A meanings \in {ConditionMeaning(program.directives, program.use.text)} :
      IF status = "evaluated"
      THEN reports = 0 => \E c \in meanings : c.defined => c.value = condition
      ELSE \A c \in meanings : ~c.strict

\* From the characters of its macros to what the parser is given, a line is
\* what C makes of it: every token is the longest, no text is lost with a
\* comment, a name is a keyword where it is one in C, literals have the values
\* of C, and only what has none is refused.
TokensAsC ==
  status \in {"parsed", "invalid", "bad literal"} =>
    \A meanings \in {UNION {TokenMeanings(spellings) : spellings \in Promised}} :
      IF status = "parsed" THEN literals \in meanings ELSE meanings = {}
=============================================================================
