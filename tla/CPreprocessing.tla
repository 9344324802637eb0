---------------------------- MODULE CPreprocessing ----------------------------
(***************************************************************************)
(* What C17 makes of preprocessing directives and of the lines between     *)
(* them: the preprocessing tokens of a text (6.4), what they are replaced  *)
(* by (6.10.3), what #define and #if mean (6.10.1), and the tokens the     *)
(* parser is given in the end (6.4, 5.1.1.2).  Replacement follows the C   *)
(* committee's own algorithm: a token carries its hide set, the macros it  *)
(* must not be replaced by.  But for the handling of a text in the first   *)
(* part nothing here is translated from the compiler: it is the promise    *)
(* the compiler is held to.                                                *)
(*                                                                         *)
(* A text is a sequence of symbols, each a character of the source; a      *)
(* letter may also stand for a longer piece of an identifier.              *)
(***************************************************************************)
EXTENDS Words, Sequences, FiniteSets, SequencesExt, Bitwise

CONSTANTS
  Letters,  \* symbols that start an identifier
  Digits,   \* symbols that continue one
  Code(_)   \* the character code of a symbol

Space == " "
Quotes == {"\"", "'"}
Backslash == "\\"

\* The first position of s from i on where P holds; one past the end if none.
FirstFrom(s, i, P(_)) ==
  CHOOSE j \in i .. Len(s) + 1 :
    /\ j = Len(s) + 1 \/ P(j)
    /\ \A k \in i .. j - 1 : ~P(k)

From(s, i) == SubSeq(s, i, Len(s))

\* The symbols w stand in s from i on.
Stands(s, i, w) == i + Len(w) - 1 <= Len(s) /\ \A k \in DOMAIN w : s[i + k - 1] = w[k]

\* is_identifier_start, is_identifier_continue
StartsName(x) == x \in Letters
InName(x) == x \in Letters \cup Digits

\* The position behind the name that starts at i.
NameEnd(s, i) == FirstFrom(s, i, LAMBDA j : ~InName(s[j]))

\* An odd number of backslashes stands before j, behind the quote at i.
Escaped(s, i, j) ==
  Cardinality({k \in i + 1 .. j - 1 : \A m \in k .. j - 1 : s[m] = Backslash}) % 2 = 1

\* scan_literal: behind the closing quote, or the end of the text.
LiteralEnd(s, i) ==
  LET close == FirstFrom(s, i + 1, LAMBDA j : s[j] = s[i] /\ ~Escaped(s, i, j))
  IN IF close > Len(s) THEN close ELSE close + 1

\* skip_horizontal_space, and both ends of a range at once
SkipSpace(s, i) == FirstFrom(s, i, LAMBDA j : s[j] # Space)
Trim(s) ==
  LET word == {j \in 1..Len(s) : s[j] # Space}
  IN IF word = {} THEN << >>
     ELSE SubSeq(s, CHOOSE j \in word : \A k \in word : j <= k,
                    CHOOSE j \in word : \A k \in word : j >= k)

\* __VA_ARGS__
VaArgs == <<"__VA_ARGS__">>

\* The argument a name of the replacement stands for; {} for other names.
ArgumentsNamed(macro, args, name) ==
  {args[i] : i \in {i \in 1..Len(macro.params) : macro.params[i] = name}}

(***************************************************************************)
(* Preprocessing tokens.                                                   *)
(***************************************************************************)
Token(spelling, spaced, hide) == [spelling |-> spelling, spaced |-> spaced, hide |-> hide]

Punctuators ==
  {<<"[">>, <<"]">>, <<"(">>, <<")">>, <<"{">>, <<"}">>, <<".">>, <<"-", ">">>, <<"+", "+">>,
   <<"-", "-">>, <<"&">>, <<"*">>, <<"+">>, <<"-">>, <<"~">>, <<"!">>, <<"/">>, <<"%">>,
   <<"<", "<">>, <<">", ">">>, <<"<">>, <<">">>, <<"<", "=">>, <<">", "=">>, <<"=", "=">>,
   <<"!", "=">>, <<"^">>, <<"|">>, <<"&", "&">>, <<"|", "|">>, <<"?">>, <<":">>, <<";">>,
   <<".", ".", ".">>, <<"=">>, <<"*", "=">>, <<"/", "=">>, <<"%", "=">>, <<"+", "=">>,
   <<"-", "=">>, <<"<", "<", "=">>, <<">", ">", "=">>, <<"&", "=">>, <<"^", "=">>, <<"|", "=">>,
   <<",">>, <<"#">>, <<"#", "#">>}

\* The longest that stands there.
PunctuatorLength(s, i) ==
  LET lengths == {Len(p) : p \in {p \in Punctuators : Stands(s, i, p)}}
  IN IF lengths = {} THEN 1 ELSE CHOOSE n \in lengths : \A m \in lengths : m <= n

\* A number goes on through letters, so a name never starts inside one.
StartsNumber(s, i) == s[i] \in Digits \/ (s[i] = "." /\ i < Len(s) /\ s[i + 1] \in Digits)
NumberEnd(s, i) ==
  FirstFrom(s, i, LAMBDA j : ~(InName(s[j]) \/ s[j] = "."
                               \/ (j > i /\ s[j] \in {"+", "-"} /\ s[j - 1] \in {"e", "E", "p", "P"})))

TokenEnd(s, i) ==
  CASE s[i] \in Quotes -> LiteralEnd(s, i)
    [] StartsName(s[i]) -> NameEnd(s, i)
    [] StartsNumber(s, i) -> NumberEnd(s, i)
    [] OTHER -> i + PunctuatorLength(s, i)

\* Behind the comment that starts at i.
CommentEnd(s, i) == FirstFrom(s, i + 2, LAMBDA j : Stands(s, j, <<"*", "/">>)) + 2

\* The tokens of a text; a comment is a space.
RECURSIVE TokensFrom(_, _, _)
TokensFrom(s, i, spaced) ==
  IF i > Len(s) \/ Stands(s, i, <<"/", "/">>) THEN << >>
  ELSE IF Stands(s, i, <<"/", "*">>) THEN TokensFrom(s, CommentEnd(s, i), TRUE)
  ELSE IF s[i] = Space THEN TokensFrom(s, i + 1, TRUE)
  ELSE <<Token(SubSeq(s, i, TokenEnd(s, i) - 1), spaced, {})>>
         \o TokensFrom(s, TokenEnd(s, i), FALSE)
Tokens(s) == TokensFrom(s, 1, FALSE)

Spellings(ts) == [i \in DOMAIN ts |-> ts[i].spelling]
Is(ts, i, spelling) == i \in DOMAIN ts /\ ts[i].spelling = spelling
IsName(ts, i) == i \in DOMAIN ts /\ StartsName(ts[i].spelling[1])

Hide(ts, names) == [i \in DOMAIN ts |-> [ts[i] EXCEPT !.hide = @ \cup names]]

(***************************************************************************)
(* #define and #undef.  A name directly followed by "(" takes arguments.   *)
(* The meaning of a definition is a set of at most one macro, with its     *)
(* name; a macro table maps names to macros.  That a macro is not defined  *)
(* twice, and where # and ## may stand, is not asked for.                  *)
(***************************************************************************)
ParameterNames(inner, variadic) ==
  [k \in 1 .. (Len(inner) + 1) \div 2 - (IF variadic THEN 1 ELSE 0) |-> inner[2 * k - 1].spelling]

\* inner: the tokens between the parentheses.
IsParameterList(inner, variadic) ==
  LET names == ParameterNames(inner, variadic)
  IN \/ inner = << >>
     \/ /\ Len(inner) % 2 = 1
        /\ \A k \in DOMAIN inner : k % 2 = 0 => inner[k].spelling = <<",">>
        /\ \A k \in DOMAIN names : StartsName(names[k][1])
        /\ IsInjective(names)

Definition(s) ==
  LET ts == Tokens(s)
      function == Is(ts, 2, <<"(">>) /\ ~ts[2].spaced
      close == FirstFrom(ts, 2, LAMBDA j : ts[j].spelling = <<")">>)
      inner == SubSeq(ts, 3, close - 1)
      variadic == function /\ inner # << >> /\ Last(inner).spelling = <<".", ".", ".">>
  IN CASE ~IsName(ts, 1) -> {}
       [] ~function ->
            {[name |-> ts[1].spelling,
              macro |-> [function |-> FALSE, params |-> << >>, variadic |-> FALSE,
                         body |-> Tail(ts)]]}
       [] OTHER ->
            IF close > Len(ts) \/ ~IsParameterList(inner, variadic) THEN {}
            ELSE {[name |-> ts[1].spelling,
                   macro |-> [function |-> TRUE, params |-> ParameterNames(inner, variadic),
                              variadic |-> variadic, body |-> From(ts, close + 1)]]}

NoMacros == [name \in {} |-> {}]
With(macros, d) ==
  [name \in DOMAIN macros \cup {d.name} |-> IF name = d.name THEN d.macro ELSE macros[name]]

\* A directive turns a table into one other or none.
TablesAfter(macros, d) ==
  LET ts == Tokens(d.text)
  IN IF d.directive = "define" THEN {With(macros, m) : m \in Definition(d.text)}
     ELSE IF IsName(ts, 1) /\ Len(ts) = 1 THEN {Restrict(macros, DOMAIN macros \ {ts[1].spelling})}
     ELSE {}
MacroTables(directives) ==
  FoldLeft(LAMBDA tables, d : UNION {TablesAfter(m, d) : m \in tables}, {NoMacros}, directives)

(***************************************************************************)
(* Arguments: the tokens between the parentheses, split at the commas that *)
(* stand in no inner parentheses.                                          *)
(***************************************************************************)
Nesting(ts, k) ==
  LET upto(x) == {j \in 1..k : ts[j].spelling = x}
  IN Cardinality(upto(<<"(">>)) - Cardinality(upto(<<")">>))

\* ts starts with "(": the places of the ")" that closes it.
Closing(ts) ==
  {k \in DOMAIN ts : /\ ts[k].spelling = <<")">> /\ Nesting(ts, k) = 0
                     /\ \A j \in 1 .. k - 1 : Nesting(ts, j) > 0}

ArgumentTokens(macro, ts, close) ==
  LET commas == {k \in 2 .. close - 1 : ts[k].spelling = <<",">> /\ Nesting(ts, k) = 1}
      cuts == SetToSortSeq({1, close} \cup commas, <)
  IN IF close = 2 /\ macro.params = << >> THEN << >>
     ELSE [i \in 1 .. Len(cuts) - 1 |-> SubSeq(ts, cuts[i] + 1, cuts[i + 1] - 1)]

Fits(macro, args) ==
  IF macro.variadic THEN Len(args) >= Len(macro.params)
  ELSE Len(args) = Len(macro.params)

\* The arguments that stand for "...", with their commas.
Rest(macro, args) ==
  FoldLeft(LAMBDA r, arg : IF r = << >> THEN arg ELSE r \o <<Token(<<",">>, FALSE, {})>> \o arg,
           << >>, From(args, Len(macro.params) + 1))

Named(macro, args, name) ==
  ArgumentsNamed(macro, args, name) \cup
    (IF macro.variadic /\ name = VaArgs THEN {Rest(macro, args)} ELSE {})

\* A string or a character in another string: its quotes and backslashes.
EscapedSpelling(s) ==
  FoldLeft(LAMBDA out, x :
             out \o (IF s[1] \in Quotes /\ x \in {"\"", Backslash} THEN <<Backslash>> ELSE << >>)
                 \o <<x>>,
           << >>, s)

\* The string made of an argument: its spelling, one space where it had some.
String(arg) ==
  LET Put(out, i) ==
        out \o (IF i > 1 /\ arg[i].spaced THEN <<Space>> ELSE << >>)
            \o EscapedSpelling(arg[i].spelling)
  IN Token(<<"\"">> \o FoldLeft(Put, << >>, [i \in DOMAIN arg |-> i]) \o <<"\"">>, TRUE, {})

\* The ## operator: the last token of one list and the first of another.
Pasted(a, b) ==
  IF a = << >> THEN b ELSE IF b = << >> THEN a
  ELSE Front(a) \o <<Token(Last(a).spelling \o Head(b).spelling, Last(a).spaced,
                           Last(a).hide \cap Head(b).hide)>> \o Tail(b)

(***************************************************************************)
(* Replacement.  Every result is a set of at most one token list; it is    *)
(* empty when the text has no meaning (an argument list that does not end, *)
(* or of the wrong length).                                                *)
(***************************************************************************)
RECURSIVE Replaced(_, _)

\* The replacement of a macro from its k-th token on, put behind done.
RECURSIVE SubstitutedFrom(_, _, _, _, _)
SubstitutedFrom(macros, macro, args, k, done) ==
  LET body == macro.body
      raw == Named(macro, args, body[k].spelling)
      AsIs(j) == LET a == Named(macro, args, body[j].spelling)
                 IN IF a = {} THEN <<body[j]>> ELSE CHOOSE x \in a : TRUE
      Go(next, ts) == SubstitutedFrom(macros, macro, args, next, ts)
  IN CASE k > Len(body) -> {done}
       [] Is(body, k, <<"#">>) /\ k < Len(body)
            /\ Named(macro, args, body[k + 1].spelling) # {} ->
            Go(k + 2, Append(done, String(AsIs(k + 1))))
       [] Is(body, k, <<"#", "#">>) /\ k < Len(body) -> Go(k + 2, Pasted(done, AsIs(k + 1)))
       [] Is(body, k + 1, <<"#", "#">>) /\ ~Is(body, k, <<"#", "#">>) -> Go(k + 1, done \o AsIs(k))
       [] OTHER ->
            IF raw = {} THEN Go(k + 1, Append(done, body[k]))
            ELSE UNION {Go(k + 1, done \o a) : a \in Replaced(macros, AsIs(k))}

Replaced(macros, ts) ==
  LET head == Head(ts)
      name == head.spelling
      macro == macros[name]
      rest == Tail(ts)
      close == CHOOSE k \in Closing(rest) : TRUE
      args == ArgumentTokens(macro, rest, close)
      hidden == (head.hide \cap rest[close].hide) \cup {name}
      Keep == {<<head>> \o r : r \in Replaced(macros, rest)}
  IN IF ts = << >> THEN {<< >>}
     ELSE IF name \notin DOMAIN macros \ head.hide THEN Keep
     ELSE IF ~macro.function
       THEN Replaced(macros, Hide(macro.body, head.hide \cup {name}) \o rest)
     ELSE IF ~Is(rest, 1, <<"(">>) THEN Keep
     ELSE IF Closing(rest) = {} \/ ~Fits(macro, args) THEN {}
     ELSE UNION {Replaced(macros, Hide(body, hidden) \o From(rest, close + 1)) :
                   body \in SubstitutedFrom(macros, macro, args, 1, << >>)}

\* The lines, as lists of spellings, that a line may be replaced by.
Meaning(directives, line) ==
  UNION {{Spellings(ts) : ts \in Replaced(macros, Tokens(line))} :
           macros \in MacroTables(directives)}

(***************************************************************************)
(* Constants (6.4.4): sets of at most one value.  Floating constants, and  *)
(* octal and hexadecimal escapes, are left out: they have no value here.   *)
(***************************************************************************)
DigitsByValue ==
  <<{"0"}, {"1"}, {"2"}, {"3"}, {"4"}, {"5"}, {"6"}, {"7"}, {"8"}, {"9"}, {"a", "A"}, {"b", "B"},
    {"c", "C"}, {"d", "D"}, {"e", "E"}, {"f", "F"}>>
IsDigit(x, base) == \E k \in 1..base : x \in DigitsByValue[k]
DigitValue(x) == (CHOOSE k \in DOMAIN DigitsByValue : x \in DigitsByValue[k]) - 1

ValueOfDigits(s, base) == FoldLeft(LAMBDA v, x : base * v + DigitValue(x), 0, s)

IntegerSuffixes ==
  LET unsigned == {<< >>, <<"u">>, <<"U">>}
      long == {<< >>, <<"l">>, <<"L">>, <<"l", "l">>, <<"L", "L">>}
  IN {u \o l : u \in unsigned, l \in long} \cup {l \o u : u \in unsigned, l \in long}

IntegerValue(s) ==
  LET hexadecimal == Len(s) > 1 /\ s[1] = "0" /\ s[2] \in {"x", "X"}
      base == IF hexadecimal THEN 16 ELSE IF s[1] = "0" THEN 8 ELSE 10
      first == IF hexadecimal THEN 3 ELSE 1
      end == FirstFrom(s, first, LAMBDA j : ~IsDigit(s[j], base))
  IN IF end > first /\ From(s, end) \in IntegerSuffixes
     THEN {ValueOfDigits(SubSeq(s, first, end - 1), base)} ELSE {}

Escapes ==
  [x \in {"'", "\"", "?", Backslash} |-> Code(x)] @@ ("0" :> 0) @@ ("a" :> Code("bell"))
    @@ ("b" :> Code("backspace")) @@ ("f" :> Code("\f")) @@ ("n" :> Code("\n"))
    @@ ("r" :> Code("\r")) @@ ("t" :> Code("\t")) @@ ("v" :> Code("vertical tab"))

\* The characters between two quotes.
RECURSIVE Characters(_)
Characters(s) ==
  IF s = << >> THEN {<< >>}
  ELSE IF s[1] # Backslash THEN {<<Code(s[1])>> \o rest : rest \in Characters(Tail(s))}
  ELSE IF Len(s) = 1 \/ s[2] \notin DOMAIN Escapes THEN {}
  ELSE {<<Escapes[s[2]]>> \o rest : rest \in Characters(From(s, 3))}

(***************************************************************************)
(* #if (6.10.1): a set of at most one value, empty if it is no expression. *)
(* A value is defined unless an operation evaluated for it is not, and     *)
(* strict if all operations in the expression are defined.  The last of    *)
(* the operators that bind the least, outside of parentheses, splits an    *)
(* expression.                                                             *)
(***************************************************************************)
BinaryOperators ==
  <<{<<"|", "|">>}, {<<"&", "&">>}, {<<"|">>}, {<<"^">>}, {<<"&">>},
    {<<"=", "=">>, <<"!", "=">>}, {<<"<">>, <<">">>, <<"<", "=">>, <<">", "=">>},
    {<<"<", "<">>, <<">", ">">>}, {<<"+">>, <<"-">>}, {<<"*">>, <<"/">>, <<"%">>}>>

Valued(defined, strict, v) ==
  [defined |-> defined /\ v \in Word, strict |-> strict /\ v \in Word, value |-> v]

\* A word as a natural number, and back.
Pattern(v) == v % 2 ^ WordBits
FromPattern(p) == IF p > MaxWord THEN p - 2 ^ WordBits ELSE p

BinaryValue(op, l, r) ==
  CASE op = <<"|", "|">> -> Truth(l # 0 \/ r # 0)
    [] op = <<"&", "&">> -> Truth(l # 0 /\ r # 0)
    [] op = <<"|">> -> FromPattern(Pattern(l) | Pattern(r))
    [] op = <<"^">> -> FromPattern(Pattern(l) ^^ Pattern(r))
    [] op = <<"&">> -> FromPattern(Pattern(l) & Pattern(r))
    [] op = <<"=", "=">> -> Truth(l = r)
    [] op = <<"!", "=">> -> Truth(l # r)
    [] op = <<"<">> -> Truth(l < r)
    [] op = <<">">> -> Truth(l > r)
    [] op = <<"<", "=">> -> Truth(l <= r)
    [] op = <<">", "=">> -> Truth(l >= r)
    [] op = <<"<", "<">> -> l * 2 ^ r
    [] op = <<">", ">">> -> l \div 2 ^ r
    [] op = <<"+">> -> l + r
    [] op = <<"-">> -> l - r
    [] op = <<"*">> -> l * r
    [] op = <<"/">> -> Quotient(l, r)
    [] op = <<"%">> -> Remainder(l, r)

HasValue(op, l, r) ==
  /\ op \in BinaryOperators[10] \ {<<"*">>} => r # 0 /\ Quotient(l, r) \in Word
  /\ op \in BinaryOperators[8] => r \in 0 .. WordBits - 1
  /\ op = <<"<", "<">> => l >= 0

\* The left operand of these may decide alone.
Decides(op, l) ==
  /\ l.defined
  /\ \/ op = <<"&", "&">> /\ l.value = 0
     \/ op = <<"|", "|">> /\ l.value # 0
Binary(op, l, r) ==
  LET strict == l.strict /\ r.strict
  IN IF Decides(op, l) THEN Valued(TRUE, strict, Truth(l.value # 0))
     ELSE IF l.defined /\ r.defined /\ HasValue(op, l.value, r.value)
       THEN Valued(TRUE, strict, BinaryValue(op, l.value, r.value))
     ELSE Valued(FALSE, FALSE, 0)
Unary(op, r) ==
  Valued(r.defined, r.strict,
         CASE op = <<"+">> -> r.value [] op = <<"-">> -> -r.value
           [] op = <<"!">> -> Truth(r.value = 0) [] op = <<"~">> -> -r.value - 1)
UnaryOperators == {<<"+">>, <<"-">>, <<"!">>, <<"~">>}

EndsOperand(t) == t.spelling = <<")">> \/ InName(t.spelling[1])

RECURSIVE ExpressionValue(_, _)
ExpressionValue(ts, level) ==
  LET splits == {k \in 2 .. Len(ts) - 1 :
                   /\ level <= Len(BinaryOperators) /\ ts[k].spelling \in BinaryOperators[level]
                   /\ Nesting(ts, k) = 0 /\ EndsOperand(ts[k - 1])}
      k == CHOOSE k \in splits : \A j \in splits : j <= k
  IN CASE splits # {} ->
            {Binary(ts[k].spelling, l, r) : l \in ExpressionValue(SubSeq(ts, 1, k - 1), level),
                                            r \in ExpressionValue(From(ts, k + 1), level + 1)}
       [] splits = {} /\ level <= Len(BinaryOperators) -> ExpressionValue(ts, level + 1)
       [] ts = << >> /\ level > Len(BinaryOperators) -> {}
       [] OTHER ->
            IF ts[1].spelling \in UnaryOperators
              THEN {Unary(ts[1].spelling, r) : r \in ExpressionValue(Tail(ts), level)}
            ELSE IF Len(ts) > 2 /\ Is(ts, 1, <<"(">>) /\ Is(ts, Len(ts), <<")">>)
              THEN ExpressionValue(SubSeq(ts, 2, Len(ts) - 1), 1)
            ELSE IF Len(ts) # 1 THEN {}
            ELSE IF IsName(ts, 1)
              THEN {Valued(TRUE, TRUE, 0) : name \in {ts[1].spelling} \ {<<"defined">>}}
            ELSE IF InName(ts[1].spelling[1])
              THEN {Valued(TRUE, TRUE, v) : v \in IntegerValue(ts[1].spelling)}
            ELSE {}

\* "defined" comes before replacement.
RECURSIVE DefinedDecided(_, _)
DefinedDecided(macros, ts) ==
  LET Decide(name, rest) ==
        <<Token(<<IF name.spelling \in DOMAIN macros THEN "1" ELSE "0">>, TRUE, {})>>
          \o DefinedDecided(macros, rest)
  IN IF ts = << >> THEN << >>
     ELSE IF Is(ts, 1, <<"defined">>) /\ IsName(ts, 2) THEN Decide(ts[2], From(ts, 3))
     ELSE IF Is(ts, 1, <<"defined">>) /\ Is(ts, 2, <<"(">>) /\ IsName(ts, 3) /\ Is(ts, 4, <<")">>)
       THEN Decide(ts[3], From(ts, 5))
     ELSE <<ts[1]>> \o DefinedDecided(macros, Tail(ts))

ConditionMeaning(directives, condition) ==
  UNION {UNION {ExpressionValue(ts, 1) :
                  ts \in Replaced(macros, DefinedDecided(macros, Tokens(condition)))} :
           macros \in MacroTables(directives)}

(***************************************************************************)
(* The tokens the parser is given, from preprocessing tokens: a set of at  *)
(* most one.                                                               *)
(***************************************************************************)
CKeywords ==
  {<<word>> : word \in
    {"auto", "break", "case", "char", "const", "continue", "default", "do", "double", "else",
     "enum", "extern", "float", "for", "goto", "if", "inline", "int", "long", "register",
     "restrict", "return", "short", "signed", "sizeof", "static", "struct", "switch", "typedef",
     "union", "unsigned", "void", "volatile", "while", "_Alignas", "_Alignof", "_Atomic", "_Bool",
     "_Complex", "_Generic", "_Imaginary", "_Noreturn", "_Static_assert", "_Thread_local"}}

ParserToken(kind, text, value) == [kind |-> kind, text |-> text, value |-> value]

\* A literal that ends with its quote.
IsClosed(s) == Len(s) > 1 /\ Last(s) = s[1] /\ ~Escaped(s, 1, Len(s))

TokenMeaning(s) ==
  LET inner == SubSeq(s, 2, Len(s) - 1)
  IN CASE StartsName(s[1]) ->
            {ParserToken(IF s \in CKeywords THEN "keyword" ELSE "identifier", s, << >>)}
       [] s[1] \in Quotes /\ ~IsClosed(s) -> {}
       [] s[1] = "\"" /\ IsClosed(s) ->
            {ParserToken("string", << >>, c) : c \in Characters(inner)}
       [] s[1] = "'" /\ IsClosed(s) ->
            {ParserToken("character", << >>, c) : c \in {c \in Characters(inner) : Len(c) = 1}}
       [] s \in Punctuators \ {<<"#">>, <<"#", "#">>} -> {ParserToken("punctuator", s, << >>)}
       [] OTHER ->
            {ParserToken("integer", << >>, <<v>>) :
               v \in {v \in IntegerValue(s) : v < 2 ^ WordBits}}

\* Adjacent string literals are one.
WithToken(ts, t) ==
  IF t.kind = "string" /\ ts # << >> /\ Last(ts).kind = "string"
  THEN Append(Front(ts), [Last(ts) EXCEPT !.value = @ \o t.value])
  ELSE Append(ts, t)
TokenMeanings(spellings) ==
  FoldLeft(LAMBDA lists, s : {WithToken(l, t) : l \in lists, t \in TokenMeaning(s)},
           {<< >>}, spellings)
=============================================================================
