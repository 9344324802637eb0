------------------------------- MODULE MCLexer -------------------------------
(***************************************************************************)
(* Small programs: tables of macros and lines that use them, definitions,  *)
(* expressions of #if, and lines of many tokens.                           *)
(***************************************************************************)
EXTENDS FccLexer

\* Every symbol has a code of its own, which is not 0.
Symbols ==
  <<"bell", "backspace", "\t", "\n", "vertical tab", "\f", "\r", "'", "\"", "?", Backslash, "/",
    "0", "1", "2", "3", "4", "5", "6", "7", "8", "9", "a", "b", "f", "n", "r", "t", "v", ",">>
MCCode(x) ==
  IF x \in ToSet(Symbols) THEN CHOOSE i \in DOMAIN Symbols : Symbols[i] = x
  ELSE Len(Symbols) + 1

\* All but two of the names that are interned fall on the same slot.
MCHash(name) == IF name = <<"a">> THEN 7 ELSE IF name = <<"c">> THEN 4 ELSE 3

MCNames == {<<"a">>, <<"b">>, <<"c">>, <<"x">>, <<"y">>, <<"a", "b">>, <<"a", "1">>, <<"int", "x">>}

Defines(text) == [directive |-> "define", text |-> text]
Undefines(text) == [directive |-> "undef", text |-> text]
Line(text) == [directive |-> "line", text |-> text]
If(text) == [directive |-> "if", text |-> text]
Combine(lists, uses) == [directives : lists, use : uses]

Quoted(s) == <<"\"">> \o s \o <<"\"">>

-----------------------------------------------------------------------------
\* Two macros that vary, and one that only ## can make.
Definitions ==
  {<<Space>> \o s : s \in {<<"a">>, <<"b">>, <<"1">>, <<"b", Space, "1">>}} \cup
  {<<"(", "x", ")", Space>> \o s :
     s \in {<<"x">>, <<"b">>, <<"a">>, <<"x", Space, "b">>, <<"b", "(", "x", ")">>,
            <<"#", "x">>, <<"a", Space, "#", "#", "x">>}} \cup
  {<<"(", "x", ",", "y", ")", "y", Space, "x">>,
   <<"(", "x", ",", Space, ".", ".", ".", ")", "__VA_ARGS__", Space, "x">>}

\* Words stand apart.
Lines ==
  {<<"a">>, <<"a", Space, "b">>, <<"a", "(", "1", ")">>, <<"a", "(", "b", ")">>,
   <<"a", "(", ")">>, <<"a", "(", "1">>, <<"a", "(", "1", ",", "2", ")">>,
   <<"b", "(", "(", "1", ",", "2", ")", ",", Space, "1", ")">>,
   <<"a", Space, "(", "1", ")", "(", "2", ")">>,
   <<"b", Space, "a", "(", "1", ")", "(", "2", ")", "(", "1", ")", "(", "2", ")">>,
   <<"a", "/", "*", "1", "*", "/", "2">>,
   Quoted(<<"a">>) \o <<Space, "b", "(">> \o Quoted(<<",", Backslash, "n">>)
     \o <<")", "/", "/", "a">>}

\* Calls of b in the arguments of a, whole or completed behind them.
NestedCalls ==
  {<<"a", "(", "b", "(", "1", ")", ")">>, <<"a", "(", "b", ")", "(", "1", ")">>,
   <<"a", "(", "b", "(", "1", ")", ",", "2", ")">>, <<"a", "(", "b", "(", "1", ",", "2", ")", ")">>,
   <<"a", "(", "1", ",", "b", "(", "2", ",", "3", ")", ")">>,
   <<"a", "(", "b", Space, "(", "1", ")", "(", "2", ")", ")", Space, "b", "(", "3", ")">>}

\* A macro that its own argument calls is not replaced there, in C it is: b leads to
\* no call of a, nor is a replaced by a call of b.
Unrelated(d, e) == "a" \notin ToSet(e) /\ ("b" \in ToSet(d) => e[1] # "(")

LinesFor(d, e) == Lines \cup (IF Unrelated(d, e) THEN NestedCalls ELSE {})

\* Pasting a name and a string is undefined in C.
PastesString(d, line) ==
  "\"" \in ToSet(line) /\ \E i \in DOMAIN d : Stands(d, i, <<"#", "#">>)

Replacing ==
  UNION {Combine({<<Defines(<<"a">> \o d), Defines(<<"b">> \o e),
                     Defines(<<"a", "b", Space, "2">>)>>},
                  {Line(l) : l \in {l \in LinesFor(d, e) : ~PastesString(d, l) /\ ~PastesString(e, l)}}) :
           d \in Definitions, e \in Definitions}

-----------------------------------------------------------------------------
\* Definitions that are read one way or another, or refused.
Defining ==
  Combine({<<Defines(<<Space, "a">> \o d), u>> :
              d \in {<< >>, <<Space>>, <<"(", ")">>, <<"(", Space, ")", "1">>, <<"(", "x">>,
                     <<"(", "x", "y">>, <<"(", "x", Space, ",", "y", Space, ")", "x">>,
                     <<"(", "x", ",", ")">>, <<"(", "x", ",", "x", ")">>, <<"(", "1", ")">>,
                     <<"(", ".", ".", ".", ")">>, <<"(", "x", Space, "y", ")">>,
                     <<"(", ".", ".", ".", ",", "x", ")">>, <<"(", ".", ".", ")">>,
                     <<Space, "(", "x", ")", Space, "1", Space, Space>>, <<"1", Space, "2">>},
              u \in {Undefines(<<Space, "a">>), Undefines(<<"b">>), Undefines(<<"a", Space, "1">>),
                     Undefines(<<"1">>), Undefines(<< >>), Defines(<< >>), Defines(<<"1">>),
                     Defines(<<"a", Space, "2">>)}},
           {Line(<<"a", "(", "1", ",", "2", ")">>), Line(<<"a", "(", ")", Space, "a">>),
            If(<<"defined", Space, "a">>), If(<<"!", "defined", Space, "(", "a", ")">>)})

-----------------------------------------------------------------------------
\* Expressions of three operands, with all pairs of operators between them,
\* and what else an operand can be.
Operators == UNION ToSet(BinaryOperators)
ThreeOperands ==
  {<<<<"0">>, <<"1", "0", "0">>, <<"3">>>>, <<<<"1", "0", "0">>, <<"3">>, <<"2">>>>,
   <<<<"3">>, <<"0">>, <<"2">>>>, <<<<"2">>, <<"1">>, <<"0">>>>}
Expressions ==
  {v[1] \o op1 \o v[2] \o <<Space>> \o op2 \o v[3] :
     v \in ThreeOperands, op1 \in Operators, op2 \in Operators}

WithUnaryOperators ==
  {<<"2">> \o op1 \o <<Space, u, "1", Space>> \o op2 \o <<Space, "3">> :
     u \in {"-", "~", "!"}, op1 \in Operators, op2 \in Operators}

MoreExpressions ==
  {<< >>, <<Space>>, <<"1", Space, "2">>, <<"(", "1">>, <<"1", "+">>, <<"1", ")">>, <<"*", "1">>,
   <<"b">>, <<"a", "+", "a">>, <<"defined">>, <<"defined", "(", "a">>, <<"defined", Space, "1">>,
   <<"defined", "(", "b", ")", "|", "|", "a", ">", "1">>, <<"-", Space, "-", "2">>,
   <<"!", "-", "2", "=", "=", "~", "0">>, <<"(", "1", "+", "2", ")", "*", "3">>,
   <<"-", "(", "1", "-", "2", ")", "<", "<", "(", "1", "|", "4", ")">>, <<"1", "?", "2">>,
   <<"0", "x", "1", "f", "u">>, <<"0", "1", "2", "L">>, <<"0", "x">>, <<"1", "2", "8">>,
   <<"-", "1", "2", "7", "-", "1">>, <<"-", "(", "-", "1", "2", "7", "-", "1", ")">>,
   <<"(", "-", "1", "2", "7", "-", "1", ")", "/", "-", "1">>, <<"1", "<", "<", "-", "1">>,
   <<"(", "-", "1", "2", "7", "-", "1", ")", "%", "-", "1">>, <<"0", "9">>, <<"1", "f">>}

Deciding ==
  Combine({<< >>}, {If(e) : e \in Expressions \cup WithUnaryOperators}) \cup
  Combine({<<Defines(<<"a", Space>> \o v)>> :
              v \in {<<"2">>, <<"-", "3">>, <<"0", "x", "1", "0">>}},
           {If(e) : e \in MoreExpressions})

-----------------------------------------------------------------------------
\* Lines of many tokens: names with colliding hashes, every punctuator, and
\* literals of every kind.
Spread(words) == FoldLeft(LAMBDA s, w : s \o w \o <<Space>>, << >>, words)

Tokenized ==
  {<<"a", ";", "b", ";", "a", "b", "+", "a", "1", "*", "c", "-", "a", ",", "x", "<", "y", "=", "b">>,
   <<"int", Space, "a", "=", "sizeof", "(", "int", "x", ")", ";", "c", "[", "a", "]", "=", "c">>,
   <<"a", "+", "+", "+", "b", "-", "-", ">", "c", "<", "<", "=", "1", "<", "<", "2", ">", ">",
     "=", "3", ">", ">", "4", "<", "=", "5", ">", "=", "6">>,
   <<"a", "=", "=", "b", "!", "=", "c", "=", "!", "x", "&", "&", "&", "y", "|", "|", "|", "b",
     "^", "~", "a">>,
   <<"a", "*", "=", "b", "/", "=", "c", "%", "=", "x", "+", "=", "1", "-", "=", "2", "&", "=", "3",
     "|", "=", "4", "^", "=", "5">>,
   <<"{", "a", ".", "b", "-", ">", "c", ".", ".", ".", ":", "?", "}", "%", "/", ";">>,
   <<"a", "/", "*", "/", "b", "*", "/", "c", "/", "*", "*", "/", "/", "/", Space, "a">>,
   <<"a", Space, "/", "/", "*", "b">>,
   <<"0", ",", "1", "2", "u", ",", "3", "l", "l", ",", "4", "u", "l", ",", "5", "L", "U", ",",
     "0", "x", "1", "f", ",", "0", "X", "F", "u", ",", "2", "5", "5">>,
   <<"2", "5", "6">>, <<"1", "a">>, <<"0", "x">>, <<"0", "x", "g">>, <<"1", ".", "5">>,
   <<"1", "e", "5">>, <<"3", "u", "u">>, <<"4", "l", "u", "l">>, <<"a", Space, "#">>,
   <<"a", Backslash>>, <<"@">>, <<"'", "a">>, <<"'", "'">>, <<"'", "a", "b", "'">>,
   <<"'", Backslash, "n", "'", ",", "'", Backslash, "'", "'", ",", "'", "\"", "'", ",", "'",
     Backslash, "0", "'", ",", "'", Backslash, Backslash, "'">>} \cup
  {Quoted(<<"a", "/", "/", "b", Backslash, "\"", "'">>) \o <<Space>> \o Quoted(<< >>)
     \o Quoted(<<Backslash, x, "1">>) \o <<",", "\"", "\"">> :
     x \in {"n", "t", "\"", "'", "?", "0", Backslash, "a", "b", "f", "r", "v"}}

MCPrograms ==
  Replacing \cup Defining \cup Deciding \cup Combine({<< >>}, {Line(l) : l \in Tokenized})
=============================================================================
