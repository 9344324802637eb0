-------------------------- MODULE MCTranslationUnit --------------------------
(***************************************************************************)
(* Units for TLC, put together from pieces of text: each family asks the   *)
(* question stated above it, and every piece is one the parser decides     *)
(* something at.                                                           *)
(***************************************************************************)
EXTENDS FccTranslationUnit

MCNames == {"T", "x", "y", "f", "S"}

\* All sequences of a number of pieces, joined.
Joined(pieces, lengths) ==
  UNION {{FlattenSeq(s) : s \in [1..n -> pieces]} : n \in lengths}
Tokens(set) == {<<t>> : t \in set}

InFunction(body) == <<"int", "f", "(", "int", "x", ")", "{">> \o body \o <<"}">>
WithTypedef == <<"typedef", "int", "T", ";">>
WithGlobals == WithTypedef \o <<"int", "x", ";", "int", "f", "(">>

\* Declaration, cast, call or product: any short text over the tokens of all four.
Ambiguous ==
  {WithGlobals \o <<")", "{">> \o s \o <<";", "}">> : s \in
     Joined(Tokens({"T", "x", "*", "(", ")", "-"}), 1..3)
     \cup Joined(Tokens({"T", "x", "*", "(", ")"}), 4..4)}

\* Any two binary operators, and what stands before and behind an operand.
Calculated ==
  {InFunction(s \o <<";">>) : s \in
     {<<"x", o, "x", q, "x">> : o, q \in BinaryTokens}
     \cup {s \o <<"x">> : s \in
             Joined({<<"x", "?">>, <<"x", ":">>, <<"x", "=">>, <<"x", "+">>}, 2..4)}}
  \cup
  {WithTypedef \o InFunction(b \o <<"x">> \o i \o <<"x">> \o a \o <<";">>) :
     b \in {<< >>, <<"-">>, <<"*">>, <<"(", "T", ")">>, <<"sizeof">>, <<"++">>},
     i \in {<<"*">>, <<"-">>, <<"&&">>, <<"=">>, <<"?", "x", ":">>},
     a \in {<< >>, <<"++">>, <<"[", "1", "]">>, <<"(", "x", ")">>, <<"->", "y">>}}

\* Which if an else belongs to, and where statements end.
Nested ==
  {InFunction(s) : s \in
     Joined({<<"if", "(", "x", ")">>, <<"else">>, <<"x", ";">>}, 3..5)
     \cup Joined({<<"if", "(", "x", ")">>, <<"else">>, <<"x", ";">>, <<"{">>, <<"}">>,
                  <<"while", "(", "x", ")">>, <<"do">>, <<"y", ":">>, <<"return">>}, 1..3)}

\* The statements that depend on what they are in.
Enclosed ==
  {InFunction(s) : s \in
     Joined({<<"switch", "(", "x", ")">>, <<"case", "1", ":">>, <<"default", ":">>,
             <<"break", ";">>, <<"continue", ";">>, <<"for", "(", ";", ";", ")">>,
             <<"{", "goto", "y", ";", "}">>}, 1..3)}

\* The sets of keywords that make a basic type, in any order.
Keywords ==
  {s \o <<"x", ";">> : s \in Joined(Tokens(BasicKeywords), 1..3)
                              \cup Joined(Tokens({"long", "int", "unsigned"}), 4..4)}

\* Which declaration a name or a tag means in a block, behind a parameter list.
InScope ==
  LET parameters == {<<"void">>, <<"int", "x">>, <<"T", "x">>, <<"int", "T">>,
                     <<"struct", "S", "*", "x">>}
      pieces == {<<"x", ";">>, <<"T", "x", ";">>, <<"T", "*", "x", ";">>, <<"int", "T", ";">>,
                 <<"typedef", "char", "T", ";">>, <<"{", "int", "x", ";", "x", ";", "}">>,
                 <<"{", "typedef", "struct", "S", "T", ";", "T", "*", "x", ";", "}">>,
                 <<"enum", "{", "x", "}", ";">>, <<"struct", "S", "{", "T", "x", ";", "}", ";">>,
                 <<"struct", "S", "*", "x", ";">>, <<"struct", "S", ";">>,
                 <<"for", "(", "int", "x", "=", "1", ";", "x", ";", "x", "++", ")", "x", ";">>,
                 <<"int", "x", "=", "x", ";">>}
  IN {WithGlobals \o p \o <<")", "{">> \o body \o <<"}">> : p \in parameters, body \in Joined(pieces, 1..2)}

\* File-scope declarations in any order: each list of the analysis keeps the order of
\* its own kind only.
AtFileScope ==
  Joined({<<"typedef", "int", "T", ";">>, <<"int", "x", ";">>,
          <<"struct", "S", "{", "int", "x", ";", "}", ";">>, <<"struct", "S", ";">>,
          <<"struct", "S", "{", "struct", "S", "{", "int", "x", ";", "}", "y", ";", "}", ";">>,
          <<"enum", "{", "x", "}", ";">>, <<"enum", "S", "{", "x", ",", "y", "=", "x", "}", ";">>,
          <<"typedef", "struct", "S", "T", ";">>, <<"int", "T", ";">>, <<"T", "y", ";">>,
          <<"T", "y", "=", "1", ";">>, <<"struct", "S", "x", ";">>,
          <<"int", "f", "(", "int", "x", ")", ";">>,
          <<"int", "f", "(", "T", "y", ")", "{", "return", "y", ";", "}">>,
          <<"int", "f", "(", "struct", "S", "*", "x", ",", "...", ")", "{", "return", "x", ";", "}">>,
          <<"_Static_assert", "(", "x", ",", "text", ")", ";">>,
          <<"int", "x", "[", "y", "]", ";">>,
          <<"int", "(", "*", "y", ")", "(", "int", "x", ",", "T", ")", ";">>,
          <<"union", "S", "{", "T", "y", ";", "int", "x", ";", "}", "x", ";">>}, 0..2)

MCTexts == Ambiguous \cup Calculated \cup Nested \cup Enclosed \cup Keywords
           \cup InScope \cup AtFileScope
=============================================================================
