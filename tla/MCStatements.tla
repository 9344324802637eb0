----------------------------- MODULE MCStatements -----------------------------
(***************************************************************************)
(* Every function body that the semantic analysis accepts of at most       *)
(* MaxStatements statements inside the braces of the function, without     *)
(* labels; of one statement less with the labels Names; and of statements  *)
(* nested more deeply than MaxDepth.  There is one case constant.          *)
(***************************************************************************)
EXTENDS FccLoweredFunction

CONSTANTS MaxStatements, Names

\* A statement around others; the children keep their positions under it.
Around(kind, arg, subs) ==
  LET inside == UNION {{<<i>> \o p : p \in DOMAIN subs[i]} : i \in DOMAIN subs}
  IN [p \in {<< >>} \cup inside |->
        IF p = << >> THEN [kind |-> kind, arg |-> arg, kids |-> Len(subs)]
        ELSE subs[Head(p)][Tail(p)]]

Evaluation == Around("expression", {"value"}, << >>)

Simple(names) ==
  {Evaluation, Around("return", {"value"}, << >>), Around("return", {}, << >>),
   Around("break", {}, << >>), Around("continue", {}, << >>)}
    \cup {Around("goto", name, << >>) : name \in names}

AroundOne(s, names) ==
  {Around("while", {}, <<s>>), Around("do", {}, <<s>>),
   Around("for", {}, <<s>>), Around("for", {"test", "update"}, <<s>>),
   Around("for", {"init", "test"}, <<Evaluation, s>>),
   Around("switch", {}, <<s>>), Around("if", {}, <<s>>),
   Around("case", 1, <<s>>), Around("default", {}, <<s>>)}
    \cup {Around("label", name, <<s>>) : name \in names}

AroundTwo(s, t) == {Around("compound", {}, <<s, t>>), Around("if", {}, <<s, t>>)}

\* The statements made of n of them; an init statement counts with its for.
StatementsOf(names) ==
  LET of[n \in Nat] ==
        IF n = 1 THEN Simple(names) \cup {Around("compound", {}, << >>)}
        ELSE UNION {AroundOne(s, names) : s \in of[n - 1]}
               \cup UNION {UNION {AroundTwo(s, t) : s \in of[k], t \in of[n - 1 - k]} :
                           k \in 1 .. n - 2}
  IN of

\* Statements nested n times.
Nested[n \in Nat] ==
  IF n = 0 THEN {Evaluation}
  ELSE {Around(kind, {}, <<s>>) : kind \in {"while", "switch", "compound"},
                                  s \in Nested[n - 1]}

Statements == UNION {StatementsOf({})[n] : n \in 1..MaxStatements}
                \cup UNION {StatementsOf(Names)[n] : n \in 1 .. MaxStatements - 1}
                \cup Nested[MaxDepth + 1]

\* The braces of the function, and an evaluation to return to after the rest.
MCPrograms ==
  {Around("compound", {}, <<s, Evaluation>>) :
     s \in {x \in Statements : SemaAccepts(x)}}
=============================================================================
