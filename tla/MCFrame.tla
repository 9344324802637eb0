------------------------------- MODULE MCFrame -------------------------------
(***************************************************************************)
(* Every function of up to two parameters whose body is a nest of three    *)
(* statements and one more, which declare and use the names LocalNames,    *)
(* and which the semantic analysis accepts; and some nested more deeply    *)
(* than MaxDepth.                                                          *)
(***************************************************************************)
EXTENDS FccFrame

CONSTANTS LocalNames, Storages

\* A statement around others; its children keep their positions under it.
Around(node, subs) ==
  LET inside == UNION {{<<i>> \o p : p \in DOMAIN subs[i]} : i \in DOMAIN subs}
  IN [p \in {<< >>} \cup inside |->
        IF p = << >> THEN node ELSE subs[Head(p)][Tail(p)]]

Statement(kind, arg, kids, declares, uses) ==
  [kind |-> kind, arg |-> arg, kids |-> kids, declares |-> declares,
   uses |-> uses]

Object(n, size, storage) == [name |-> n, size |-> size, storage |-> storage]

Leaves ==
  {Around(Statement("expression", {}, 0, <<Object(n, 4, storage)>>, {}), << >>) :
     n \in LocalNames, storage \in Storages}
    \cup {Around(Statement("expression", {"value"}, 0, <<Object(n, 12, "auto")>>,
                           {m}), << >>) : n, m \in LocalNames}
    \cup {Around(Statement("expression", {"value"}, 0, << >>, {m}), << >>) :
             m \in LocalNames}

Jumps ==
  {Around(Statement(kind, {}, 0, << >>, {}), << >>) :
     kind \in {"break", "continue", "return"}}
    \cup {Around(Statement("return", {"value"}, 0, << >>, {m}), << >>) :
             m \in LocalNames}
    \cup {Around(Statement("goto", "here", 0, << >>, {}), << >>)}

HeadsOfOne ==
  {Statement(kind, {}, 1, << >>, {m}) : kind \in {"if", "while", "do"},
                                       m \in LocalNames}
    \cup {Statement(kind, {}, 1, << >>, {}) :
             kind \in {"switch", "default", "compound"}}
    \cup {Statement("label", "here", 1, << >>, {})}

HeadsOfTwo ==
  {Statement("for", {"init", part}, 2, << >>, {m}) :
     part \in {"test", "update"}, m \in LocalNames}
    \cup {Statement("compound", {}, 2, << >>, {}),
          Statement("if", {}, 2, << >>, {})}

OfTwo == {Around(head, <<s>>) : head \in HeadsOfOne, s \in Leaves \cup Jumps}
OfThree == {Around(head, <<s>>) : head \in HeadsOfOne, s \in OfTwo}
             \cup {Around(head, <<s, t>>) : head \in HeadsOfTwo, s, t \in Leaves}

ParameterLists == {<< >>, <<Object("x", 8, "auto")>>,
                   <<Object("y", 4, "auto"), Object("x", 12, "auto")>>}

\* Statements nested n times; the innermost is too deep for one walk or both.
Nested[n \in Nat] ==
  IF n = 0 THEN Leaves
  ELSE {Around(head, <<s>>) :
          head \in {Statement("compound", {}, 1, << >>, {}),
                   Statement("while", {}, 1, << >>, {"x"})},
          s \in Nested[n - 1]}

MCPrograms ==
  LET body(parameters) == Statement("compound", {}, 2, parameters, {})
  IN {Around(body(<< >>), <<s, s>>) : s \in Nested[MaxDepth - 2] \cup Nested[MaxDepth - 1]}
       \cup
     {tree \in {Around(body(parameters), <<s, t>>) :
                  parameters \in ParameterLists, s \in OfThree, t \in Leaves \cup Jumps} :
        OnlyInitsInFor(tree)}
=============================================================================
