------------------------------- MODULE CGrammar -------------------------------
(***************************************************************************)
(* The grammar of C for the subset of it that this compiler documents, as  *)
(* productions.  Trees(c, i, j, e) is the set of trees that the category c *)
(* derives from the tokens i..j-1 of the text e.text, where e.types are    *)
(* the names that C takes for typedef names at that place: a name becomes  *)
(* one when a typedef declares it and ceases to be one where another       *)
(* declaration hides it.  A tree here says what the text means, not how a  *)
(* parser would find it.  Productions marked "extension" are not in C.     *)
(***************************************************************************)
EXTENDS SyntaxTree, FiniteSets, SequencesExt

LOCAL P(kind, form) == [k |-> kind, form |-> form]
\* A production whose tree is that of its only category.
LOCAL Same(form) == [k |-> "", form |-> form]
LOCAL Each(kinds, Form(_)) == {P(k, Form(k)) : k \in kinds}

Precedence ==
  [op \in BinaryTokens |->
     CASE op = "||" -> 1 [] op = "&&" -> 2 [] op = "|" -> 3 [] op = "^" -> 4 [] op = "&" -> 5
       [] op \in {"==", "!="} -> 6
       [] op \in {"<", ">", "<=", ">="} -> 7
       [] op \in {"<<", ">>"} -> 8
       [] op \in {"+", "-"} -> 9
       [] OTHER -> 10]

ExpressionGrammar ==
  "<expression>" :>   \* extension: the left side is any conditional expression
            {Same(<<"<conditional>">>)} \cup
            Each(AssignmentTokens, LAMBDA op : <<"<conditional>", op, "<expression>">>) @@
  "<conditional>" :>
            {Same(<<"<binary>">>),
             P("?:", <<"<binary>", "?", "<expression>", ":", "<conditional>">>)} @@
  "<cast>" :>
            {Same(<<"<unary>">>), P("cast", <<"(", "<type name>", ")", "<cast>">>)} @@
  "<unary>" :>        \* extension: ++ and -- of a cast
            {Same(<<"<postfix>">>), P("sizeof", <<"sizeof", "<unary>">>)} \cup
            Each({"sizeof", "_Alignof"}, LAMBDA k : <<k, "(", "<type name>", ")">>) \cup
            Each(UnaryTokens \cup UpdateTokens, LAMBDA op : <<op, "<cast>">>) @@
  "<postfix>" :>
            {Same(<<"<primary>">>), P("call", <<"<postfix>", "(", "<arguments>", ")">>),
             P("subscript", <<"<postfix>", "[", "<expression>", "]">>)} \cup
            Each({".", "->"}, LAMBDA op : <<"<postfix>", op, "name">>) \cup
            {P("post " \o op, <<"<postfix>", op>>) : op \in UpdateTokens} @@
  "<primary>" :>  {Same(<<"<leaf>">>), Same(<<"(", "<expression>", ")">>)}

\* extensions: a declaration wherever a statement may stand; {} as an initializer;
\* an assignment where a constant expression is due.
StatementGrammar ==
  "<statement>" :>
            {Same(<<"<compound>">>), Same(<<"<declaration>">>),
             P("return", <<"return", "<clause>", ";">>),
             P("if", <<"if", "(", "<expression>", ")", "<statement>">>),
             P("if else", <<"if", "(", "<expression>", ")", "<statement>", "else",
                            "<statement>">>),
             P("do", <<"do", "<statement>", "while", "(", "<expression>", ")", ";">>),
             P("for", <<"for", "(", "<for init>", "<clause>", ";", "<clause>", ")",
                        "<statement>">>),
             P("case", <<"case", "<expression>", ":", "<statement>">>),
             P("default", <<"default", ":", "<statement>">>),
             P("goto", <<"goto", "name", ";">>),
             P("label", <<"name", ":", "<statement>">>),
             P("expression", <<"<clause>", ";">>)} \cup
            Each({"while", "switch"}, LAMBDA k : <<k, "(", "<expression>", ")", "<statement>">>)
            \cup Each({"break", "continue"}, LAMBDA k : <<k, ";">>) @@
  "<for init>" :>
            {Same(<<"<declaration>">>), P("expression", <<"<expression>", ";">>),
             P("nothing", <<";">>)} @@
  "<compound>" :>  {P("compound", <<"{", "<statements>", "}">>)} @@
  "<declaration>" :>
            {P("declaration", <<"<specifiers>", ";">>),
             P("declaration", <<"<specifiers>", "<declarator>", ";">>),
             P("declaration", <<"<specifiers>", "<declarator>", "=", "<initializer>", ";">>),
             P("static assert", <<"_Static_assert", "(", "<expression>", ",", "text", ")",
                                  ";">>)} @@
  "<initializer>" :>
            {Same(<<"<expression>">>), P("initializers", <<"{", "<initializers>", "}">>)}

DeclarationGrammar ==
  "<external>" :>
            {Same(<<"<declaration>">>),
             P("function", <<"<specifiers>", "<declarator>", "(", "<parameters>", ")", ";">>),
             P("function", <<"<specifiers>", "<declarator>", "(", "<parameters>", ")",
                             "<compound>">>)} @@
  "<type>" :>
            {Same(<<"<basic>">>), Same(<<"<typedef name>">>), P("void", <<"void">>), P("enum", <<"enum", "name">>),
             P("enum", <<"enum", "{", "<enumerators>", "}">>),
             P("enum", <<"enum", "name", "{", "<enumerators>", "}">>)} \cup
            Each({"struct", "union"}, LAMBDA k : <<k, "name">>) \cup
            Each({"struct", "union"}, LAMBDA k : <<k, "{", "<fields>", "}">>) \cup
            Each({"struct", "union"}, LAMBDA k : <<k, "name", "{", "<fields>", "}">>) @@
  "<field>" :>
            {P("field", <<"<specifiers>", "<declarator>", ";">>),
             P("static assert", <<"_Static_assert", "(", "<expression>", ",", "text", ")",
                                  ";">>)} @@
  "<enumerator>" :>
            {P("enumerator", <<"name">>), P("enumerator", <<"name", "=", "<expression>">>)} @@
  "<declarator>" :>
            {P("declarator", <<"<stars>", "name", "<bounds>">>),
             P("function pointer", <<"<stars>", "(", "<some stars>", "name", ")",
                                     "(", "<parameters>", ")">>)} @@
  "<abstract>" :>
            {P("declarator", <<"<stars>", "<bounds>">>),
             P("function pointer", <<"<stars>", "(", "<some stars>", ")",
                                     "(", "<parameters>", ")">>)} @@
  "<bound>" :>  {P("[]", <<"[", "]">>), P("[n]", <<"[", "<expression>", "]">>)} @@
  "<parameter>" :>
            {P("parameter", <<"<specifiers>", "<declarator>">>),
             P("parameter", <<"<specifiers>", "<abstract>">>)} @@
  "<type name>" :>  {P("type name", <<"<specifiers>", "<abstract>">>)}

\* Lists: their item, whether commas separate the items, whether one may end the
\* list, and whether the list may be empty.
Lists ==
  "<statements>" :>  [item |-> "<statement>", comma |-> FALSE, ends |-> FALSE, empty |-> TRUE] @@
  "<fields>" :>  [item |-> "<field>", comma |-> FALSE, ends |-> FALSE, empty |-> TRUE] @@
  "<bounds>" :>  [item |-> "<bound>", comma |-> FALSE, ends |-> FALSE, empty |-> TRUE] @@
  "<arguments>" :>  [item |-> "<expression>", comma |-> TRUE, ends |-> FALSE, empty |-> TRUE] @@
  "<initializers>" :>  [item |-> "<initializer>", comma |-> TRUE, ends |-> TRUE, empty |-> TRUE] @@
  "<enumerators>" :>  [item |-> "<enumerator>", comma |-> TRUE, ends |-> TRUE, empty |-> FALSE]

\* The spellings of the integer types, up to the order of their keywords (C17
\* 6.7.2).
Spellings ==
  { <<"char", <<"char">> >>, <<"signed char", <<"signed", "char">> >>,
    <<"unsigned char", <<"unsigned", "char">> >>, <<"_Bool", <<"_Bool">> >> } \cup
  { <<"short", s>> : s \in { <<"short">>, <<"short", "int">>, <<"signed", "short">>,
                            <<"signed", "short", "int">> } } \cup
  { <<"unsigned short", s>> : s \in { <<"unsigned", "short">>,
                                     <<"unsigned", "short", "int">> } } \cup
  { <<"int", s>> : s \in { <<"int">>, <<"signed">>, <<"signed", "int">> } } \cup
  { <<"unsigned int", s>> : s \in { <<"unsigned">>, <<"unsigned", "int">> } } \cup
  { <<"long", s>> : s \in { <<"long">>, <<"long", "int">>, <<"signed", "long">>,
                           <<"signed", "long", "int">> } } \cup
  { <<"unsigned long", s>> : s \in { <<"unsigned", "long">>,
                                    <<"unsigned", "long", "int">> } } \cup
  { <<"long long", s>> : s \in { <<"long", "long">>, <<"long", "long", "int">>,
                                <<"signed", "long", "long">>,
                                <<"signed", "long", "long", "int">> } } \cup
  { <<"unsigned long long", s>> : s \in { <<"unsigned", "long", "long">>,
                                         <<"unsigned", "long", "long", "int">> } }

\* extension: _Bool may be repeated.
LOCAL Counts(words) ==
  [k \in BasicKeywords |->
     Cardinality({IF k = "_Bool" THEN 1 ELSE i : i \in {x \in DOMAIN words : words[x] = k}})]

-----------------------------------------------------------------------------
\* Whether an else behind this statement would belong to an if inside it.
RECURSIVE TakesElse(_)
TakesElse(s) ==
  CASE s.k = "if" -> TRUE
    [] s.k \in {"if else", "while", "for", "switch", "case", "default", "label"} ->
         TakesElse(s.a[Len(s.a)])
    [] OTHER -> FALSE

\* Constraints on a production that its form does not express.
Permitted(c, t) ==
  /\ t.k = "if else" => ~TakesElse(t.a[2])
  /\ t.k = "function" => ~HasBounds(t.a[2])
  \* FCC also refuses a typedef of void here
  /\ c = "<external>" /\ t.k = "declaration" /\ Len(t.a) > 1 => ~IsPlainVoid(t.a[1], t.a[2])

\* The typedef names behind a tree, given those before it.
RECURSIVE TypesAfter(_, _), TypesAfterAll(_, _)
TypesAfter(t, types) ==
  IF t.k = "declaration" /\ Len(t.a) > 1 /\ t.a[1].n = "typedef"
  THEN TypesAfter(t.a[1], types) \cup {Declared(t.a[2]).n}
  ELSE
  CASE t.k \in {"declarator", "function pointer"} ->
         types \ {w.n : w \in {t.a[i] : i \in {n \in DOMAIN t.a : t.a[n].k = "name"}}}
    [] t.k = "enumerator" -> types \ {t.a[1].n}
    [] t.k = "function" -> types \ {Declared(t.a[2]).n}
    [] t.k \in {"declaration", "parameter", "list", "specifiers", "enum", "if", "if else", "while",
                "do", "switch", "case", "default", "label"} -> TypesAfterAll(t.a, types)
    [] OTHER -> types
TypesAfterAll(ts, types) ==
  IF ts = << >> THEN types ELSE TypesAfterAll(Tail(ts), TypesAfter(Head(ts), types))

-----------------------------------------------------------------------------
\* A quick test: a form of fixed tokens at its ends fits the tokens there.
LOCAL Terminals == {"(", ")", "{", "}", "[", "]", ";", ":", ",", "?", "=", "if", "else", "while", "do",
              "for", "switch", "case", "default", "return", "goto", "break", "continue",
              "sizeof", "_Alignof", "_Static_assert", "text", "enum", "struct", "union", "void",
              ".", "->"} \cup AssignmentTokens \cup UnaryTokens \cup UpdateTokens

LOCAL Fits(form, i, j, e) ==
  /\ form[1] \in Terminals => i < j /\ e.text[i] = form[1]
  /\ form[Len(form)] \in Terminals => i < j /\ e.text[j - 1] = form[Len(form)]

RECURSIVE Trees(_, _, _, _), Match(_, _, _, _), ItemTrees(_, _, _, _), ParameterTrees(_, _, _),
          BinaryTrees(_, _, _, _)

\* The sequences of trees that a form derives.
Match(form, i, j, e) ==
  IF form = << >> THEN IF i = j THEN {<< >>} ELSE {}
  ELSE IF Head(form) \in Terminals
       THEN IF i < j /\ e.text[i] = Head(form) THEN Match(Tail(form), i + 1, j, e) ELSE {}
  ELSE LET ends == IF Len(form) = 1 THEN {j}
                   ELSE {m \in i..j : /\ e.nesting[m] = e.nesting[i]
                                      /\ form[2] \in Terminals => m < j /\ e.text[m] = form[2]}
       IN UNION {UNION { {<<t>> \o rest :
                            rest \in Match(Tail(form), m, j,
                                           [e EXCEPT !.types = TypesAfter(t, e.types)])} :
                         t \in Trees(Head(form), i, m, e)} : m \in ends}

LOCAL Derived(productions, i, j, e) ==
  UNION {LET matches == Match(p.form, i, j, e)
         IN IF p.k = "" THEN {a[1] : a \in matches} ELSE {Node(p.k, a) : a \in matches} :
         p \in {q \in productions : Fits(q.form, i, j, e)}}

ItemTrees(list, i, j, e) ==
  UNION {UNION { {<<t>> \o rest :
                    rest \in LET types == [e EXCEPT !.types = TypesAfter(t, e.types)]
                             IN IF m = j THEN {<< >>}
                                ELSE IF ~list.comma THEN ItemTrees(list, m, j, types)
                                ELSE IF e.text[m] # "," THEN {}
                                ELSE IF m + 1 = j THEN IF list.ends THEN {<< >>} ELSE {}
                                ELSE ItemTrees(list, m + 1, j, types)} :
                 t \in Trees(list.item, i, m, e)} :
         m \in {n \in (i + 1)..j : /\ e.nesting[n] = e.nesting[i]
                                  /\ ~list.comma => e.text[n - 1] \in {";", "}", "]"}}}

ParameterTrees(i, j, e) ==
  UNION {UNION { {<<t>> \o rest :
                    rest \in IF m = j THEN {<< >>}
                             ELSE IF e.text[m] # "," THEN {}
                             ELSE ParameterTrees(m + 1, j,
                                             [e EXCEPT !.types = TypesAfter(t, e.types)])} :
                 t \in Trees("<parameter>", i, m, e)} :
         m \in {n \in (i + 1)..j : e.nesting[n] = e.nesting[i]}}
  \cup IF j = i + 1 /\ e.text[i] = "..." THEN {<<Node("...", << >>)>>} ELSE {}

\* Operands of at least the given precedence; operators associate to the left.
BinaryTrees(i, j, e, level) ==
  Trees("<cast>", i, j, e) \cup
  UNION {{Node(e.text[m], <<l, r>>) : l \in BinaryTrees(i, m, e, Precedence[e.text[m]]),
                                     r \in BinaryTrees(m + 1, j, e, Precedence[e.text[m]] + 1)} :
         m \in {n \in (i + 1)..(j - 2) : /\ e.text[n] \in DOMAIN Precedence
                                        /\ Precedence[e.text[n]] >= level
                                        /\ e.nesting[n] = e.nesting[i]}}

SpecifierTrees(i, j, e) ==
  LET prefix(m) == [n \in 1..(m - i) |-> e.text[i + n - 1]]
      storage(m) == SelectSeq(prefix(m), LAMBDA w : w \in StorageKeywords)
      node(m, type) == [Node("specifiers", <<type>>) EXCEPT
                          !.n = IF storage(m) = << >> THEN "" ELSE storage(m)[1],
                          !.p = IF Contains(prefix(m), "const") THEN 1 ELSE 0]
  IN UNION {{node(m, type) : type \in Trees("<type>", m, j, e)} :
            m \in {n \in i..(j - 1) : /\ \A x \in i..(n - 1) :
                                           e.text[x] \in StorageKeywords \cup {"const"}
                                     /\ Len(storage(n)) <= 1}}

BasicTrees(i, j, e) ==
  IF \E n \in i..(j - 1) : e.text[n] \notin BasicKeywords THEN {}
  ELSE LET counts == Counts(SubSeq(e.text, i, j - 1))
       IN {Word("basic", s[1], 0) : s \in {x \in Spellings : Counts(x[2]) = counts}}

StarTrees(i, j, e) ==
  LET stars == SelectSeq(SubSeq(e.text, i, j - 1), LAMBDA w : w = "*")
  IN IF /\ \A n \in i..(j - 1) : e.text[n] \in {"*", "const"}
        /\ i < j => e.text[i] = "*"
     THEN {Node("list", [n \in 1..Len(stars) |-> Node("*", << >>)])} ELSE {}

LeafTrees(i, e) ==
  LET token == e.text[i]
  IN CASE token = "1" -> {Word("number", "1", i)}
       [] token = "text" -> {Word("string", "text", i)}
       [] token \in Names -> IF token \in e.types THEN {} ELSE {Word("id", token, i)}
       [] OTHER -> {}

LOCAL Grammar == ExpressionGrammar @@ StatementGrammar @@ DeclarationGrammar
LOCAL Produced == DOMAIN Grammar
LOCAL Listed == DOMAIN Lists
LOCAL WithoutSemicolon ==
  DOMAIN ExpressionGrammar \cup {"<clause>", "<specifiers>", "<declarator>", "<initializer>"}

Trees(c, i, j, e) ==
  IF /\ c \in WithoutSemicolon
     /\ \E n \in i..(j - 1) : e.text[n] = ";" /\ e.nesting[n] = e.nesting[i]
  THEN {}
  ELSE
  CASE c \in Produced -> {t \in Derived(Grammar[c], i, j, e) : Permitted(c, t)}
    [] c \in Listed ->
         {Node("list", a) : a \in (IF i < j THEN ItemTrees(Lists[c], i, j, e)
                                   ELSE IF Lists[c].empty THEN {<< >>} ELSE {})}
    [] c = "<parameters>" ->
         {Node("list", a) : a \in (IF i = j \/ (j = i + 1 /\ e.text[i] = "void") THEN {<< >>}
                                   ELSE ParameterTrees(i, j, e))}
    [] c = "<binary>" -> BinaryTrees(i, j, e, 1)
    [] c = "<specifiers>" -> SpecifierTrees(i, j, e)
    [] c = "<basic>" -> BasicTrees(i, j, e)
    [] c = "<stars>" -> StarTrees(i, j, e)
    [] c = "<some stars>" -> IF i < j THEN StarTrees(i, j, e) ELSE {}
    [] c = "<clause>" -> IF i = j THEN {Nothing} ELSE Trees("<expression>", i, j, e)
    [] c = "name" -> IF j = i + 1 /\ e.text[i] \in Names THEN {Word("name", e.text[i], i)} ELSE {}
    [] c = "<typedef name>" ->
         IF j = i + 1 /\ e.text[i] \in e.types THEN {Word("typedef name", e.text[i], i)} ELSE {}
    [] c = "<leaf>" -> IF j = i + 1 THEN LeafTrees(i, e) ELSE {}

\* How many brackets are open before each token; a category derives balanced text.
Nesting(text) ==
  FoldLeft(LAMBDA levels, w : Append(levels, levels[Len(levels)] +
                                 (CASE w \in {"(", "[", "{"} -> 1
                                    [] w \in {")", "]", "}"} -> -1
                                    [] OTHER -> 0)), <<0>>, text)

\* The readings of a whole text: sequences of external declarations.
Readings(text) ==
  IF text = << >> THEN {}
  ELSE ItemTrees([item |-> "<external>", comma |-> FALSE], 1, Len(text) + 1,
             [text |-> text, types |-> {}, nesting |-> Nesting(text)])
=============================================================================
