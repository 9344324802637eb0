----------------------------- MODULE FccParser -----------------------------
(***************************************************************************)
(* The recursive descent of fcc_parser.c.  The parser p is a record of     *)
(* the tokens, the index of the current one, the stack of typedef names    *)
(* with the offsets at which scopes begin, and the recursion depth.        *)
(* Parse(p, s) is the function that parses the syntactic category s; its   *)
(* result says whether it succeeded, and gives the parser behind the text  *)
(* and the tree built.  A fixed sequence of expected tokens and calls is   *)
(* written as a form, a sequence of tokens and categories.                 *)
(***************************************************************************)
EXTENDS SyntaxTree, TLC

CONSTANT MaxParseDepth

LOCAL Last(s) == s[Len(s)]

Parser(tokens) ==
  [tokens |-> tokens, at |-> 1, typedefs |-> << >>, scopes |-> <<0>>, depth |-> 0]

Peek(p, ahead) ==
  LET i == p.at + ahead IN p.tokens[IF i > Len(p.tokens) THEN Len(p.tokens) ELSE i]
Current(p) == Peek(p, 0)
Consume(p) == [p EXCEPT !.at = IF p.at < Len(p.tokens) THEN p.at + 1 ELSE p.at]

Ok(p, t) == [ok |-> TRUE, p |-> p, t |-> t]
Fail(p) == [ok |-> FALSE, p |-> p, t |-> Nothing]
Built(r, k) == IF r.ok THEN [r EXCEPT !.t = [r.t EXCEPT !.k = k]] ELSE r

PushTypedefScope(p) == [p EXCEPT !.scopes = Append(p.scopes, Len(p.typedefs))]
PopTypedefScope(p) ==
  [p EXCEPT !.typedefs = SubSeq(p.typedefs, 1, Last(p.scopes)),
            !.scopes = SubSeq(p.scopes, 1, Len(p.scopes) - 1)]
AddTypedefName(p, n) == [p EXCEPT !.typedefs = Append(p.typedefs, n)]
IsTypedefName(p, n) == \E i \in DOMAIN p.typedefs : p.typedefs[i] = n

StartsTypeName(p, token) ==
  \/ token \in StorageKeywords \cup BasicKeywords
  \/ token \in {"const", "void", "struct", "union", "enum"}
  \/ token \in Names /\ IsTypedefName(p, token)
IsDeclarationStart(p) ==
  StartsTypeName(p, Current(p)) \/ Current(p) = "_Static_assert"

\* The binary operators, from the ones that bind most tightly.
Operators == << {"*", "/", "%"}, {"+", "-"}, {"<<", ">>"}, {"<", "<=", ">", ">="},
                {"==", "!="}, {"&"}, {"^"}, {"|"}, {"&&"}, {"||"} >>

\* What a basic type keyword may not follow.
Conflicts ==
  [keyword \in BasicKeywords |->
     CASE keyword \in {"signed", "unsigned"} -> {"signed", "unsigned", "_Bool"}
       [] keyword = "char"  -> {"char", "short", "int", "_Bool", "long"}
       [] keyword = "short" -> {"char", "short", "_Bool", "long"}
       [] keyword = "long"  -> {"char", "short", "_Bool", "long long"}
       [] keyword = "int"   -> {"char", "int", "_Bool"}
       [] OTHER -> {"signed", "unsigned", "char", "short", "int", "long"}]

BasicType(seen) ==
  LET or(unsigned, plain) == IF "unsigned" \in seen THEN unsigned ELSE plain
  IN CASE "_Bool" \in seen -> "_Bool"
       [] "char" \in seen ->
            or("unsigned char", IF "signed" \in seen THEN "signed char" ELSE "char")
       [] "short" \in seen -> or("unsigned short", "short")
       [] "long long" \in seen -> or("unsigned long long", "long long")
       [] "long" \in seen /\ "long long" \notin seen -> or("unsigned long", "long")
       [] OTHER -> or("unsigned int", "int")

RECURSIVE BasicSpecifier(_, _)
BasicSpecifier(p, seen) ==
  IF Current(p) \notin BasicKeywords THEN Ok(p, Word("basic", BasicType(seen), 0))
  ELSE IF seen \cap Conflicts[Current(p)] # {} THEN Fail(p)
  ELSE BasicSpecifier(Consume(p),
                      seen \cup {IF Current(p) \in seen \cap {"long"} THEN "long long"
                                 ELSE Current(p)})

RECURSIVE DeclarationPrefixes(_, _)
DeclarationPrefixes(p, specifiers) ==
  IF Current(p) = "const"
  THEN DeclarationPrefixes(Consume(p), [specifiers EXCEPT !.p = 1])
  ELSE IF Current(p) \notin StorageKeywords THEN Ok(p, specifiers)
  ELSE IF specifiers.n # "" THEN Fail(p)
  ELSE DeclarationPrefixes(Consume(p), [specifiers EXCEPT !.n = Current(p)])

RECURSIVE Pointers(_, _), SkipConst(_)
SkipConst(p) == IF Current(p) = "const" THEN SkipConst(Consume(p)) ELSE p
Pointers(p, stars) ==
  IF Current(p) = "*" THEN Pointers(SkipConst(Consume(p)), Append(stars, Node("*", << >>)))
  ELSE Ok(p, Node("list", stars))

RECURSIVE PointerPrefix(_, _), ConstPrefix(_, _)
ConstPrefix(p, ahead) ==
  IF Peek(p, ahead) = "const" THEN ConstPrefix(p, ahead + 1) ELSE ahead
PointerPrefix(p, ahead) ==
  IF Peek(p, ahead) = "*" THEN PointerPrefix(p, ConstPrefix(p, ahead + 1)) ELSE ahead

\* current_named_declarator_has_identifier
DeclaratorHasName(p) ==
  LET first == PointerPrefix(p, 0)
  IN \/ Peek(p, first) \in Names
     \/ Peek(p, first) = "(" /\ Peek(p, PointerPrefix(p, first + 1)) \in Names

-----------------------------------------------------------------------------
Categories ==
  {"<external>", "<specifiers>", "<type specifier>", "<fields>", "<field>",
   "<enumerators>", "<enumerator>", "<declarator>", "<abstract>", "<bounds>",
   "<bound>", "<parameters>", "<parameter>", "<type name>", "<initializer>",
   "<compound>", "<statements>", "<statement>", "<simple>", "<declaration>", "<for init>",
   "<clause>", "<expression>", "<conditional>", "<unary>", "<primary>", "<arguments>",
   "<initializers>"}

RECURSIVE Parse(_, _), ParseForm(_, _, _), Many(_, _, _), Separated(_, _, _),
          Binary(_, _), BinaryRest(_, _, _), Postfix(_, _)

\* The trees of the categories and names of a form, which must match the text.
ParseForm(p, form, done) ==
  IF form = << >> THEN Ok(p, Node("list", done))
  ELSE IF Head(form) \in Categories
       THEN LET r == Parse(p, Head(form))
            IN IF r.ok THEN ParseForm(r.p, Tail(form), Append(done, r.t)) ELSE r
  ELSE IF Head(form) = "name"
       THEN IF Current(p) \in Names
            THEN ParseForm(Consume(p), Tail(form), Append(done, Word("name", Current(p), p.at)))
            ELSE Fail(p)
  ELSE IF Current(p) = Head(form) THEN ParseForm(Consume(p), Tail(form), done)
  ELSE Fail(p)

Form(p, k, form) == Built(ParseForm(p, form, << >>), k)

\* What may follow in a list of items without separators.
GoesOn(p, item) ==
  CASE item = "<statement>" -> Current(p) \notin {"}", "EOF"}
    [] item = "<field>" -> Current(p) # "}"
    [] item = "<bound>" -> Current(p) = "["
    [] item = "<external>" -> Current(p) # "EOF"

Many(p, item, done) ==
  IF ~GoesOn(p, item) THEN Ok(p, Node("list", done))
  ELSE LET r == Parse(p, item)
       IN IF r.ok THEN Many(r.p, item, Append(done, r.t)) ELSE r

\* Items with commas between them; some lists may end in a comma.
Separated(p, item, done) ==
  LET r == Parse(p, item)
      end(q) == Ok(q, Node("list", Append(done, r.t)))
      q == Consume(r.p)
  IN IF ~r.ok THEN r
     ELSE IF Current(r.p) # "," THEN end(r.p)
     ELSE IF \/ item = "<enumerator>" /\ Current(q) = "}"
             \/ item = "<initializer>" /\ Current(q) \in {"}", "EOF"}
          THEN end(q)
     ELSE IF item = "<parameter>" /\ Current(q) = "..."
          THEN Ok(Consume(q), Node("list", Append(Append(done, r.t), Node("...", << >>))))
     ELSE Separated(q, item, Append(done, r.t))

\* The operators of one level, from the left; level 0 is unary_expression.
Binary(p, level) ==
  IF level = 0 THEN Parse(p, "<unary>")
  ELSE LET left == Binary(p, level - 1)
       IN IF left.ok THEN BinaryRest(left.p, level, left.t) ELSE left

\* Mistaken form: the right operand is read at its operator's own level.
RightToLeftRest(p, level, left) ==
  LET right == Binary(Consume(p), level)
  IN IF Current(p) \notin Operators[level] THEN Ok(p, left)
     ELSE IF right.ok THEN Ok(right.p, Node(Current(p), <<left, right.t>>)) ELSE right

BinaryRest(p, level, left) ==
  IF Current(p) \notin Operators[level] THEN Ok(p, left)
  ELSE LET right == Binary(Consume(p), level - 1)
       IN IF right.ok THEN BinaryRest(right.p, level, Node(Current(p), <<left, right.t>>))
          ELSE right

Postfix(p, left) ==
  LET token == Current(p)
      form == CASE token = "(" -> <<"(", "<arguments>", ")">>
                [] token = "[" -> <<"[", "<expression>", "]">>
                [] token \in {".", "->"} -> <<token, "name">>
                [] OTHER -> <<token>>
      kind == CASE token = "(" -> "call"
                [] token = "[" -> "subscript"
                [] token \in {".", "->"} -> token
                [] OTHER -> "post " \o token
      r == ParseForm(p, form, <<left>>)
  IN IF token \notin {"(", "[", ".", "->"} \cup UpdateTokens THEN Ok(p, left)
     ELSE IF r.ok THEN Postfix(r.p, Node(kind, r.t.a)) ELSE r

\* The rest of a declaration behind its declarator, and the typedef name
\* it adds; specifiers and declarator are those already parsed.
DeclarationRest(p, specifiers, declarator) ==
  LET value == IF Current(p) = "=" THEN <<"=", "<initializer>", ";">> ELSE <<";">>
      r == ParseForm(p, value, <<specifiers, declarator>>)
  IN IF ~r.ok THEN r
     ELSE Ok(IF specifiers.n = "typedef" THEN AddTypedefName(r.p, Declared(declarator).n)
             ELSE r.p, Node("declaration", r.t.a))

StaticAssert(p) ==
  Form(p, "static assert", <<"_Static_assert", "(", "<expression>", ",", "text", ")", ";">>)

Declaration(p) ==
  LET s == Parse(p, "<specifiers>")
      d == Parse(s.p, "<declarator>")
  IN IF Current(p) = "_Static_assert" THEN StaticAssert(p)
     ELSE IF ~s.ok THEN s
     ELSE IF Current(s.p) = ";" THEN Ok(Consume(s.p), Node("declaration", <<s.t>>))
     ELSE IF d.ok THEN DeclarationRest(d.p, s.t, d.t) ELSE d

\* The parameters of a function, and its body or a semicolon.
FunctionAfterName(p, specifiers, declarator) ==
  LET f == ParseForm(p, <<"(", "<parameters>", ")">>, <<specifiers, declarator>>)
      body == Parse(f.p, "<compound>")
  IN IF ~f.ok \/ HasBounds(declarator) THEN Fail(p)
     ELSE IF Current(f.p) = ";" THEN Ok(Consume(f.p), Node("function", f.t.a))
     ELSE IF body.ok THEN Ok(body.p, Node("function", Append(f.t.a, body.t)))
     ELSE body

\* One round of the loop of parse_translation_unit.
External(p) ==
  LET s == Parse(p, "<specifiers>")
      d == Parse(s.p, "<declarator>")
  IN IF Current(p) = "_Static_assert" THEN StaticAssert(p)
     ELSE IF ~s.ok THEN s
     ELSE IF Current(s.p) = ";" THEN Ok(Consume(s.p), Node("declaration", <<s.t>>))
     ELSE IF ~d.ok THEN d
     ELSE IF Current(d.p) = "(" THEN FunctionAfterName(d.p, s.t, d.t)
     ELSE IF IsPlainVoid(s.t, d.t) THEN Fail(d.p)
     ELSE DeclarationRest(d.p, s.t, d.t)

\* named_declarator and abstract_declarator: pointers, then a name or not, and
\* bounds or, in the form (*name)(parameters), the parameters of a function.
ParseDeclarator(p, name) ==
  LET stars == Pointers(p, << >>)
      inner == Pointers(Consume(stars.p), << >>)
      indirect == Current(stars.p) = "(" /\ Peek(stars.p, 1) = "*"
      r == IF indirect
           THEN ParseForm(inner.p, name \o <<")", "(", "<parameters>", ")">>,
                          <<stars.t, inner.t>>)
           ELSE ParseForm(stars.p, name \o <<"<bounds>">>, <<stars.t>>)
  IN IF indirect /\ Current(r.p) = "[" THEN Fail(r.p)
     ELSE Built(r, IF indirect THEN "function pointer" ELSE "declarator")

NamedDeclarator(p) == ParseDeclarator(p, <<"name">>)
AbstractDeclarator(p) == ParseDeclarator(p, << >>)

\* struct, union and enum: a tag, a list in braces, or both.
TagSpecifier(p, list) ==
  LET keyword == Current(p)
      q == Consume(p)
      tagged == Current(q) \in Names
      tag == IF tagged THEN <<Word("name", Current(q), q.at)>> ELSE << >>
      r == IF tagged THEN Consume(q) ELSE q
  IN CASE Current(r) = "{" -> Built(ParseForm(r, <<"{", list, "}">>, tag), keyword)
       [] OTHER -> IF tagged THEN Ok(r, Node(keyword, tag)) ELSE Fail(r)

\* A member of a record, or a static assertion among them.
Field(p) ==
  IF Current(p) = "_Static_assert" THEN StaticAssert(p)
  ELSE Form(p, "field", <<"<specifiers>", "<declarator>", ";">>)

TypeSpecifier(p) ==
  LET token == Current(p)
  IN CASE token = "void" -> Ok(Consume(p), Node("void", << >>))
       [] token \in BasicKeywords -> BasicSpecifier(p, {})
       [] token \in {"struct", "union"} -> TagSpecifier(p, "<fields>")
       [] token = "enum" -> TagSpecifier(p, "<enumerators>")
       [] token \in Names /\ IsTypedefName(p, token) ->
            Ok(Consume(p), Word("typedef name", token, p.at))
       [] OTHER -> Fail(p)

Specifiers(p) ==
  LET prefix == DeclarationPrefixes(p, Node("specifiers", << >>))
      type == Parse(prefix.p, "<type specifier>")
  IN IF ~prefix.ok THEN prefix
     ELSE IF type.ok THEN Ok(type.p, [prefix.t EXCEPT !.a = <<type.t>>]) ELSE type

Parameters(p) ==
  CASE Current(p) = ")" -> Ok(p, Node("list", << >>))
    [] Current(p) = "void" /\ Peek(p, 1) = ")" -> Ok(Consume(p), Node("list", << >>))
    [] Current(p) = "..." -> Ok(Consume(p), Node("list", <<Node("...", << >>)>>))
    [] OTHER -> Separated(p, "<parameter>", << >>)

Parameter(p) ==
  LET s == Parse(p, "<specifiers>")
      d == IF DeclaratorHasName(s.p) THEN "<declarator>" ELSE "<abstract>"
      r == ParseForm(s.p, <<d>>, <<s.t>>)
  IN IF s.ok THEN Built(r, "parameter") ELSE s

Enumerator(p) ==
  Form(p, "enumerator", IF Peek(p, 1) = "=" THEN <<"name", "=", "<expression>">> ELSE <<"name">>)

\* assignment_expression: its left side is any conditional expression.
Assignment(p) ==
  LET left == Parse(p, "<conditional>")
      right == Parse(Consume(left.p), "<expression>")
  IN IF ~left.ok \/ Current(left.p) \notin AssignmentTokens THEN left
     ELSE IF right.ok THEN Ok(right.p, Node(Current(left.p), <<left.t, right.t>>))
     ELSE right

Conditional(p) ==
  LET test == Binary(p, Len(Operators))
  IN IF test.ok /\ Current(test.p) = "?"
     THEN Built(ParseForm(test.p, <<"?", "<expression>", ":", "<conditional>">>, <<test.t>>),
                "?:")
     ELSE test

Primary(p) ==
  LET token == Current(p)
      inner == ParseForm(p, <<"(", "<expression>", ")">>, << >>)
      leaf == IF token \in Names THEN "id" ELSE IF token = "1" THEN "number" ELSE "string"
  IN IF token \in Names \cup {"1", "text"} THEN Ok(Consume(p), Word(leaf, token, p.at))
     ELSE IF inner.ok THEN Ok(inner.p, inner.t.a[1]) ELSE inner

Sizeof(p) ==
  Form(Consume(p), "sizeof",
       IF Peek(p, 1) = "(" /\ StartsTypeName(p, Peek(p, 2)) THEN <<"(", "<type name>", ")">>
       ELSE <<"<unary>">>)
Alignof(p) == Form(Consume(p), "_Alignof", <<"(", "<type name>", ")">>)
Cast(p) == Form(p, "cast", <<"(", "<type name>", ")", "<unary>">>)

Unary(p) ==
  LET token == Current(p)
      r == Parse(p, "<primary>")
  IN CASE token \in UpdateTokens \cup UnaryTokens -> Form(Consume(p), token, <<"<unary>">>)
       [] token = "sizeof" -> Sizeof(p)
       [] token = "_Alignof" -> Alignof(p)
       [] token = "(" /\ StartsTypeName(p, Peek(p, 1)) -> Cast(p)
       [] OTHER -> IF r.ok THEN Postfix(r.p, r.t) ELSE r

Initializer(p) ==
  IF Current(p) = "{" THEN Form(p, "initializers", <<"{", "<initializers>", "}">>)
  ELSE Parse(p, "<expression>")

-----------------------------------------------------------------------------
\* The stack of typedef names follows compound statements and nothing else.
Compound(p) ==
  LET r == ParseForm(PushTypedefScope(p), <<"{", "<statements>", "}">>, << >>)
  IN IF r.ok THEN Ok(PopTypedefScope(r.p), Node("compound", r.t.a)) ELSE r

If(p) ==
  LET r == ParseForm(p, <<"if", "(", "<expression>", ")", "<statement>">>, << >>)
  IN IF r.ok /\ Current(r.p) = "else"
     THEN Built(ParseForm(Consume(r.p), <<"<statement>">>, r.t.a), "if else")
     ELSE Built(r, "if")

LoopForms ==
  [while |-> <<"while", "(", "<expression>", ")", "<statement>">>,
   do    |-> <<"do", "<statement>", "while", "(", "<expression>", ")", ";">>,
   for   |-> <<"for", "(", "<for init>", "<clause>", ";", "<clause>", ")", "<statement>">>]
SwitchForms ==
  [switch  |-> <<"switch", "(", "<expression>", ")", "<statement>">>,
   case    |-> <<"case", "<expression>", ":", "<statement>">>,
   default |-> <<"default", ":", "<statement>">>]
JumpForms ==
  [return   |-> <<"return", "<clause>", ";">>,
   break    |-> <<"break", ";">>,
   continue |-> <<"continue", ";">>,
   goto     |-> <<"goto", "name", ";">>]
StatementForms == LoopForms @@ SwitchForms @@ JumpForms

Statement(p) ==
  LET token == Current(p)
  IN CASE token = "{" -> Parse(p, "<compound>")
       [] token = "if" -> If(p)
       [] token \in DOMAIN StatementForms -> Form(p, token, StatementForms[token])
       [] token \in Names /\ Peek(p, 1) = ":" ->
            Form(p, "label", <<"name", ":", "<statement>">>)
       [] OTHER -> Parse(p, "<simple>")

\* A declaration or an expression statement.
Simple(p) ==
  IF IsDeclarationStart(p) THEN Parse(p, "<declaration>")
  ELSE Form(p, "expression", <<"<clause>", ";">>)

ForInit(p) == IF Current(p) = ";" THEN Ok(Consume(p), Nothing) ELSE Parse(p, "<simple>")

Unfold(p, category) ==
  CASE category = "<external>"    -> External(p)
    [] category = "<specifiers>"  -> Specifiers(p)
    [] category = "<fields>"      -> Many(p, "<field>", << >>)
    [] category = "<type specifier>" -> TypeSpecifier(p)
    [] category = "<field>"       -> Field(p)
    [] category = "<enumerators>" -> Separated(p, "<enumerator>", << >>)
    [] category = "<enumerator>"  -> Enumerator(p)
    [] category = "<declarator>"  -> NamedDeclarator(p)
    [] category = "<abstract>"    -> AbstractDeclarator(p)
    [] category = "<bounds>"      -> Many(p, "<bound>", << >>)
    [] category = "<bound>"       -> IF Peek(p, 1) = "]" THEN Form(p, "[]", <<"[", "]">>)
                                     ELSE Form(p, "[n]", <<"[", "<expression>", "]">>)
    [] category = "<parameters>"  -> Parameters(p)
    [] category = "<parameter>"   -> Parameter(p)
    [] category = "<type name>"   -> Form(p, "type name", <<"<specifiers>", "<abstract>">>)
    [] category = "<initializer>" -> Initializer(p)
    [] category = "<compound>"    -> Compound(p)
    [] category = "<statements>"  -> Many(p, "<statement>", << >>)
    [] category = "<statement>"   -> Statement(p)
    [] category = "<simple>"      -> Simple(p)
    [] category = "<declaration>" -> Declaration(p)
    [] category = "<for init>"    -> ForInit(p)
    [] category = "<clause>"      -> IF Current(p) \in {";", ")"} THEN Ok(p, Nothing)
                                     ELSE Parse(p, "<expression>")
    [] category = "<expression>"  -> Assignment(p)
    [] category = "<conditional>" -> Conditional(p)
    [] category = "<unary>"       -> Unary(p)
    [] category = "<primary>"     -> Primary(p)
    [] category = "<arguments>"   -> IF Current(p) = ")" THEN Ok(p, Node("list", << >>))
                                     ELSE Separated(p, "<expression>", << >>)
    [] category = "<initializers>" -> IF Current(p) = "}" THEN Ok(p, Node("list", << >>))
                                      ELSE Separated(p, "<initializer>", << >>)

\* Statements and assignment expressions are the levels of the recursion that
\* FCC_MAX_PARSE_DEPTH bounds.
Parse(p, category) ==
  LET level == IF category \in {"<statement>", "<expression>"} THEN 1 ELSE 0
      deeper == [p EXCEPT !.depth = p.depth + level]
  IN IF deeper.depth > MaxParseDepth THEN Fail(p)
     ELSE [Unfold(deeper, category) EXCEPT !.p.depth = p.depth]
=============================================================================
