---------------------------- MODULE MCExpressions ----------------------------
(***************************************************************************)
(* Expressions of up to three operators over objects of every width and    *)
(* declarations of objects of every shape, with a byte of two bits: char   *)
(* is -2..1, int -128..127, long long 16 bits.                             *)
(***************************************************************************)
EXTENDS FccExpressions

CONSTANT Operands      \* the objects that all the binary operators are tried on

IntFunction == FunctionType(<<SignedInt, SignedInt>>, SignedInt)
LongFunction ==
  FunctionType(<<LongLong, SignedInt, UnsignedInt, LongLong, SignedInt, LongLong>>, LongLong)
Pair == Struct(8, <<"key", "n">>, [key |-> [offset |-> 0, type |-> UnsignedChar],
                                   n |-> [offset |-> 4, type |-> SignedInt]])
Nested == Struct(16, <<"key", "all", "last">>,
                 [key |-> [offset |-> 0, type |-> UnsignedChar],
                  all |-> [offset |-> 4, type |-> ArrayOf(SignedInt, 2)],
                  last |-> [offset |-> 12, type |-> Char]])
Either == UnionOf(8, <<"n", "all">>, [n |-> [offset |-> 0, type |-> SignedInt],
                                      all |-> [offset |-> 0, type |-> LongLong]])
Named == Struct(16, <<"name", "run">>,
                [name |-> [offset |-> 0, type |-> PointerTo(Char)],
                 run |-> [offset |-> 8, type |-> PointerTo(IntFunction)]])

\* The objects, with a byte between each and the next.
MCObjects ==
  [r |-> [address |-> 8, type |-> LongLong],
   l |-> [address |-> 17, type |-> LongLong],
   i |-> [address |-> 26, type |-> SignedInt],
   u |-> [address |-> 31, type |-> UnsignedInt],
   b |-> [address |-> 36, type |-> UnsignedChar],
   c |-> [address |-> 38, type |-> Char],
   p |-> [address |-> 40, type |-> PointerTo(SignedInt)],
   a |-> [address |-> 49, type |-> ArrayOf(SignedInt, 3)],
   s |-> [address |-> 62, type |-> Pair],
   t |-> [address |-> 71, type |-> Pair],
   q |-> [address |-> 80, type |-> PointerTo(Pair)],
   g |-> [address |-> 89, type |-> PointerTo(IntFunction)],
   d |-> [address |-> 98, type |-> PointerTo(Char)],
   k |-> [address |-> 107, type |-> ArrayOf(Char, 3)],
   z |-> [address |-> 111, type |-> Nested],
   m |-> [address |-> 128, type |-> Either],
   y |-> [address |-> 137, type |-> ArrayOf(Pair, 2)],
   v |-> [address |-> 154, type |-> Named]]

MCStrings ==
  [short |-> [address |-> 171, bytes |-> <<1, 3>>], empty |-> [address |-> 175, bytes |-> << >>]]

MCFunctions ==
  [f |-> [address |-> 200, type |-> IntFunction, result |-> -3],
   h |-> [address |-> 204, type |-> LongFunction, result |-> 300]]

\* Memory in which the numbers have the values, a[1] is pointed to by p, s by q
\* and f by g; the rest is not zero.
RECURSIVE Filled(_, _, _)
Filled(bytes, names, values) ==
  IF names = {} THEN bytes
  ELSE LET n == CHOOSE n \in names : TRUE
       IN Filled(Written(bytes, MCObjects[n].address, values[n],
                         Size(MCObjects[n].type)), names \ {n}, values)

Memory(l, i, u, c, b, n) ==
  Written(Written(Filled([x \in 8 .. 176 |-> 1], {"r", "l", "i", "u", "c", "b", "p", "q", "g"},
         [r |-> 0, l |-> l, i |-> i, u |-> u, c |-> c, b |-> b,
          p |-> 53, q |-> 62, g |-> 200]), 53, n, 4), 66, n + 1, 4)

MCMemories ==
  {Memory(300, 5, 200, 1, 3, -7), Memory(-2, -3, 1, -2, 2, 4), Memory(256, 0, 0, 0, 0, 1),
   Memory(-32768, -128, 255, 1, 1, 127)}

V(n) == Variable(n)
Element(k) == Apply("[]", <<V("a"), k>>)
Two == Literal(2)
CallF(x, y) == Call(FunctionName("f"), <<x, y>>)
ToR(e) == Apply("=", <<V("r"), e>>)

Numbers == {V(n) : n \in Operands} \cup {Two}
Lvalues == {V(n) : n \in {"i", "u", "l", "c", "b", "p"}}
             \cup {Element(Literal(1)), Apply("dereference", <<V("p")>>),
                   Member(".", V("s"), "n"), Member("->", V("q"), "n")}
Scalars == Lvalues \cup {Two, Literal(0), CallF(V("i"), Two), Literal(200)}

Binaries ==
  {Apply(op, <<x, y>>) : op \in BinaryOps \cup LogicalOps, x, y \in Numbers}
NestedBinaries ==
  {Apply(op, <<x, y>>) :
     op \in {"-", "<", "&&"}, x \in {V("i"), CallF(V("i"), V("u")), Apply("x++", <<V("i")>>)},
     y \in {Apply("-", <<V("i"), Two>>), CallF(Two, V("i")), Apply("?:", <<V("i"), Two, V("u")>>)}}
Unaries == {Apply(op, <<x>>) : op \in UnaryOps, x \in Scalars}
Conditionals ==
  {Apply("?:", <<x, y, z>>) :
     x \in {V("i"), V("l"), V("p")}, y, z \in {V("i"), V("u"), V("l"), Literal(0), V("p")}}
Pointers ==
  {Apply(op, <<x, y>>) : op \in {"+", "-", "<", "==", "!=", "*"},
                         x \in {V("p"), V("a"), Literal(0), V("l")},
                         y \in {V("p"), V("a"), V("i"), V("l"), Literal(0), Literal(1)}}
Casts == {Cast(t, x) : t \in {Bool, Char, UnsignedShort, SignedInt, UnsignedInt, LongLong,
                              PointerTo(SignedInt)},
                       x \in {V("l"), V("i"), V("c"), V("p")}}
Calls ==
  {CallF(x, y) : x, y \in Scalars}
    \cup {Call(callee, <<x, CallF(V("i"), Two)>>) :
            callee \in {V("g"), FunctionName("f")}, x \in {V("i"), CallF(Two, Two)}}
    \cup {Call(V("g"), <<V("i"), V("u")>>)}
    \cup {Call(FunctionName("h"), <<V("l"), V("i"), V("u"), x, V("i"), y>>) :
            x, y \in {V("l"), V("i"), Two}}

Assignments ==
  {Apply("=", <<x, y>>) : x \in Lvalues, y \in Scalars}
    \cup {Apply(op, <<x, y>>) : op \in DOMAIN Compound, x \in Lvalues,
                               y \in Numbers \cup {CallF(Two, Two)}}
    \cup {Apply(op, <<x>>) : op \in UpdateOps, x \in Lvalues}
    \cup {ToR(Apply(op, <<x>>)) : op \in UpdateOps, x \in Lvalues}
    \cup {Apply("=", <<Element(x), V("i")>>) : x \in Numbers}
    \cup {Apply("=", <<V("s"), x>>) : x \in {V("t"), Apply("dereference", <<V("q")>>)}}
    \cup {Apply("=", <<V("t"), Apply("=", <<x, V("s")>>)>>) :
            x \in {Apply("dereference", <<V("q")>>), V("t")}}
    \cup {Apply("=", <<V("g"), x>>) :
            x \in {FunctionName("f"), Apply("address", <<FunctionName("f")>>)}}
    \cup {Apply("=", <<V("p"), Apply("address", <<x>>)>>) : x \in Lvalues}

\* A function has no size a pointer to it could move by.
FunctionPointers ==
  {Apply(op, <<V("g"), V("i")>>) : op \in {"+", "-", "+=", "-="}}
    \cup {Apply(op, <<V("g")>>) : op \in UpdateOps}

(***************************************************************************)
(* Constants, near both ends of the types they are calculated in.          *)
(***************************************************************************)
Negative(e) == Apply("negate", <<e>>)
Wide(v) == Cast(LongLong, Literal(v))
Largest == Literal(32767)
Smallest == Apply("-", <<Negative(Largest), Literal(1)>>)
Limits ==
  {Largest, Negative(Largest), Smallest, Wide(0), Wide(1), Negative(Wide(1)), Wide(2),
   Negative(Wide(2)), Literal(181), Negative(Literal(182)), Literal(16384), Wide(14)}
Small == {Literal(0), Literal(1), Literal(127), Negative(Literal(3)), Enumerator(-2), Enumerator(5)}

BinaryConstants(operands) ==
  {Apply(op, <<x, y>>) : op \in BinaryOps \cup LogicalOps, x, y \in operands}
Constants ==
  BinaryConstants(Limits) \cup BinaryConstants(Small)
    \cup {Apply(op, <<x>>) : op \in UnaryOps, x \in Limits \cup Small}
    \cup {Apply("?:", <<x, y, z>>) : x, y, z \in Small}
    \cup {Cast(t, x) : t \in {Bool, Char, UnsignedChar, Short, UnsignedInt, LongLong},
                       x \in Limits \cup Small}
    \cup {Apply("sizeof", <<V("a")>>)}

(***************************************************************************)
(* Declarations.                                                           *)
(***************************************************************************)
Text == StringLiteral("short")
NoText == StringLiteral("empty")
Lists(items) == {InitializerList(l) : l \in UNION {[1..n -> items] : n \in 0..2}}
DeclaredAs(declare(_, _, _), names, initializers) ==
  {declare(MCObjects[n].type, n, e) : n \in names, e \in initializers}

\* Of a, y, s, z and m, with items left out and with too many of them.
ListsOf(x) ==
  [a |-> Lists({x, Literal(1)}) \cup {InitializerList(<<x, Two, x>>),
                                      InitializerList(<<x, x, x, x>>)},
   y |-> Lists(Lists({x})),
   s |-> Lists({x, Literal(1)}),
   z |-> {InitializerList(<<Literal(1), l>>) : l \in Lists({x, Literal(1)})}
           \cup {InitializerList(<<x, InitializerList(<<x>>), Negative(Two)>>)},
   m |-> Lists({x})]
ListDeclarations(declare(_, _, _), x) ==
  UNION {DeclaredAs(declare, {n}, ListsOf(x)[n]) : n \in DOMAIN ListsOf(x)}

StringUses ==
  {Apply("=", <<V("d"), e>>) : e \in {Text, NoText, Literal(0)}}
    \cup {Apply("=", <<V("c"), Apply("[]", <<Text, x>>)>>) : x \in {Literal(1), Two, Wide(0)}}

Initializations(declare(_, _, _)) ==
  DeclaredAs(declare, {"i", "u", "l", "b", "c"},
             {Two, Largest, Negative(Two), Enumerator(-2), Cast(Char, Literal(1)), V("i"), V("l")})
    \cup DeclaredAs(declare, {"p", "d", "g"},
             {Text, Literal(0), FunctionName("f"), Apply("address", <<FunctionName("f")>>), V("p")})
    \cup DeclaredAs(declare, {"k"}, {Text, NoText} \cup Lists({Literal(1), V("c")}))
    \cup {declare(ArrayOf(Char, Unsized), "k", Text),
          declare(ArrayOf(SignedInt, Unsized), "a", InitializerList(<<Two, Two, Literal(1)>>))}
    \cup DeclaredAs(declare, {"v"},
             Lists({Text, FunctionName("f"), Literal(0)}))
    \cup ListDeclarations(declare, Two) \cup ListDeclarations(declare, V("i"))

MCDeclarations ==
  Initializations(Local) \cup Initializations(Global)
    \cup DeclaredAs(Local, {"i", "l", "u"}, Scalars)
    \cup ListDeclarations(Local, CallF(V("i"), Two))
    \cup DeclaredAs(Local, {"s"}, {V("t"), Apply("dereference", <<V("q")>>)})
    \cup DeclaredAs(Global, {"i", "u", "b", "p"}, {InitializerList(<<x>>) : x \in Small})
    \cup DeclaredAs(Global, {"l"}, Constants)
    \cup DeclaredAs(Global, {"i", "b", "c"}, BinaryConstants({Literal(127), Enumerator(-2)}))

MCPrograms ==
  MCDeclarations \cup StringUses \cup {ToR(e) : e \in BinaryConstants({Smallest, Wide(14), Enumerator(-2)})}
    \cup Assignments \cup Calls \cup Conditionals \cup FunctionPointers
    \cup {ToR(e) : e \in Binaries \cup NestedBinaries \cup Unaries \cup Conditionals
                         \cup Pointers \cup Casts \cup Calls}
    \cup {ToR(Apply("sizeof", <<x>>)) : x \in {V("a"), V("s"), V("p")}}
    \cup {Apply("=", <<V("p"), e>>) : e \in Pointers}
=============================================================================
