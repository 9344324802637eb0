-------------------------- MODULE ExpressionMeaning --------------------------
(***************************************************************************)
(* What C says an expression does (C17 6.3 and 6.5).  Nothing here is      *)
(* translated from the compiler: it is the promise its output is held to.  *)
(*                                                                         *)
(* Evaluation threads an outcome: the value so far, the memory, the calls  *)
(* made, and whether the behaviour is defined.  Where C leaves the order   *)
(* of operands open it is the one the compiler takes: a call's arguments   *)
(* from the last, the value of an assignment before its target.            *)
(***************************************************************************)
EXTENDS ExpressionTree, FiniteSets, Bitwise

The(S) == CHOOSE x \in S : TRUE
Outcome(memory) == [value |-> 0, memory |-> memory, calls |-> << >>, ok |-> TRUE]
Undefined(o) == [o EXCEPT !.ok = FALSE]
OneOf(o, S) == IF S = {} THEN Undefined(o) ELSE [o EXCEPT !.value = The(S)]

(***************************************************************************)
(* Types (6.3.1.8, 6.5).                                                   *)
(***************************************************************************)
Promoted(t) == IF t.rank < SignedInt.rank THEN SignedInt ELSE t

\* Of two promoted types: the common one.
Common(s, t) ==
  CASE s.signed = t.signed -> IF s.rank >= t.rank THEN s ELSE t
    [] s.signed /\ ~t.signed ->
         CASE t.rank >= s.rank -> t
           [] t.rank < s.rank /\ s.size > t.size -> s
           [] OTHER -> [s EXCEPT !.signed = FALSE]
    [] ~s.signed /\ t.signed ->
         CASE s.rank >= t.rank -> s
           [] s.rank < t.rank /\ t.size > s.size -> t
           [] OTHER -> [t EXCEPT !.signed = FALSE]

ArithmeticType(op, s, t) ==
  IF op \in Shifts THEN Promoted(s) ELSE Common(Promoted(s), Promoted(t))

BinaryType(op, s, t) ==
  IF op \in Relational \cup Equality \cup LogicalOps THEN SignedInt
  ELSE
  CASE IsInteger(s) /\ IsInteger(t) -> ArithmeticType(op, s, t)
    [] IsPointer(s) /\ IsPointer(t) -> LongLong
    [] OTHER -> IF IsPointer(s) THEN s ELSE t

LiteralType(v) ==
  IF 2 * v < Modulus(SignedInt.size) THEN SignedInt ELSE LongLong

RECURSIVE CType(_)
CType(e) ==
  CASE e.op = "literal" -> LiteralType(e.value)
    [] e.op = "object" -> Objects[e.name].type
    [] e.op = "enumerator" -> SignedInt
    [] e.op = "string" -> ArrayOf(Char, Len(Strings[e.name].bytes) + 1)
    [] e.op = "function" -> Functions[e.name].type
    [] e.op = "address" -> PointerTo(CType(e.args[1]))
    [] e.op \in {"dereference", "[]"} -> CType(e.args[1]).to
    [] e.op \in Declarations \cup {"{}"} -> NoType
    [] e.op = "." -> CType(e.args[1]).fields[e.name].type
    [] e.op = "->" -> CType(e.args[1]).to.fields[e.name].type
    [] e.op = "cast" -> e.type
    [] e.op = "sizeof" -> UnsignedLongLong
    [] e.op = "!" -> SignedInt
    [] e.op \in UnaryOps \ {"!"} -> Promoted(CType(e.args[1]))
    [] e.op \in BinaryOps \cup LogicalOps ->
         BinaryType(e.op, Decayed(CType(e.args[1])), Decayed(CType(e.args[2])))
    [] e.op = "?:" ->
         IF IsInteger(CType(e.args[2])) /\ IsInteger(CType(e.args[3]))
         THEN Common(Promoted(CType(e.args[2])), Promoted(CType(e.args[3])))
         ELSE IF IsInteger(CType(e.args[2])) THEN Decayed(CType(e.args[3]))
              ELSE Decayed(CType(e.args[2]))
    [] e.op = "call" ->
         (IF IsPointer(CType(e.args[1])) THEN CType(e.args[1]).to
          ELSE CType(e.args[1])).returns
    [] OTHER -> CType(e.args[1])   \* assignments and updates

(***************************************************************************)
(* Values.                                                                 *)
(***************************************************************************)
Converted(v, t) == IF t = Bool THEN (IF v = 0 THEN 0 ELSE 1) ELSE Value(v, t)
\* A result of type t: unsigned types wrap around, signed ones must hold it.
Fitting(v, t) ==
  IF ~t.signed THEN {Low(v, t.size)}
  ELSE IF AsSigned(v, t.size) = v THEN {v} ELSE {}

\* The product of unsigned values, of which only the low bytes count.
Factor(v, t) == IF t.signed THEN v ELSE AsSigned(v, t.size)

Shifted(op, x, n, t) ==
  CASE n < 0 \/ n >= ByteBits * t.size -> {}
    [] n \in 0 .. ByteBits * t.size - 1 /\ op = ">>" -> {x \div 2 ^ n}
    [] OTHER -> IF x < 0 THEN {} ELSE Fitting(x * 2 ^ n, t)

\* The values of an operation on two values of type t: at most one.
Operation(op, x, y, t) ==
  CASE op = "+" -> Fitting(x + y, t)
    [] op = "-" -> Fitting(x - y, t)
    [] op = "*" -> Fitting(Factor(x, t) * Factor(y, t), t)
    [] op \in {"/", "%"} ->
         IF y = 0 \/ Fitting(Quotient(x, y), t) = {} THEN {}
         ELSE IF op = "/" THEN {Quotient(x, y)} ELSE {x - y * Quotient(x, y)}
    [] op \in Shifts -> Shifted(op, x, y, t)
    [] op = "&" -> {Value(Low(x, t.size) & Low(y, t.size), t)}
    [] op = "^" -> {Value(Low(x, t.size) ^^ Low(y, t.size), t)}
    [] op = "|" -> {Value(Low(x, t.size) | Low(y, t.size), t)}
    [] OTHER -> {Compare(op, x, y)}

(***************************************************************************)
(* Objects: an access stays in one of them, a pointer may be one past it.  *)
(***************************************************************************)
Regions ==
  {[address |-> Objects[n].address, size |-> Size(Objects[n].type)] : n \in DOMAIN Objects}
    \cup {[address |-> Strings[n].address, size |-> Len(Strings[n].bytes) + 1] :
             n \in DOMAIN Strings}
Accessible(address, size) ==
  \E r \in Regions : Bytes(address, size) \subseteq Bytes(r.address, r.size)
SameObject(p, q) ==
  \E r \in Regions : {p, q} \subseteq r.address .. r.address + r.size

\* Memory in which the string literals written in e are the arrays they stand for.
RECURSIVE Texts(_)
Texts(e) == (IF e.op = "string" THEN {e.name} ELSE {})
              \cup UNION {Texts(e.args[i]) : i \in DOMAIN e.args}
WithLiterals(memory, e) ==
  LET at(n, a) == a - Strings[n].address + 1
      texts(a) == {n \in Texts(e) : at(n, a) \in 1 .. Len(Strings[n].bytes) + 1}
      byte(n, i) == IF i > Len(Strings[n].bytes) THEN 0 ELSE Strings[n].bytes[i]
  IN [a \in DOMAIN memory |-> IF texts(a) = {} THEN memory[a]
                              ELSE byte(The(texts(a)), at(The(texts(a)), a))]

\* p moved by n elements of the size.
Moved(p, n, size) == IF SameObject(p, p + n * size) THEN {p + n * size} ELSE {}

PointerOperation(op, s, t, x, y) ==
  CASE op = "+" -> IF IsPointer(s) THEN Moved(x, y, Size(s.to))
                   ELSE Moved(y, x, Size(t.to))
    [] op = "-" /\ IsInteger(t) -> Moved(x, -y, Size(s.to))
    [] op = "-" /\ IsPointer(t) ->
         IF SameObject(x, y) /\ (x - y) % Size(s.to) = 0
         THEN {Quotient(x - y, Size(s.to))} ELSE {}
    [] op \in Relational -> IF SameObject(x, y) THEN {Compare(op, x, y)} ELSE {}
    [] OTHER -> {Compare(op, x, y)}

Binary(op, s, t, x, y) ==
  IF IsInteger(s) /\ IsInteger(t)
  THEN IF op \in Shifts THEN Operation(op, Converted(x, Promoted(s)), y, Promoted(s))
       ELSE Operation(op, Converted(x, Common(Promoted(s), Promoted(t))),
                      Converted(y, Common(Promoted(s), Promoted(t))),
                      Common(Promoted(s), Promoted(t)))
  ELSE PointerOperation(op, s, t, x, y)

\* The object at the address o yields; an array or a record is its address.
Read(t, o) ==
  CASE ~IsScalar(t) -> o
    [] IsScalar(t) /\ Accessible(o.value, Size(t)) ->
         [o EXCEPT !.value = Value(Stored(o.memory, o.value, Size(t)), t)]
    [] OTHER -> Undefined(o)

\* v, converted, is stored where o says and is the value.
Assigned(t, v, o) ==
  IF Accessible(o.value, Size(t))
  THEN [o EXCEPT !.memory = Written(@, o.value, Converted(v, t), Size(t)),
                 !.value = Converted(v, t)]
  ELSE Undefined(o)

AssignedRecord(t, from, o) ==
  IF Accessible(o.value, Size(t)) /\ Accessible(from, Size(t))
  THEN [o EXCEPT !.memory = Copied(@, o.value, from, Size(t))]
  ELSE Undefined(o)

\* The target at an address, whose old value is v, becomes the value of o.
Replaced(t, address, o) ==
  IF o.ok THEN [Assigned(t, o.value, [o EXCEPT !.value = address])
                EXCEPT !.ok = @ /\ o.ok]
  ELSE o

Called(f, values, o) ==
  IF \E n \in DOMAIN Functions : Functions[n].address = f
  THEN LET n == The({m \in DOMAIN Functions : Functions[m].address = f})
           arguments == [i \in DOMAIN values |->
                           Converted(values[i], Functions[n].type.parameters[i])]
       IN [o EXCEPT !.calls = Append(@, [function |-> n, arguments |-> arguments]),
                    !.value = Functions[n].result]
  ELSE Undefined(o)

(***************************************************************************)
(* Evaluation.                                                             *)
(***************************************************************************)
Updated(op) == IF op \in {"++x", "x++"} THEN "+" ELSE "-"

RECURSIVE Evaluated(_, _), Located(_, _), CallWith(_, _, _, _)
OperandTypes(e) == [i \in DOMAIN e.args |-> CType(e.args[i])]

\* The arguments not yet evaluated, the values of those that are.
CallWith(f, arguments, values, o) ==
  IF arguments = << >> THEN Called(f, values, o)
  ELSE LET last == Evaluated(arguments[Len(arguments)], o)
       IN CallWith(f, SubSeq(arguments, 1, Len(arguments) - 1),
                   <<last.value>> \o values, last)

Logical(e, o) ==
  IF (o.value = 0) = (e.op = "&&") THEN [o EXCEPT !.value = Truth(e.op = "||")]
  ELSE LET right == Evaluated(e.args[2], o)
       IN [right EXCEPT !.value = Truth(right.value # 0)]

\* target: where the object of type t is, after v was computed.
Assignment(t, v, target) ==
  IF IsAggregate(t) THEN AssignedRecord(t, v, target) ELSE Assigned(t, v, target)

\* left: where the target is; old: with its value; o: with the operand's.
CompoundAssignment(op, s, t, left, old, o) ==
  Replaced(s, left.value, OneOf(o, Binary(op, s, t, old.value, o.value)))

Update(op, t, left, old) ==
  LET new == CompoundAssignment(Updated(op), t, SignedInt, left, old,
                                [old EXCEPT !.value = 1])
  IN IF op \in {"x++", "x--"} THEN [new EXCEPT !.value = old.value] ELSE new

Unary(op, t, o) ==
  CASE op = "plus" -> o
    [] op = "negate" -> OneOf(o, Operation("-", 0, o.value, t))
    [] op = "~" -> [o EXCEPT !.value = Converted(-o.value - 1, t)]
    [] op = "!" -> [o EXCEPT !.value = Truth(@ = 0)]

\* Where an lvalue of type t is; s are the types of its operands.
LocatedAs(e, t, s, o) ==
  CASE e.op = "object" -> [o EXCEPT !.value = Objects[e.name].address]
    [] e.op = "dereference" -> Evaluated(e.args[1], o)
    [] e.op = "[]" ->
         LET target == Evaluated(e.args[1], o)
             index == Evaluated(e.args[2], target)
         IN OneOf(index, Moved(target.value, index.value, Size(t)))
    [] e.op = "." ->
         LET target == Located(e.args[1], o)
         IN [target EXCEPT !.value = @ + s[1].fields[e.name].offset]
    [] e.op = "->" ->
         LET target == Evaluated(e.args[1], o)
         IN [target EXCEPT !.value = @ + s[1].to.fields[e.name].offset]
Located(e, o) == LocatedAs(e, CType(e), OperandTypes(e), o)

\* Of an expression that may stand on the left of an assignment: at is where the
\* object is.
EvaluatedAt(e, t, s, at) ==
  CASE e.op \in {"object", "dereference", "[]", ".", "->"} -> Read(t, at)
    [] e.op = "address" -> at
    [] e.op \in UpdateOps -> Update(e.op, t, at, Read(t, at))
    [] e.op \in DOMAIN Compound ->
         CompoundAssignment(Compound[e.op], t, s[2], at, Read(t, at),
                            Evaluated(e.args[2], Read(t, at)))

EvaluatedAs(e, t, s, o) ==
  CASE e.op \in {"literal", "enumerator"} -> [o EXCEPT !.value = e.value]
    [] e.op = "string" -> [o EXCEPT !.value = Strings[e.name].address]
    [] e.op = "function" -> [o EXCEPT !.value = Functions[e.name].address]
    [] e.op = "sizeof" -> [o EXCEPT !.value = Size(s[1])]
    [] e.op = "cast" ->
         LET operand == Evaluated(e.args[1], o)
         IN [operand EXCEPT !.value = Converted(@, e.type)]
    [] e.op \in UnaryOps ->
         LET operand == Evaluated(e.args[1], o)
         IN Unary(e.op, t, [operand EXCEPT !.value = Converted(@, s[1])])
    [] e.op \in BinaryOps ->
         LET left == Evaluated(e.args[1], o)
             right == Evaluated(e.args[2], left)
         IN OneOf(right, Binary(e.op, Decayed(s[1]), Decayed(s[2]),
                                left.value, right.value))
    [] e.op \in LogicalOps -> Logical(e, Evaluated(e.args[1], o))
    [] e.op = "?:" ->
         LET condition == Evaluated(e.args[1], o)
             arm == Evaluated(e.args[IF condition.value # 0 THEN 2 ELSE 3], condition)
         IN [arm EXCEPT !.value = Converted(@, t)]
    [] e.op = "=" ->
         LET value == Evaluated(e.args[2], o)
         IN Assignment(t, value.value, Located(e.args[1], value))
    [] e.op = "call" ->
         LET callee == Evaluated(e.args[1], o)
         IN CallWith(callee.value, Tail(e.args), << >>, callee)
    [] e.op = "address" /\ e.args[1].op = "function" -> Evaluated(e.args[1], o)
    [] OTHER ->
         EvaluatedAt(e, t, s,
           Located(IF e.op \in {"address"} \cup UpdateOps \cup DOMAIN Compound
                   THEN e.args[1] ELSE e, o))
Evaluated(e, o) == EvaluatedAs(e, CType(e), OperandTypes(e), o)

(***************************************************************************)
(* Initialization (6.7.9).  Items are evaluated in order; what they leave  *)
(* out is zero, as is all of the padding here.                             *)
(***************************************************************************)
IsText(t, init) == init.op = "string" /\ t.kind = "array" /\ t.to = Char
Zeroed(memory, address, size) ==
  [a \in DOMAIN memory |-> IF a \in Bytes(address, size) THEN 0 ELSE memory[a]]

\* The type of an object declared without its length.
Completed(t, init) ==
  IF t.kind = "array" /\ t.length = Unsized
  THEN ArrayOf(t.to, IF init.op = "string" THEN Len(Strings[init.name].bytes) + 1
                     ELSE Len(init.args))
  ELSE t

RECURSIVE Initialized(_, _, _, _), ItemsInitialized(_, _, _, _, _)
ItemsInitialized(t, address, items, i, o) ==
  IF i > Len(items) THEN o
  ELSE ItemsInitialized(t, address, items, i + 1,
         IF t.kind = "array"
         THEN Initialized(t.to, address + (i - 1) * Size(t.to), items[i], o)
         ELSE Initialized(t.fields[t.order[i]].type,
                          address + t.fields[t.order[i]].offset, items[i], o))

Initialized(t, address, init, o) ==
  CASE init.op = "{}" /\ IsScalar(t) -> Initialized(t, address, init.args[1], o)
    [] init.op = "{}" /\ IsAggregate(t) ->
         ItemsInitialized(t, address, init.args, 1,
                          [o EXCEPT !.memory = Zeroed(@, address, Size(t))])
    [] IsText(t, init) ->
         [o EXCEPT !.memory =
            Copied(Zeroed(@, address, Size(t)), address, Strings[init.name].address,
                   Len(Strings[init.name].bytes))]
    [] OTHER ->
         LET value == Evaluated(init, o)
         IN IF IsAggregate(t)
            THEN AssignedRecord(t, value.value, [value EXCEPT !.value = address])
            ELSE Assigned(t, value.value, [value EXCEPT !.value = address])

Meaning(e, memory) ==
  IF e.op \in Declarations
  THEN Initialized(Completed(e.type, e.args[1]), Objects[e.name].address, e.args[1],
                   Outcome(WithLiterals(memory, e)))
  ELSE Evaluated(e, Outcome(WithLiterals(memory, e)))

\* Of a constant expression, which reads no memory.
ConstantMeaning(e) == Evaluated(e, Outcome(<< >>))
=============================================================================
