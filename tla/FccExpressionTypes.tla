-------------------------- MODULE FccExpressionTypes --------------------------
(***************************************************************************)
(* The semantic analysis of expressions (fcc_sema_check_expression and the *)
(* functions it calls): the type of every node, whether it is an lvalue,   *)
(* the integer or the address it is a constant of, and what is rejected.   *)
(* Behind them initializers, as analysis and code generator read them.     *)
(***************************************************************************)
EXTENDS ExpressionTree, FccConstants, Bitwise, SequencesExt

ASSUME WordIsRegister == WordBits = ByteBits * RegisterSize

Invalid == [kind |-> "invalid"]

\* What the analysis records of an expression; of an integer constant the set of
\* its value, of an address the set of the function's name.
Result(type, lvalue) ==
  [type |-> type, lvalue |-> lvalue, constants |-> {}, addresses |-> {}]
Rejected == Result(Invalid, FALSE)
Rvalue(t) == Result(t, FALSE)
Constant(t, values) == [Rvalue(t) EXCEPT !.constants = values]
Address(t, names) == [Rvalue(t) EXCEPT !.addresses = names]

IsNull(value) == 0 \in value.constants /\ IsInteger(value.type)

MaxInt == Modulus(4) \div 2 - 1
MaxLongLong == Modulus(8) \div 2 - 1

CheckLiteral(v) ==
  Constant(CASE v <= MaxInt -> SignedInt
             [] v > MaxInt /\ v <= MaxLongLong -> LongLong
             [] v > MaxLongLong -> UnsignedLongLong,
           LiteralConstant(v))

\* Every unary operator of integers yields an int, whatever its operand.
CheckUnary(op, operand) ==
  IF IsInteger(operand.type)
  THEN Constant(SignedInt, UNION {UnaryConstant(op, v) : v \in operand.constants})
  ELSE Rejected

CheckAddress(operand) ==
  IF operand.lvalue \/ operand.type.kind = "function"
  THEN Address(PointerTo(operand.type), operand.addresses) ELSE Rejected

\* Arrays do not decay here: *a is rejected for an array a.
CheckDereference(operand) ==
  IF IsPointer(operand.type)
  THEN Result(operand.type.to, IsObject(operand.type.to)) ELSE Rejected

IntegerPromotion(t) == IF t.rank < 3 THEN SignedInt ELSE t

SignedOfRank(rank) ==
  CASE rank = 4 -> Long [] rank = 5 -> LongLong [] OTHER -> SignedInt
UnsignedOfRank(rank) ==
  CASE rank = 4 -> UnsignedLong [] rank = 5 -> UnsignedLongLong [] OTHER -> UnsignedInt

\* The common type of a signed and an unsigned type.
MixedConversion(s, u) ==
  IF u.rank >= s.rank THEN u
  ELSE IF SignedOfRank(s.rank).size > UnsignedOfRank(u.rank).size
       THEN SignedOfRank(s.rank) ELSE UnsignedOfRank(s.rank)

\* The two types have been promoted.
UsualConversion(l, r) ==
  CASE IsUnsigned(l) = IsUnsigned(r) -> IF l.rank >= r.rank THEN l ELSE r
    [] ~IsUnsigned(l) /\ IsUnsigned(r) -> MixedConversion(l, r)
    [] IsUnsigned(l) /\ ~IsUnsigned(r) -> MixedConversion(r, l)

BinaryIntegerResult(op, l, r) ==
  CASE op \in Equality \cup Relational \cup LogicalOps -> SignedInt
    [] op \in Shifts -> IntegerPromotion(l)
    [] OTHER -> UsualConversion(IntegerPromotion(l), IntegerPromotion(r))

\* Of two types pointed to; qualifiers are not modelled.
Compatible(l, r) == Decayed(l) = Decayed(r)

\* Whether a value may be assigned to, or passed as, the type.
CanInitialize(type, value) ==
  \/ IsPointer(Decayed(type)) /\ IsNull(value)
  \/ Decayed(type) = Decayed(value.type)
  \/ IsInteger(type) /\ IsInteger(value.type)
  \/ /\ IsPointer(Decayed(type)) /\ IsPointer(Decayed(value.type))
     /\ Compatible(Decayed(type).to, Decayed(value.type).to)
  \/ IsPointer(type) /\ type.to = value.type /\ value.type.kind = "function"

\* What a pointer that is moved has to point to.
IsComplete(t) == IsObject(t)

\* Mistaken form: subtraction is taken to be as symmetric as addition.
CheckPointerBinaryEither(op, l, r, left, right) ==
  CASE op = "+" /\ IsPointer(l) /\ IsInteger(r) /\ IsComplete(l.to) -> Rvalue(l)
    [] op \in Additive /\ IsInteger(l) /\ IsPointer(r) /\ IsComplete(r.to) -> Rvalue(r)
    [] op = "-" /\ IsPointer(l) /\ IsInteger(r) /\ IsComplete(l.to) -> Rvalue(l)
    [] op = "-" /\ IsPointer(l) /\ l = r /\ IsComplete(l.to) -> Rvalue(SignedInt)
    [] op \in Equality /\ \/ IsPointer(l) /\ IsNull(right)
                          \/ IsPointer(r) /\ IsNull(left) -> Rvalue(SignedInt)
    [] /\ op \in Equality \cup Relational /\ IsPointer(l) /\ IsPointer(r)
       /\ Compatible(l.to, r.to) -> Rvalue(SignedInt)
    [] OTHER -> Rejected

CheckPointerBinary(op, l, r, left, right) ==
  CASE op = "+" /\ IsPointer(l) /\ IsInteger(r) /\ IsComplete(l.to) -> Rvalue(l)
    [] op = "+" /\ IsInteger(l) /\ IsPointer(r) /\ IsComplete(r.to) -> Rvalue(r)
    [] op = "-" /\ IsPointer(l) /\ IsInteger(r) /\ IsComplete(l.to) -> Rvalue(l)
    [] op = "-" /\ IsPointer(l) /\ l = r /\ IsComplete(l.to) -> Rvalue(SignedInt)
    [] op \in Equality /\ \/ IsPointer(l) /\ IsNull(right)
                          \/ IsPointer(r) /\ IsNull(left) -> Rvalue(SignedInt)
    [] /\ op \in Equality \cup Relational /\ IsPointer(l) /\ IsPointer(r)
       /\ Compatible(l.to, r.to) -> Rvalue(SignedInt)
    [] OTHER -> Rejected

BitwiseConstant(op, l, r) ==
  LET x == Low(l, RegisterSize)
      y == Low(r, RegisterSize)
  IN AsSigned(CASE op = "&" -> x & y [] op = "^" -> x ^^ y [] op = "|" -> x | y,
              RegisterSize)
BinaryConstant(op, l, r) ==
  IF op \in BitwiseOps THEN {BitwiseConstant(op, l, r)} ELSE ArithmeticConstant(op, l, r)

CheckBinary(op, left, right) ==
  IF IsInteger(left.type) /\ IsInteger(right.type)
  THEN Constant(BinaryIntegerResult(op, left.type, right.type),
                UNION {BinaryConstant(op, l, r) :
                         l \in left.constants, r \in right.constants})
  ELSE CheckPointerBinary(op, Decayed(left.type), Decayed(right.type), left, right)

CheckAssign(target, value) ==
  IF target.lvalue /\ CanInitialize(target.type, value)
  THEN Rvalue(target.type) ELSE Rejected

CheckCompoundAssign(op, target, value) ==
  IF /\ target.lvalue /\ IsInteger(Decayed(value.type))
     /\ IF IsPointer(target.type)
        THEN Compound[op] \in Additive /\ IsComplete(target.type.to)
        ELSE IsInteger(target.type)
  THEN Rvalue(target.type) ELSE Rejected

CheckUpdate(target) ==
  IF /\ target.lvalue /\ IsScalar(target.type)
     /\ IsPointer(target.type) => IsComplete(target.type.to)
  THEN Rvalue(target.type) ELSE Rejected

\* The type is that of one arm, whether or not the other has a wider one; it is
\* a constant if all three are.
CheckConditional(condition, yes, no) ==
  LET values == {IF c # 0 THEN y ELSE n :
                   c \in condition.constants, y \in yes.constants, n \in no.constants}
  IN CASE ~IsScalar(condition.type) -> Rejected
       [] IsScalar(condition.type) /\ CanInitialize(yes.type, no) ->
            Constant(yes.type, values)
       [] IsScalar(condition.type) /\ ~CanInitialize(yes.type, no)
            /\ CanInitialize(no.type, yes) -> Constant(no.type, values)
       [] OTHER -> Rejected

CheckCall(callee, arguments) ==
  LET f == IF IsPointer(callee.type) THEN callee.type.to ELSE callee.type
  IN IF /\ f.kind = "function" /\ Len(arguments) = Len(f.parameters)
        /\ \A i \in DOMAIN arguments : CanInitialize(f.parameters[i], arguments[i])
     THEN Rvalue(f.returns) ELSE Rejected

\* Narrow types keep the low bytes, whatever their sign; the others keep all.
IntegerCast(t, v) == IF t.size <= 2 THEN Low(v, t.size) ELSE v

CheckCast(t, operand) ==
  IF IsScalar(t) /\ IsScalar(Decayed(operand.type))
  THEN Constant(t, {IntegerCast(t, v) : v \in {c \in operand.constants : IsInteger(t)}})
  ELSE Rejected

CheckSubscript(target, index) ==
  IF /\ target.type.kind \in {"array", "pointer"} /\ IsInteger(index.type)
     /\ IsObject(target.type.to)
  THEN Result(target.type.to, TRUE) ELSE Rejected

CheckMember(op, field, target) ==
  LET record == IF op = "->" /\ IsPointer(target.type) THEN target.type.to
                ELSE target.type
  IN IF /\ IF op = "->" THEN IsPointer(target.type) ELSE target.lvalue
        /\ record.kind = "record" /\ field \in DOMAIN record.fields
     THEN Result(record.fields[field].type, TRUE) ELSE Rejected

\* An expression whose operands have been checked; a rejected operand makes it
\* invalid without a message of its own.
CheckNode(e, args) ==
  IF \E i \in DOMAIN args : args[i].type = Invalid THEN Rejected
  ELSE
  CASE e.op = "literal" -> CheckLiteral(e.value)
    [] e.op = "enumerator" -> Constant(SignedInt, {e.value})
    [] e.op = "string" -> Rvalue(PointerTo(Char))
    [] e.op = "object" -> Result(Objects[e.name].type, TRUE)
    [] e.op = "function" -> Address(Functions[e.name].type, {e.name})
    [] e.op = "address" -> CheckAddress(args[1])
    [] e.op = "dereference" -> CheckDereference(args[1])
    [] e.op = "cast" -> CheckCast(e.type, args[1])
    [] e.op = "sizeof" ->
         IF IsObject(args[1].type) THEN Constant(SignedInt, {Size(args[1].type)})
         ELSE Rejected
    [] e.op = "=" -> CheckAssign(args[1], args[2])
    [] e.op = "?:" -> CheckConditional(args[1], args[2], args[3])
    [] e.op = "call" -> CheckCall(args[1], Tail(args))
    [] e.op = "[]" -> CheckSubscript(args[1], args[2])
    [] e.op \in {".", "->"} -> CheckMember(e.op, e.name, args[1])
    [] e.op \in UpdateOps -> CheckUpdate(args[1])
    [] e.op \in DOMAIN Compound -> CheckCompoundAssign(e.op, args[1], args[2])
    [] e.op \in UnaryOps -> CheckUnary(e.op, args[1])
    [] e.op \in BinaryOps \cup LogicalOps -> CheckBinary(e.op, args[1], args[2])
    [] e.op \in Declarations \cup {"{}"} -> Rejected   \* no expressions

\* The expression with what the analysis records of each of its nodes.
RECURSIVE Checked(_)
Checked(e) ==
  LET args == FoldLeft(LAMBDA done, arg : Append(done, Checked(arg)), << >>, e.args)
  IN [op |-> e.op, args |-> args, name |-> e.name, value |-> e.value,
      type |-> e.type, is |-> CheckNode(e, [i \in DOMAIN args |-> args[i].is])]

\* The value of an enumerator is calculated from the tree alone: casts and sizeof
\* are refused, and only one arm of ?: needs a value.
RECURSIVE EnumConstant(_)
EnumConstant(e) ==
  CASE e.op = "literal" -> LiteralConstant(e.value)
    [] e.op = "enumerator" -> {e.value}
    [] e.op \in UnaryOps -> UNION {UnaryConstant(e.op, v) : v \in EnumConstant(e.args[1])}
    [] e.op \in BinaryOps \cup LogicalOps ->
         UNION {BinaryConstant(e.op, l, r) :
                  l \in EnumConstant(e.args[1]), r \in EnumConstant(e.args[2])}
    [] e.op = "?:" ->
         UNION {EnumConstant(e.args[IF c # 0 THEN 2 ELSE 3]) :
                  c \in EnumConstant(e.args[1])}
    [] OTHER -> {}

(***************************************************************************)
(* Initializers: which ones the semantic analysis accepts                  *)
(* (fcc_sema_check_initializer), and what the code generator makes of      *)
(* them.  At file scope they are the bytes of the object in its section;   *)
(* of a local they are the stores of its items, for FccExpressions to      *)
(* compute.                                                                *)
(***************************************************************************)
IsCharArray(t) == t.kind = "array" /\ t.to = Char
IsStringFor(t, init) == init.op = "string" /\ IsCharArray(t)
StringLength(init) == Len(Strings[init.name].bytes)

\* An array declared without its length.
CompletedFromInitializer(t, init) ==
  IF ~(t.kind = "array" /\ t.length = Unsized) THEN t
  ELSE
  CASE IsStringFor(t, init) -> ArrayOf(t.to, StringLength(init) + 1)
    [] init.op = "{}" -> ArrayOf(t.to, Len(init.args))
    [] OTHER -> t

Field(t, i) == t.fields[t.order[i]]
ItemType(t, i) ==
  CASE t.kind = "array" -> t.to [] t.kind = "record" -> Field(t, i).type [] OTHER -> t
\* The most items a list may have.
Places(t) ==
  CASE t.kind = "array" -> t.length
    [] t.kind = "record" -> IF t.union THEN 1 ELSE Len(t.order)
    [] OTHER -> 1

IsStaticConstant(t, init, value) ==
  \/ value.constants # {}
  \/ IsPointer(Decayed(t)) /\ (value.addresses # {} \/ init.op = "string")

\* An array, too, takes whatever its decayed type takes.
RECURSIVE InitializerAccepted(_, _, _)
InitializerAccepted(t, init, constant) ==
  CASE init.op = "{}" ->
         /\ Len(init.args) <= Places(t)
         /\ ~IsAggregate(t) => Len(init.args) = 1
         /\ \A i \in DOMAIN init.args :
              InitializerAccepted(ItemType(t, i), init.args[i], constant)
    [] IsStringFor(t, init) -> StringLength(init) < t.length
    [] OTHER ->
         LET value == Checked(init).is
         IN /\ value.type # Invalid /\ CanInitialize(t, value)
            /\ constant => IsStaticConstant(t, init, value)

\* Of the declared type.
DeclarationAccepted(d) ==
  InitializerAccepted(CompletedFromInitializer(d.type, d.args[1]), d.args[1],
                      d.op = "global")

SemaAccepts(e) ==
  IF e.op \in Declarations THEN DeclarationAccepted(e) ELSE Checked(e).is.type # Invalid

(***************************************************************************)
(* A local: the items of the list that are stored, each with its type and  *)
(* its offset.  Everything else has been zeroed.                           *)
(***************************************************************************)
\* Mistaken form: items follow each other without the padding between them.
ItemOffsetPacked(t, i) ==
  CASE t.kind = "array" -> (i - 1) * Size(t.to)
    [] t.kind = "record" /\ i > 1 -> Field(t, i - 1).offset + Size(Field(t, i - 1).type)
    [] OTHER -> 0

ItemOffset(t, i) ==
  CASE t.kind = "array" -> (i - 1) * Size(t.to)
    [] t.kind = "record" -> Field(t, i).offset
    [] OTHER -> 0

RECURSIVE LocalItems(_, _, _)
LocalItems(t, init, offset) ==
  IF init.op # "{}" THEN <<[type |-> t, offset |-> offset, value |-> init]>>
  ELSE FlattenSeq([i \in DOMAIN init.args |->
         LocalItems(ItemType(t, i), init.args[i], offset + ItemOffset(t, i))])

(***************************************************************************)
(* At file scope: the bytes that the data directives define, in order.     *)
(***************************************************************************)
ZeroBytes(n) == [i \in 1..n |-> 0]
DataDirective(size, v) ==
  [i \in 1..size |-> (Low(v, size) \div Modulus(i - 1)) % Modulus(1)]
\* A diagnostic instead of bytes.
DataError == <<-1>>

StringBytes(name) == Append(Strings[name].bytes, 0)

\* The value is a tree that has been checked.
ScalarData(t, init) ==
  CASE IsPointer(t) /\ init.op = "string" ->
         DataDirective(RegisterSize, Strings[init.name].address)
    [] IsPointer(t) /\ init.is.addresses # {} ->
         DataDirective(RegisterSize, Functions[CHOOSE f \in init.is.addresses : TRUE].address)
    [] IsScalar(t) /\ init.is.constants # {} ->
         DataDirective(Size(t), CHOOSE v \in init.is.constants : TRUE)
    [] OTHER -> DataError

\* The bytes of the items of a list from the i-th, when some are written.
RECURSIVE GlobalData(_, _), ListData(_, _, _, _)
ListData(t, items, i, written) ==
  IF i > Len(items) THEN ZeroBytes(Size(t) - written)
  ELSE ZeroBytes(ItemOffset(t, i) - written) \o GlobalData(ItemType(t, i), items[i])
         \o ListData(t, items, i + 1, ItemOffset(t, i) + Size(ItemType(t, i)))

GlobalData(t, init) ==
  CASE init.op = "{}" -> ListData(t, init.args, 1, 0)
    [] IsStringFor(t, init) ->
         StringBytes(init.name) \o ZeroBytes(t.length - StringLength(init) - 1)
    [] OTHER -> ScalarData(t, init)

\* The string literals that get a label: those of every operand.
RECURSIVE StringLiterals(_)
StringLiterals(e) ==
  IF e.op = "string" THEN {e.name}
  ELSE UNION {StringLiterals(e.args[i]) : i \in DOMAIN e.args}

\* Memory with the bytes from the address on, and with the literals of e behind
\* their labels.
WithBytes(memory, address, bytes) ==
  [a \in DOMAIN memory |->
     IF a \in Bytes(address, Len(bytes)) THEN bytes[a - address + 1] ELSE memory[a]]
WithStrings(memory, e) ==
  FoldSet(LAMBDA n, m : WithBytes(m, Strings[n].address, StringBytes(n)), memory,
          StringLiterals(e))
=============================================================================
