---------------------------- MODULE ExpressionTree ----------------------------
(***************************************************************************)
(* Types of the target (Windows x64), the integers that represent their    *)
(* values in registers and in memory, and expressions as the parser builds *)
(* them (FccAstExpression).                                                *)
(*                                                                         *)
(* A type is as wide as in the code, counted in bytes, but a byte has      *)
(* ByteBits bits: with two of them an int has the values -128..127 and a   *)
(* register 2^16, so that every boundary of a width is near.  An           *)
(* expression has an operator, operands and what else the node carries:    *)
(* the name of an identifier or a member, the value of a literal, the type *)
(* of a cast.                                                              *)
(***************************************************************************)
EXTENDS Words, Sequences

CONSTANT ByteBits
ASSUME ByteBitsAssumption == ByteBits \in Nat \ {0}

RegisterSize == 8
Modulus(size) == 2 ^ (ByteBits * size)
ByteValues == 0 .. Modulus(1) - 1
RegisterValues == 0 .. Modulus(RegisterSize) - 1

\* The size lowest bytes of a value: without and with their sign.
Low(v, size) == v % Modulus(size)
AsSigned(v, size) ==
  IF 2 * Low(v, size) < Modulus(size) THEN Low(v, size)
  ELSE Low(v, size) - Modulus(size)

(***************************************************************************)
(* Types.                                                                  *)
(***************************************************************************)
Integer(rank, size, signed) ==
  [kind |-> "integer", rank |-> rank, size |-> size, signed |-> signed]

Bool == Integer(0, 1, FALSE)
Char == Integer(1, 1, TRUE)
UnsignedChar == Integer(1, 1, FALSE)
Short == Integer(2, 2, TRUE)
UnsignedShort == Integer(2, 2, FALSE)
SignedInt == Integer(3, 4, TRUE)
UnsignedInt == Integer(3, 4, FALSE)
Long == Integer(4, 4, TRUE)
UnsignedLong == Integer(4, 4, FALSE)
LongLong == Integer(5, 8, TRUE)
UnsignedLongLong == Integer(5, 8, FALSE)

PointerTo(t) == [kind |-> "pointer", to |-> t]
ArrayOf(t, length) == [kind |-> "array", to |-> t, length |-> length]
\* An array whose length its initializer tells.
Unsized == -1
\* The fields of a record, in order, and name -> [offset, type].
RecordOf(union, size, order, fields) ==
  [kind |-> "record", union |-> union, size |-> size, order |-> order, fields |-> fields]
Struct(size, order, fields) == RecordOf(FALSE, size, order, fields)
UnionOf(size, order, fields) == RecordOf(TRUE, size, order, fields)
FunctionType(parameters, returns) ==
  [kind |-> "function", parameters |-> parameters, returns |-> returns]

IsInteger(t) == t.kind = "integer"
IsPointer(t) == t.kind = "pointer"
IsAggregate(t) == t.kind \in {"array", "record"}
IsScalar(t) == IsInteger(t) \/ IsPointer(t)
IsObject(t) == IsScalar(t) \/ IsAggregate(t)

\* _Bool is no unsigned integer type for fcc_type_is_unsigned_integer.
IsUnsigned(t) == IsInteger(t) /\ ~t.signed /\ t.rank > 0

RECURSIVE Size(_)
Size(t) ==
  CASE t.kind \in {"integer", "record"} -> t.size
    [] t.kind = "pointer" -> RegisterSize
    [] t.kind = "array" -> t.length * Size(t.to)
    [] OTHER -> 0

Decayed(t) == IF t.kind = "array" THEN PointerTo(t.to) ELSE t

\* The value the low bytes of v are of a scalar type.
Value(v, t) ==
  IF IsInteger(t) /\ t.signed THEN AsSigned(v, t.size) ELSE Low(v, Size(t))

(***************************************************************************)
(* Memory: a byte at every address, little-endian.                         *)
(***************************************************************************)
Bytes(address, size) == address .. address + size - 1

RECURSIVE Stored(_, _, _)
Stored(memory, address, size) ==
  IF size = 0 THEN 0
  ELSE memory[address] + Modulus(1) * Stored(memory, address + 1, size - 1)

Written(memory, address, v, size) ==
  [a \in DOMAIN memory |->
     IF a \in Bytes(address, size)
     THEN (Low(v, size) \div Modulus(a - address)) % Modulus(1)
     ELSE memory[a]]

Copied(memory, to, from, size) ==
  [a \in DOMAIN memory |->
     IF a \in Bytes(to, size) THEN memory[from + (a - to)] ELSE memory[a]]

(***************************************************************************)
(* Expressions.                                                            *)
(***************************************************************************)
CONSTANTS
  Objects,     \* name -> [address, type] of the objects in scope
  Functions,   \* name -> [address, type, result] of the functions called
  Strings      \* name -> [address, bytes] of the string literals

Expression(op, operands, name, value, type) ==
  [op |-> op, args |-> operands, name |-> name, value |-> value, type |-> type]
NoType == [kind |-> "none"]

Apply(op, operands) == Expression(op, operands, "", 0, NoType)
Literal(v) == Expression("literal", << >>, "", v, NoType)
Variable(name) == Expression("object", << >>, name, 0, NoType)
FunctionName(name) == Expression("function", << >>, name, 0, NoType)
Enumerator(v) == Expression("enumerator", << >>, "", v, NoType)
StringLiteral(name) == Expression("string", << >>, name, 0, NoType)
Cast(t, e) == Expression("cast", <<e>>, "", 0, t)
Member(op, e, field) == Expression(op, <<e>>, field, 0, NoType)
Call(callee, arguments) == Apply("call", <<callee>> \o arguments)
InitializerList(items) == Apply("{}", items)
\* A declaration of the object, as a local or at file scope, with an initializer.
Local(t, name, initializer) == Expression("local", <<initializer>>, name, 0, t)
Global(t, name, initializer) == Expression("global", <<initializer>>, name, 0, t)

Additive == {"+", "-"}
Shifts == {"<<", ">>"}
Relational == {"<", "<=", ">", ">="}
Equality == {"==", "!="}
BitwiseOps == {"&", "^", "|"}
ArithmeticOps == Additive \cup Shifts \cup BitwiseOps \cup {"*", "/", "%"}
BinaryOps == ArithmeticOps \cup Relational \cup Equality
LogicalOps == {"&&", "||"}
UnaryOps == {"plus", "negate", "!", "~"}
Declarations == {"local", "global"}
UpdateOps == {"++x", "--x", "x++", "x--"}
Compound == [op \in {"+=", "-=", "*=", "/=", "%=", "<<=", ">>=", "&=", "^=", "|="} |->
               CASE op = "+=" -> "+" [] op = "-=" -> "-" [] op = "*=" -> "*"
                 [] op = "/=" -> "/" [] op = "%=" -> "%" [] op = "<<=" -> "<<"
                 [] op = ">>=" -> ">>" [] op = "&=" -> "&" [] op = "^=" -> "^"
                 [] op = "|=" -> "|"]
=============================================================================
