---------------------------- MODULE FccExpressions ----------------------------
(***************************************************************************)
(* The code generator's instructions for one expression or the declaration *)
(* of one object (fcc_codegen_emit_expression and what it calls), and the  *)
(* processor that executes them.  The value of an expression ends in rax;  *)
(* operands wait on the stack.  The result is compared with what C says of *)
(* the expression.                                                         *)
(*                                                                         *)
(* An instruction is a record; jumps skip a number of instructions, the    *)
(* labels being those of FccLoweredFunction.  The stack holds what the     *)
(* expression pushed: below it rsp is a multiple of 16, as the prologue    *)
(* left it.                                                                *)
(***************************************************************************)
EXTENDS FccExpressionTypes

CONSTANTS
  Programs,         \* the expressions and declarations compiled
  InitialMemories   \* what the memory may hold before

C == INSTANCE ExpressionMeaning

(***************************************************************************)
(* Instructions.                                                           *)
(***************************************************************************)
Instruction(op, name, n) == [op |-> op, name |-> name, n |-> n]

SetRax(v) == Instruction("set", "rax", v)
Push == Instruction("push", "rax", 0)
Pop(register) == Instruction("pop", register, 0)
Move(to, from) == Instruction("move", [to |-> to, from |-> from], 0)
Operate(op, size, signed) ==
  Instruction("operate", [op |-> op, signed |-> signed], size)   \* of rax and rcx
Add(register, n) == IF n = 0 THEN << >> ELSE <<Instruction("add", register, n)>>
ExtendTo64(size, signed) == Instruction("extend", signed, size)
SkipIf(zero, n) == Instruction("skipIf", zero, n)               \* compares eax
Skip(n) == Instruction("skip", TRUE, n)
Reserve(slots) == Instruction("reserve", "", slots)             \* sub rsp
Release(slots) == Instruction("release", "", slots)             \* add rsp
\* A diagnostic instead of an instruction.
EmitError == <<Instruction("error", "", 0)>>
\* By the size of what a pointer points to, which is 0 of a function.
Scale(register, n) == IF n = 0 THEN EmitError ELSE
                      IF n = 1 THEN << >> ELSE <<Instruction("scale", register, n)>>

(***************************************************************************)
(* Conversions, loads and stores.                                          *)
(***************************************************************************)
\* Mistaken form: widened with the sign of the type it becomes.
EmitCoerceByTarget(source, target) ==
  CASE IsAggregate(source) \/ IsAggregate(target) \/ source.kind = "function" -> << >>
    [] OTHER ->
         CASE Size(target) < RegisterSize ->
                <<ExtendTo64(Size(target), target.signed)>>
           [] Size(target) = RegisterSize /\ Size(source) < RegisterSize ->
                <<ExtendTo64(Size(source), IsInteger(target) /\ target.signed)>>
           [] OTHER -> << >>

EmitCoerceScalar(source, target) ==
  CASE IsAggregate(source) \/ IsAggregate(target) \/ source.kind = "function" -> << >>
    [] OTHER ->
         CASE Size(target) < RegisterSize ->
                <<ExtendTo64(Size(target), target.signed)>>
           [] Size(target) = RegisterSize /\ Size(source) < RegisterSize ->
                <<ExtendTo64(Size(source), source.signed)>>
           [] OTHER -> << >>

\* The object whose address is in rax; of an aggregate it is the value.
EmitLoad(type) ==
  CASE IsAggregate(type) \/ type.kind = "function" -> << >>
    [] OTHER -> <<Instruction("load", "", Size(type))>>

EmitStore(type) == <<Instruction("store", "", Size(type))>>
StoreAt(address, type) == <<Instruction("storeAt", address, Size(type))>>
EmitMemoryCopy(size) == <<Instruction("copy", "", size)>>
EmitMemoryZero(size) == <<Instruction("zero", "", size)>>

(***************************************************************************)
(* Operations on two operands: the left one in rax, the right one in rcx.  *)
(***************************************************************************)
IntegerBinarySize(l, r) == IF 8 \in {Size(l), Size(r)} THEN 8 ELSE 4
IntegerBinaryIsUnsigned(l, r) == IsUnsigned(l) \/ IsUnsigned(r)
IntegerBinaryType(l, r) ==
  IF IntegerBinarySize(l, r) = 8
  THEN IF IntegerBinaryIsUnsigned(l, r) THEN UnsignedLongLong ELSE LongLong
  ELSE IF IntegerBinaryIsUnsigned(l, r) THEN UnsignedInt ELSE SignedInt

EmitPointerCompound(op, type) ==
  Scale("rcx", Size(type.to)) \o <<Operate(op, 8, TRUE)>>

\* Whatever the widths and the signs of the operands.
EmitIntegerCompound(op) == <<Operate(op, 4, TRUE)>>

\* Mistaken form: a pointer moves by bytes.
EmitUpdateByOne(type, op) ==
  IF IsPointer(type) THEN <<Instruction(op, "rax", 1)>>
  ELSE <<Instruction(op, "eax", 1)>>

EmitUpdateValue(type, op) ==
  CASE ~IsPointer(type) -> <<Instruction(op, "eax", 1)>>
    [] IsPointer(type) /\ Size(type.to) = 0 -> EmitError
    [] OTHER -> <<Instruction(op, "rax", Size(type.to))>>

\* The four that C passes in registers, in order.
ParameterRegisters == <<"rcx", "rdx", "r8", "r9">>

\* Mistaken form: the pushed address of the callee is not counted.
AlignmentPadOfArguments(count, direct) == count % 2

\* The slots a call takes beside its arguments keep their number even.
AlignmentPad(count, direct) == (count + (IF direct THEN 0 ELSE 1)) % 2

(***************************************************************************)
(* Expressions.                                                            *)
(***************************************************************************)
RECURSIVE EmitExpression(_), EmitAddressOfLvalue(_)

EmitLvalueLoad(e) == EmitAddressOfLvalue(e) \o EmitLoad(e.is.type)

\* What does not fit in 32 bits is refused here, not by the analysis.
EmitEnumerator(e) ==
  IF e.value < -Modulus(4) \div 2 \/ e.value >= Modulus(4) THEN EmitError
  ELSE <<SetRax(Low(e.value, 4))>>

EmitUnary(e) ==
  EmitExpression(e.args[1]) \o
  CASE e.op = "plus" -> << >>
    [] e.op = "negate" -> <<Instruction("negate", "", IF Size(e.is.type) = 8 THEN 8 ELSE 4)>>
    [] e.op = "!" -> <<Instruction("isZero", "", 4)>>
    [] e.op = "~" -> <<Instruction("complement", "", 4)>>
    [] e.op = "dereference" -> EmitLoad(e.is.type)

EmitLogicalAnd(left, right) ==
  left \o <<SkipIf(TRUE, Len(right) + 3)>> \o right
    \o <<SkipIf(TRUE, 2), SetRax(1), Skip(1), SetRax(0)>>

EmitLogicalOr(left, right) ==
  left \o <<SkipIf(FALSE, Len(right) + 3)>> \o right
    \o <<SkipIf(FALSE, 2), SetRax(0), Skip(1), SetRax(1)>>

EmitConditional(condition, yes, no) ==
  condition \o <<SkipIf(TRUE, Len(yes) + 1)>> \o yes \o <<Skip(Len(no))>> \o no

\* l and r are the decayed types of the operands.
EmitPointerArithmetic(e, l, r, left, right) ==
  CASE e.op = "+" /\ IsPointer(l) /\ IsInteger(r) ->
         left \o <<Push>> \o right \o Scale("rax", Size(l.to))
           \o <<Pop("rcx"), Operate("+", 8, TRUE)>>
    [] e.op = "+" /\ IsInteger(l) /\ IsPointer(r) ->
         left \o Scale("rax", Size(r.to)) \o <<Push>> \o right
           \o <<Pop("rcx"), Operate("+", 8, TRUE)>>
    [] e.op = "-" /\ IsPointer(l) /\ IsInteger(r) ->
         left \o <<Push>> \o right \o Scale("rax", Size(l.to))
           \o <<Pop("rcx"), Instruction("subtractFrom", "rcx", 8), Move("rax", "rcx")>>
    [] e.op = "-" /\ IsPointer(l) /\ IsPointer(r) ->
         left \o <<Push>> \o right
           \o <<Pop("rcx"), Instruction("subtractFrom", "rcx", 8), Move("rax", "rcx")>>
           \o IF Size(l.to) = 1 THEN << >>
              ELSE <<Instruction("set", "rcx", Size(l.to)), Operate("/", 8, TRUE)>>
    [] OTHER -> EmitError

EmitPointerComparison(e, left, right) ==
  left \o <<Push>> \o right
    \o <<Move("rcx", "rax"), Pop("rax"), Operate(e.op, 8, FALSE)>>

EmitIntegerBinary(e, l, r, left, right) ==
  left \o EmitCoerceScalar(l, IntegerBinaryType(l, r)) \o <<Push>>
    \o right \o EmitCoerceScalar(r, IntegerBinaryType(l, r))
    \o <<Move("rcx", "rax"), Pop("rax"),
         Operate(e.op, IntegerBinarySize(l, r), ~IntegerBinaryIsUnsigned(l, r))>>

EmitBinary(e, l, r, left, right) ==
  CASE e.op = "&&" -> EmitLogicalAnd(left, right)
    [] e.op = "||" -> EmitLogicalOr(left, right)
    [] e.op \in Additive /\ (IsPointer(l) \/ IsPointer(r)) ->
         EmitPointerArithmetic(e, l, r, left, right)
    [] e.op \in Relational \cup Equality /\ IsPointer(l) /\ IsPointer(r) ->
         EmitPointerComparison(e, left, right)
    [] OTHER -> EmitIntegerBinary(e, l, r, left, right)

\* A record that is no lvalue is taken to have left its address in rax.
EmitAssign(target, value) ==
  IF IsAggregate(target.is.type)
  THEN (IF value.is.lvalue THEN EmitAddressOfLvalue(value) ELSE EmitExpression(value))
         \o <<Push>> \o EmitAddressOfLvalue(target)
         \o <<Move("rcx", "rax"), Pop("rax")>> \o EmitMemoryCopy(Size(target.is.type))
  ELSE EmitExpression(value) \o EmitCoerceScalar(value.is.type, target.is.type)
         \o <<Push>> \o EmitAddressOfLvalue(target)
         \o <<Move("rcx", "rax"), Pop("rax")>> \o EmitStore(target.is.type)

EmitCompoundAssign(op, target, value) ==
  EmitAddressOfLvalue(target) \o <<Push>> \o EmitLoad(target.is.type) \o <<Push>>
    \o EmitExpression(value) \o <<Move("rcx", "rax"), Pop("rax")>>
    \o (IF IsPointer(target.is.type) THEN EmitPointerCompound(op, target.is.type)
        ELSE EmitIntegerCompound(op))
    \o <<Pop("rcx")>> \o EmitStore(target.is.type)

EmitUpdate(op, target) ==
  LET postfix == op \in {"x++", "x--"}
  IN EmitAddressOfLvalue(target) \o <<Push>> \o EmitLoad(target.is.type)
       \o (IF postfix THEN <<Push>> ELSE << >>)
       \o EmitUpdateValue(target.is.type, IF op \in {"++x", "x++"} THEN "add" ELSE "sub")
       \o (IF postfix THEN <<Pop("rdx")>> ELSE << >>)
       \o <<Pop("rcx")>> \o EmitStore(target.is.type)
       \o (IF postfix THEN <<Move("rax", "rdx")>> ELSE << >>)

\* The arguments are pushed from the last, then copied to where the callee
\* expects them: the first four to registers, the others above 32 free bytes.
EmitCall(callee, arguments) ==
  LET count == Len(arguments)
      direct == callee.op = "function"
      pad == AlignmentPad(count, direct)
      shuffle(i) == IF i <= Len(ParameterRegisters)
                    THEN Instruction("argument", ParameterRegisters[i], 4 + i)
                    ELSE Instruction("passOn", 4 + (i - 4), 4 + i)
  IN (IF pad = 1 THEN <<Reserve(1)>> ELSE << >>)
       \o (IF direct THEN << >> ELSE EmitExpression(callee) \o <<Push>>)
       \o FlattenSeq([i \in 1..count |->
                        EmitExpression(arguments[count + 1 - i]) \o <<Push>>])
       \o <<Reserve(4)>> \o [i \in 1..count |-> shuffle(i)]
       \o <<IF direct THEN Instruction("call", callee.name, 0)
            ELSE Instruction("callAt", "", 4 + count + 1),
            Release(4 + count + pad + IF direct THEN 0 ELSE 1)>>

EmitSubscript(e, target, index) ==
  (IF target.is.type.kind = "array" THEN EmitAddressOfLvalue(target)
   ELSE EmitExpression(target))
    \o <<Push>> \o EmitExpression(index) \o Scale("rax", Size(e.is.type))
    \o <<Pop("rcx"), Operate("+", 8, TRUE)>>

EmitMember(e, target) ==
  IF e.op = "->"
  THEN EmitExpression(target) \o Add("rax", target.is.type.to.fields[e.name].offset)
  ELSE EmitAddressOfLvalue(target) \o Add("rax", target.is.type.fields[e.name].offset)

EmitAddressOfLvalue(e) ==
  CASE e.op = "object" -> <<SetRax(Objects[e.name].address)>>
    [] e.op = "function" -> <<SetRax(Functions[e.name].address)>>
    [] e.op = "dereference" -> EmitExpression(e.args[1])
    [] e.op = "[]" -> EmitSubscript(e, e.args[1], e.args[2])
    [] e.op \in {".", "->"} -> EmitMember(e, e.args[1])
    [] OTHER -> EmitError

EmitExpression(e) ==
  CASE e.op = "literal" -> <<SetRax(e.value)>>
    [] e.op = "enumerator" -> EmitEnumerator(e)
    [] e.op = "string" -> <<SetRax(Strings[e.name].address)>>
    [] e.op = "{}" -> EmitError
    [] e.op = "function" -> EmitAddressOfLvalue(e)
    [] e.op \in {"object", "[]", ".", "->"} -> EmitLvalueLoad(e)
    [] e.op = "address" -> EmitAddressOfLvalue(e.args[1])
    [] e.op \in UnaryOps \cup {"dereference"} -> EmitUnary(e)
    [] e.op = "cast" ->
         EmitExpression(e.args[1]) \o EmitCoerceScalar(e.args[1].is.type, e.is.type)
    [] e.op = "sizeof" -> <<SetRax(Size(e.args[1].is.type))>>
    [] e.op \in BinaryOps \cup LogicalOps ->
         EmitBinary(e, Decayed(e.args[1].is.type), Decayed(e.args[2].is.type),
                    EmitExpression(e.args[1]), EmitExpression(e.args[2]))
    [] e.op = "?:" ->
         EmitConditional(EmitExpression(e.args[1]), EmitExpression(e.args[2]),
                         EmitExpression(e.args[3]))
    [] e.op = "=" -> EmitAssign(e.args[1], e.args[2])
    [] e.op \in DOMAIN Compound ->
         EmitCompoundAssign(Compound[e.op], e.args[1], e.args[2])
    [] e.op \in UpdateOps -> EmitUpdate(e.op, e.args[1])
    [] e.op = "call" -> EmitCall(e.args[1], Tail(e.args))

(***************************************************************************)
(* Declarations.                                                           *)
(***************************************************************************)
\* A scalar, or a string in an array of char, at a place on the stack.
EmitItem(item, address) ==
  CASE IsStringFor(item.type, item.value) ->
         EmitExpression(item.value) \o <<Instruction("set", "rcx", address)>>
           \o EmitMemoryCopy(StringLength(item.value) + 1)
    [] IsScalar(item.type) ->
         EmitExpression(item.value) \o EmitCoerceScalar(item.value.is.type, item.type)
           \o StoreAt(address, item.type)
    [] OTHER -> EmitError

\* Mistaken form: what the list leaves out keeps what the stack held.
EmitItemsOnly(t, address, init) ==
  LET items == LocalItems(t, init, 0)
  IN <<SetRax(address)>>
       \o FlattenSeq([i \in DOMAIN items |-> EmitItem(items[i], address + items[i].offset)])

EmitItems(t, address, init) ==
  LET items == LocalItems(t, init, 0)
  IN <<SetRax(address)>> \o EmitMemoryZero(Size(t))
       \o FlattenSeq([i \in DOMAIN items |-> EmitItem(items[i], address + items[i].offset)])

EmitLocal(t, address, init) ==
  CASE ~IsAggregate(t) -> EmitItem([type |-> t, value |-> init], address)
    [] IsAggregate(t) /\ init.op \in {"{}", "string"} -> EmitItems(t, address, init)
    [] OTHER ->
         <<SetRax(address), Push>>
           \o (IF init.is.lvalue THEN EmitAddressOfLvalue(init) ELSE EmitExpression(init))
           \o <<Pop("rcx")>> \o EmitMemoryCopy(Size(t))

DeclaredType(d) == CompletedFromInitializer(d.type, d.args[1])

\* The code of a program and the memory it starts in.
EmitProgram(e) ==
  CASE e.op = "local" -> EmitLocal(DeclaredType(e), Objects[e.name].address, e.args[1])
    [] e.op = "global" ->
         IF DataError[1] \in ToSet(GlobalData(DeclaredType(e), e.args[1])) THEN EmitError
         ELSE << >>
    [] OTHER -> EmitExpression(e)

Loaded(e, m) ==
  IF e.op = "global"
  THEN WithBytes(WithStrings(m, e), Objects[e.name].address,
                 GlobalData(DeclaredType(e), e.args[1]))
  ELSE WithStrings(m, e)

(***************************************************************************)
(* The processor.                                                          *)
(***************************************************************************)
VARIABLES
  program,    \* the expression or declaration, checked
  text,       \* its instructions
  before,     \* the memory it is evaluated in
  rip,        \* the number of the next instruction; 0 before the program is loaded
  registers,
  stack,      \* slots of eight bytes; the last is at rsp
  memory,     \* the objects
  calls,      \* the calls made, with the arguments as the callees see them
  fault       \* an access outside the memory or its slots, or a division that traps

vars == <<program, text, before, rip, registers, stack, memory, calls, fault>>

Registers == {"rax", "rcx", "rdx", "r8", "r9"}
Garbage == Modulus(RegisterSize) \div 3

Init ==
  /\ program \in {Checked(e) : e \in {p \in Programs : SemaAccepts(p)}}
  /\ text = EmitProgram(program)
  /\ before = << >>
  /\ memory = << >>
  /\ rip = 0
  /\ registers = [r \in Registers |-> Garbage]
  /\ stack = << >>
  /\ calls = << >>
  /\ fault = FALSE

\* What the objects hold does not depend on the program.
Start ==
  /\ rip = 0
  /\ \E m \in InitialMemories : before' = m /\ memory' = Loaded(program, m)
  /\ rip' = 1
  /\ UNCHANGED <<program, text, registers, stack, calls, fault>>

I == text[rip]
Finished == rip > Len(text)
Executes(ops) == rip > 0 /\ ~Finished /\ ~fault /\ I.op \in ops
Proceed == rip' = rip + 1 /\ UNCHANGED <<program, text, before, fault>>

Rax == registers["rax"]
Rcx == registers["rcx"]
With(r, v) == [registers EXCEPT ![r] = Low(v, RegisterSize)]
\* The slot at rsp is at depth 1.
Slot(depth) == stack[Len(stack) + 1 - depth]
Mapped(address, size) == Bytes(address, size) \subseteq DOMAIN memory

\* What an instruction computes of its operands; nothing when it traps.  The
\* processor takes a shift count modulo the width.
Results(op, x, y, size) ==
  CASE op = "+" -> {x + y}
    [] op = "-" -> {x - y}
    [] op = "*" -> {AsSigned(x, size) * AsSigned(y, size)}
    [] op \in {"/", "%"} ->
         IF y = 0 \/ (y = -1 /\ 2 * Low(x, size) = Modulus(size)) THEN {}
         ELSE IF op = "/" THEN {Quotient(x, y)} ELSE {x - y * Quotient(x, y)}
    [] op \in Shifts ->
         LET width == ByteBits * size
             n == y % width
         IN IF op = "<<" THEN {(Low(x, size) % 2 ^ (width - n)) * 2 ^ n}
            ELSE {x \div 2 ^ n}
    [] op = "&" -> {Low(x, size) & Low(y, size)}
    [] op = "^" -> {Low(x, size) ^^ Low(y, size)}
    [] op = "|" -> {Low(x, size) | Low(y, size)}
    [] OTHER -> {Compare(op, x, y)}

Operand(v) == IF I.name.signed THEN AsSigned(v, I.n) ELSE Low(v, I.n)
Operated ==
  {[With("rax", Low(v, I.n)) EXCEPT
      !["rdx"] = IF I.name.op \in {"/", "%"} THEN Garbage ELSE @] :
     v \in Results(I.name.op, Operand(Rax), Operand(Rcx), I.n)}

Moving == {"set", "move", "add", "sub", "subtractFrom", "scale"}
Converting == {"extend", "negate", "complement", "isZero"}

MoveRegisters ==
  /\ Executes(Moving)
  /\ registers' =
       CASE I.op = "set" -> With(I.name, I.n)
         [] I.op = "move" -> With(I.name.to, registers[I.name.from])
         [] I.op \in {"add", "sub"} ->
              LET n == IF I.op = "add" THEN I.n ELSE -I.n
              IN With("rax", IF I.name = "eax" THEN Low(Rax + n, 4) ELSE Rax + n)
         [] I.op = "subtractFrom" -> With("rcx", Rcx - Rax)
         [] I.op = "scale" -> With(I.name, registers[I.name] * I.n)
  /\ UNCHANGED <<stack, memory, calls>>
  /\ Proceed

ConvertRax ==
  /\ Executes(Converting)
  /\ registers' =
       With("rax",
            CASE I.op = "extend" -> IF I.name THEN AsSigned(Rax, I.n) ELSE Low(Rax, I.n)
              [] I.op = "negate" -> Low(-Rax, I.n)
              [] I.op = "complement" -> Low(-Rax - 1, I.n)
              [] I.op = "isZero" -> Truth(Low(Rax, I.n) = 0))
  /\ UNCHANGED <<stack, memory, calls>>
  /\ Proceed

OperateOnRax ==
  /\ Executes({"operate"})
  /\ registers' \in Operated
  /\ UNCHANGED <<stack, memory, calls>>
  /\ Proceed

\* A slot the expression did not push belongs to the frame.
Underflows == CASE I.op = "pop" -> stack = << >>
                [] I.op = "release" -> I.n > Len(stack)
                [] OTHER -> FALSE

PushOrPop ==
  /\ Executes({"push", "pop", "reserve", "release"}) /\ ~Underflows
  /\ stack' = CASE I.op = "push" -> Append(stack, Rax)
                [] I.op = "pop" -> Front(stack)
                [] I.op = "reserve" -> stack \o [i \in 1..I.n |-> Garbage]
                [] I.op = "release" -> SubSeq(stack, 1, Len(stack) - I.n)
  /\ registers' = IF I.op = "pop" THEN With(I.name, Last(stack)) ELSE registers
  /\ UNCHANGED <<memory, calls>>
  /\ Proceed

Load ==
  /\ Executes({"load"}) /\ Mapped(Rax, I.n)
  /\ registers' = With("rax", Stored(memory, Rax, I.n))
  /\ UNCHANGED <<stack, memory, calls>>
  /\ Proceed

\* To where rcx points, or to a place in the frame.
Target == IF I.op = "store" THEN Rcx ELSE I.name
Store ==
  /\ Executes({"store", "storeAt"}) /\ Mapped(Target, I.n)
  /\ memory' = Written(memory, Target, Rax, I.n)
  /\ UNCHANGED <<registers, stack, calls>>
  /\ Proceed

\* A loop over the bytes.
ZeroAtRax ==
  /\ Executes({"zero"}) /\ Mapped(Rax, I.n)
  /\ memory' = WithBytes(memory, Rax, ZeroBytes(I.n))
  /\ registers' = [registers EXCEPT !["r8"] = Rax + I.n, !["r9"] = 0]
  /\ UNCHANGED <<stack, calls>>
  /\ Proceed

\* A loop over the bytes; each passes through al.
CopyFromRax ==
  /\ Executes({"copy"}) /\ Mapped(Rax, I.n) /\ Mapped(Rcx, I.n)
  /\ memory' = Copied(memory, Rcx, Rax, I.n)
  /\ registers' = [registers EXCEPT
       !["rax"] = (@ - Low(@, 1)) + memory[@ + I.n - 1],
       !["rdx"] = Rax + I.n, !["r8"] = Rcx + I.n, !["r9"] = 0]
  /\ UNCHANGED <<stack, calls>>
  /\ Proceed

Jump ==
  /\ Executes({"skip", "skipIf"})
  /\ LET taken == I.op = "skip" \/ (Low(Rax, 4) = 0) = I.name
     IN rip' = rip + 1 + IF taken THEN I.n ELSE 0
  /\ UNCHANGED <<program, text, before, registers, stack, memory, calls, fault>>

PassArgument ==
  /\ Executes({"argument", "passOn"})
  /\ IF I.op = "argument"
     THEN registers' = With(I.name, Slot(I.n)) /\ UNCHANGED stack
     ELSE /\ registers' = With("rax", Slot(I.n))
          /\ stack' = [stack EXCEPT ![Len(stack) + 1 - I.name] = Slot(I.n)]
  /\ UNCHANGED <<memory, calls>>
  /\ Proceed

Callees ==
  {f \in DOMAIN Functions :
     IF I.op = "call" THEN f = I.name ELSE Functions[f].address = Slot(I.n)}

\* Where the calling convention has an argument; only its low bytes count.
Passed(f, i) ==
  Value(IF i <= Len(ParameterRegisters) THEN registers[ParameterRegisters[i]]
        ELSE Slot(i), Functions[f].type.parameters[i])

\* A callee leaves the bytes above its result undefined, uses every register
\* and writes to the 32 bytes above its return address.
CallFunction ==
  /\ Executes({"call", "callAt"})
  /\ \E f \in Callees, above \in {FALSE, TRUE} :
       LET type == Functions[f].type
           size == Size(type.returns)
       IN /\ calls' = Append(calls, [function |-> f,
                 arguments |-> [i \in DOMAIN type.parameters |-> Passed(f, i)]])
          /\ registers' = [r \in Registers |->
               IF r # "rax" THEN Garbage
               ELSE Low(Functions[f].result, size)
                      + IF above THEN Modulus(RegisterSize) - Modulus(size) ELSE 0]
  /\ stack' = SubSeq(stack, 1, Len(stack) - 4) \o [i \in 1..4 |-> Garbage]
  /\ UNCHANGED memory
  /\ Proceed

Trap ==
  /\ Executes({"operate", "pop", "release", "load", "store", "storeAt", "copy", "zero",
               "callAt", "error"})
  /\ CASE I.op = "operate" -> Operated = {}
       [] I.op \in {"pop", "release"} -> Underflows
       [] I.op \in {"load", "zero"} -> ~Mapped(Rax, I.n)
       [] I.op \in {"store", "storeAt"} -> ~Mapped(Target, I.n)
       [] I.op = "copy" -> ~(Mapped(Rax, I.n) /\ Mapped(Rcx, I.n))
       [] I.op = "callAt" -> Callees = {}
       [] I.op = "error" -> TRUE
  /\ fault' = TRUE
  /\ UNCHANGED <<program, text, before, rip, registers, stack, memory, calls>>

Next ==
  \/ Start
  \/ MoveRegisters \/ ConvertRax \/ OperateOnRax
  \/ PushOrPop \/ Load \/ Store \/ CopyFromRax \/ ZeroAtRax \/ Jump
  \/ PassArgument \/ CallFunction \/ Trap

Spec == Init /\ [][Next]_vars

(***************************************************************************)
(* The expressions the generator does in C's types.  What is excluded has  *)
(* results that differ from C's, each for a reason of its own.             *)
(***************************************************************************)
IsNarrow(t) == IsInteger(t) /\ t.size < SignedInt.size
IsWide(t) == IsInteger(t) /\ t.size > SignedInt.size
SameRepresentation(s, t) == s.size = t.size /\ s.signed = t.signed

LvalueOps == {"object", "dereference", "[]", ".", "->"}
\* The operand that is not read, only located.
LocatedOperands(e) ==
  IF e.op \in {"=", "address", "."} \cup UpdateOps \cup DOMAIN Compound THEN {1}
  ELSE {}

\* A narrow object is loaded without its sign, which a conversion to another
\* width than that of int restores; a narrow compound assignment or update
\* leaves a value that has not been narrowed.  t is the operand's type in C, the
\* sizes are those the value is converted to at once.
ReadPlainly(operand, t, sizes) ==
  \/ ~IsNarrow(t)
  \/ operand.op \in LvalueOps /\ (~t.signed \/ sizes \cap {t.size, RegisterSize} # {})
  \/ operand.op = "cast"
ConversionSizes(e, t) == IF e.op \in {"=", "cast"} THEN {Size(t)} ELSE {}

\* A conversion to _Bool takes the low byte.
IsConvertedPlainly(t) == t # Bool

\* An int is not widened before it is added to an address or passed.
WideEnough(operand, t, size) ==
  operand.op = "literal" \/ Size(t) >= size \/ (IsInteger(t) /\ ~t.signed)

\* s and t are C's types of the operands.
PlainBinary(e, s, t) ==
  CASE IsInteger(s) /\ IsInteger(t) ->
         SameRepresentation(IntegerBinaryType(e.args[1].is.type, e.args[2].is.type),
                            C!ArithmeticType(e.op, s, t))
    [] IsPointer(s) /\ IsInteger(t) -> WideEnough(e.args[2], t, RegisterSize)
    [] IsInteger(s) /\ IsPointer(t) -> WideEnough(e.args[1], s, RegisterSize)
    [] OTHER -> TRUE

\* Done in 32 bits and as signed.
PlainCompound(op, s, t, value) ==
  IF IsPointer(s) THEN WideEnough(value, t, RegisterSize)
  ELSE /\ ~IsWide(s) /\ ~IsWide(t)
       /\ op \in {"/", "%", ">>"} =>
            C!ArithmeticType(op, s, t).signed /\ ~(IsNarrow(s) /\ s.signed)

\* t is C's type of the node, s are those of its operands.
PlainNode(e, t, s) ==
  /\ \A i \in DOMAIN e.args \ LocatedOperands(e) :
       ReadPlainly(e.args[i], s[i], ConversionSizes(e, t))
  /\ CASE e.op = "[]" -> WideEnough(e.args[2], s[2], RegisterSize)
       [] e.op = "!" -> ~IsWide(s[1])
       [] e.op \in UnaryOps \ {"!"} -> SameRepresentation(t, SignedInt)
       [] e.op \in LogicalOps -> \A i \in {1, 2} : ~IsWide(s[i])
       [] e.op \in BinaryOps -> PlainBinary(e, Decayed(s[1]), Decayed(s[2]))
       [] e.op = "?:" ->
            /\ ~IsWide(s[1])
            /\ IsInteger(t) => \A i \in {2, 3} : SameRepresentation(s[i], t)
       [] e.op = "=" -> /\ IsConvertedPlainly(t)
                        /\ IsAggregate(t) => e.args[2].is.lvalue
       [] e.op = "cast" -> IsConvertedPlainly(t)
       [] e.op = "sizeof" -> e.args[1].op # "string"
       [] e.op \in UpdateOps -> ~IsWide(t)
       [] e.op \in DOMAIN Compound -> PlainCompound(Compound[e.op], t, s[2], e.args[2])
       [] e.op = "call" ->
            LET type == e.args[1].is.type
                f == IF IsPointer(type) THEN type.to ELSE type
            IN \A i \in DOMAIN f.parameters :
                 WideEnough(e.args[i + 1], s[i + 1], Size(f.parameters[i]))
       [] OTHER -> TRUE

RECURSIVE IsPlain(_)
IsPlain(e) ==
  PlainNode(e, C!CType(e), C!OperandTypes(e)) /\ \A i \in DOMAIN e.args : IsPlain(e.args[i])

(***************************************************************************)
(* The constants the analysis calculates in C's types: those of signed     *)
(* types, whose values it represents, and conversions that keep the value  *)
(* or are to an unsigned narrow type.                                      *)
(***************************************************************************)
RECURSIVE IsConstantExpression(_)
IsConstantExpression(e) ==
  /\ \/ e.op \in {"literal", "enumerator", "?:"} \cup UnaryOps \cup BinaryOps \cup LogicalOps
     \/ e.op = "cast" /\ IsInteger(e.type)
     \/ e.op = "sizeof"
  /\ e.op # "sizeof" => \A i \in DOMAIN e.args : IsConstantExpression(e.args[i])

CValue(e) == C!ConstantMeaning(e).value
PlainCast(t, v) ==
  \/ IsNarrow(t) /\ ~t.signed /\ IsConvertedPlainly(t)
  \/ C!Converted(v, t) = v /\ (IsNarrow(t) => v >= 0)

\* c: what C says of e; v, s: the values and the types of its operands; t: its type.
PlainConstantNode(e, c, v, t, s) ==
  /\ c.ok
  /\ CASE e.op = "literal" -> e.value <= MaxWord
       [] e.op = "cast" -> PlainCast(t, v[1])
       [] e.op \in Shifts -> v[1] >= 0 /\ v[2] < WordBits - 1 /\ t.signed
       [] e.op \in BinaryOps \ Shifts -> C!ArithmeticType(e.op, s[1], s[2]).signed
       [] e.op \in UnaryOps \cup {"?:"} -> t.signed
       [] OTHER -> TRUE

RECURSIVE IsPlainConstant(_)
IsPlainConstant(e) ==
  /\ e.op # "sizeof" => \A i \in DOMAIN e.args : IsPlainConstant(e.args[i])
  /\ PlainConstantNode(e, C!ConstantMeaning(e), [i \in DOMAIN e.args |-> CValue(e.args[i])],
                       C!CType(e), C!OperandTypes(e))

\* What the calculation of enumerators knows.
RECURSIVE IsCalculated(_)
IsCalculated(e) ==
  e.op \notin {"cast", "sizeof"} /\ \A i \in DOMAIN e.args : IsCalculated(e.args[i])

(***************************************************************************)
(* Declarations done in C's types.                                         *)
(***************************************************************************)
PlainGlobal(t, value) ==
  \/ value.op = "string" \/ value.is.addresses # {}
  \/ /\ IsConstantExpression(value) /\ IsPlainConstant(value)
     /\ t = Bool => CValue(value) \in {0, 1}

PlainLocal(t, value) ==
  /\ IsPlain(value)
  /\ IsAggregate(t) => value.op = "string" \/ value.is.lvalue
  /\ IsScalar(t) => ReadPlainly(value, C!CType(value), {Size(t)}) /\ IsConvertedPlainly(t)

RECURSIVE IsPlainInitializer(_, _, _)
IsPlainInitializer(op, t, init) ==
  IF init.op = "{}"
  THEN \A i \in DOMAIN init.args : IsPlainInitializer(op, ItemType(t, i), init.args[i])
  ELSE IF op = "global" THEN PlainGlobal(t, init) ELSE PlainLocal(t, init)

IsPlainProgram(e) ==
  IF e.op \in Declarations THEN IsPlainInitializer(e.op, e.type, e.args[1])
  ELSE IsPlain(e)

(***************************************************************************)
(* Properties.                                                             *)
(***************************************************************************)
\* Where C defines what the expression does, its code leaves the memory C says,
\* makes the calls C says with the arguments C says, gives back all of the
\* stack, and does not trap.
ComputesAsC ==
  Finished \/ fault =>
    \E c \in {C!Meaning(program, before)} :
      c.ok => /\ ~fault
              /\ memory = c.memory
              /\ calls = c.calls
              /\ stack = << >>

\* The same of the expressions and declarations it does in C's types: after a
\* declaration the object holds what C says, whatever was in its place, and
\* before the program starts an object of file scope does.
PlainIsComputedAsC ==
  Finished \/ fault => (IsPlainProgram(program) => ComputesAsC)

\* A constant expression whose value C defines is folded to that value, in the
\* places where the analysis folds as well as in an enumerator; nothing that is
\* no constant expression is.  A check for an overflow that misses one, or that
\* sees one where there is none, breaks it.
RECURSIVE IsFoldedAsC(_)
IsFoldedAsC(e) ==
  /\ e.is.constants # {} => IsConstantExpression(e)
  /\ IsConstantExpression(e) /\ IsPlainConstant(e) =>
       \A v \in {CValue(e)} :
         e.is.constants = {v} /\ (IsCalculated(e) => EnumConstant(e) = {v})
  /\ \A i \in DOMAIN e.args : IsFoldedAsC(e.args[i])
FoldsAsC == rip = 0 => IsFoldedAsC(program)

\* The code generator has instructions for what the semantic analysis accepts:
\* none of its own errors is reached.
AcceptedIsLowered ==
  \A i \in DOMAIN text : text[i].op # "error"

\* At a call that is no operand of another operator rsp is a multiple of 16, as
\* the calling convention asks: what it releases after the call is all there is.
OutermostCallsAreAligned ==
  Executes({"call", "callAt"}) /\ Len(stack) = text[rip + 1].n =>
    Len(stack) % 2 = 0
=============================================================================
