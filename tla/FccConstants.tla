----------------------------- MODULE FccConstants -----------------------------
(***************************************************************************)
(* What semantic analysis computes of integer constants (fcc_sema.c).  It  *)
(* calculates in int64_t, whatever the types of the operands, and has to   *)
(* see an overflow coming: the operation itself would be undefined.  An    *)
(* operation yields the set of its value, which is empty if it is refused. *)
(* The bitwise operators, which cannot overflow, are in FccExpressionTypes.*)
(***************************************************************************)
EXTENDS Words

FoldUnless(refused, v) == IF refused THEN {} ELSE {v}

\* One operand is compared with what the other leaves of the range.
AddOverflows(l, r) ==
  (r > 0 /\ l > MaxWord - r) \/ (r < 0 /\ l < MinWord - r)
SubtractOverflows(l, r) ==
  (r < 0 /\ l > MaxWord + r) \/ (r > 0 /\ l < MinWord + r)
\* Mistaken form: the quotient of the other limit.
MultiplyOverflowsOneLimit(l, r) ==
  \/ l > 0 /\ r > 0 /\ l > Quotient(MaxWord, r)
  \/ l > 0 /\ r < 0 /\ r < Quotient(MinWord, l)
  \/ l < 0 /\ r > 0 /\ l < Quotient(MaxWord, r)
  \/ l < 0 /\ r < 0 /\ l < Quotient(MaxWord, r)
MultiplyOverflows(l, r) ==
  \/ l > 0 /\ r > 0 /\ l > Quotient(MaxWord, r)
  \/ l > 0 /\ r < 0 /\ r < Quotient(MinWord, l)
  \/ l < 0 /\ r > 0 /\ l < Quotient(MinWord, r)
  \/ l < 0 /\ r < 0 /\ l < Quotient(MaxWord, r)
\* Of a quotient and of a remainder.
DivideOverflows(l, r) == r = 0 \/ (l = MinWord /\ r = -1)
\* A word is not shifted by its whole width.
RightShiftRefused(l, r) == l < 0 \/ r < 0 \/ r >= WordBits - 1
LeftShiftOverflows(l, r) == RightShiftRefused(l, r) \/ l > MaxWord \div 2 ^ r

LiteralConstant(v) == FoldUnless(v > MaxWord, v)

UnaryConstant(op, v) ==
  CASE op = "plus" -> {v}
    [] op = "negate" -> FoldUnless(v = MinWord, -v)
    [] op = "!" -> {Truth(v = 0)}
    [] op = "~" -> {-v - 1}

ArithmeticConstant(op, l, r) ==
  CASE op = "+" -> FoldUnless(AddOverflows(l, r), l + r)
    [] op = "-" -> FoldUnless(SubtractOverflows(l, r), l - r)
    [] op = "*" -> FoldUnless(MultiplyOverflows(l, r), l * r)
    [] op = "/" -> FoldUnless(DivideOverflows(l, r), Quotient(l, r))
    [] op = "%" -> FoldUnless(DivideOverflows(l, r), Remainder(l, r))
    [] op = "<<" -> FoldUnless(LeftShiftOverflows(l, r), l * 2 ^ r)
    [] op = ">>" -> FoldUnless(RightShiftRefused(l, r), l \div 2 ^ r)
    [] op = "&&" -> {Truth(l # 0 /\ r # 0)}
    [] op = "||" -> {Truth(l # 0 \/ r # 0)}
    [] OTHER -> {Compare(op, l, r)}
=============================================================================
