-------------------------------- MODULE Words --------------------------------
(***************************************************************************)
(* Words of WordBits bits in two's complement, which are int64_t in the    *)
(* compiler, and the arithmetic of C and of the processor on integers.     *)
(***************************************************************************)
EXTENDS Integers

CONSTANT WordBits
ASSUME WordBitsAssumption ==
  /\ WordBits \in Nat \ {0}
  /\ \A n \in 0 .. WordBits : 2 ^ n \in Nat \ {0}

MaxWord == 2 ^ (WordBits - 1) - 1
MinWord == -MaxWord - 1
Word == MinWord .. MaxWord

Truth(b) == IF b THEN 1 ELSE 0
Abs(v) == IF v < 0 THEN -v ELSE v
\* Division truncates.
Quotient(x, y) == IF (x < 0) = (y < 0) THEN Abs(x) \div Abs(y)
                  ELSE -(Abs(x) \div Abs(y))
Remainder(x, y) == x - y * Quotient(x, y)
Compare(op, x, y) ==
  Truth(CASE op = "<" -> x < y [] op = "<=" -> x <= y [] op = ">" -> x > y
          [] op = ">=" -> x >= y [] op = "==" -> x = y [] op = "!=" -> x # y)
=============================================================================
