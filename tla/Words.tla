-------------------------------- MODULE Words --------------------------------
(***************************************************************************)
(* The arithmetic instructions on 16-bit words as LinchpinST (Lpst) and    *)
(* Linchpin128 (Lp128) compute them.  A word is a number in 0 .. W - 1;    *)
(* the C code casts it to int16_t where an instruction is signed.          *)
(***************************************************************************)
EXTENDS Integers

W == 65536

FalseWord == 32769 \* 0x8001, FALSE

Word(i) == i % W

Signed(w) == IF w < W \div 2 THEN w ELSE w - W

Magnitude(i) == IF i < 0 THEN -i ELSE i

\* C's division truncates toward zero, and its remainder goes with it.
Quotient(a, b) ==
  LET size == Magnitude(a) \div Magnitude(b)
  IN  IF (a < 0) = (b < 0) THEN size ELSE -size

Remainder(a, b) == a - (b * Quotient(a, b))

LeftShift(w, count) == IF count > 15 THEN 0 ELSE Word(w * 2 ^ count)

RightShift(w, count) == IF count > 15 THEN 0 ELSE w \div 2 ^ count

\* The sign comes in from the left: the quotient rounds down.
SignedShift(w, count) ==
  Word(Signed(w) \div (IF count > 15 THEN W ELSE 2 ^ count))

Divide(a, b) == IF b = 0 THEN 0 ELSE Word(Quotient(Signed(a), Signed(b)))

Shift(a, b) ==
  IF Signed(b) >= 0 THEN LeftShift(a, Signed(b)) ELSE RightShift(a, -Signed(b))

\* Variant of LpstModulus: the remainder is left as it is.
LpstModulusPlain(a, b) ==
  IF b = 0 THEN 0 ELSE Word(Remainder(Signed(a), Signed(b)))

LpstModulus(a, b) ==
  IF b = 0 THEN 0
  ELSE LET rest == Remainder(Signed(a), Signed(b))
       IN  Word(IF rest < 0 THEN rest + Signed(b) ELSE rest)

LpstArithmeticShift(a, b) ==
  IF Signed(b) >= 0 THEN LeftShift(a, Signed(b))
                    ELSE SignedShift(a, -Signed(b))

Lp128Modulus(a, b) ==
  IF b = 0 THEN 0 ELSE Word(Remainder(Signed(a), Signed(b)))

Lp128ArithmeticShift(a, b) == Shift(a, b)

Operations == {"ADD", "SUB", "MUL", "DIV", "MOD", "NEG", "ASHIFT", "SHIFT"}

LpstResult(op, a, b) ==
  CASE op = "ADD"    -> Word(a + b)
    [] op = "SUB"    -> Word(a - b)
    [] op = "MUL"    -> Word(Signed(a) * Signed(b))
    [] op = "DIV"    -> Divide(a, b)
    [] op = "MOD"    -> LpstModulus(a, b)
    [] op = "NEG"    -> Word(-Signed(b))
    [] op = "ASHIFT" -> LpstArithmeticShift(a, b)
    [] op = "SHIFT"  -> Shift(a, b)

Lp128Result(op, a, b) ==
  CASE op = "ADD"    -> Word(a + b)
    [] op = "SUB"    -> Word(a - b)
    [] op = "MUL"    -> Word(Signed(a) * Signed(b))
    [] op = "DIV"    -> Divide(a, b)
    [] op = "MOD"    -> Lp128Modulus(a, b)
    [] op = "NEG"    -> Word(-Signed(b))
    [] op = "ASHIFT" -> Lp128ArithmeticShift(a, b)
    [] op = "SHIFT"  -> Shift(a, b)
==============================================================================
