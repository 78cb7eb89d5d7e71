------------------------------ MODULE MulDivAlu ------------------------------
(***************************************************************************)
(* What the operations of rv32m_muldiv compute, on words of WIDTH bits     *)
(* held as naturals (two's complement where signed).                       *)
(***************************************************************************)
EXTENDS WordWidth

Modulus == 2^WIDTH
MaxWord == Modulus - 1       \* all ones; -1 when signed
IntMin == 2^(WIDTH - 1)      \* the sign bit alone
Words == 0..MaxWord

Signed(a) == IF a >= IntMin THEN a - Modulus ELSE a

-----------------------------------------------------------------------------
MulOps == {"MUL", "MULH", "MULHSU", "MULHU"}
DivOps == {"DIV", "DIVU", "REM", "REMU"}

High(product) == (product \div Modulus) % Modulus

\* Division of the source language rounds towards zero; the remainder takes the
\* sign of the dividend.
Abs(n) == IF n < 0 THEN -n ELSE n
QuotientFloor(n, d) == IF d > 0 THEN n \div d ELSE (-n) \div (-d)  \* variant
Quotient(n, d) == LET q == Abs(n) \div Abs(d) IN IF (n < 0) # (d < 0) THEN -q ELSE q
Remainder(n, d) == n - d * Quotient(n, d)

MulDivResult(op, a, b) ==
  CASE op = "MUL"    -> (Signed(a) * Signed(b)) % Modulus
    [] op = "MULH"   -> High(Signed(a) * Signed(b))
    [] op = "MULHSU" -> High(Signed(a) * b)
    [] op = "MULHU"  -> High(a * b)
    [] op = "DIV"  -> (IF b = 0 THEN MaxWord
                       ELSE IF a = IntMin /\ b = MaxWord THEN IntMin
                       ELSE Quotient(Signed(a), Signed(b)) % Modulus)
    [] op = "DIVU" -> (IF b = 0 THEN MaxWord ELSE a \div b)
    [] op = "REM"  -> (IF b = 0 THEN a
                       ELSE IF a = IntMin /\ b = MaxWord THEN 0
                       ELSE Remainder(Signed(a), Signed(b)) % Modulus)
    [] op = "REMU" -> (IF b = 0 THEN a ELSE a % b)
=============================================================================
