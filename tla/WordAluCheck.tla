---------------------------- MODULE WordAluCheck ----------------------------
(***************************************************************************)
(* The core's arithmetic against reference definitions: sets of bits for   *)
(* logic and shifts, modular sums, extremes under the signed and the       *)
(* unsigned order, and for rv32m_muldiv the equations that define products, *)
(* quotients and remainders.                                               *)
(***************************************************************************)
EXTENDS WordAlu
VARIABLES rs1, rs2      \* one pair of operands

Bits(x) == {i \in Places : Bit(x, i) = 1}
Negative(x) == (WIDTH - 1) \in Bits(x)

\* Two's complement order: negative words come before the others, and within
\* each half the order is that of the bits.
SignedBelow(x, y) == (Negative(x) /\ ~Negative(y)) \/ ((Negative(x) <=> Negative(y)) /\ x < y)

\* cpu_top's ALU: sums and differences up to a carry, shifts move the bits and
\* SRA copies the sign, the comparisons follow the two orders.
AluWords ==
  LET r(op) == AluResult(op, rs1, rs2)
      n == rs2 % WIDTH
  IN /\ \E carry \in 0..1 : rs1 + rs2 = r("ADD") + carry * Modulus
     /\ AluResult("ADD", r("SUB"), rs2) = rs1
     /\ r("SLT") = 1 <=> SignedBelow(rs1, rs2)
     /\ r("SLTU") = 1 <=> rs1 < rs2
     /\ Bits(r("SLL")) = {i \in Places : i - n \in Bits(rs1)}
     /\ Bits(r("SRL")) = {i \in Places : i + n \in Bits(rs1)}
     /\ Bits(r("SRA")) = {i \in Places : i + n \in Bits(rs1) \/ (i + n >= WIDTH /\ Negative(rs1))}
     /\ Bits(r("XOR")) = (Bits(rs1) \ Bits(rs2)) \cup (Bits(rs2) \ Bits(rs1))
     /\ Bits(r("AND")) = Bits(rs1) \cap Bits(rs2)
     /\ Bits(r("OR")) = Bits(rs1) \cup Bits(rs2)
     /\ \A op \in AluOps : r(op) \in Words

\* Each AMO of rv32a_atomic stores the word its name promises.
AmoWords ==
  LET r(op) == AmoResult(op, rs1, rs2)
      Pick(op, Worse(_, _)) ==
        r(op) \in {rs1, rs2} /\ \A x \in {rs1, rs2} : ~Worse(r(op), x)
  IN /\ \E carry \in 0..1 : rs1 + rs2 = r("ADD") + carry * Modulus
     /\ Bits(r("XOR")) = (Bits(rs1) \ Bits(rs2)) \cup (Bits(rs2) \ Bits(rs1))
     /\ Bits(r("AND")) = Bits(rs1) \cap Bits(rs2)
     /\ Bits(r("OR")) = Bits(rs1) \cup Bits(rs2)
     /\ Pick("MIN", LAMBDA x, y : SignedBelow(y, x)) /\ Pick("MAX", SignedBelow)
     /\ Pick("MINU", LAMBDA x, y : y < x) /\ Pick("MAXU", LAMBDA x, y : x < y)
     /\ \A op \in AmoOps : r(op) \in Words

\* High and low word of rv32m_muldiv's products together are the full product
\* under each reading of the operands' signs.
Products ==
  LET r(op) == MulDivResult(op, rs1, rs2)
  IN /\ Signed(r("MULH")) * Modulus + r("MUL") = Signed(rs1) * Signed(rs2)
     /\ Signed(r("MULHSU")) * Modulus + r("MUL") = Signed(rs1) * rs2
     /\ r("MULHU") * Modulus + r("MUL") = rs1 * rs2

\* Quotient and remainder of rv32m_muldiv fit the dividend, the remainder is
\* smaller than the divisor and has the dividend's sign; division by zero and the
\* one overflow give the words the instruction set fixes.
Divisions ==
  LET r(op) == MulDivResult(op, rs1, rs2)
      q == Signed(r("DIV"))
      m == Signed(r("REM"))
  IN IF rs2 = 0
     THEN /\ r("DIV") = MaxWord /\ r("DIVU") = MaxWord
          /\ r("REM") = rs1 /\ r("REMU") = rs1
     ELSE /\ q * Signed(rs2) + m \in {Signed(rs1), Signed(rs1) + Modulus, Signed(rs1) - Modulus}
          /\ (q * Signed(rs2) + m # Signed(rs1)) => (rs1 = IntMin /\ rs2 = MaxWord)
          /\ Abs(m) < Abs(Signed(rs2))
          /\ m # 0 => (m < 0 <=> Signed(rs1) < 0)
          /\ r("DIVU") * rs2 + r("REMU") = rs1 /\ r("REMU") \in 0..(rs2 - 1)

\* The operations of ALU and AMOs compute what the definitions above say, for every
\* pair of words.
AluCorrect == AluWords /\ AmoWords

\* The operations of the multiplier compute what the equations above say, for every
\* pair of words.
MulDivExact == Products /\ Divisions
=============================================================================
