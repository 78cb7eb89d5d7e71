------------------------------- MODULE WordAlu -------------------------------
(***************************************************************************)
(* What the arithmetic of the core computes on words, beside MulDivAlu:    *)
(* the ALU of cpu_top and the values the AMO operations of rv32a_atomic    *)
(* store.                                                                  *)
(***************************************************************************)
EXTENDS MulDivAlu

Truth(p) == IF p THEN 1 ELSE 0

-----------------------------------------------------------------------------
\* A word by its bits: what `^`, `|` and `&` do is said bit by bit.
Places == 0..(WIDTH - 1)
Bit(x, i) == (x \div 2^i) % 2
WordOf(bits) ==
  LET low[n \in 0..WIDTH] == IF n = 0 THEN 0 ELSE low[n - 1] + bits[n - 1] * 2^(n - 1)
  IN low[WIDTH]

Xor(a, b) == WordOf([i \in Places |-> (Bit(a, i) + Bit(b, i)) % 2])
And(a, b) == WordOf([i \in Places |-> Bit(a, i) * Bit(b, i)])
Or(a, b)  == WordOf([i \in Places |-> Truth(Bit(a, i) + Bit(b, i) > 0)])

-----------------------------------------------------------------------------
AluOps == {"ADD", "SUB", "SLL", "SLT", "SLTU", "XOR", "SRL", "SRA", "OR", "AND"}

\* Signed \div rounds down, as an arithmetic shift does.
ShiftAmount(b) == b % WIDTH
ArithmeticShiftLogical(a, n) == a \div 2^n               \* variant: zeros shifted in
ArithmeticShift(a, n) == (Signed(a) \div 2^n) % Modulus

AluResult(op, a, b) ==
  CASE op = "ADD"  -> (a + b) % Modulus
    [] op = "SUB"  -> (a - b) % Modulus
    [] op = "SLL"  -> (a * 2^ShiftAmount(b)) % Modulus
    [] op = "SLT"  -> Truth(Signed(a) < Signed(b))
    [] op = "SLTU" -> Truth(a < b)
    [] op = "XOR"  -> Xor(a, b)
    [] op = "SRL"  -> a \div 2^ShiftAmount(b)
    [] op = "SRA"  -> ArithmeticShift(a, ShiftAmount(b))
    [] op = "OR"   -> Or(a, b)
    [] op = "AND"  -> And(a, b)

-----------------------------------------------------------------------------
AmoOps == {"SWAP", "ADD", "XOR", "AND", "OR", "MIN", "MAX", "MINU", "MAXU", "OTHER"}

AmoResult(op, loaded, rs2) ==
  CASE op = "SWAP" -> rs2
    [] op = "ADD"  -> (loaded + rs2) % Modulus
    [] op = "XOR"  -> Xor(loaded, rs2)
    [] op = "AND"  -> And(loaded, rs2)
    [] op = "OR"   -> Or(loaded, rs2)
    [] op = "MIN"  -> IF Signed(loaded) < Signed(rs2) THEN loaded ELSE rs2
    [] op = "MAX"  -> IF Signed(loaded) > Signed(rs2) THEN loaded ELSE rs2
    [] op = "MINU" -> IF loaded < rs2 THEN loaded ELSE rs2
    [] op = "MAXU" -> IF loaded > rs2 THEN loaded ELSE rs2
    [] OTHER       -> loaded
=============================================================================
