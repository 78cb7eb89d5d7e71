-------------------------- MODULE Rv32mMuldivProof --------------------------
(***************************************************************************)
(* Proofs about Rv32mMuldiv for every word set, operation set and latency, *)
(* and about the arithmetic of multiplier, ALU and AMOs for every width of *)
(* up to 32 bits.                                                          *)
(***************************************************************************)
EXTENDS Rv32mMuldiv, WordAluCheck, RingFacts, TLAPS

IInv == TypeOK /\ ResultOfOperands /\ LatencyExact /\ FlushAborts

LEMMA ResetInSets == ResetWord \in Word /\ ResetOp \in MulOp
  BY OpAssumption DEF ResetWord, ResetOp

LEMMA LatencyRange == \A op \in Op : Latency(op) \in 1..64
<1> SUFFICES ASSUME NEW op \in Op PROVE Latency(op) \in 1..64
  OBVIOUS
<1>1. CASE op \in MulOp
  BY <1>1, LatAssumption DEF Latency
<1>2. CASE op \notin MulOp
  BY <1>2, LatAssumption DEF Latency
<1> QED
  BY <1>1, <1>2

LEMMA InitIInv == Init => IInv
<1> SUFFICES ASSUME Init PROVE IInv
  OBVIOUS
<1>1. /\ op_reg \in Op /\ op_a \in Word /\ op_b \in Word /\ result_reg \in Word
      /\ cycle_cnt = 0 /\ elapsed = 0 /\ killed = FALSE /\ state = "IDLE"
  BY ResetInSets DEF Init, Op
<1>2. TypeOK
  <2>1. cycle_cnt \in 0..63 /\ elapsed \in Nat
    BY <1>1
  <2>2. state \in {"IDLE", "EXEC", "DONE", "FLUSH"} /\ killed \in BOOLEAN
    BY <1>1
  <2> QED
    BY <1>1, <2>1, <2>2 DEF TypeOK
<1>3. ResultOfOperands /\ LatencyExact /\ FlushAborts
  BY <1>1 DEF ResultOfOperands, LatencyExact, FlushAborts
<1> QED
  BY <1>2, <1>3 DEF IInv

LEMMA ResetIInv == Reset => IInv'
<1> SUFFICES ASSUME Reset PROVE IInv'
  OBVIOUS
<1>1. /\ op_reg' \in Op /\ op_a' \in Word /\ op_b' \in Word /\ result_reg' \in Word
      /\ cycle_cnt' = 0 /\ elapsed' = 0 /\ killed' = FALSE /\ state' = "IDLE"
  BY ResetInSets DEF Reset, Op
<1>2. TypeOK'
  <2>1. cycle_cnt' \in 0..63 /\ elapsed' \in Nat
    BY <1>1
  <2>2. state' \in {"IDLE", "EXEC", "DONE", "FLUSH"} /\ killed' \in BOOLEAN
    BY <1>1
  <2> QED
    BY <1>1, <2>1, <2>2 DEF TypeOK
<1>3. ResultOfOperands' /\ LatencyExact' /\ FlushAborts'
  BY <1>1 DEF ResultOfOperands, LatencyExact, FlushAborts
<1> QED
  BY <1>2, <1>3 DEF IInv

LEMMA AcceptIInv ==
  ASSUME IInv, NEW op \in Op, NEW a \in Word, NEW b \in Word, Accept(op, a, b)
  PROVE  IInv'
<1>1. Latency(op) \in 1..64 /\ Latency(op)' = Latency(op)
  BY LatencyRange DEF Latency
<1>2. TypeOK'
  <2>1. /\ state' \in {"IDLE", "EXEC", "DONE", "FLUSH"}
        /\ op_reg' \in Op /\ op_a' \in Word /\ op_b' \in Word /\ result_reg' \in Word
    BY DEF IInv, TypeOK, Accept
  <2>2. cycle_cnt' \in 0..63
    BY <1>1 DEF Accept, StartCount
  <2>3. elapsed' \in Nat /\ killed' \in BOOLEAN
    BY DEF Accept
  <2> QED
    BY <2>1, <2>2, <2>3 DEF TypeOK
<1>3. ResultOfOperands' /\ FlushAborts'
  BY DEF Accept, ResultOfOperands, FlushAborts
<1>4. LatencyExact'
  BY <1>1 DEF Accept, StartCount, LatencyExact, Latency
<1> QED
  BY <1>2, <1>3, <1>4 DEF IInv

LEMMA ExecIInv ==
  ASSUME IInv, NEW flush_i \in BOOLEAN, NEW stall_i \in BOOLEAN, Exec(flush_i, stall_i)
  PROVE  IInv'
<1>0. /\ cycle_cnt \in 0..63 /\ elapsed \in Nat /\ op_reg \in Op
      /\ elapsed + cycle_cnt + 1 = Latency(op_reg) /\ Latency(op_reg) \in 1..64
  BY LatencyRange DEF IInv, TypeOK, LatencyExact, Exec
<1>1. MulDiv(op_reg, op_a, op_b) \in Word
  BY MulDivAssumption DEF IInv, TypeOK, Op
<1>2. TypeOK'
  <2>1. state' \in {"FLUSH", "DONE", "EXEC"}
    BY DEF Exec, NextInExec
  <2>2. cycle_cnt' \in 0..63 /\ elapsed' \in Nat /\ result_reg' \in Word
    BY <1>0, <1>1 DEF IInv, TypeOK, Exec, CountAfter, ResultAfter
  <2> QED
    BY <2>1, <2>2 DEF IInv, TypeOK, Exec
<1>3. state' = "DONE" => cycle_cnt = 0 /\ ~stall_i
  BY DEF Exec, NextInExec
<1>4. ResultOfOperands'
  BY <1>3 DEF Exec, ResultAfter, ResultOfOperands
<1>5. LatencyExact'
  <2>1. Latency(op_reg)' = Latency(op_reg)
    BY DEF Exec, Latency
  <2>2. CASE state' = "EXEC"
    <3>1. ~(cycle_cnt = 0 /\ ~stall_i)
      BY <2>2 DEF Exec, NextInExec
    <3> QED
      BY <1>0, <2>1, <2>2, <3>1 DEF Exec, CountAfter, LatencyExact
  <2>3. CASE state' = "DONE"
    BY <1>0, <1>3, <2>1, <2>3 DEF Exec, LatencyExact
  <2>4. CASE state' = "FLUSH"
    BY <2>4 DEF LatencyExact
  <2> QED
    BY <2>2, <2>3, <2>4 DEF Exec, NextInExec
<1>6. FlushAborts'
  BY DEF IInv, FlushAborts, Exec, NextInExec
<1> QED
  BY <1>2, <1>4, <1>5, <1>6 DEF IInv

LEMMA DoneIInv ==
  ASSUME IInv, NEW stall_i \in BOOLEAN, Done(stall_i)
  PROVE  IInv'
<1>1. TypeOK'
  BY DEF IInv, TypeOK, Done
<1>2. ResultOfOperands' /\ LatencyExact' /\ FlushAborts'
  BY DEF IInv, ResultOfOperands, LatencyExact, FlushAborts, Latency, Done
<1> QED
  BY <1>1, <1>2 DEF IInv

LEMMA FlushIInv == IInv /\ Flush => IInv'
  BY DEF IInv, TypeOK, Flush, ResultOfOperands, LatencyExact, FlushAborts

LEMMA NextIInv == IInv /\ [Next]_vars => IInv'
<1> SUFFICES ASSUME IInv, [Next]_vars PROVE IInv'
  OBVIOUS
<1>1. ASSUME UNCHANGED vars PROVE IInv'
  <2>1. TypeOK'
    BY <1>1 DEF vars, IInv, TypeOK
  <2>2. ResultOfOperands' /\ LatencyExact' /\ FlushAborts'
    BY <1>1 DEF vars, IInv, ResultOfOperands, LatencyExact, FlushAborts, Latency
  <2> QED
    BY <2>1, <2>2 DEF IInv
<1>2. CASE Reset
  BY <1>2, ResetIInv
<1>3. ASSUME NEW flush_i \in BOOLEAN, NEW stall_i \in BOOLEAN, Tick(flush_i, stall_i)
      PROVE  IInv'
  BY <1>1, <1>3, AcceptIInv, ExecIInv, DoneIInv, FlushIInv DEF Tick, Idle
<1> QED
  BY <1>1, <1>2, <1>3 DEF Next

THEOREM IInvHolds == Spec => []IInv
  BY InitIInv, NextIInv, PTL DEF Spec

\* Every register of the unit keeps its type; the counter fits its six bits.
THEOREM TypeCorrect == Spec => []TypeOK
  BY IInvHolds, PTL DEF IInv

\* The result offered is that of the operands accepted, for every operation and
\* latency and every pattern of stalls and flushes.
THEOREM ResultCorrect == Spec => []ResultOfOperands
  BY IInvHolds, PTL DEF IInv

\* An operation takes its latency in unstalled cycles, neither more nor less.
THEOREM LatencyHolds == Spec => []LatencyExact
  BY IInvHolds, PTL DEF IInv

\* An operation flushed in EXEC never offers a result.
THEOREM FlushesAbort == Spec => []FlushAborts
  BY IInvHolds, PTL DEF IInv

-----------------------------------------------------------------------------
\* What the operations compute.  The sizes of words, for each width.
LEMMA WordSizes ==
  /\ IntMin \in Nat /\ IntMin >= 1 /\ Modulus = 2 * IntMin /\ MaxWord = Modulus - 1
  /\ Modulus \in Nat /\ Modulus >= 2 /\ Words = 0..(Modulus - 1)
<1>1. /\ 2^0 = 1 /\ 2^1 = 2 /\ 2^2 = 4 /\ 2^3 = 8 /\ 2^4 = 16 /\ 2^7 = 128 /\ 2^8 = 256
      /\ 2^15 = 32768 /\ 2^16 = 65536 /\ 2^31 = 2147483648 /\ 2^32 = 4294967296
  OBVIOUS
<1>2. WIDTH \in {1, 2, 4, 8, 16, 32}  BY WidthAssumption
<1>3. /\ 1 - 1 = 0 /\ 2 - 1 = 1 /\ 4 - 1 = 3 /\ 8 - 1 = 7 /\ 16 - 1 = 15 /\ 32 - 1 = 31
  OBVIOUS
<1>4. IntMin \in Nat /\ IntMin >= 1 /\ Modulus = 2 * IntMin
  <2>1. CASE WIDTH = 1  BY <1>1, <1>3, <2>1 DEF IntMin, Modulus
  <2>2. CASE WIDTH = 2  BY <1>1, <1>3, <2>2 DEF IntMin, Modulus
  <2>3. CASE WIDTH = 4  BY <1>1, <1>3, <2>3 DEF IntMin, Modulus
  <2>4. CASE WIDTH = 8  BY <1>1, <1>3, <2>4 DEF IntMin, Modulus
  <2>5. CASE WIDTH = 16  BY <1>1, <1>3, <2>5 DEF IntMin, Modulus
  <2>6. CASE WIDTH = 32  BY <1>1, <1>3, <2>6 DEF IntMin, Modulus
  <2> QED  BY <1>2, <2>1, <2>2, <2>3, <2>4, <2>5, <2>6
<1> QED  BY <1>4 DEF MaxWord, Words

\* Division rounds down, and quotient and remainder are determined by that.
LEMMA DivMod ==
  ASSUME NEW x \in Int, NEW m \in Nat, m > 0
  PROVE  /\ x \div m \in Int /\ x % m \in 0..(m - 1)
         /\ x = (x \div m) * m + (x % m)
  OBVIOUS

LEMMA Monotone ==
  ASSUME NEW x \in Int, NEW y \in Int, x <= y, NEW m \in Nat PROVE x * m <= y * m
<1>1. y - x \in Nat /\ y = x + (y - x)  OBVIOUS
<1>2. (y - x) * m \in Nat  BY <1>1
<1>3. y * m = x * m + (y - x) * m  BY <1>1
<1> QED  BY <1>2, <1>3

LEMMA DivIsUnique ==
  ASSUME NEW m \in Nat, m > 0, NEW q \in Int, NEW r \in 0..(m - 1)
  PROVE  (q * m + r) \div m = q /\ (q * m + r) % m = r
<1> DEFINE x == q * m + r
           k == x \div m
<1>1. x \in Int /\ k \in Int /\ x % m \in 0..(m - 1) /\ x = k * m + (x % m)  BY DivMod
<1>2. ASSUME k >= q + 1 PROVE FALSE
  <2>1. (q + 1) * m <= k * m  BY <1>1, <1>2, Monotone
  <2>2. (q + 1) * m = q * m + m  OBVIOUS
  <2> QED  BY <1>1, <2>1, <2>2
<1>3. ASSUME q >= k + 1 PROVE FALSE
  <2>1. (k + 1) * m <= q * m  BY <1>1, <1>3, Monotone
  <2>2. (k + 1) * m = k * m + m  BY <1>1
  <2> QED  BY <1>1, <2>1, <2>2
<1>4. k = q  BY <1>1, <1>2, <1>3
<1> QED  BY <1>1, <1>4

LEMMA ModShift ==
  ASSUME NEW x \in Int, NEW k \in Int, NEW m \in Nat, m > 0
  PROVE  (x + k * m) % m = x % m
<1>1. x \div m \in Int /\ x % m \in 0..(m - 1) /\ x = (x \div m) * m + (x % m)  BY DivMod
<1> DEFINE q == x \div m
           r == x % m
<1>2. x + k * m = (q + k) * m + r  BY <1>1
<1>3. q + k \in Int /\ r \in 0..(m - 1)  BY <1>1
<1> HIDE DEF q, r
<1>4. ((q + k) * m + r) % m = r  BY <1>3, DivIsUnique
<1> QED  BY <1>2, <1>4 DEF r

LEMMA SignedWord ==
  ASSUME NEW x \in Words
  PROVE  /\ Signed(x) \in (-IntMin)..(IntMin - 1)
         /\ x = Signed(x) \/ x = Signed(x) + Modulus
         /\ x # 0 <=> Signed(x) # 0
  BY WordSizes DEF Signed

LEMMA SignedOfMod ==
  ASSUME NEW x \in (-IntMin)..(IntMin - 1) PROVE Signed(x % Modulus) = x
<1>1. CASE x >= 0
  <2>1. x = 0 * Modulus + x /\ x \in 0..(Modulus - 1)  BY <1>1, WordSizes
  <2>2. x % Modulus = x  BY <2>1, WordSizes, DivIsUnique
  <2> QED  BY <1>1, <2>2, WordSizes DEF Signed
<1>2. CASE x < 0
  <2>1. x = (-1) * Modulus + (x + Modulus) /\ x + Modulus \in 0..(Modulus - 1)
    BY <1>2, WordSizes
  <2>2. x % Modulus = x + Modulus  BY <2>1, WordSizes, DivIsUnique
  <2> QED  BY <1>2, <2>2, WordSizes DEF Signed
<1> QED  BY <1>1, <1>2

\* High and low word make up a product that fits two words.
LEMMA HighAndLow ==
  ASSUME NEW p \in Int, (-IntMin) * Modulus <= p, p < IntMin * Modulus
  PROVE  Signed(High(p)) * Modulus + (p % Modulus) = p
<1> DEFINE q == p \div Modulus
<1>0. Modulus \in Nat /\ Modulus > 0  BY WordSizes
<1>1. q \in Int /\ p % Modulus \in 0..(Modulus - 1) /\ p = q * Modulus + (p % Modulus)
  BY <1>0, DivMod
<1> HIDE DEF q
<1>2. ASSUME q >= IntMin PROVE FALSE
  <2>1. IntMin * Modulus <= q * Modulus  BY <1>1, <1>2, WordSizes, Monotone
  <2> QED  BY <1>1, <2>1, WordSizes
<1>3. ASSUME q + 1 <= -IntMin PROVE FALSE
  <2>1. (q + 1) * Modulus <= (-IntMin) * Modulus  BY <1>1, <1>3, WordSizes, Monotone
  <2>2. (q + 1) * Modulus = q * Modulus + Modulus  BY <1>1, WordSizes
  <2> QED  BY <1>1, <2>1, <2>2, WordSizes
<1>4. q \in (-IntMin)..(IntMin - 1)  BY <1>1, <1>2, <1>3, WordSizes
<1>5. Signed(High(p)) = q  BY <1>4, SignedOfMod DEF High, q
<1> QED  BY <1>1, <1>5

LEMMA ProductBounds ==
  ASSUME NEW h \in Nat, NEW k \in Nat, NEW x \in Int, NEW y \in Int,
         -h <= x, x <= h, -k <= y, y <= k
  PROVE  -(h * k) <= x * y /\ x * y <= h * k
<1>1. (h - x) \in Nat /\ (h + x) \in Nat /\ (k - y) \in Nat /\ (k + y) \in Nat  OBVIOUS
<1>2. /\ (h - x) * (k + y) >= 0 /\ (h + x) * (k - y) >= 0
      /\ (h - x) * (k - y) >= 0 /\ (h + x) * (k + y) >= 0
  BY <1>1
<1>3. /\ (h - x) * (k + y) = h * k + h * y - x * k - x * y
      /\ (h + x) * (k - y) = h * k - h * y + x * k - x * y
      /\ (h - x) * (k - y) = h * k - h * y - x * k + x * y
      /\ (h + x) * (k + y) = h * k + h * y + x * k + x * y
  OBVIOUS
<1> QED  BY <1>2, <1>3

\* The three readings of a pair of words differ by multiples of Modulus.
LEMMA SameLowWord ==
  ASSUME NEW x \in Words, NEW y \in Words
  PROVE  /\ (Signed(x) * y) % Modulus = (Signed(x) * Signed(y)) % Modulus
         /\ (x * y) % Modulus = (Signed(x) * Signed(y)) % Modulus
<1>1. /\ Signed(x) \in Int /\ Signed(y) \in Int /\ x \in Int /\ y \in Int
      /\ Modulus \in Nat /\ Modulus > 0
  BY WordSizes, SignedWord
<1>2. PICK j \in {0, 1} : x = Signed(x) + j * Modulus  BY <1>1, SignedWord
<1>3. PICK k \in {0, 1} : y = Signed(y) + k * Modulus  BY <1>1, SignedWord
<1>4. Signed(x) * y = Signed(x) * Signed(y) + (Signed(x) * k) * Modulus
  <2>1. Signed(x) * (Signed(y) + k * Modulus)
          = Signed(x) * Signed(y) + Signed(x) * (k * Modulus)
    BY <1>1
  <2>2. Signed(x) * (k * Modulus) = (Signed(x) * k) * Modulus  BY <1>1
  <2> QED  BY <1>3, <2>1, <2>2
<1>5. x * y = Signed(x) * y + (j * y) * Modulus
  <2>1. (Signed(x) + j * Modulus) * y = Signed(x) * y + (j * Modulus) * y  BY <1>1
  <2>2. (j * Modulus) * y = (j * y) * Modulus  BY <1>1
  <2> QED  BY <1>2, <2>1, <2>2
<1>6. (Signed(x) * y) % Modulus = (Signed(x) * Signed(y)) % Modulus
  <2> DEFINE p == Signed(x) * Signed(y)
             n == Signed(x) * k
  <2>1. p \in Int /\ n \in Int /\ Signed(x) * y = p + n * Modulus  BY <1>1, <1>3, <1>4
  <2> HIDE DEF p, n
  <2>2. (p + n * Modulus) % Modulus = p % Modulus  BY <1>1, <2>1, ModShift
  <2> QED  BY <2>1, <2>2 DEF p
<1>7. (x * y) % Modulus = (Signed(x) * y) % Modulus
  <2> DEFINE p == Signed(x) * y
             n == j * y
  <2>1. p \in Int /\ n \in Int /\ x * y = p + n * Modulus  BY <1>1, <1>2, <1>5
  <2> HIDE DEF p, n
  <2>2. (p + n * Modulus) % Modulus = p % Modulus  BY <1>1, <2>1, ModShift
  <2> QED  BY <2>1, <2>2 DEF p
<1> QED  BY <1>6, <1>7

LEMMA ProductsAreExact ==
  ASSUME NEW x \in Words, NEW y \in Words
  PROVE  LET r(op) == MulDivResult(op, x, y)
         IN /\ Signed(r("MULH")) * Modulus + r("MUL") = Signed(x) * Signed(y)
            /\ Signed(r("MULHSU")) * Modulus + r("MUL") = Signed(x) * y
            /\ r("MULHU") * Modulus + r("MUL") = x * y
<1> DEFINE H == IntMin
           M == Modulus
           low == (Signed(x) * Signed(y)) % M
<1>1. /\ Signed(x) \in (-H)..(H - 1) /\ Signed(y) \in (-H)..(H - 1)
      /\ x \in 0..(M - 1) /\ y \in 0..(M - 1)
      /\ H \in Nat /\ H >= 1 /\ M = 2 * H /\ M \in Nat /\ M > 0
  BY WordSizes, SignedWord
<1>2. /\ MulDivResult("MUL", x, y) = low
      /\ MulDivResult("MULH", x, y) = High(Signed(x) * Signed(y))
      /\ MulDivResult("MULHSU", x, y) = High(Signed(x) * y)
      /\ MulDivResult("MULHU", x, y) = High(x * y)
  BY DEF MulDivResult
<1>3. (-H) * M = -(H * M) /\ H * H < H * M /\ H * (M - 1) < H * M
      /\ H * H \in Nat /\ H * M \in Nat /\ H * (M - 1) \in Nat
  <2>1. H * M = H * H + H * H /\ H * H >= H /\ H * (M - 1) = H * M - H
    BY <1>1
  <2> QED  BY <1>1, <2>1
<1> HIDE DEF H, M, low
<1>4. Signed(High(Signed(x) * Signed(y))) * M + low = Signed(x) * Signed(y)
  <2>1. /\ -(H * H) <= Signed(x) * Signed(y) /\ Signed(x) * Signed(y) <= H * H
        /\ Signed(x) * Signed(y) \in Int
    BY <1>1, ProductBounds
  <2>2. (-H) * M <= Signed(x) * Signed(y) /\ Signed(x) * Signed(y) < H * M
    BY <1>3, <2>1
  <2> QED  BY <2>1, <2>2, HighAndLow DEF H, M, low
<1>5. Signed(High(Signed(x) * y)) * M + low = Signed(x) * y
  <2>1. /\ -(H * (M - 1)) <= Signed(x) * y /\ Signed(x) * y <= H * (M - 1)
        /\ Signed(x) * y \in Int
    BY <1>1, ProductBounds
  <2>2. (-H) * M <= Signed(x) * y /\ Signed(x) * y < H * M
    BY <1>3, <2>1
  <2>3. low = (Signed(x) * y) % M  BY SameLowWord DEF low, M
  <2> QED  BY <2>1, <2>2, <2>3, HighAndLow DEF H, M
<1>6. High(x * y) * M + low = x * y
  <2> DEFINE p == x * y
             q == p \div M
  <2>1. p \in Int /\ 0 <= p /\ p <= (M - 1) * (M - 1)  BY <1>1, ProductBounds
  <2>2. q \in Int /\ p % M \in 0..(M - 1) /\ p = q * M + (p % M)
    BY <1>1, <2>1, DivMod
  <2>3. low = p % M  BY SameLowWord DEF low, M
  <2>4. High(p) = q % M  BY DEF High, M
  <2> HIDE DEF p, q
  <2>5. ASSUME q >= M PROVE FALSE
    <3>1. M * M <= q * M  BY <1>1, <2>2, <2>5, Monotone
    <3>2. (M - 1) * (M - 1) < M * M  BY <1>1
    <3> QED  BY <1>1, <2>1, <2>2, <3>1, <3>2
  <2>6. ASSUME q <= -1 PROVE FALSE
    <3>1. q * M <= (-1) * M  BY <1>1, <2>2, <2>6, Monotone
    <3> QED  BY <1>1, <2>1, <2>2, <3>1
  <2>7. q \in 0..(M - 1) /\ 0 * M + q = q  BY <1>1, <2>2, <2>5, <2>6
  <2>8. q % M = q  BY <1>1, <2>7, DivIsUnique
  <2> QED  BY <2>2, <2>3, <2>4, <2>8 DEF p
<1> QED  BY <1>2, <1>4, <1>5, <1>6 DEF M

\* Quotients round towards zero, remainders go with the dividend.
LEMMA QuotientFacts ==
  ASSUME NEW n \in Int, NEW d \in Int, d # 0
  PROVE  /\ Quotient(n, d) \in Int /\ Remainder(n, d) \in Int
         /\ Quotient(n, d) * d + Remainder(n, d) = n
         /\ Abs(Remainder(n, d)) < Abs(d)
         /\ Abs(Remainder(n, d)) <= Abs(n)
         /\ Remainder(n, d) # 0 => (Remainder(n, d) < 0 <=> n < 0)
         /\ Abs(Quotient(n, d)) <= Abs(n)
         /\ Quotient(n, d) > 0 => (n < 0 <=> d < 0)
         /\ Abs(d) >= 2 /\ n # 0 => Abs(Quotient(n, d)) < Abs(n)
<1> DEFINE u == Abs(n)
           v == Abs(d)
           t == u \div v
           s == u % v
           q == Quotient(n, d)
           m == Remainder(n, d)
<1>1. u \in Nat /\ v \in Nat /\ v >= 1  BY DEF Abs
<1>2. /\ n < 0 => u = -n
      /\ n >= 0 => u = n
      /\ d < 0 => v = -d
      /\ d > 0 => v = d
  BY DEF Abs
<1>3. t \in Int /\ s \in 0..(v - 1) /\ u = t * v + s  BY <1>1, DivMod
<1>4. q = (IF (n < 0) # (d < 0) THEN -t ELSE t) /\ m = n - d * q
  BY DEF Quotient, Remainder
<1> HIDE DEF u, v, t, s, q, m
<1>5. t >= 0
  <2>1. ASSUME t <= -1 PROVE FALSE
    <3>1. t * v <= (-1) * v  BY <1>1, <1>3, <2>1, Monotone
    <3> QED  BY <1>1, <1>3, <3>1
  <2> QED  BY <1>3, <2>1
<1>6. t <= u /\ (v >= 2 /\ u # 0 => t < u)
  <2>1. t * v = t + t * (v - 1)  BY <1>1, <1>3
  <2>2. t * (v - 1) >= 0  BY <1>1, <1>3, <1>5
  <2>3. v >= 2 => t * (v - 1) >= t
    <3>1. ASSUME v >= 2 PROVE t * (v - 1) >= t
      <4>1. t * (v - 1) = t + t * (v - 2)  BY <1>1, <1>3
      <4>2. t * (v - 2) >= 0  BY <1>1, <1>3, <1>5, <3>1
      <4> QED  BY <1>1, <1>3, <4>1, <4>2
    <3> QED  BY <3>1
  <2>4. t * v \in Int /\ t * (v - 1) \in Int  BY <1>1, <1>3
  <2> QED  BY <1>1, <1>3, <1>5, <2>1, <2>2, <2>3, <2>4
<1>7. q \in Int /\ m \in Int /\ q * d + m = n
  <2>1. q \in Int  BY <1>3, <1>4
  <2>2. m \in Int /\ d * q = q * d  BY <1>4, <2>1
  <2> QED  BY <1>4, <2>1, <2>2
<1>8. m = IF n < 0 THEN -s ELSE s
  <2>1. t * v \in Int /\ s \in Int  BY <1>1, <1>3
  <2>2. CASE n < 0 /\ d < 0
    <3>1. d * t = -(t * v)  BY <1>2, <1>3, <2>2
    <3> QED  BY <1>2, <1>3, <1>4, <2>1, <2>2, <3>1
  <2>3. CASE n < 0 /\ d > 0
    <3>1. d * (-t) = -(t * v)  BY <1>2, <1>3, <2>3
    <3> QED  BY <1>2, <1>3, <1>4, <2>1, <2>3, <3>1
  <2>4. CASE n >= 0 /\ d < 0
    <3>1. d * (-t) = t * v  BY <1>2, <1>3, <2>4
    <3> QED  BY <1>2, <1>3, <1>4, <2>1, <2>4, <3>1
  <2>5. CASE n >= 0 /\ d > 0
    <3>1. d * t = t * v  BY <1>2, <1>3, <2>5
    <3> QED  BY <1>2, <1>3, <1>4, <2>1, <2>5, <3>1
  <2> QED  BY <2>2, <2>3, <2>4, <2>5
<1>9. s <= u
  <2>1. t * v >= 0 /\ t * v \in Int  BY <1>1, <1>3, <1>5
  <2> QED  BY <1>1, <1>3, <2>1
<1>10. Abs(m) = s /\ Abs(q) = t  BY <1>3, <1>4, <1>5, <1>8 DEF Abs
<1>11. q > 0 => (n < 0 <=> d < 0)  BY <1>3, <1>4, <1>5
<1>12. m # 0 => (m < 0 <=> n < 0)  BY <1>3, <1>8
<1>13. Abs(m) < v /\ Abs(m) <= u /\ Abs(q) <= u /\ (v >= 2 /\ n # 0 => Abs(q) < u)
  <2>1. n # 0 => u # 0  BY <1>2
  <2> QED  BY <1>1, <1>3, <1>6, <1>9, <1>10, <2>1
<1> QED  BY <1>7, <1>11, <1>12, <1>13 DEF u, v, q, m

LEMMA DivisionsAreExact ==
  ASSUME NEW x \in Words, NEW y \in Words
  PROVE  LET r(op) == MulDivResult(op, x, y)
             q == Signed(r("DIV"))
             m == Signed(r("REM"))
         IN IF y = 0
            THEN /\ r("DIV") = MaxWord /\ r("DIVU") = MaxWord
                 /\ r("REM") = x /\ r("REMU") = x
            ELSE /\ q * Signed(y) + m \in {Signed(x), Signed(x) + Modulus, Signed(x) - Modulus}
                 /\ (q * Signed(y) + m # Signed(x)) => (x = IntMin /\ y = MaxWord)
                 /\ Abs(m) < Abs(Signed(y))
                 /\ m # 0 => (m < 0 <=> Signed(x) < 0)
                 /\ r("DIVU") * y + r("REMU") = x /\ r("REMU") \in 0..(y - 1)
<1> DEFINE n == Signed(x)
           d == Signed(y)
           q == Signed(MulDivResult("DIV", x, y))
           m == Signed(MulDivResult("REM", x, y))
<1>1. /\ n \in (-IntMin)..(IntMin - 1) /\ d \in (-IntMin)..(IntMin - 1)
      /\ y # 0 <=> d # 0
      /\ x = n \/ x = n + Modulus
      /\ y = d \/ y = d + Modulus
      /\ IntMin \in Nat /\ IntMin >= 1 /\ Modulus = 2 * IntMin /\ MaxWord = Modulus - 1
      /\ x \in 0..(Modulus - 1) /\ y \in 0..(Modulus - 1)
  BY WordSizes, SignedWord
<1>2. CASE y = 0  BY <1>2 DEF MulDivResult
<1>3. CASE y # 0
  <2>1. /\ MulDivResult("DIVU", x, y) = x \div y /\ MulDivResult("REMU", x, y) = x % y
    BY <1>3 DEF MulDivResult
  <2>2. /\ MulDivResult("DIVU", x, y) * y + MulDivResult("REMU", x, y) = x
        /\ MulDivResult("REMU", x, y) \in 0..(y - 1)
    <3>1. x \in Int /\ y \in Nat /\ y > 0  BY <1>1, <1>3
    <3> QED  BY <2>1, <3>1, DivMod
  <2>3. CASE x = IntMin /\ y = MaxWord
    <3>1. MulDivResult("DIV", x, y) = IntMin /\ MulDivResult("REM", x, y) = 0
      BY <1>3, <2>3 DEF MulDivResult
    <3>2. n = -IntMin /\ d = -1 /\ q = -IntMin /\ m = 0
      BY <1>1, <2>3, <3>1 DEF Signed
    <3>3. q * d + m = n + Modulus
      BY <1>1, <3>2
    <3>4. Abs(m) < Abs(d)  BY <3>2 DEF Abs
    <3> HIDE DEF n, d, q, m
    <3>5. /\ q * d + m \in {n, n + Modulus, n - Modulus}
          /\ (q * d + m # n) => (x = IntMin /\ y = MaxWord)
          /\ m # 0 => (m < 0 <=> n < 0)
      BY <2>3, <3>2, <3>3
    <3> QED  BY <1>3, <2>2, <3>4, <3>5 DEF n, d, q, m
  <2>4. CASE ~(x = IntMin /\ y = MaxWord)
    <3> DEFINE Q == Quotient(n, d)
               R == Remainder(n, d)
    <3>1. /\ MulDivResult("DIV", x, y) = Q % Modulus
          /\ MulDivResult("REM", x, y) = R % Modulus
      BY <1>3, <2>4 DEF MulDivResult
    <3>2. d # 0 /\ n \in Int /\ d \in Int  BY <1>1, <1>3
    <3> HIDE DEF n, d
    <3>3. /\ Q \in Int /\ R \in Int /\ Q * d + R = n
          /\ Abs(R) < Abs(d) /\ (R # 0 => (R < 0 <=> n < 0))
          /\ Abs(Q) <= Abs(n)
          /\ Q > 0 => (n < 0 <=> d < 0)
          /\ Abs(d) >= 2 /\ n # 0 => Abs(Q) < Abs(n)
      BY <3>2, QuotientFacts
    <3> HIDE DEF Q, R
    <3>4. R \in (-IntMin)..(IntMin - 1)  BY <1>1, <3>2, <3>3 DEF Abs
    <3>5. Q \in (-IntMin)..(IntMin - 1)
      <4>1. Q >= -IntMin /\ Q <= IntMin  BY <1>1, <3>2, <3>3 DEF Abs
      <4>2. ASSUME Q = IntMin PROVE FALSE
        <5>1. n = -IntMin /\ d < 0  BY <1>1, <3>2, <3>3, <4>2 DEF Abs
        <5>2. d = -1  BY <1>1, <3>2, <3>3, <4>2, <5>1 DEF Abs
        <5>3. x = IntMin /\ y = MaxWord  BY <1>1, <5>1, <5>2
        <5> QED  BY <2>4, <5>3
      <4> QED  BY <1>1, <3>3, <4>1, <4>2
    <3>6. q = Q /\ m = R  BY <3>1, <3>4, <3>5, SignedOfMod
    <3> HIDE DEF q, m
    <3>7. /\ q * d + m = n /\ Abs(m) < Abs(d) /\ (m # 0 => (m < 0 <=> n < 0))
      BY <3>3, <3>6
    <3>8. q * d + m \in {n, n + Modulus, n - Modulus}  BY <3>7
    <3> QED  BY <1>3, <2>2, <3>7, <3>8 DEF n, d, q, m
  <2> QED  BY <2>3, <2>4
<1> QED  BY <1>2, <1>3

\* For words of up to 32 bits and every pair of operands: the four products, put
\* together from their words, are the full products, and quotients and remainders
\* satisfy the division law with the instruction set's answers for zero and overflow.
THEOREM ResultsAreExact == rs1 \in Words /\ rs2 \in Words => MulDivExact
  BY ProductsAreExact, DivisionsAreExact DEF MulDivExact, Products, Divisions

-----------------------------------------------------------------------------
\* The operands the unit holds, as those of WordAluCheck.
Operands == INSTANCE WordAluCheck WITH rs1 <- op_a, rs2 <- op_b

LEMMA SameArithmetic ==
  /\ Operands!Modulus = Modulus /\ Operands!MaxWord = MaxWord
  /\ Operands!IntMin = IntMin /\ Operands!Words = Words
  /\ \A x : Operands!Signed(x) = Signed(x) /\ Operands!Abs(x) = Abs(x)
  /\ \A op, x, y : Operands!MulDivResult(op, x, y) = MulDivResult(op, x, y)
<1>1. /\ Operands!Modulus = Modulus /\ Operands!MaxWord = MaxWord
      /\ Operands!IntMin = IntMin /\ Operands!Words = Words
  BY DEF Operands!Modulus, Modulus, Operands!MaxWord, MaxWord, Operands!IntMin, IntMin,
         Operands!Words, Words
<1>2. \A x : Operands!Signed(x) = Signed(x) /\ Operands!Abs(x) = Abs(x)
  BY <1>1 DEF Operands!Signed, Signed, Operands!Abs, Abs
<1>3. \A x, y : /\ Operands!Quotient(x, y) = Quotient(x, y)
                /\ Operands!Remainder(x, y) = Remainder(x, y)
  BY <1>2 DEF Operands!Quotient, Quotient, Operands!Remainder, Remainder
<1>4. \A x : Operands!High(x) = High(x)  BY <1>1 DEF Operands!High, High
<1>5. ASSUME NEW op, NEW x, NEW y
      PROVE  Operands!MulDivResult(op, x, y) = MulDivResult(op, x, y)
  BY <1>1, <1>2, <1>3, <1>4 DEF Operands!MulDivResult, MulDivResult
<1> QED  BY <1>1, <1>2, <1>5

LEMMA HeldWordsAreExact ==
  ASSUME op_a \in Words, op_b \in Words PROVE Operands!MulDivExact
<1>1. Operands!Products
  BY ProductsAreExact, SameArithmetic DEF Operands!Products
<1>2. Operands!Divisions
  BY DivisionsAreExact, SameArithmetic DEF Operands!Divisions
<1> QED  BY <1>1, <1>2 DEF Operands!MulDivExact

\* Whatever operands the unit holds, its arithmetic is exact on them.
THEOREM HeldOperandsExact ==
  ASSUME Word = Words PROVE Spec => []Operands!MulDivExact
<1>1. TypeOK => Operands!MulDivExact
  BY HeldWordsAreExact DEF TypeOK
<1> QED  BY <1>1, TypeCorrect, PTL

-----------------------------------------------------------------------------
\* What ALU and AMOs compute.  First the powers of two that number the bits of a word.
LEMMA Doubling ==
  /\ Power(0) = 1
  /\ \A i \in 0..32 : Power(i) \in Nat /\ Power(i) > 0
  /\ \A i \in 0..31 : Power(i + 1) = 2 * Power(i)
<1>1. \A i \in 0..30 : Power(i) \in Nat /\ Power(i) > 0
  BY PowersOfTwo
<1>2. /\ Power(0) = 1 /\ Power(1) = 2 /\ Power(2) = 4 /\ Power(3) = 8
      /\ Power(4) = 16 /\ Power(5) = 32 /\ Power(6) = 64 /\ Power(7) = 128
      /\ Power(8) = 256 /\ Power(9) = 512 /\ Power(10) = 1024 /\ Power(11) = 2048
      /\ Power(12) = 4096 /\ Power(13) = 8192 /\ Power(14) = 16384 /\ Power(15) = 32768
      /\ Power(16) = 65536 /\ Power(17) = 131072 /\ Power(18) = 262144
      /\ Power(19) = 524288 /\ Power(20) = 1048576 /\ Power(21) = 2097152
      /\ Power(22) = 4194304 /\ Power(23) = 8388608 /\ Power(24) = 16777216
      /\ Power(25) = 33554432 /\ Power(26) = 67108864 /\ Power(27) = 134217728
      /\ Power(28) = 268435456 /\ Power(29) = 536870912 /\ Power(30) = 1073741824
      /\ Power(31) = 2147483648 /\ Power(32) = 4294967296
  BY SMT DEF Power
<1>3. \A i \in 0..32 : i \in 0..30 \/ i = 31 \/ i = 32
  OBVIOUS
<1>4. \A i \in 0..31 : i \in {0,1,2,3,4,5,6,7,8,9,10,11,12,13,14,15,
                            16,17,18,19,20,21,22,23,24,25,26,27,28,29,30,31}
  OBVIOUS
<1>5. \A i \in 0..31 : Power(i + 1) = 2 * Power(i)
  BY <1>2, <1>4, SMT
<1> QED  BY <1>1, <1>2, <1>3, <1>5, SMT

LEMMA PowerSum ==
  ASSUME NEW i \in 0..32, NEW j \in 0..32, i + j <= 32
  PROVE  Power(i + j) = Power(i) * Power(j)
<1> DEFINE Wrong == {n \in 0..j : Power(i + n) # Power(i) * Power(n)}
<1>1. SUFFICES ASSUME Wrong # {} PROVE FALSE
  OBVIOUS
<1>2. PICK n \in Wrong : \A m \in Wrong : n <= m
  <2>1. Wrong \in SUBSET Nat  OBVIOUS
  <2> HIDE DEF Wrong
  <2> QED  BY <1>1, <2>1, LeastNumber
<1>3. n \in 0..j /\ Power(i + n) # Power(i) * Power(n)
  OBVIOUS
<1>4. n # 0
  BY <1>3, Doubling
<1>5. n - 1 \in 0..j /\ n - 1 \notin Wrong
  BY <1>2, <1>3, <1>4
<1>6. Power(i + (n - 1)) = Power(i) * Power(n - 1)
  BY <1>5
<1>7. i + (n - 1) \in 0..31 /\ n - 1 \in 0..31 /\ i + n = (i + (n - 1)) + 1 /\ n = (n - 1) + 1
  BY <1>3, <1>4
<1>8. Power(i + n) = 2 * Power(i + (n - 1)) /\ Power(n) = 2 * Power(n - 1)
  BY <1>7, Doubling
<1>9. Power(i) \in Nat /\ Power(n - 1) \in Nat
  BY <1>7, Doubling
<1>10. 2 * (Power(i) * Power(n - 1)) = Power(i) * (2 * Power(n - 1))
  BY <1>9
<1> QED  BY <1>3, <1>6, <1>8, <1>10

LEMMA PowerRises ==
  ASSUME NEW i \in 0..32, NEW j \in 0..32, i <= j
  PROVE  Power(i) <= Power(j)
<1>1. j - i \in 0..32 /\ i + (j - i) = j  OBVIOUS
<1>2. Power(j) = Power(i) * Power(j - i)  BY <1>1, PowerSum
<1>3. Power(i) \in Nat /\ Power(j - i) \in Nat /\ Power(j - i) >= 1  BY <1>1, Doubling
<1>4. 1 * Power(i) <= Power(j - i) * Power(i)  BY <1>3, Monotone
<1> QED  BY <1>2, <1>3, <1>4

LEMMA WidthFacts ==
  /\ WIDTH \in 1..32 /\ WIDTH - 1 \in 0..31
  /\ Modulus = Power(WIDTH) /\ IntMin = Power(WIDTH - 1)
  BY WidthAssumption DEF Modulus, IntMin, Power

-----------------------------------------------------------------------------
\* Quotients of quotients, of sums and of what lies between two multiples.
LEMMA DivOfDiv ==
  ASSUME NEW x \in Int, NEW m \in Nat, m > 0, NEW n \in Nat, n > 0
  PROVE  (x \div m) \div n = x \div (m * n)
<1> DEFINE q == x \div m
           r == x % m
           k == q \div n
           s == q % n
<1>1. q \in Int /\ r \in 0..(m - 1) /\ x = q * m + r  BY DivMod
<1>2. k \in Int /\ s \in 0..(n - 1) /\ q = k * n + s  BY <1>1, DivMod
<1> HIDE DEF q, r, k, s
<1>3. x = k * (m * n) + (s * m + r)
  <2>1. (k * n + s) * m = k * (m * n) + s * m  BY <1>2
  <2> QED  BY <1>1, <1>2, <2>1
<1>4. m * n \in Nat /\ m * n > 0 /\ s * m \in Nat  BY <1>2
<1>5. s * m + r \in 0..(m * n - 1)
  <2>1. s * m <= (n - 1) * m  BY <1>2, Monotone
  <2>2. (n - 1) * m = m * n - m  OBVIOUS
  <2> QED  BY <1>1, <1>4, <2>1, <2>2
<1> DEFINE t == s * m + r
           d == m * n
<1>6. d \in Nat /\ d > 0 /\ t \in 0..(d - 1) /\ x = k * d + t  BY <1>3, <1>4, <1>5
<1> HIDE DEF t, d
<1>7. x \div d = k  BY <1>2, <1>6, DivIsUnique
<1> QED  BY <1>7 DEF d, k, q

LEMMA DivShift ==
  ASSUME NEW x \in Int, NEW k \in Int, NEW m \in Nat, m > 0
  PROVE  (x + k * m) \div m = (x \div m) + k
<1> DEFINE q == x \div m
           r == x % m
<1>1. q \in Int /\ r \in 0..(m - 1) /\ x = q * m + r  BY DivMod
<1> HIDE DEF q, r
<1>2. x + k * m = (q + k) * m + r  BY <1>1
<1>3. q + k \in Int  BY <1>1
<1>4. ((q + k) * m + r) \div m = q + k  BY <1>1, <1>3, DivIsUnique
<1> QED  BY <1>2, <1>4 DEF q

LEMMA DivBounds ==
  ASSUME NEW x \in Int, NEW m \in Nat, m > 0, NEW k \in Int
  PROVE  /\ x < k * m => x \div m < k
         /\ k * m <= x => k <= x \div m
<1> DEFINE q == x \div m
           r == x % m
<1>1. q \in Int /\ r \in 0..(m - 1) /\ x = q * m + r  BY DivMod
<1> HIDE DEF q, r
<1>2. ASSUME x < k * m, k <= q PROVE FALSE
  <2>1. k * m <= q * m  BY <1>1, <1>2, Monotone
  <2> QED  BY <1>1, <1>2, <2>1
<1>3. ASSUME k * m <= x, q + 1 <= k PROVE FALSE
  <2>1. (q + 1) * m <= k * m  BY <1>1, <1>3, Monotone
  <2>2. (q + 1) * m = q * m + m  BY <1>1
  <2>3. k * m \in Int  OBVIOUS
  <2> QED  BY <1>1, <1>3, <2>1, <2>2, <2>3
<1> QED  BY <1>1, <1>2, <1>3 DEF q

-----------------------------------------------------------------------------
\* The bits of a number.
LEMMA BitIs ==
  ASSUME NEW x \in Int, NEW i \in Places
  PROVE  /\ Bit(x, i) = (x \div Power(i)) % 2 /\ Bit(x, i) \in {0, 1}
         /\ Power(i) \in Nat /\ Power(i) > 0 /\ x \div Power(i) \in Int
<1>1. Power(i) \in Nat /\ Power(i) > 0  BY WidthFacts, Doubling DEF Places
<1>2. x \div Power(i) \in Int  BY <1>1, DivMod
<1>3. Bit(x, i) = (x \div Power(i)) % 2  BY DEF Bit, Power
<1> QED  BY <1>1, <1>2, <1>3, DivMod

\* What is added above place i does not change the bit there; whole words do not.
LEMMA BitOfMultiple ==
  ASSUME NEW x \in Int, NEW k \in Int, NEW i \in Places, NEW j \in 0..32, i < j
  PROVE  Bit(x + k * Power(j), i) = Bit(x, i)
<1> DEFINE m == Power(i)
           c == Power(j - 1 - i)
<1>1. i \in 0..31 /\ j - 1 - i \in 0..31 /\ i + 1 \in 0..32 /\ (i + 1) + (j - 1 - i) = j
  BY WidthFacts DEF Places
<1>2. m \in Nat /\ m > 0 /\ c \in Nat /\ Power(i + 1) = 2 * m /\ Power(j) \in Nat
  BY <1>1, Doubling
<1>3. Power(j) = (2 * m) * c
  <2>1. Power((i + 1) + (j - 1 - i)) = Power(i + 1) * Power(j - 1 - i)
    BY <1>1, PowerSum
  <2> QED  BY <1>1, <1>2, <2>1
<1> HIDE DEF m, c
<1>4. k * ((2 * m) * c) = (2 * (k * c)) * m  BY <1>2
<1> DEFINE d == k * c
           q == x \div m
<1>5. d \in Int /\ q \in Int /\ 2 * d \in Int  BY <1>2, DivMod
<1> HIDE DEF d
<1>6. (x + (2 * d) * m) \div m = q + 2 * d  BY <1>2, <1>5, DivShift
<1> HIDE DEF q
<1>7. (q + d * 2) % 2 = q % 2  BY <1>5, ModShift
<1>8. x + k * Power(j) = x + (2 * d) * m  BY <1>3, <1>4 DEF d
<1>9. x + k * Power(j) \in Int  BY <1>2
<1>10. Bit(x + k * Power(j), i) = (q + 2 * d) % 2  BY <1>6, <1>8, <1>9, BitIs DEF m
<1>11. Bit(x, i) = q % 2  BY BitIs DEF q, m
<1> QED  BY <1>5, <1>7, <1>10, <1>11

LEMMA BitOfSum ==
  ASSUME NEW x \in Int, NEW k \in Int, NEW i \in Places
  PROVE  Bit(x + k * Modulus, i) = Bit(x, i)
<1>1. WIDTH \in 0..32 /\ i < WIDTH  BY WidthFacts DEF Places
<1> QED  BY <1>1, WidthFacts, BitOfMultiple

LEMMA BitOfMod ==
  ASSUME NEW x \in Int, NEW i \in Places
  PROVE  Bit(x % Modulus, i) = Bit(x, i)
<1> DEFINE q == x \div Modulus
           r == x % Modulus
<1>1. q \in Int /\ r \in Int /\ x = q * Modulus + r  BY WordSizes, DivMod
<1> HIDE DEF q, r
<1>2. x = r + q * Modulus  BY <1>1, WordSizes
<1>3. Bit(r + q * Modulus, i) = Bit(r, i)  BY <1>1, BitOfSum
<1> QED  BY <1>2, <1>3 DEF r

\* A number within 2^i of zero has its sign at place i and above.
LEMMA BitAbove ==
  ASSUME NEW x \in Int, NEW i \in Places, -Power(i) <= x, x < Power(i)
  PROVE  Bit(x, i) = 1 <=> x < 0
<1>1. Power(i) \in Nat \ {0}  BY BitIs
<1>2. Bit(x, i) = (x \div Power(i)) % 2  BY BitIs
<1> DEFINE m == Power(i)
<1> HIDE DEF m
<1>3. (x \div m) % 2 = 1 <=> x < 0
  BY <1>1, SignBit DEF m
<1> QED  BY <1>2, <1>3 DEF m

\* The highest bit of a word is its sign.
LEMMA NegativeWords ==
  ASSUME NEW x \in Words
  PROVE  /\ Negative(x) <=> x >= IntMin
         /\ Negative(x) <=> Signed(x) < 0
<1>1. WIDTH - 1 \in Places /\ Power(WIDTH - 1) = IntMin  BY WidthFacts DEF Places
<1>2. /\ Signed(x) \in Int /\ -IntMin <= Signed(x) /\ Signed(x) < IntMin
      /\ x \in Int /\ IntMin \in Nat
  BY SignedWord, WordSizes
<1>3. PICK k \in {0, 1} : x = Signed(x) + k * Modulus  BY <1>2, SignedWord, WordSizes
<1>4. Bit(x, WIDTH - 1) = Bit(Signed(x), WIDTH - 1)  BY <1>1, <1>2, <1>3, BitOfSum
<1>5. Bit(Signed(x), WIDTH - 1) = 1 <=> Signed(x) < 0
  BY <1>1, <1>2, BitAbove
<1>6. Negative(x) <=> Signed(x) < 0  BY <1>1, <1>4, <1>5 DEF Negative, Bits
<1>7. Signed(x) < 0 <=> x >= IntMin  BY WordSizes DEF Signed
<1> QED  BY <1>6, <1>7

LEMMA SignedOrder ==
  ASSUME NEW x \in Words, NEW y \in Words
  PROVE  SignedBelow(x, y) <=> Signed(x) < Signed(y)
<1>1. Negative(x) <=> x >= IntMin  BY NegativeWords
<1>2. Negative(y) <=> y >= IntMin  BY NegativeWords
<1>3. SignedBelow(x, y) <=> \/ x >= IntMin /\ ~(y >= IntMin)
                            \/ (x >= IntMin <=> y >= IntMin) /\ x < y
  BY <1>1, <1>2 DEF SignedBelow
<1> QED  BY <1>3, WordSizes DEF Signed

-----------------------------------------------------------------------------
\* Shifts.
LEMMA LeftShift ==
  ASSUME NEW a \in Words, NEW n \in Places
  PROVE  Bits((a * Power(n)) % Modulus) = {i \in Places : i - n \in Bits(a)}
<1>1. a \in Int /\ n \in 0..31 /\ Power(n) \in Nat /\ Power(n) > 0
  <2>1. a \in Int  BY WordSizes
  <2>2. n \in 0..31  BY WidthFacts DEF Places
  <2> QED  BY <2>1, <2>2, Doubling
<1> DEFINE x == a * Power(n)
<1>2. x \in Int  BY <1>1
<1>3. SUFFICES ASSUME NEW i \in Places
               PROVE  Bit(x, i) = 1 <=> i - n \in Places /\ Bit(a, i - n) = 1
  <2>1. \A i \in Places : Bit(x % Modulus, i) = Bit(x, i)  BY <1>2, BitOfMod
  <2> QED  BY <1>3, <2>1 DEF Bits
<1>4. i \in 0..31  BY WidthFacts DEF Places
<1>5. CASE i >= n
  <2>1. i - n \in Places /\ i - n \in 0..32 /\ n + (i - n) = i /\ i <= 32
    BY <1>1, <1>4, <1>5, WidthFacts DEF Places
  <2>2. Power(i) = Power(n) * Power(i - n)
    <3>1. n \in 0..32 /\ n + (i - n) <= 32  BY <1>1, <2>1
    <3>2. Power(n + (i - n)) = Power(n) * Power(i - n)  BY <2>1, <3>1, PowerSum
    <3> QED  BY <2>1, <3>2
  <2> DEFINE p == Power(n)
             q == Power(i - n)
  <2>3. p \in Nat /\ p > 0 /\ q \in Nat /\ q > 0  BY <1>1, <2>1, Doubling
  <2>4. Bit(x, i) = (x \div (p * q)) % 2 /\ Bit(a, i - n) = (a \div q) % 2
    BY <1>1, <1>2, <2>1, <2>2, BitIs
  <2>5. x = a * p + 0 /\ 0 \in 0..(p - 1)  BY <1>1, <2>3
  <2> HIDE DEF p, q, x
  <2>6. x \div p = a  BY <1>1, <2>3, <2>5, DivIsUnique
  <2>7. (x \div p) \div q = x \div (p * q)  BY <1>2, <2>3, DivOfDiv
  <2> QED  BY <2>1, <2>4, <2>6, <2>7
<1>6. CASE i < n
  <2>1. n - 1 - i \in 0..31 /\ i + 1 \in 0..32 /\ (i + 1) + (n - 1 - i) = n /\ n <= 32
        /\ i - n \notin Places
    BY <1>1, <1>4, <1>6 DEF Places
  <2> DEFINE m == Power(i)
             c == Power(n - 1 - i)
  <2>2. m \in Nat /\ m > 0 /\ c \in Nat /\ Power(i + 1) = 2 * m  BY <1>4, <2>1, Doubling
  <2>3. Power((i + 1) + (n - 1 - i)) = Power(i + 1) * Power(n - 1 - i)
    BY <2>1, PowerSum
  <2>4. Power(n) = (2 * m) * c  BY <2>1, <2>2, <2>3
  <2>5. Bit(x, i) = (x \div m) % 2  BY <1>2, BitIs
  <2> HIDE DEF m, c
  <2>6. a * ((2 * m) * c) = ((a * c) * 2) * m  BY <1>1, <2>2
  <2> DEFINE d == a * c
  <2>7. d \in Int /\ d * 2 \in Int /\ x = (d * 2) * m + 0 /\ 0 \in 0..(m - 1)
    BY <1>1, <2>2, <2>4, <2>6
  <2> HIDE DEF d, x
  <2>8. x \div m = d * 2  BY <2>2, <2>7, DivIsUnique
  <2>9. (d * 2 + 0) % 2 = 0  BY <2>7, DivIsUnique
  <2>10. Bit(x, i) = 0  BY <2>5, <2>7, <2>8, <2>9
  <2> QED  BY <2>1, <2>10
<1> QED  BY <1>1, <1>4, <1>5, <1>6

\* What a right shift by n leaves at place i stood at place n + i, if the word has it.
LEMMA ShiftedBit ==
  ASSUME NEW x \in Int, NEW n \in Places, NEW i \in Places, i + n \in Places
  PROVE  Bit(x \div Power(n), i) = Bit(x, i + n)
<1>1. n \in 0..32 /\ i \in 0..32 /\ n + i <= 32 /\ n + i = i + n
  BY WidthFacts DEF Places
<1>2. Power(i + n) = Power(n) * Power(i)  BY <1>1, PowerSum
<1>3. /\ Bit(x \div Power(n), i) = ((x \div Power(n)) \div Power(i)) % 2
      /\ Bit(x, i + n) = (x \div Power(i + n)) % 2
  BY BitIs
<1>4. Power(n) \in Nat /\ Power(n) > 0 /\ Power(i) \in Nat /\ Power(i) > 0  BY BitIs
<1>5. (x \div Power(n)) \div Power(i) = x \div (Power(n) * Power(i))  BY <1>4, DivOfDiv
<1> QED  BY <1>2, <1>3, <1>5

\* And the places that the word has not hold the sign.
LEMMA ShiftedIn ==
  ASSUME NEW x \in Int, NEW k \in 0..32, -Power(k) <= x, x < Power(k),
         NEW n \in 0..k, NEW i \in Places, i >= k - n
  PROVE  Bit(x \div Power(n), i) = 1 <=> x < 0
<1>1. n \in 0..32 /\ k - n \in 0..32 /\ n + (k - n) = k /\ k <= 32  OBVIOUS
<1> DEFINE p == Power(n)
           c == Power(k - n)
           y == x \div p
<1>2. p \in Nat /\ p > 0 /\ c \in Nat /\ c > 0  BY <1>1, Doubling
<1>3. Power(k) = p * c  BY <1>1, PowerSum
<1>4. Power(k - n) <= Power(i) /\ Power(i) \in Nat
  <2>1. i \in 0..32 /\ k - n <= i  BY WidthFacts DEF Places
  <2> QED  BY <1>1, <2>1, PowerRises, Doubling
<1> HIDE DEF p, c
<1>5. y \in Int  BY <1>2, DivMod
<1>6. y < c /\ -c <= y
  <2>1. c * p = p * c /\ (-c) * p = -(p * c) /\ c \in Int /\ -c \in Int  BY <1>2
  <2>2. x < c * p /\ (-c) * p <= x  BY <1>3, <2>1
  <2> QED  BY <1>2, <2>1, <2>2, DivBounds
<1>7. y < 0 <=> x < 0
  <2>1. 0 * p = 0  BY <1>2
  <2> QED  BY <1>2, <1>5, <2>1, DivBounds
<1>8. -Power(i) <= y /\ y < Power(i)  BY <1>2, <1>4, <1>5, <1>6 DEF c
<1>9. Bit(y, i) = 1 <=> y < 0  BY <1>5, <1>8, BitAbove
<1> QED  BY <1>7, <1>9 DEF p

-----------------------------------------------------------------------------
\* The word that WordOf adds up from its bits has these bits.  low in WordOf is a
\* recursive function: there is one for every length, so it is what its equation says.
Sums(bits, f, k) ==
  f = [n \in 0..k |-> IF n = 0 THEN 0 ELSE f[n - 1] + bits[n - 1] * 2^(n - 1)]

LEMMA SumsExist ==
  ASSUME NEW bits, NEW k \in Nat
  PROVE  \E f : Sums(bits, f, k)
<1> DEFINE Wrong == {n \in 0..k : ~\E f : Sums(bits, f, n)}
<1>1. SUFFICES ASSUME Wrong # {} PROVE FALSE
  OBVIOUS
<1>2. PICK n \in Wrong : \A m \in Wrong : n <= m
  <2>1. Wrong \in SUBSET Nat  OBVIOUS
  <2> HIDE DEF Wrong
  <2> QED  BY <1>1, <2>1, LeastNumber
<1>3. n \in 0..k /\ ~\E f : Sums(bits, f, n)
  OBVIOUS
<1>4. n # 0
  <2>1. Sums(bits, [m \in 0..0 |-> 0], 0)
    BY DEF Sums
  <2> QED  BY <1>3, <2>1
<1>5. n - 1 \in 0..k /\ n - 1 \notin Wrong
  BY <1>2, <1>3, <1>4
<1>6. PICK f : Sums(bits, f, n - 1)
  BY <1>5
<1> DEFINE add(g, m) == g[m - 1] + bits[m - 1] * 2^(m - 1)
           g == [m \in 0..n |-> IF m = n THEN add(f, n) ELSE f[m]]
<1>7. \A m \in 0..(n - 1) : f[m] = IF m = 0 THEN 0 ELSE add(f, m)
  BY <1>6 DEF Sums
<1>8. ASSUME NEW m \in 0..n PROVE g[m] = IF m = 0 THEN 0 ELSE add(g, m)
  <2>1. CASE m = n
    <3>1. g[m] = add(f, m)  BY <2>1
    <3>2. m - 1 \in 0..n /\ m - 1 # n  BY <1>3, <1>4, <2>1
    <3>3. g[m - 1] = f[m - 1]  BY <3>2
    <3> QED  BY <1>4, <2>1, <3>1, <3>3
  <2>2. CASE m # n
    <3>1. m \in 0..(n - 1)  BY <1>3, <2>2
    <3>2. g[m] = f[m]  BY <2>2
    <3>3. CASE m = 0  BY <1>7, <3>1, <3>2, <3>3
    <3>4. CASE m # 0
      <4>1. m - 1 \in 0..n /\ m - 1 # n  BY <1>3, <2>2, <3>4
      <4>2. g[m - 1] = f[m - 1]  BY <4>1
      <4> QED  BY <1>7, <3>1, <3>2, <3>4, <4>2
    <3> QED  BY <3>3, <3>4
  <2> QED  BY <2>1, <2>2
<1>9. Sums(bits, g, n)
  <2>1. g = [m \in 0..n |-> g[m]]  OBVIOUS
  <2> HIDE DEF g
  <2> QED  BY <1>8, <2>1 DEF Sums
<1> QED  BY <1>3, <1>9

LEMMA WordOfBits ==
  ASSUME NEW bits \in [Places -> {0, 1}]
  PROVE  WordOf(bits) \in Words /\ \A i \in Places : Bit(WordOf(bits), i) = bits[i]
<1> DEFINE low == CHOOSE f : Sums(bits, f, WIDTH)
<1>1. WordOf(bits) = low[WIDTH]
  BY DEF WordOf, Sums
<1>2. Sums(bits, low, WIDTH)
  BY SumsExist, WidthFacts
<1> HIDE DEF low
<1>3. \A n \in 0..WIDTH : low[n] = IF n = 0 THEN 0 ELSE low[n - 1] + bits[n - 1] * Power(n - 1)
  BY <1>2 DEF Sums, Power
<1> DEFINE Right(n) == /\ low[n] \in 0..(Power(n) - 1)
                       /\ \A i \in Places : i < n => Bit(low[n], i) = bits[i]
           Wrong == {n \in 0..WIDTH : ~Right(n)}
<1>4. ASSUME Wrong # {} PROVE FALSE
  <2>1. PICK n \in Wrong : \A m \in Wrong : n <= m
    <3>1. Wrong \in SUBSET Nat  BY WidthFacts
    <3> HIDE DEF Wrong
    <3> QED  BY <1>4, <3>1, LeastNumber
  <2>2. n \in 0..WIDTH /\ ~Right(n)
    OBVIOUS
  <2>3. n # 0
    <3>1. low[0] = 0  BY <1>3, WidthFacts
    <3>2. \A i \in Places : ~(i < 0)  BY WidthFacts DEF Places
    <3>3. low[0] \in 0..(Power(0) - 1)  BY <3>1, Doubling
    <3>4. Right(0)  BY <3>2, <3>3
    <3> QED  BY <2>2, <3>4
  <2> DEFINE m == n - 1
             b == bits[m]
             x == low[m]
             y == low[n]
  <2>4. m \in Places /\ m \in 0..31 /\ m \in 0..WIDTH /\ m < n /\ m + 1 = n
    BY <2>2, <2>3, WidthFacts DEF Places
  <2>5. m \notin Wrong
    BY <2>1, <2>2, <2>4
  <2>6. Right(m)
    BY <2>4, <2>5
  <2>7. b \in {0, 1} /\ Power(m) \in Nat /\ Power(m) > 0 /\ Power(n) = 2 * Power(m)
    BY <2>4, Doubling
  <2>8. y = x + b * Power(m)
    BY <1>3, <2>2, <2>3
  <2>9. x \in Int /\ 0 <= x /\ x < Power(m)
    BY <2>6, <2>7
  <2> HIDE DEF m, b, x, y
  <2>10. y \in 0..(Power(n) - 1)
    <3>1. CASE b = 0  BY <2>7, <2>8, <2>9, <3>1
    <3>2. CASE b = 1  BY <2>7, <2>8, <2>9, <3>2
    <3> QED  BY <2>7, <3>1, <3>2
  <2>11. ASSUME NEW i \in Places, i < n PROVE Bit(y, i) = bits[i]
    <3>1. CASE i = m
      <4>1. y = b * Power(m) + x /\ x \in 0..(Power(m) - 1)  BY <2>7, <2>8, <2>9
      <4>2. y \div Power(m) = b
        <5>1. b \in Int  BY <2>7
        <5>2. (b * Power(m) + x) \div Power(m) = b  BY <2>7, <4>1, <5>1, DivIsUnique
        <5> QED  BY <4>1, <5>2
      <4>3. b % 2 = b  BY <2>7
      <4>4. y \in Int  BY <2>7, <2>10
      <4> QED  BY <2>4, <3>1, <4>2, <4>3, <4>4, BitIs DEF b
    <3>2. CASE i < m
      <4>1. Bit(x, i) = bits[i]  BY <2>6, <3>2 DEF x
      <4>2. m \in 0..32 /\ b \in Int  BY <2>4, <2>7
      <4>3. Bit(x + b * Power(m), i) = Bit(x, i)  BY <2>9, <3>2, <4>2, BitOfMultiple
      <4> QED  BY <2>8, <4>1, <4>3
    <3>3. i \in Int /\ m \in Int /\ n = m + 1  BY <2>4, WidthFacts DEF Places
    <3> QED  BY <2>11, <3>1, <3>2, <3>3
  <2> QED  BY <2>2, <2>10, <2>11 DEF y
<1>5. WIDTH \in 0..WIDTH  BY WidthFacts
<1>6. Right(WIDTH)  BY <1>4, <1>5
<1>7. \A i \in Places : i < WIDTH  BY WidthFacts DEF Places
<1> QED  BY <1>1, <1>6, <1>7, WidthFacts, WordSizes

-----------------------------------------------------------------------------
\* The operations one by one.
LEMMA SumsAndDifferences ==
  ASSUME NEW x \in Words, NEW y \in Words
  PROVE  /\ (x + y) % Modulus \in Words
         /\ \E carry \in 0..1 : x + y = ((x + y) % Modulus) + carry * Modulus
         /\ (x - y) % Modulus \in Words
         /\ (((x - y) % Modulus) + y) % Modulus = x
<1>1. x \in 0..(Modulus - 1) /\ y \in 0..(Modulus - 1) /\ Modulus \in Nat /\ Modulus > 0
  BY WordSizes
<1>2. PICK c \in {0, 1}, r \in 0..(Modulus - 1) : x + y = c * Modulus + r
  <2>1. CASE x + y < Modulus
    <3>1. x + y = 0 * Modulus + (x + y) /\ x + y \in 0..(Modulus - 1)  BY <1>1, <2>1
    <3> QED  BY <3>1
  <2>2. CASE x + y >= Modulus
    <3>1. x + y = 1 * Modulus + (x + y - Modulus) /\ x + y - Modulus \in 0..(Modulus - 1)
      BY <1>1, <2>2
    <3> QED  BY <3>1
  <2> QED  BY <1>1, <2>1, <2>2
<1>3. c \in Int  BY <1>2
<1>4. (c * Modulus + r) % Modulus = r  BY <1>1, <1>2, <1>3, DivIsUnique
<1>5. (x + y) % Modulus = r  BY <1>2, <1>4
<1>6. c * Modulus + r = r + c * Modulus /\ c \in 0..1  BY <1>1, <1>2
<1>7. PICK d \in {0, 1}, s \in 0..(Modulus - 1) : x - y = (-d) * Modulus + s
  <2>1. CASE x >= y
    <3>1. x - y = (-0) * Modulus + (x - y) /\ x - y \in 0..(Modulus - 1)  BY <1>1, <2>1
    <3> QED  BY <3>1
  <2>2. CASE x < y
    <3>1. x - y = (-1) * Modulus + (x - y + Modulus) /\ x - y + Modulus \in 0..(Modulus - 1)
      BY <1>1, <2>2
    <3> QED  BY <3>1
  <2> QED  BY <1>1, <2>1, <2>2
<1>8. d \in Int /\ -d \in Int  BY <1>7
<1>9. ((-d) * Modulus + s) % Modulus = s  BY <1>1, <1>7, <1>8, DivIsUnique
<1>10. (x - y) % Modulus = s  BY <1>7, <1>9
<1>11. s + y = d * Modulus + x
  <2>1. (-d) * Modulus = -(d * Modulus) /\ d * Modulus \in Int  BY <1>1, <1>8
  <2> QED  BY <1>1, <1>7, <2>1
<1>12. (d * Modulus + x) % Modulus = x  BY <1>1, <1>8, DivIsUnique
<1> QED  BY <1>1, <1>2, <1>5, <1>6, <1>7, <1>10, <1>11, <1>12, WordSizes

LEMMA LogicIsBitwise ==
  ASSUME NEW x \in Words, NEW y \in Words
  PROVE  /\ Xor(x, y) \in Words /\ And(x, y) \in Words /\ Or(x, y) \in Words
         /\ Bits(Xor(x, y)) = (Bits(x) \ Bits(y)) \cup (Bits(y) \ Bits(x))
         /\ Bits(And(x, y)) = Bits(x) \cap Bits(y)
         /\ Bits(Or(x, y)) = Bits(x) \cup Bits(y)
<1>1. \A i \in Places : Bit(x, i) \in {0, 1} /\ Bit(y, i) \in {0, 1}
  BY BitIs, WordSizes
<1> DEFINE xor == [i \in Places |-> (Bit(x, i) + Bit(y, i)) % 2]
           and == [i \in Places |-> Bit(x, i) * Bit(y, i)]
           or == [i \in Places |-> Truth(Bit(x, i) + Bit(y, i) > 0)]
<1>2. \A a, b \in {0, 1} :
        /\ (a + b) % 2 \in {0, 1} /\ ((a + b) % 2 = 1 <=> a # b)
        /\ a * b \in {0, 1} /\ (a * b = 1 <=> a = 1 /\ b = 1)
        /\ Truth(a + b > 0) \in {0, 1} /\ (Truth(a + b > 0) = 1 <=> a = 1 \/ b = 1)
  BY DEF Truth
<1>3. \A i \in Places :
        /\ xor[i] \in {0, 1} /\ (xor[i] = 1 <=> Bit(x, i) # Bit(y, i))
        /\ and[i] \in {0, 1} /\ (and[i] = 1 <=> Bit(x, i) = 1 /\ Bit(y, i) = 1)
        /\ or[i] \in {0, 1} /\ (or[i] = 1 <=> Bit(x, i) = 1 \/ Bit(y, i) = 1)
  BY <1>1, <1>2
<1>4. /\ xor \in [Places -> {0, 1}] /\ and \in [Places -> {0, 1}] /\ or \in [Places -> {0, 1}]
      /\ Xor(x, y) = WordOf(xor) /\ And(x, y) = WordOf(and) /\ Or(x, y) = WordOf(or)
  BY <1>3 DEF Xor, And, Or
<1> HIDE DEF xor, and, or
<1>5. Xor(x, y) \in Words /\ \A i \in Places : Bit(Xor(x, y), i) = xor[i]
  BY <1>4, WordOfBits
<1>6. And(x, y) \in Words /\ \A i \in Places : Bit(And(x, y), i) = and[i]
  BY <1>4, WordOfBits
<1>7. Or(x, y) \in Words /\ \A i \in Places : Bit(Or(x, y), i) = or[i]
  BY <1>4, WordOfBits
<1>8. Bits(Xor(x, y)) = (Bits(x) \ Bits(y)) \cup (Bits(y) \ Bits(x))
  BY <1>1, <1>3, <1>5 DEF Bits
<1>9. Bits(And(x, y)) = Bits(x) \cap Bits(y)
  BY <1>3, <1>6 DEF Bits
<1>10. Bits(Or(x, y)) = Bits(x) \cup Bits(y)
  BY <1>3, <1>7 DEF Bits
<1> QED  BY <1>5, <1>6, <1>7, <1>8, <1>9, <1>10

LEMMA RightShifts ==
  ASSUME NEW x \in Words, NEW n \in Places
  PROVE  /\ x \div Power(n) \in Words
         /\ Bits(x \div Power(n)) = {i \in Places : i + n \in Bits(x)}
         /\ ArithmeticShift(x, n) \in Words
         /\ Bits(ArithmeticShift(x, n)) =
              {i \in Places : i + n \in Bits(x) \/ (i + n >= WIDTH /\ Negative(x))}
<1>1. /\ x \in Int /\ Signed(x) \in Int /\ 0 <= x /\ x < Modulus /\ Modulus \in Nat
      /\ Modulus > 0 /\ -IntMin <= Signed(x) /\ Signed(x) < IntMin /\ IntMin \in Nat
  BY WordSizes, SignedWord
<1>2. n \in 0..(WIDTH - 1) /\ n \in 0..WIDTH /\ WIDTH \in 0..32 /\ WIDTH - 1 \in 0..32
  BY WidthFacts DEF Places
<1>3. Power(n) \in Nat /\ Power(n) > 0 /\ x \div Power(n) \in Int /\ Signed(x) \div Power(n) \in Int
  BY <1>1, BitIs
<1>4. \A i \in Places : i \in 0..(WIDTH - 1) /\ (i + n \in Places <=> i + n < WIDTH)
  BY <1>2 DEF Places
<1>5. ASSUME NEW i \in Places PROVE Bit(x \div Power(n), i) = 1 <=> i + n \in Bits(x)
  <2>1. CASE i + n \in Places
    BY <1>1, <2>1, ShiftedBit DEF Bits
  <2>2. CASE i + n \notin Places
    <3>1. i >= WIDTH - n  BY <1>2, <1>4, <2>2
    <3>2. -Power(WIDTH) <= x /\ x < Power(WIDTH)  BY <1>1, WidthFacts
    <3>3. Bit(x \div Power(n), i) = 1 <=> x < 0
      BY <1>1, <1>2, <3>1, <3>2, ShiftedIn
    <3> QED  BY <1>1, <2>2, <3>3 DEF Bits
  <2> QED  BY <2>1, <2>2
<1>6. x \div Power(n) \in Words
  <2>1. 0 * Power(n) <= x /\ x < Modulus * Power(n)
    <3>1. 1 * Modulus <= Power(n) * Modulus  BY <1>1, <1>3, Monotone
    <3>2. Power(n) * Modulus = Modulus * Power(n) /\ 1 * Modulus = Modulus /\ 0 * Power(n) = 0
      BY <1>1, <1>3
    <3>3. Modulus * Power(n) \in Nat  BY <1>1, <1>3
    <3> QED  BY <1>1, <3>1, <3>2, <3>3
  <2>2. 0 <= x \div Power(n) /\ x \div Power(n) < Modulus
    BY <1>1, <1>3, <2>1, DivBounds
  <2> QED  BY <1>3, <2>2, WordSizes
<1>7. Bits(x \div Power(n)) = {i \in Places : i + n \in Bits(x)}
  BY <1>5 DEF Bits
<1> DEFINE s == Signed(x)
           y == s \div Power(n)
<1>8. ArithmeticShift(x, n) = y % Modulus
  BY DEF ArithmeticShift, Power
<1>9. ASSUME NEW i \in Places
      PROVE  Bit(y % Modulus, i) = 1 <=> i + n \in Bits(x) \/ (i + n >= WIDTH /\ Negative(x))
  <2>1. Bit(y % Modulus, i) = Bit(y, i)  BY <1>3, BitOfMod
  <2>2. CASE i + n \in Places
    <3>1. Bit(y, i) = Bit(s, i + n)  BY <1>1, <2>2, ShiftedBit
    <3>2. PICK k \in {0, 1} : x = s + k * Modulus  BY <1>1, SignedWord
    <3>3. k \in Int  BY <3>2
    <3>4. Bit(s + k * Modulus, i + n) = Bit(s, i + n)  BY <1>1, <2>2, <3>3, BitOfSum
    <3>5. ~(i + n >= WIDTH)  BY <1>2, <1>4, <2>2
    <3> QED  BY <2>1, <2>2, <3>1, <3>2, <3>4, <3>5 DEF Bits
  <2>3. CASE i + n \notin Places
    <3>1. i >= (WIDTH - 1) - n /\ i + n >= WIDTH  BY <1>2, <1>4, <2>3
    <3>2. -Power(WIDTH - 1) <= s /\ s < Power(WIDTH - 1)  BY <1>1, WidthFacts
    <3>3. Bit(y, i) = 1 <=> s < 0
      BY <1>1, <1>2, <3>1, <3>2, ShiftedIn
    <3>4. Negative(x) <=> s < 0  BY NegativeWords
    <3>5. i + n \notin Bits(x)  BY <2>3 DEF Bits
    <3> QED  BY <2>1, <3>1, <3>3, <3>4, <3>5
  <2> QED  BY <2>2, <2>3
<1>10. y % Modulus \in Words  BY <1>1, <1>3, DivMod, WordSizes
<1>11. Bits(y % Modulus) =
         {i \in Places : i + n \in Bits(x) \/ (i + n >= WIDTH /\ Negative(x))}
  BY <1>9 DEF Bits
<1> QED  BY <1>6, <1>7, <1>8, <1>10, <1>11

LEMMA AluIsExact ==
  ASSUME rs1 \in Words, rs2 \in Words PROVE AluWords
<1> DEFINE r(op) == AluResult(op, rs1, rs2)
           n == rs2 % WIDTH
<1>1. n \in Places
  <2>1. rs2 \in Int /\ WIDTH \in Nat /\ WIDTH > 0  BY WidthFacts, WordSizes
  <2> QED  BY <2>1, DivMod DEF Places
<1>2. /\ r("ADD") = (rs1 + rs2) % Modulus
      /\ r("SUB") = (rs1 - rs2) % Modulus
      /\ AluResult("ADD", r("SUB"), rs2) = (((rs1 - rs2) % Modulus) + rs2) % Modulus
      /\ r("SLL") = (rs1 * Power(n)) % Modulus
      /\ r("SLT") = Truth(Signed(rs1) < Signed(rs2))
      /\ r("SLTU") = Truth(rs1 < rs2)
      /\ r("XOR") = Xor(rs1, rs2)
      /\ r("SRL") = rs1 \div Power(n)
      /\ r("SRA") = ArithmeticShift(rs1, n)
      /\ r("OR") = Or(rs1, rs2)
      /\ r("AND") = And(rs1, rs2)
  BY DEF AluResult, ShiftAmount, Power
<1> HIDE DEF n
<1>3. (\E carry \in 0..1 : rs1 + rs2 = r("ADD") + carry * Modulus)
      /\ AluResult("ADD", r("SUB"), rs2) = rs1 /\ r("ADD") \in Words /\ r("SUB") \in Words
  BY <1>2, SumsAndDifferences
<1>4. /\ r("SLT") = 1 <=> SignedBelow(rs1, rs2)
      /\ r("SLTU") = 1 <=> rs1 < rs2
      /\ r("SLT") \in Words /\ r("SLTU") \in Words
  BY <1>2, SignedOrder, WordSizes DEF Truth
<1>5. Bits(r("SLL")) = {i \in Places : i - n \in Bits(rs1)} /\ r("SLL") \in Words
  <2>1. rs1 * Power(n) \in Int  BY <1>1, BitIs, WordSizes
  <2>2. (rs1 * Power(n)) % Modulus \in Words  BY <2>1, DivMod, WordSizes
  <2> QED  BY <1>1, <1>2, <2>2, LeftShift
<1>6. /\ Bits(r("SRL")) = {i \in Places : i + n \in Bits(rs1)}
      /\ Bits(r("SRA")) =
           {i \in Places : i + n \in Bits(rs1) \/ (i + n >= WIDTH /\ Negative(rs1))}
      /\ r("SRL") \in Words /\ r("SRA") \in Words
  BY <1>1, <1>2, RightShifts
<1>7. /\ Bits(r("XOR")) = (Bits(rs1) \ Bits(rs2)) \cup (Bits(rs2) \ Bits(rs1))
      /\ Bits(r("AND")) = Bits(rs1) \cap Bits(rs2)
      /\ Bits(r("OR")) = Bits(rs1) \cup Bits(rs2)
      /\ r("XOR") \in Words /\ r("AND") \in Words /\ r("OR") \in Words
  BY <1>2, LogicIsBitwise
<1> HIDE DEF r
<1>8. \A op \in AluOps : r(op) \in Words
  BY <1>3, <1>4, <1>5, <1>6, <1>7 DEF AluOps
<1> QED  BY <1>3, <1>4, <1>5, <1>6, <1>7, <1>8 DEF AluWords, r, n

LEMMA AmoIsExact ==
  ASSUME rs1 \in Words, rs2 \in Words PROVE AmoWords
<1> DEFINE r(op) == AmoResult(op, rs1, rs2)
<1>1. /\ r("SWAP") = rs2 /\ r("OTHER") = rs1
      /\ r("ADD") = (rs1 + rs2) % Modulus
      /\ r("XOR") = Xor(rs1, rs2) /\ r("AND") = And(rs1, rs2) /\ r("OR") = Or(rs1, rs2)
      /\ r("MIN") = IF Signed(rs1) < Signed(rs2) THEN rs1 ELSE rs2
      /\ r("MAX") = IF Signed(rs1) > Signed(rs2) THEN rs1 ELSE rs2
      /\ r("MINU") = IF rs1 < rs2 THEN rs1 ELSE rs2
      /\ r("MAXU") = IF rs1 > rs2 THEN rs1 ELSE rs2
  BY DEF AmoResult
<1>2. (\E carry \in 0..1 : rs1 + rs2 = r("ADD") + carry * Modulus) /\ r("ADD") \in Words
  BY <1>1, SumsAndDifferences
<1>3. /\ Bits(r("XOR")) = (Bits(rs1) \ Bits(rs2)) \cup (Bits(rs2) \ Bits(rs1))
      /\ Bits(r("AND")) = Bits(rs1) \cap Bits(rs2)
      /\ Bits(r("OR")) = Bits(rs1) \cup Bits(rs2)
      /\ r("XOR") \in Words /\ r("AND") \in Words /\ r("OR") \in Words
  BY <1>1, LogicIsBitwise
<1>4. /\ rs1 \in Int /\ rs2 \in Int /\ Signed(rs1) \in Int /\ Signed(rs2) \in Int
      /\ \A x, y \in {rs1, rs2} : SignedBelow(x, y) <=> Signed(x) < Signed(y)
  BY SignedOrder, SignedWord, WordSizes
<1>5. /\ r("MIN") \in {rs1, rs2} /\ \A x \in {rs1, rs2} : ~SignedBelow(x, r("MIN"))
      /\ r("MAX") \in {rs1, rs2} /\ \A x \in {rs1, rs2} : ~SignedBelow(r("MAX"), x)
      /\ r("MINU") \in {rs1, rs2} /\ \A x \in {rs1, rs2} : ~(x < r("MINU"))
      /\ r("MAXU") \in {rs1, rs2} /\ \A x \in {rs1, rs2} : ~(r("MAXU") < x)
  BY <1>1, <1>4
<1>6. \A op \in AmoOps : r(op) \in Words
  <2>1. r("SWAP") \in Words /\ r("OTHER") \in Words  BY <1>1
  <2> HIDE DEF r
  <2> QED  BY <1>2, <1>3, <1>5, <2>1 DEF AmoOps
<1> HIDE DEF r
<1> QED  BY <1>2, <1>3, <1>5, <1>6 DEF AmoWords, r

\* For words of up to 32 bits and every pair of operands: what the ALU of cpu_top
\* computes and what the AMOs of rv32a_atomic store are the sums, shifts, comparisons,
\* logic and extremes that their reference definitions say.
THEOREM WordsAreExact == rs1 \in Words /\ rs2 \in Words => AluCorrect
  BY AluIsExact, AmoIsExact DEF AluCorrect
=============================================================================
