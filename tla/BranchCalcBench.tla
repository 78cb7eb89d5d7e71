--------------------------- MODULE BranchCalcBench ---------------------------
(***************************************************************************)
(* tb/branch_calc_tb.py and branch_calc, which has no state.  A word is the *)
(* set of its bits that are one.  The bench has the formats of the ISA      *)
(* twice, to encode an immediate and to extract it, and the design has them *)
(* a third time.  Random immediates are zero, the powers of two of either   *)
(* sign in the bench's range and its ends; the bits of an instruction that  *)
(* are no immediate are all zero or all one.                                *)
(***************************************************************************)
EXTENDS Integers, Bench

VARIABLES dut,       \* nothing: the design has no state
          board      \* whether the case's address was its base plus its immediate

benchVars == <<progress, dut, board>>

Bit == 0..31
Word(hi, lo) == {i \in Bit : (IF i < 16 THEN (lo \div 2^i) % 2 ELSE (hi \div 2^(i - 16)) % 2) = 1}
Int32(n) == {i \in Bit : IF i = 31 THEN n < 0 ELSE (n \div 2^i) % 2 = 1}
Carried(a, b, i) == \E j \in 0..(i - 1) : j \in a \cap b /\ (j + 1)..(i - 1) \subseteq a \cup b
Add(a, b) == {i \in Bit : (i \in a) # ((i \in b) # Carried(a, b, i))}

-----------------------------------------------------------------------------
\* The design: for each bit of an offset the bit of the instruction it is.
bra_offsetShort(inst) ==                               \* variant: bit 11 from the sign
  {i \in 1..31 : (CASE i >= 11 -> 31 [] i \in 5..10 -> i + 20 [] OTHER -> i + 7) \in inst}
bra_offset(inst) ==
  {i \in 1..31 :
    (CASE i >= 12 -> 31 [] i = 11 -> 7 [] i \in 5..10 -> i + 20 [] OTHER -> i + 7) \in inst}
jal_offset(inst) ==
  {i \in 1..31 :
    (CASE i >= 20 -> 31 [] i \in 12..19 -> i [] i = 11 -> 20 [] OTHER -> i + 20) \in inst}
jalr_offset(inst) == {i \in Bit : (IF i >= 11 THEN 31 ELSE i + 20) \in inst}

Address(kind, pc, inst, data_a) ==
  CASE kind = "bra" -> Add(pc, bra_offset(inst))
    [] kind = "jal" -> Add(pc, jal_offset(inst))
    [] kind = "jalr" -> Add(data_a, jalr_offset(inst)) \ {0}

-----------------------------------------------------------------------------
\* The bench's formats: for each bit of the instruction the bit of the immediate.
braPlaces == [p \in 7..11 \cup 25..31 |->
                CASE p = 31 -> 12 [] p \in 25..30 -> p - 20 [] p \in 8..11 -> p - 7 [] p = 7 -> 11]
jalPlaces == [p \in 12..31 |->
                CASE p = 31 -> 20 [] p \in 21..30 -> p - 20 [] p = 20 -> 11 [] p \in 12..19 -> p]
jalrPlaces == [p \in 20..31 |-> p - 20]
Encoded == [bra |-> braPlaces, jal |-> jalPlaces, jalr |-> jalrPlaces]
encode(format, imm, rest) ==
  {p \in DOMAIN format : format[p] \in imm} \cup (rest \ DOMAIN format)

extract_b_immediate(inst) ==
  {imm \in Bit : \/ 31 \in inst /\ imm >= 12
                 \/ 7 \in inst /\ imm = 11
                 \/ imm \in 5..10 /\ imm + 20 \in inst
                 \/ imm \in 1..4 /\ imm + 7 \in inst}
extract_j_immediate(inst) ==
  {imm \in Bit : \/ 31 \in inst /\ imm >= 20
                 \/ imm \in 12..19 /\ imm \in inst
                 \/ 20 \in inst /\ imm = 11
                 \/ imm \in 1..10 /\ imm + 20 \in inst}
extract_i_immediate(inst) ==
  {imm \in Bit : \/ 31 \in inst /\ imm >= 12
                 \/ imm \in 0..11 /\ imm + 20 \in inst}
calculate_address(kind, pc, inst, data_a) ==
  CASE kind = "bra" -> Add(pc, extract_b_immediate(inst))
    [] kind = "jal" -> Add(pc, extract_j_immediate(inst))
    [] kind = "jalr" -> Add(data_a, extract_i_immediate(inst)) \ {0}

-----------------------------------------------------------------------------
\* The scripts.  The base of a case is the pc, or data_a for a JALR.
Powers(n) == {0} \cup {2^k : k \in 1..(n - 1)} \cup {-(2^k) : k \in 1..n} \cup {2^n - 2}
Bases == {Word(0, 0), Word(0, 4096), Word(32767, 65532), Word(32768, 0), Word(65535, 65532)}
AnyOf(kind, imms, bases) ==
  <<[kind |-> kind, imms |-> imms, bases |-> bases, rests |-> {{}, Bit}, calculated |-> TRUE]>>
Fixed(kind, base, imm) ==
  <<[kind |-> kind, imms |-> {imm}, bases |-> {base}, rests |-> {{}}, calculated |-> FALSE]>>

test_risc_v_branch_address_calculation ==
  AnyOf("bra", Powers(11), Bases) \o AnyOf("jal", Powers(19), Bases)
  \o AnyOf("jalr", Powers(11) \cup {1, -1, 2047}, Bases \cup {Word(65535, 65535)})
test_specific_risc_v_cases ==
  Fixed("bra", Word(0, 4096), 8) \o Fixed("bra", Word(0, 8192), -12)
  \o Fixed("jal", Word(0, 12288), 1024) \o Fixed("jal", Word(0, 16384), -2048)
  \o Fixed("jalr", Word(4660, 22136), 100) \o Fixed("jalr", Word(43981, 61184), -500)
  \o Fixed("jalr", Word(4660, 22137), 0)
test_edge_cases ==
  Fixed("bra", Word(0, 4096), 4094) \o Fixed("bra", Word(0, 8192), -4096)
  \o Fixed("jal", Word(0, 12288), 1048574) \o Fixed("jal", Word(16, 0), -1048576)

Scripts == [test_risc_v_branch_address_calculation |-> test_risc_v_branch_address_calculation,
            test_specific_risc_v_cases |-> test_specific_risc_v_cases,
            test_edge_cases |-> test_edge_cases]
Script == Scripts[test]
Now == Script[at + 1]

-----------------------------------------------------------------------------
BenchInit == InitTest(DOMAIN Scripts) /\ dut = 0 /\ board = TRUE

\* The random part expects what it calculates from the instruction it encoded, the
\* other tests what the numbers give.
Target(kind, base, imm) ==
  IF kind = "jalr" THEN Add(base, Int32(imm)) \ {0} ELSE Add(base, Int32(imm))
drive ==
  /\ ~Done(Script) /\ UNCHANGED dut
  /\ \E imm \in Now.imms, base \in Now.bases, rest \in Now.rests :
       LET inst == encode(Encoded[Now.kind], Int32(imm), rest)
           target == Target(Now.kind, base, imm)
           shown == Address(Now.kind, base, inst, base)
       IN /\ board' = (shown = target)
          /\ Observe(shown = IF Now.calculated
                             THEN calculate_address(Now.kind, base, inst, base) ELSE target)

BenchNext == drive
BenchSpec == BenchInit /\ [][BenchNext]_benchVars

-----------------------------------------------------------------------------
\* The random part takes its expectation from the instruction, so it cannot see an
\* immediate that was encoded wrongly; the address is base plus immediate all the
\* same, modulo 2^32 and even.
GoesWhereEncoded == board
=============================================================================
