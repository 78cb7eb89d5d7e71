------------------------------- MODULE UvmBench -------------------------------
(***************************************************************************)
(* tb/uvm: the environment of cpu_comprehensive_tb.py and the tests of      *)
(* cpu_test_cases.py.  A test generates instructions into the driver's      *)
(* queue and counts edges; the driver takes one from the queue at every     *)
(* edge and only logs it, the monitor records what the CPU fetches.  No     *)
(* test of these two files serves the CPU's memory ports, so imem_ready is  *)
(* never driven and reads 0.  A word is the set of its bits that are one;   *)
(* the pc counts instructions from the reset address.  The scoreboard,      *)
(* which nothing calls, and the cycle monitor, which logs, are left out.    *)
(***************************************************************************)
EXTENDS Integers, Bench

CONSTANT LongRun     \* instructions of the stress and regression tests (500 and 1000)

VARIABLES dut,       \* the fetch stage: reset_counter, pc, if_valid, id_valid
          board      \* the queue's length, what was monitored, a recorded pc,
                     \* whether the last instruction decoded to what was drawn

benchVars == <<progress, dut, board>>
Bit == 0..31

-----------------------------------------------------------------------------
\* InstructionGenerator: the immediates a category draws, their place in the word.
I_Places == [p \in 20..31 |-> p - 20]
S_Places == [p \in 7..11 \cup 25..31 |-> IF p >= 25 THEN p - 20 ELSE p - 7]
B_Places == [p \in 7..11 \cup 25..31 |->
               CASE p = 31 -> 12 [] p \in 25..30 -> p - 20 [] p \in 8..11 -> p - 7 [] p = 7 -> 11]
J_Places == [p \in 12..31 |->
               CASE p = 31 -> 20 [] p \in 21..30 -> p - 20 [] p = 20 -> 11 [] p \in 12..19 -> p]
encode == [I |-> I_Places, S |-> S_Places, B |-> B_Places, J |-> J_Places, R |-> [p \in {} |-> 0]]
encode_word(type, imm) == {p \in DOMAIN encode[type] : encode[type][p] \in imm}

Int32(n) == {i \in Bit : IF i = 31 THEN n < 0 ELSE (n \div 2^i) % 2 = 1}
Offset == {0, 1, 30, 1023, 1024, 2047}
Signed == Offset \cup {-1, -31, -1024, -2048}
Even(imms) == {2 * (imm \div 2) : imm \in imms}
Generated(category) ==
  CASE category = "ALU" -> {<<"R", 0>>} \cup ({"I"} \X Signed)
    [] category = "LOAD" -> {"I"} \X Offset
    [] category = "STORE" -> {"S"} \X Offset
    [] category = "BRANCH" -> {"B"} \X Even(Signed)
    [] category = "JUMP" -> ({"I"} \X Signed)
                            \cup ({"J"} \X Even(Signed \cup {524286, -524288, 4096, -524286}))
    [] category \in {"MULTIPLY", "ATOMIC"} -> {<<"R", 0>>}

\* InstructionItem.decode.
Field(inst, low, high, at_bit) == {i + at_bit - low : i \in inst \cap (low..high)}
sign_extendShort(value, bits) == value \cup (IF bits \in value THEN bits..31 ELSE {})  \* variant
sign_extend(value, bits) == value \cup (IF bits - 1 \in value THEN bits..31 ELSE {})
decode(type, inst) ==
  CASE type = "I" -> sign_extend(Field(inst, 20, 31, 0), 12)
    [] type = "S" -> sign_extend(Field(inst, 25, 31, 5) \cup Field(inst, 7, 11, 0), 12)
    [] type = "B" -> sign_extend(Field(inst, 31, 31, 12) \cup Field(inst, 7, 7, 11)
                                 \cup Field(inst, 25, 30, 5) \cup Field(inst, 8, 11, 1), 13)
    [] type = "J" -> sign_extend(Field(inst, 31, 31, 20) \cup Field(inst, 12, 19, 12)
                                 \cup Field(inst, 20, 20, 11) \cup Field(inst, 21, 30, 1), 21)
    [] type = "R" -> {}

-----------------------------------------------------------------------------
\* The scripts.
Step(op, categories) == [op |-> op, categories |-> categories]
Clocks(n) == [i \in 1..n |-> Step("clock", {})]
Generate(n, categories) == [i \in 1..n |-> Step("generate", categories)]
Does(op) == <<Step(op, {})>>

Reset == Does("reset") \o Clocks(5)
start == Reset
run_test(n, categories) == Generate(n, categories) \o Clocks(2 * n)
All == {"ALU", "LOAD", "STORE", "BRANCH", "JUMP", "MULTIPLY", "ATOMIC"}

cpu_sanity_test == start \o run_test(50, {"ALU"})
cpu_load_store_test == start \o run_test(100, {"LOAD", "STORE", "ALU"})
cpu_branch_test == start \o run_test(75, {"BRANCH", "ALU"})
cpu_jump_test == start \o run_test(50, {"JUMP", "ALU"})
cpu_multiply_test == start \o run_test(100, {"MULTIPLY", "ALU"})
cpu_atomic_test == start \o run_test(50, {"ATOMIC", "ALU"})
cpu_hazard_test == start \o Clocks(20)
cpu_memory_alignment_test == start \o Generate(7, {"STORE"}) \o Clocks(70)
cpu_pipeline_stress_test == start \o run_test(LongRun, All)
cpu_reset_test ==
  start \o run_test(20, {"ALU"}) \o Does("record") \o Reset \o Clocks(5)
  \o Does("pc_fell") \o run_test(20, {"ALU"})
cpu_performance_test ==
  start \o Does("record") \o run_test(50, {"ALU"}) \o Clocks(100) \o Does("few_cycles")
cpu_corner_case_test == start \o Generate(4, {"ALU"}) \o Clocks(40)
cpu_full_regression_test == start \o run_test(LongRun, All)
test_cpu_comprehensive_fixed == start \o run_test(50, {"ALU", "STORE"})

Scripts == [
  cpu_sanity_test |-> cpu_sanity_test, cpu_load_store_test |-> cpu_load_store_test,
  cpu_branch_test |-> cpu_branch_test, cpu_jump_test |-> cpu_jump_test,
  cpu_multiply_test |-> cpu_multiply_test, cpu_atomic_test |-> cpu_atomic_test,
  cpu_hazard_test |-> cpu_hazard_test,
  cpu_memory_alignment_test |-> cpu_memory_alignment_test,
  cpu_pipeline_stress_test |-> cpu_pipeline_stress_test,
  cpu_reset_test |-> cpu_reset_test, cpu_performance_test |-> cpu_performance_test,
  cpu_corner_case_test |-> cpu_corner_case_test,
  cpu_full_regression_test |-> cpu_full_regression_test,
  test_cpu_comprehensive_fixed |-> test_cpu_comprehensive_fixed]
Script == Scripts[test]
Now == Script[at + 1]
Doing(op) == ~Done(Script) /\ Now.op = op

-----------------------------------------------------------------------------
ResetState == [reset_counter |-> 0, pc |-> 0, if_valid |-> FALSE, id_valid |-> FALSE]
BenchInit == /\ InitTest(DOMAIN Scripts) /\ dut = ResetState
             /\ board = [instruction_queue |-> 0, monitored |-> 0, mark |-> 0, faithful |-> TRUE]

\* The fetch stage; what it decodes must have been answered with imem_ready.
imem_ready == FALSE
Fetch(d) ==
  IF d.reset_counter < 10 THEN [d EXCEPT !.reset_counter = @ + 1]
  ELSE [d EXCEPT !.pc = @ + 1, !.if_valid = TRUE, !.id_valid = d.if_valid /\ imem_ready]

\* The driver's loop takes one instruction at every edge.
drive_instructions(queue) == IF queue > 0 THEN queue - 1 ELSE queue
monitor_instructions(items) == IF imem_ready THEN items + 1 ELSE items

clock ==
  /\ Doing("clock") /\ dut' = Fetch(dut) /\ Observe(TRUE)
  /\ board' = [board EXCEPT !.instruction_queue = drive_instructions(@),
                            !.monitored = monitor_instructions(@)]
reset == Doing("reset") /\ dut' = ResetState /\ Observe(TRUE) /\ UNCHANGED board

generate ==
  /\ Doing("generate") /\ Observe(TRUE) /\ UNCHANGED dut
  /\ \E category \in Now.categories : \E drawn \in Generated(category) :
       LET imm == Int32(drawn[2]) IN
       board' = [board EXCEPT !.instruction_queue = @ + 1,
                              !.faithful = decode(drawn[1], encode_word(drawn[1], imm)) = imm]

record == /\ Doing("record") /\ board' = [board EXCEPT !.mark = dut.pc]
          /\ Observe(TRUE) /\ UNCHANGED dut
\* The pc is below the one before the reset; at most five cycles per instruction.
compare == /\ Doing("pc_fell") \/ Doing("few_cycles")
           /\ Observe(IF Now.op = "pc_fell" THEN dut.pc < board.mark
                      ELSE dut.pc > board.mark => 100 <= 5 * (dut.pc - board.mark))
           /\ UNCHANGED <<dut, board>>

BenchNext == clock \/ reset \/ generate \/ record \/ compare
BenchSpec == BenchInit /\ [][BenchNext]_benchVars

-----------------------------------------------------------------------------
\* An instruction decodes to the immediate that was drawn for it, at the ends of the
\* ranges too.
DecodesWhatIsDrawn == board.faithful
=============================================================================
