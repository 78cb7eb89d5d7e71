----------------------------- MODULE CpuTopBench -----------------------------
(***************************************************************************)
(* tb/cpu_top_tb.py: eight of its programs on the pipeline.  A turn of the  *)
(* bench's loop reads the wires as they were before the edge and sets       *)
(* imem_read_data, dmem_read_data and cp_stall_external for the next one:   *)
(* its memory answers an edge late, stalled or not, as memory_system does.  *)
(* The turn before the first edge after the hold sees the reset state and   *)
(* is left out.                                                            *)
(*                                                                         *)
(* Words are places, as in CpuPipeline: an address or a word in memory is   *)
(* the place of the ADDI that made it, what a load should return the place  *)
(* of the load.  imem_ready, low in one turn of ten of the stall test, drops *)
(* only instructions behind the program there.  The jump test, whose jalr   *)
(* goes to an absolute address, is left out.                                *)
(***************************************************************************)
EXTENDS CpuPipeline, Bench, TLC

VARIABLES dut,       \* ex_result and ex_mem_data of the instruction in EX
          board      \* the loop: cycle, cp_stall_external, write_history, retired

benchVars == <<vars, progress, dut, board>>

-----------------------------------------------------------------------------
\* The programs.  The fields rs1 and rs2 are decoded from every instruction.
I(kind, rd, rs1, rs2) == [kind |-> kind, rd |-> rd, rs1 |-> rs1, rs2 |-> rs2, taken |-> FALSE]
ADDI(rd, rs1, imm) == I("ALU", rd, rs1, imm % 32)
OP(rd, rs1, rs2) == I("ALU", rd, rs1, rs2)
LW(rd, rs1, imm) == I("LOAD", rd, rs1, imm % 32)
SW(rs2, rs1) == I("STORE", 0, rs1, rs2)
BRA(rs1, rs2, taken) == [I("BRANCH", 0, rs1, rs2) EXCEPT !.taken = taken]
UPPER(rd, rs1, rs2) == I("ALU", rd, rs1, rs2)
SYSTEM(imm) == I("ALU", 0, 0, imm)

test_basic_alu_operations ==
  <<ADDI(1, 0, 10), ADDI(2, 0, 20), OP(3, 1, 2), OP(4, 2, 1), OP(5, 1, 2), OP(6, 1, 2),
    OP(7, 1, 2)>>
test_load_store_operations ==
  <<Nop, Nop, ADDI(1, 0, 100), ADDI(2, 0, 66), SW(2, 1), Nop, LW(3, 1, 0), Nop,
    ADDI(4, 0, 200), SW(3, 4)>>
\* When the first compares, neither register is written; at the second both are.
test_branch_operations ==
  <<ADDI(1, 0, 5), ADDI(2, 0, 5), BRA(1, 2, TRUE), ADDI(3, 0, 255), ADDI(4, 0, 170),
    BRA(1, 2, FALSE), ADDI(5, 0, 187)>>
test_lui_auipc_operations == <<UPPER(1, 8, 3), UPPER(2, 0, 16), ADDI(3, 1, 1656)>>
test_pipeline_stalls == <<ADDI(1, 0, 10), ADDI(2, 1, 20), LW(3, 0, 100), OP(4, 3, 1)>>
test_interrupt_handling == <<ADDI(1, 0, 1), ADDI(2, 1, 1), ADDI(3, 2, 1), ADDI(4, 3, 1)>>
test_coprocessor_interface == <<ADDI(1, 0, 10), SYSTEM(0), ADDI(2, 0, 20), SYSTEM(1)>>
test_debug_load_store_fixed == <<Nop, Nop, ADDI(1, 0, 100), ADDI(2, 0, 66), SW(2, 1)>>

Programs == [test_basic_alu_operations |-> test_basic_alu_operations,
             test_load_store_operations |-> test_load_store_operations,
             test_branch_operations |-> test_branch_operations,
             test_lui_auipc_operations |-> test_lui_auipc_operations,
             test_pipeline_stalls |-> test_pipeline_stalls,
             test_interrupt_handling |-> test_interrupt_handling,
             test_coprocessor_interface |-> test_coprocessor_interface,
             test_debug_load_store_fixed |-> test_debug_load_store_fixed]
Length == Len(Programs[test])
IsSystem(place) == test = "test_coprocessor_interface" /\ place \in {2, 4}

Cycles == CASE test = "test_load_store_operations" -> 100
            [] test \in {"test_pipeline_stalls"} -> 60
            [] test = "test_lui_auipc_operations" -> 40
            [] OTHER -> 50
Script == [cycle \in 1..(Cycles - 1) |-> cycle]

\* imem.load_program: NOPs, or words 0 that decode to as little, follow.
load_program(program) ==
  [code |-> [k \in 1..N |-> IF k <= Len(program) THEN program[k] ELSE Nop],
   coprocessor |-> TRUE]
BenchSetups == {load_program(Programs[t]) : t \in DOMAIN Programs}

-----------------------------------------------------------------------------
BenchInit ==
  /\ InitTest(DOMAIN Programs) /\ setup = load_program(Programs[test]) /\ Init
  /\ dut = [ex_result |-> 0, ex_mem_data |-> 0]
  /\ board = [cp_stall |-> FALSE, write_history |-> <<>>, retired |-> {}, breaks |-> FALSE]

\* What the wires show before the edge.
Writing == ~a_mem_req /\ Is(ex_stage, "STORE")
WriteHistory == IF Writing THEN Append(board.write_history, dut) ELSE board.write_history
cp_instruction_detected ==
  id_stage.valid /\ IsSystem(id_stage.at) /\ ~pipeline_stall(board.cp_stall)

\* The assertions that follow the loops: the first write to each address.
FirstTo(history, addr) ==
  LET hits == SelectSeq(history, LAMBDA wr : wr.ex_result = addr)
  IN IF hits = <<>> THEN <<>> ELSE <<Head(hits).ex_mem_data>>
Passes(history) ==
  CASE test = "test_load_store_operations" ->
         /\ history # <<>>
         /\ FirstTo(history, 3) \in {<<>>, <<4>>}
         /\ FirstTo(history, 9) \in {<<>>, <<7>>}
    [] test = "test_debug_load_store_fixed" -> history # <<>>
    [] OTHER -> TRUE

delays(cycle) == cycle % 3 = 0

\* One turn of the loop and the edge that ends it.
run ==
  /\ ~Done(Script) /\ ~board.breaks
  /\ Tick(board.cp_stall)
  /\ dut' = IF Enters(board.cp_stall)
            THEN [ex_result |-> Forward(IdInst.rs1), ex_mem_data |-> Forward(IdInst.rs2)]
            ELSE dut
  /\ board' = [cp_stall |-> cp_instruction_detected /\ delays(at + 1),
               write_history |-> WriteHistory,
               retired |-> board.retired \cup (IF wb_stage'.valid THEN {wb_stage'.at} ELSE {}),
               breaks |-> test = "test_debug_load_store_fixed" /\ Writing]
  /\ Observe(Passes(WriteHistory) \/ (at + 1 < Len(Script) /\ ~board'.breaks))

BenchNext == run
BenchSpec == BenchInit /\ [][BenchNext]_benchVars

-----------------------------------------------------------------------------
\* When a loop ends every instruction of its program has been written back, whether
\* or not the one that the branch test marks as skipped.  Only the load that the stall
\* test lets the next instruction wait for never arrives, and no assertion misses it.
ShouldSkip == IF test = "test_branch_operations" THEN {4} ELSE {}
RetiresTheProgram ==
  Done(Script) /\ ~mismatch =>
    (1..Length) \ (board.retired \cup ShouldSkip) =
      IF test = "test_pipeline_stalls" THEN {3} ELSE {}

\* tb/cpu_top_tb.py:363 "ADDI x3, x0, 0xFF (should skip)": what stands behind a taken
\* branch and before its target is not executed.
SkippedNotExecuted == board.retired \cap ShouldSkip = {}
=============================================================================
