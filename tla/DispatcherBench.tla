--------------------------- MODULE DispatcherBench ---------------------------
(***************************************************************************)
(* tb/dispatcher_tb.py.  The driver leaves its wires as they are set, only  *)
(* inst_valid is lowered after one edge: a write that the driver overwrites *)
(* before it waits again is never seen, so two sends in a row keep          *)
(* inst_valid high.  A coprocessor takes an instruction at an edge at which *)
(* it is offered and the coprocessor ready.                                 *)
(***************************************************************************)
EXTENDS Dispatcher, Bench, TLC

CONSTANT NumInstructions    \* of the random stream (20 in the bench)

VARIABLES dut,       \* the wires the driver sets
          board      \* the random stream's counts; history: what was offered and taken

benchVars == <<progress, dut, board>>

create(opcode, rd) == [opcode |-> opcode, rd |-> rd]
Nop == create("OP_IMM", 0)

None == [cp \in Coprocessor |-> 0]

-----------------------------------------------------------------------------
\* A step sets some wires, waits, and looks.
Send(instr, rs1_data, sets, expect) ==
  <<[op |-> "send", sets |-> sets @@ [instruction |-> instr, rs1_data |-> rs1_data],
    expect |-> expect]>>
Clock(sets, expect) ==
  <<[op |-> "clock", sets |-> sets, expect |-> expect]>>
Pause == Clock(Anything, Anything)

Detects(instr, cp) ==
  Send(instr, 1, Anything, [detected |-> TRUE, select |-> cp, instruction |-> instr]) \o Pause
Ignores(instr) == Send(instr, 1, Anything, [detected |-> FALSE]) \o Pause
test_coprocessor_detection ==
  Detects(create("SYSTEM", 1), "CP0") \o Detects(create("FLOAT", 3), "CP1")
  \o Detects(create("CUSTOM", 6), "CP2")
  \o Ignores(create("OP_IMM", 9)) \o Ignores(create("LOAD", 11))

test_coprocessor_data_path ==
  Send(create("SYSTEM", 15), 1, [cp_data_out |-> 2],
       [data_in |-> 1, result_valid |-> TRUE, result |-> 2, reg_write |-> TRUE, reg_addr |-> 15])
  \o Send(create("SYSTEM", 0), 3, Anything, [reg_write |-> FALSE])

test_coprocessor_stall ==
  LET fp_instr == create("FLOAT", 1) IN
  Send(fp_instr, 0, [cp_ready |-> TRUE], [stall |-> FALSE]) \o Pause \o Pause
  \o Send(fp_instr, 0, [cp_ready |-> FALSE], [stall |-> TRUE]) \o Pause \o Pause
  \o Clock([cp_ready |-> TRUE], [stall |-> FALSE])
  \o Send(create("OP_IMM", 3), 0, [cp_ready |-> FALSE], [stall |-> FALSE])

test_pipeline_stall_behavior ==
  LET csr_instr == create("SYSTEM", 1) IN
  Send(csr_instr, 0, [pipeline_stall |-> TRUE], [detected |-> FALSE])
  \o Send(csr_instr, 0, [pipeline_stall |-> FALSE], [detected |-> TRUE])

test_coprocessor_exception ==
  LET csr_instr == create("SYSTEM", 1) IN
  Send(csr_instr, 0, [cp_data_out |-> 1, cp_exception |-> FALSE], [exception |-> FALSE])
  \o Pause \o Pause
  \o Send(csr_instr, 0, [cp_data_out |-> 0, cp_exception |-> TRUE], [exception |-> TRUE])
  \o Clock([cp_exception |-> FALSE], [exception |-> FALSE])

test_back_to_back_instructions ==
  LET nth(i, instr, cp) == Send(instr, i, [cp_data_out |-> i, cp_ready |-> TRUE],
                                [select |-> cp, result_valid |-> TRUE, result |-> i])
  IN nth(0, create("SYSTEM", 1), "CP0") \o nth(1, create("FLOAT", 3), "CP1")
     \o nth(2, create("CUSTOM", 5), "CP2") \o nth(3, create("SYSTEM", 7), "CP0")

test_random_instruction_stream ==
  [i \in 1..NumInstructions |-> [op |-> "random", sets |-> Anything, expect |-> Anything]]

Scripts == [test_coprocessor_detection |-> test_coprocessor_detection,
            test_coprocessor_data_path |-> test_coprocessor_data_path,
            test_coprocessor_stall |-> test_coprocessor_stall,
            test_pipeline_stall_behavior |-> test_pipeline_stall_behavior,
            test_coprocessor_exception |-> test_coprocessor_exception,
            test_back_to_back_instructions |-> test_back_to_back_instructions,
            test_random_instruction_stream |-> test_random_instruction_stream]
Script == Scripts[test]
Now == Script[at + 1]
Doing(op) == ~Done(Script) /\ Now.op = op

-----------------------------------------------------------------------------
\* The driver's constructor and its reset.
DispatcherDriver ==
  [inst_valid |-> FALSE, instruction |-> Nop, rs1_data |-> 0, pipeline_stall |-> FALSE,
   cp_ready |-> TRUE, cp_data_out |-> 0, cp_exception |-> FALSE]
BenchInit ==
  /\ InitTest(DOMAIN Scripts) /\ dut = DispatcherDriver
  /\ board = [cp_count |-> None, non_cp_count |-> 0, due |-> None, taken |-> None]

CpFor == [SYSTEM |-> "CP0", FLOAT |-> "CP1", CUSTOM |-> "CP2"]
Counted(count, cp, one) == IF one THEN [count EXCEPT ![cp] = @ + 1] ELSE count

\* An edge with these wires.  A coprocessor takes what the dispatcher hands it; one
\* is due for each instruction sent to a coprocessor that is ready, unless stalled.
Taken(wires) == Counted(board.taken, coprocessor_select(wires), cp_result_valid(wires))
Due(wires) ==
  LET opcode == wires.instruction.opcode IN
  IF opcode \in CpOpcode /\ wires.cp_ready /\ ~wires.pipeline_stall
  THEN Counted(board.due, CpFor[opcode], TRUE) ELSE board.due

\* The wires a step leaves; the driver sets inst_valid whatever else it sets.
Wires(sets, inst_valid) ==
  [pin \in DOMAIN dut |-> IF pin = "inst_valid" THEN inst_valid
                          ELSE IF pin \in DOMAIN sets THEN sets[pin] ELSE dut[pin]]

send_instruction ==
  /\ Doing("send") /\ dut' = Wires(Now.sets, TRUE)
  /\ board' = [board EXCEPT !.taken = Taken(dut'), !.due = Due(dut')]
  /\ Observe(Agrees(Now.expect, Outputs(dut')))
ClockCycles ==
  /\ Doing("clock") /\ dut' = Wires(Now.sets, FALSE)
  /\ board' = [board EXCEPT !.taken = Taken(dut')]
  /\ Observe(Agrees(Now.expect, Outputs(dut')))

\* One instruction of the random stream; the counts are compared after the last.
SumOf(c) == c.cp_count["CP0"] + c.cp_count["CP1"] + c.cp_count["CP2"] + c.non_cp_count
random_instruction ==
  /\ Doing("random")
  /\ \E opcode \in Opcode, rd \in {0, 1} :
       dut' = [dut EXCEPT !.instruction = create(opcode, rd), !.inst_valid = TRUE]
  /\ board' = [cp_count |-> Counted(board.cp_count, coprocessor_select(dut'),
                                    coprocessor_detected(dut')),
               non_cp_count |-> board.non_cp_count + IF coprocessor_detected(dut') THEN 0 ELSE 1,
               taken |-> Taken(dut'), due |-> Due(dut')]
  /\ Observe(at + 1 < NumInstructions \/ SumOf(board') = NumInstructions)

BenchNext == send_instruction \/ ClockCycles \/ random_instruction
BenchSpec == BenchInit /\ [][BenchNext]_benchVars

-----------------------------------------------------------------------------
\* An instruction is taken once, by the coprocessor it is for, however long the
\* driver waits before it sends the next, and none is taken that was stalled.
TakenOnce == board.taken = board.due
=============================================================================
