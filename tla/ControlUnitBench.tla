--------------------------- MODULE ControlUnitBench ---------------------------
(***************************************************************************)
(* tb/control_unit_tb.py and control_unit, which has no state, with the     *)
(* formats of imme, the unit cpu_top hands its imm_type to.  Of the outputs *)
(* the ones the bench compares are kept, as the set of those that are high  *)
(* and the immediate's type.                                                *)
(***************************************************************************)
EXTENDS Integers, Bench, TLC

VARIABLES dut,       \* the outputs
          board      \* the opcode of the last case

benchVars == <<progress, dut, board>>

Instruction(opcode, funct3) == [opcode |-> opcode, funct3 |-> funct3]
Controls(high, imm_type) == [high |-> high, imm_type |-> imm_type]
Quiet == Controls({}, 0)

-----------------------------------------------------------------------------
\* The design, and the format that imme extracts for each type.
IMM == [I |-> 0, S |-> 1, B |-> 2, U |-> 3]
system_controls(opcode, funct3) ==
  CASE opcode = "SYSTEM" /\ funct3 # 0 -> {"system", "reg_write"}
    [] opcode = "SYSTEM" /\ funct3 = 0 -> {"system"}
    [] OTHER -> {}
control_unit(inst, inst_valid) ==
  CASE ~inst_valid -> Quiet
    [] inst_valid /\ inst.opcode = "LUI" -> Controls({"reg_write", "alu_src", "lui"}, IMM.U)
    [] inst_valid /\ inst.opcode = "AUIPC" -> Controls({"reg_write", "alu_src", "auipc"}, IMM.U)
    [] inst_valid /\ inst.opcode = "JAL" -> Controls({"reg_write", "jump"}, IMM.U)
    [] inst_valid /\ inst.opcode = "JALR" -> Controls({"reg_write", "jalr", "alu_src"}, IMM.I)
    [] inst_valid /\ inst.opcode = "BRANCH" -> Controls({"branch"}, IMM.B)
    [] inst_valid /\ inst.opcode = "LOAD" -> Controls({"reg_write", "mem_read", "alu_src"}, IMM.I)
    [] inst_valid /\ inst.opcode = "STORE" -> Controls({"mem_write", "alu_src"}, IMM.S)
    [] inst_valid /\ inst.opcode = "OP_IMM" -> Controls({"reg_write", "alu_src"}, IMM.I)
    [] inst_valid /\ inst.opcode = "OP" -> Controls({"reg_write"}, IMM.I)
    [] OTHER -> Controls(system_controls(inst.opcode, inst.funct3), IMM.I)

immeAsDecoded == <<"I", "S", "B", "U">>               \* variant: numbered as control_unit does
imme == <<"I", "S", "U", "B">>
Extracted(imm_type) == imme[imm_type + 1]

-----------------------------------------------------------------------------
\* The bench's specification of the control unit.
Immediate == [LUI |-> "U", AUIPC |-> "U", JAL |-> "J", JALR |-> "I", BRANCH |-> "B",
              LOAD |-> "I", STORE |-> "S", OP_IMM |-> "I"]
IMM_of == IMM @@ [J |-> 3]
get_expected_controls(opcode, funct3) ==
  Controls(
    (IF opcode \in {"LUI", "AUIPC", "JAL", "JALR", "LOAD", "OP_IMM", "OP"}
        \/ (opcode = "SYSTEM" /\ funct3 # 0) THEN {"reg_write"} ELSE {})
    \cup (IF opcode \in {"LUI", "AUIPC", "JALR", "LOAD", "STORE", "OP_IMM"} THEN {"alu_src"}
          ELSE {})
    \cup (CASE opcode = "LOAD" -> {"mem_read"}
            [] opcode = "STORE" -> {"mem_write"}
            [] opcode = "BRANCH" -> {"branch"}
            [] opcode = "JAL" -> {"jump"}
            [] opcode = "JALR" -> {"jalr"}
            [] opcode = "LUI" -> {"lui"}
            [] opcode = "AUIPC" -> {"auipc"}
            [] opcode = "SYSTEM" -> {"system"}
            [] OTHER -> {}),
    IF opcode \in DOMAIN Immediate THEN IMM_of[Immediate[opcode]] ELSE 0)

-----------------------------------------------------------------------------
\* The scripts.  A case: an instruction and what is expected of it.
Expects(inst, expected) == <<[inst |-> inst, inst_valid |-> TRUE, expected |-> expected]>>
AsSpecified(opcode, functs) ==
  [i \in DOMAIN functs |-> Expects(Instruction(opcode, functs[i]),
                                   get_expected_controls(opcode, functs[i]))[1]]

test_risc_v_control_unit_compliance ==
  <<[inst |-> Instruction("none", 0), inst_valid |-> FALSE, expected |-> Quiet]>>
  \o AsSpecified("LUI", <<0>>) \o AsSpecified("AUIPC", <<0>>) \o AsSpecified("JAL", <<0>>)
  \o AsSpecified("JALR", <<0>>) \o AsSpecified("BRANCH", <<0, 1, 4, 5, 6, 7>>)
  \o AsSpecified("LOAD", <<0, 1, 2, 3, 4, 5, 6>>) \o AsSpecified("STORE", <<0, 1, 2, 3>>)
  \o AsSpecified("OP_IMM", <<0, 2, 3, 4, 6, 7, 1, 5>>)
  \o AsSpecified("OP", <<0, 0, 1, 2, 3, 4, 5, 5, 6, 7>>)
  \o AsSpecified("SYSTEM", <<0, 0, 1, 2, 3>>)
test_nop_instruction ==
  Expects(Instruction("OP_IMM", 0), Controls({"reg_write", "alu_src"}, IMM.I))

Scripts == [test_risc_v_control_unit_compliance |-> test_risc_v_control_unit_compliance,
            test_nop_instruction |-> test_nop_instruction]
Script == Scripts[test]
Now == Script[at + 1]

-----------------------------------------------------------------------------
BenchInit == InitTest(DOMAIN Scripts) /\ dut = Quiet /\ board = "none"

decode ==
  /\ ~Done(Script)
  /\ dut' = control_unit(Now.inst, Now.inst_valid) /\ board' = Now.inst.opcode
  /\ Observe(dut' = Now.expected)

BenchNext == decode
BenchSpec == BenchInit /\ [][BenchNext]_benchVars

-----------------------------------------------------------------------------
\* The bench agrees with control_unit on the numbers of the types; imme numbers B
\* and U the other way round.  So LUI and AUIPC get an immediate of the branch
\* format, and no bench decodes and extracts: the one of imme is empty.  A branch
\* and a JAL are wrong as well, but their addresses come from branch_calc.
WrongImmediates ==
  board \in DOMAIN Immediate =>
    (Extracted(dut.imm_type) # Immediate[board] <=> board \in {"LUI", "AUIPC", "BRANCH", "JAL"})
=============================================================================
