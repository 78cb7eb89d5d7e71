----------------------------- MODULE BypassBench -----------------------------
(***************************************************************************)
(* tb/bypass_mux_tb.py and bypass_mux, the multiplexer that forwards a      *)
(* result to an operand.  Neither keeps a state.  A data value is named for *)
(* the place it comes from: the register file, EX or MEM.                   *)
(***************************************************************************)
EXTENDS Integers, Bench, TLC

VARIABLES dut, board      \* nothing: neither the design nor the bench keeps a state

benchVars == <<progress, dut, board>>

PipelineStage(register_dest, writes_register, is_load_instruction) ==
  [rd |-> register_dest, writes |-> writes_register, is_load |-> is_load_instruction]
Idle == PipelineStage(0, FALSE, FALSE)
Writes(rd) == PipelineStage(rd, TRUE, FALSE)
Loads(rd) == PipelineStage(rd, TRUE, TRUE)
writes_to_register(stage, reg_num) == stage.writes /\ stage.rd = reg_num /\ reg_num # 0

-----------------------------------------------------------------------------
\* The design.
bypass_outNoX0(wires) ==                            \* variant: x0 is forwarded too
  CASE wires.ex_wr_reg_en /\ wires.file_out_rs = wires.ex_rd -> wires.ex_pro
    [] /\ ~(wires.ex_wr_reg_en /\ wires.file_out_rs = wires.ex_rd)
       /\ wires.mm_wr_reg_en /\ wires.file_out_rs = wires.mm_rd ->
         IF wires.mm_is_load THEN wires.mm_mem ELSE wires.mm_pro
    [] OTHER -> wires.file_out
bypass_out(wires) ==
  LET from_ex == wires.ex_wr_reg_en /\ wires.file_out_rs \in {wires.ex_rd} \ {0}
      from_mm == wires.mm_wr_reg_en /\ wires.file_out_rs \in {wires.mm_rd} \ {0}
  IN CASE from_ex -> wires.ex_pro
       [] ~from_ex /\ from_mm -> IF wires.mm_is_load THEN wires.mm_mem ELSE wires.mm_pro
       [] OTHER -> wires.file_out

-----------------------------------------------------------------------------
\* The bench's model of the forwarding unit.
detect_hazard(read_reg, ex_stage, mem_stage) ==
  \/ writes_to_register(ex_stage, read_reg)
  \/ writes_to_register(mem_stage, read_reg)
determine_forwarding(read_reg, ex_stage, mem_stage) ==
  CASE ~detect_hazard(read_reg, ex_stage, mem_stage) -> "REG_FILE"
    [] writes_to_register(ex_stage, read_reg) -> "EX"
    [] OTHER -> "MEM"

\* The data of a stage go to the wire that its kind of instruction uses.
Wires(read_reg, ex_stage, mem_stage) ==
  [file_out |-> "REG_FILE", file_out_rs |-> read_reg,
   ex_pro |-> "EX", ex_rd |-> ex_stage.rd, ex_wr_reg_en |-> ex_stage.writes,
   mm_pro |-> IF mem_stage.is_load THEN "0" ELSE "MEM",
   mm_mem |-> IF mem_stage.is_load THEN "MEM" ELSE "0",
   mm_rd |-> mem_stage.rd, mm_wr_reg_en |-> mem_stage.writes, mm_is_load |-> mem_stage.is_load]

-----------------------------------------------------------------------------
\* The scripts.
RISCVTestCase(read_reg, ex_stage, mem_stage) ==
  [read_reg |-> read_reg, ex_stage |-> ex_stage, mem_stage |-> mem_stage]
Capped(reg) == IF reg > 31 THEN 31 ELSE reg

generate_no_hazard_cases ==
  <<RISCVTestCase(5, Writes(10), Writes(15)),
    RISCVTestCase(7, PipelineStage(7, FALSE, FALSE), PipelineStage(7, FALSE, FALSE)),
    RISCVTestCase(0, Writes(1), Writes(2))>>
generate_ex_forwarding_cases ==
  LET one(reg) ==
        RISCVTestCase(reg, Writes(reg), PipelineStage(Capped(reg + 1), FALSE, FALSE))
  IN <<one(1), one(5), one(10), one(31)>>
generate_mem_alu_forwarding_cases ==
  LET one(reg) == RISCVTestCase(reg, Writes(Capped(reg + 5)), Writes(reg))
  IN <<one(2), one(8), one(16)>>
generate_mem_load_forwarding_cases ==
  LET one(reg) == RISCVTestCase(reg, Writes(Capped(reg + 10)), Loads(reg))
  IN <<one(3), one(12), one(25)>>
generate_priority_test_cases ==
  LET one(reg) == RISCVTestCase(reg, Writes(reg), Writes(reg)) IN <<one(4), one(18)>>

test_risc_v_uml_bypass_compliance ==
  generate_no_hazard_cases \o generate_ex_forwarding_cases
  \o generate_mem_alu_forwarding_cases \o generate_mem_load_forwarding_cases
  \o generate_priority_test_cases
test_uml_pipeline_scenarios ==
  <<RISCVTestCase(3, Writes(3), Idle), RISCVTestCase(7, Idle, Loads(7)),
    RISCVTestCase(15, Writes(15), Writes(15))>>
test_uml_architectural_compliance == <<RISCVTestCase(0, Writes(1), Writes(2))>>

Scripts == [test_risc_v_uml_bypass_compliance |-> test_risc_v_uml_bypass_compliance,
            test_uml_pipeline_scenarios |-> test_uml_pipeline_scenarios,
            test_uml_architectural_compliance |-> test_uml_architectural_compliance]
Script == Scripts[test]
Now == Script[at + 1]

-----------------------------------------------------------------------------
BenchInit == InitTest(DOMAIN Scripts) /\ dut = 0 /\ board = 0

simulate_bypass ==
  /\ ~Done(Script) /\ UNCHANGED <<dut, board>>
  /\ Observe(bypass_out(Wires(Now.read_reg, Now.ex_stage, Now.mem_stage)) =
             determine_forwarding(Now.read_reg, Now.ex_stage, Now.mem_stage))

BenchNext == simulate_bypass
BenchSpec == BenchInit /\ [][BenchNext]_benchVars

-----------------------------------------------------------------------------
\* The design and the bench's model agree on every pair of stages, also on those no
\* case has: a stage that writes x0 while x0 is read, a load in MEM behind an EX
\* that writes the same register.
AgreesOnEveryStage ==
  \A read_reg \in 0..2, ex_rd, mem_rd \in 0..2, ex_writes, mem_writes, load \in BOOLEAN :
    LET ex_stage == PipelineStage(ex_rd, ex_writes, FALSE)
        mem_stage == PipelineStage(mem_rd, mem_writes, load)
    IN bypass_out(Wires(read_reg, ex_stage, mem_stage)) =
         determine_forwarding(read_reg, ex_stage, mem_stage)
=============================================================================
