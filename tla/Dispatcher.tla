------------------------------ MODULE Dispatcher ------------------------------
(***************************************************************************)
(* dispatcher: decides from the opcode which coprocessor an instruction is  *)
(* for and passes its answer on.  It keeps no state: the outputs are a      *)
(* function of the wires.  CP0 is the select value of "no coprocessor" too. *)
(***************************************************************************)
EXTENDS Integers

CpOpcode == {"SYSTEM", "FLOAT", "CUSTOM"}
Opcode == CpOpcode \cup {"OP_IMM", "LOAD", "STORE", "OP"}
Coprocessor == {"CP0", "CP1", "CP2"}

\* variant: the pipeline's stall is not looked at.
coprocessor_detectedStalled(wires) == wires.inst_valid /\ wires.instruction.opcode \in CpOpcode
coprocessor_detected(wires) ==
  /\ wires.inst_valid /\ ~wires.pipeline_stall
  /\ wires.instruction.opcode \in CpOpcode
coprocessor_select(wires) ==
  IF ~coprocessor_detected(wires) THEN "CP0"
  ELSE CASE wires.instruction.opcode = "SYSTEM" -> "CP0"
         [] wires.instruction.opcode = "FLOAT" -> "CP1"
         [] wires.instruction.opcode = "CUSTOM" -> "CP2"

cp_result_valid(wires) == coprocessor_detected(wires) /\ wires.cp_ready

Outputs(wires) ==
  [detected |-> coprocessor_detected(wires), select |-> coprocessor_select(wires),
   instruction |-> wires.instruction, data_in |-> wires.rs1_data,
   stall |-> coprocessor_detected(wires) /\ ~wires.cp_ready,
   exception |-> wires.cp_exception,
   result |-> wires.cp_data_out, result_valid |-> cp_result_valid(wires),
   reg_write |-> cp_result_valid(wires) /\ wires.instruction.rd # 0,
   reg_addr |-> wires.instruction.rd]
=============================================================================
