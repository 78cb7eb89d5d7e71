-------------------------- MODULE CoprocessorSystem --------------------------
(***************************************************************************)
(* coprocessor_system: the CSR file, a multiplier that takes several cycles *)
(* and a custom unit.  No handshake tells it that an instruction is new: it *)
(* acts at every edge on what stands on the wires.  A CSR word is the set   *)
(* of its bits 3 and 7 that are one (in mstatus MIE and MPIE), since every  *)
(* operation on it is bitwise; a product or custom result is the operation  *)
(* and the operands it was computed from.  The counters are left out.       *)
(***************************************************************************)
EXTENDS Integers

Bits == {3, 7}
Word == SUBSET Bits
Csr == {"MSTATUS", "MISA", "MIE", "MTVEC", "MSCRATCH", "MEPC", "MCAUSE", "MTVAL", "MIP"}
ReadOnly == {"MISA", "MIP"}
Nothing == <<>>               \* a multiplier or custom result of reset

\* The instruction on the wires: class, funct3, CSR address, rs1 = rd = x0, bit 20.
Instr(class, funct3, csr) ==
  [class |-> class, funct3 |-> funct3, csr |-> csr, x0 |-> FALSE, bit20 |-> 0]

cp_select(w) == CASE w.instr.class = "SYSTEM" -> "CP_CSR"
                  [] w.instr.class = "MULDIV" -> "CP_MUL"
                  [] w.instr.class \in {"CUSTOM_0", "CUSTOM_1"} -> "CP_CUSTOM"
                  [] OTHER -> "CP_NONE"
cp_detected(w) == cp_select(w) # "CP_NONE"

ResetState == [csr |-> [a \in Csr |-> {}], csr_result |-> {}, csr_valid |-> FALSE,
               csr_exception |-> FALSE,
               mul_state |-> "MUL_IDLE", mul_cycle_count |-> 0, mul_valid |-> FALSE,
               mul_busy |-> FALSE, mul_result |-> Nothing,
               custom_result |-> Nothing, custom_valid |-> FALSE]

-----------------------------------------------------------------------------
\* The CSR file.  Set and clear start from csr_result, the word registered at an
\* earlier edge, and not from the register that is addressed.
Read(dut, csr) == IF csr \in Csr THEN dut.csr[csr] ELSE {}
new_value(dut, w) ==
  CASE w.instr.funct3 % 4 = 1 -> w.rs1_data
    [] w.instr.funct3 % 4 = 2 -> dut.csr_result \cup w.rs1_data
    [] w.instr.funct3 % 4 = 3 -> dut.csr_result \ w.rs1_data
IsTrap(w) == w.instr.class = "SYSTEM" /\ w.instr.funct3 = 0 /\ w.instr.x0
IsEcall(w) == IsTrap(w) /\ w.instr.bit20 = 0
IsEbreak(w) == IsTrap(w) /\ w.instr.bit20 = 1
Interrupted(dut, w) == w.irq_signal /\ 7 \in dut.csr["MIE"] /\ 3 \in dut.csr["MSTATUS"]

\* MPIE takes MIE's value, MIE falls.
Disabled(mstatus) == IF 3 \in mstatus THEN {7} ELSE {}
CsrAfter(dut, w) ==
  [a \in Csr |->
     CASE Interrupted(dut, w) /\ a = "MSTATUS" -> Disabled(dut.csr[a])
       [] Interrupted(dut, w) /\ a = "MIP" -> dut.csr[a] \cup {7}
       [] Interrupted(dut, w) /\ a \in {"MCAUSE", "MEPC"} -> {}
       [] IsEcall(w) /\ a = "MSTATUS" -> Disabled(dut.csr[a])
       [] IsEcall(w) /\ a = "MCAUSE" -> {3}             \* 11: from M-mode
       [] IsEbreak(w) /\ a = "MCAUSE" -> {}             \* 3
       [] IsTrap(w) /\ a = "MEPC" -> {}                 \* the pc
       [] /\ cp_select(w) = "CP_CSR" /\ w.instr.funct3 \notin {0, 4}
          /\ w.instr.csr = a /\ a \notin ReadOnly -> new_value(dut, w)
       [] OTHER -> dut.csr[a]]

-----------------------------------------------------------------------------
\* The multiplier looks at the operation and the operands when it finishes; it does
\* not ask whether the instruction it finishes is the one it started with.
Computed(w) == <<w.instr.class, w.instr.funct3, w.rs1_data, w.rs2_data>>
CyclesOf(funct3) == IF funct3 < 4 THEN 2 ELSE 4

mul_validSticky(dut) == dut.mul_valid \/ dut.mul_state = "MUL_COMPLETE"    \* variant
mul_valid(dut) == CASE dut.mul_state = "MUL_IDLE" -> FALSE
                    [] dut.mul_state = "MUL_COMPLETE" -> TRUE
                    [] OTHER -> dut.mul_valid

MulAfter(dut, w) ==
  CASE dut.mul_state = "MUL_IDLE" ->
         LET starts == cp_select(w) = "CP_MUL" IN
         [dut EXCEPT !.mul_state = IF starts THEN "MUL_EXECUTE" ELSE @,
            !.mul_busy = @ \/ starts,
            !.mul_cycle_count = IF starts THEN CyclesOf(w.instr.funct3) ELSE @]
    [] dut.mul_state = "MUL_EXECUTE" /\ dut.mul_cycle_count > 0 ->
         [dut EXCEPT !.mul_cycle_count = @ - 1]
    [] dut.mul_state = "MUL_EXECUTE" /\ dut.mul_cycle_count = 0 ->
         [dut EXCEPT !.mul_state = "MUL_COMPLETE", !.mul_result = Computed(w)]
    [] dut.mul_state = "MUL_COMPLETE" ->
         [dut EXCEPT !.mul_busy = FALSE, !.mul_state = "MUL_IDLE"]

\* One rising edge with the wires w.
After(dut, w) ==
  [MulAfter(dut, w) EXCEPT
     !.mul_valid = mul_valid(dut),
     !.csr = CsrAfter(dut, w),
     !.csr_valid = cp_select(w) = "CP_CSR",
     !.csr_exception = IsTrap(w),
     !.csr_result = IF cp_select(w) = "CP_CSR" THEN Read(dut, w.instr.csr) ELSE @,
     !.custom_valid = cp_select(w) = "CP_CUSTOM",
     !.custom_result = IF cp_select(w) = "CP_CUSTOM" THEN Computed(w) ELSE @]

-----------------------------------------------------------------------------
\* The outputs show the unit that the instruction now on the wires selects.
cp_result_valid(dut, w) ==
  CASE cp_select(w) = "CP_CSR" -> dut.csr_valid
    [] cp_select(w) = "CP_MUL" -> dut.mul_valid
    [] cp_select(w) = "CP_CUSTOM" -> dut.custom_valid
    [] OTHER -> FALSE
cp_stall(dut, w) == \/ cp_select(w) = "CP_CSR" /\ dut.csr_exception
                    \/ cp_select(w) = "CP_MUL" /\ dut.mul_busy
=============================================================================
