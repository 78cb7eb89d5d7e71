--------------------------- MODULE CoprocessorBench ---------------------------
(***************************************************************************)
(* tb/coprocessor_system_tb.py.  A case puts an instruction on the wires,   *)
(* waits one edge, polls for the result edge by edge until it is valid or   *)
(* the case's patience is over, and waits one more edge, at which only the  *)
(* CSR cases have taken the instruction away.  Random operands of products  *)
(* and custom operations are the number of the case.                        *)
(***************************************************************************)
EXTENDS CoprocessorSystem, Bench, TLC

VARIABLES dut,       \* the registers of the coprocessor system
          board      \* the wires, the phase of the case, its patience, what it got

benchVars == <<progress, dut, board>>
NoInstr == Instr("OTHER", 0, "none")

-----------------------------------------------------------------------------
\* A case: the instruction, the edges the bench polls, whether a missing result or
\* detection counts as a failure, whether the instruction is taken away at the end.
Case(instr, patience, must, clears) ==
  [instr |-> instr, patience |-> patience, must |-> must, clears |-> clears, irq |-> FALSE]

CsrCase(funct3, csr) == Case(Instr("SYSTEM", funct3, csr), 10, {"detected", "result"}, TRUE)
TrapCase(bit) ==
  Case([Instr("SYSTEM", 0, "none") EXCEPT !.x0 = TRUE, !.bit20 = bit], 0, {"detected"}, FALSE)
MulCase(funct3) == Case(Instr("MULDIV", funct3, "none"), 20, {"detected", "result"}, FALSE)
CustomCase(class, funct3) == Case(Instr(class, funct3, "none"), 10, {"result"}, FALSE)
OtherCase == Case(NoInstr, 0, {"undetected"}, FALSE)
IrqCase == [OtherCase EXCEPT !.must = {}, !.irq = TRUE]

test_risc_v_coprocessor_system_compliance ==
  <<CsrCase(1, "MSTATUS"), CsrCase(2, "MSTATUS"), CsrCase(3, "MSTATUS"),
    CsrCase(1, "MEPC"), CsrCase(2, "MCAUSE"), CsrCase(3, "MTVAL"),
    CsrCase(1, "CYCLE"), CsrCase(2, "INSTRET"), TrapCase(0), TrapCase(1),
    MulCase(0), MulCase(1), MulCase(2), MulCase(3),
    CustomCase("CUSTOM_0", 0), CustomCase("CUSTOM_0", 1),
    CustomCase("CUSTOM_1", 0), CustomCase("CUSTOM_1", 1),
    OtherCase, OtherCase, OtherCase, OtherCase, IrqCase>>

\* Ten edges are watched for a stall; nothing is required.
test_risc_v_coprocessor_stall_behavior ==
  <<Case(Instr("MULDIV", 0, "none"), 10, {}, FALSE)>>

test_risc_v_coprocessor_edge_cases ==
  LET invalid == Case(Instr("SYSTEM", 1, "invalid"), 5, {}, FALSE)
      custom_and == Case(Instr("CUSTOM_0", 0, "none"), 5, {}, FALSE)
      by_zero(funct3) == Case(Instr("MULDIV", funct3, "none"), 10, {}, FALSE)
  IN <<invalid, invalid, invalid, invalid, custom_and, custom_and, custom_and, custom_and,
       by_zero(4), by_zero(5), by_zero(6), by_zero(7)>>

Order == <<"test_risc_v_coprocessor_system_compliance",
           "test_risc_v_coprocessor_stall_behavior", "test_risc_v_coprocessor_edge_cases">>
Scripts == [test_risc_v_coprocessor_system_compliance |->
                test_risc_v_coprocessor_system_compliance,
            test_risc_v_coprocessor_stall_behavior |-> test_risc_v_coprocessor_stall_behavior,
            test_risc_v_coprocessor_edge_cases |-> test_risc_v_coprocessor_edge_cases]
Script == Scripts[test]
Now == Script[at + 1]

-----------------------------------------------------------------------------
Idle == [instr |-> NoInstr, rs1_data |-> {}, rs2_data |-> {}, irq_signal |-> FALSE]
BenchInit == /\ InitTest(DOMAIN Scripts) /\ dut = ResetState
             /\ board = [wires |-> Idle, phase |-> "apply", timeout |-> 0,
                         got |-> Nothing, had |-> Nothing]

\* What the output shows, and what the case should get: the addressed CSR as it was
\* before the instruction, or its own operation on its own operands.
cp_result(d, w) == CASE cp_select(w) = "CP_CSR" -> <<d.csr_result>>
                     [] cp_select(w) = "CP_MUL" -> d.mul_result
                     [] cp_select(w) = "CP_CUSTOM" -> d.custom_result
                     [] OTHER -> Nothing
Expected(d, w) ==
  CASE w.instr.class = "SYSTEM" -> <<Read(d, w.instr.csr)>>
    [] w.instr.class \in {"MULDIV", "CUSTOM_0", "CUSTOM_1"} ->
         <<w.instr.class, w.instr.funct3, w.rs1_data, w.rs2_data>>
    [] OTHER -> Nothing

Operand(w) == IF w.class = "SYSTEM" THEN Word ELSE {{at}}

\* The instruction is applied for an edge and the settled outputs are read.
apply ==
  /\ ~Done(Script) /\ board.phase = "apply"
  /\ \E rs1_data \in Operand(Now.instr) :
       LET w == [instr |-> Now.instr, rs1_data |-> rs1_data, rs2_data |-> {},
                 irq_signal |-> Now.irq]
           valid == cp_result_valid(After(dut, w), w)
       IN /\ dut' = After(dut, w)
          /\ board' = [wires |-> w, timeout |-> Now.patience,
                       phase |-> IF cp_detected(w) /\ ~valid /\ Now.patience > 0
                                 THEN "poll" ELSE "leave",
                       got |-> IF valid THEN cp_result(dut', w) ELSE Nothing,
                       had |-> Expected(dut, w)]
          /\ mismatch' = \/ "detected" \in Now.must /\ ~cp_detected(w)
                         \/ "undetected" \in Now.must /\ cp_detected(w)
  /\ UNCHANGED <<test, at>>

\* One turn of the polling loop: it reads the outputs from before the edge.
poll ==
  /\ ~Done(Script) /\ board.phase = "poll"
  /\ LET w == board.wires
         valid == cp_result_valid(dut, w)
     IN /\ dut' = After(dut, w)
        /\ board' = [board EXCEPT !.timeout = @ - 1,
                       !.phase = IF valid \/ board.timeout = 1 THEN "leave" ELSE "poll",
                       !.got = IF valid THEN cp_result(dut, w) ELSE Nothing]
        /\ mismatch' = ("result" \in Now.must /\ ~valid /\ board.timeout = 1)
  /\ UNCHANGED <<test, at>>

\* The last edge of the case.
leave ==
  /\ ~Done(Script) /\ board.phase = "leave"
  /\ LET w == [board.wires EXCEPT !.irq_signal = FALSE,
                                  !.instr = IF Now.clears THEN NoInstr ELSE @]
     IN dut' = After(dut, w) /\ board' = [board EXCEPT !.wires = w, !.phase = "apply"]
  /\ Observe(TRUE)

\* A test resets the registers and leaves one edge between the reset and its first
\* case, at which the last instruction of the test before stands on the wires.
next_test ==
  /\ NextTest(Order, Script)
  /\ dut' = After(ResetState, board.wires)
  /\ board' = [board EXCEPT !.got = Nothing, !.phase = "apply"]

BenchNext == apply \/ poll \/ leave \/ next_test
BenchSpec == BenchInit /\ [][BenchNext]_benchVars

-----------------------------------------------------------------------------
\* The result a case takes is its own: of its operation on its operands, or the
\* addressed CSR as it was, though the multiplier was already running, started once
\* more by the instruction of the case before.
ResultIsOwn == board.phase = "leave" /\ board.got # Nothing => board.got = board.had
=============================================================================
