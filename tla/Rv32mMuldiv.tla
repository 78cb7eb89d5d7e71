---------------------------- MODULE Rv32mMuldiv ----------------------------
(***************************************************************************)
(* rv32m_muldiv: the multi-cycle multiplier and divider.  One action is    *)
(* one rising clock edge in one state of the FSM; stall_i, flush_i and the *)
(* request wires are its inputs.  What an operation computes is the        *)
(* constant MulDiv, defined in MulDivAlu.                                  *)
(***************************************************************************)
EXTENDS Integers

CONSTANTS Word, MulOp, DivOp,
          MulDiv(_, _, _),   \* MulDiv(op, a, b): the result word
          MUL_LAT, DIV_LAT   \* cycles spent in EXEC when nothing stalls

ASSUME MulDivAssumption == \A op \in MulOp \cup DivOp, a, b \in Word : MulDiv(op, a, b) \in Word
ASSUME OpAssumption == MulOp # {} /\ MulOp \cap DivOp = {} /\ Word # {}
\* cycle_cnt has six bits.
ASSUME LatAssumption == MUL_LAT \in 1..64 /\ DIV_LAT \in 1..64

Op == MulOp \cup DivOp

VARIABLES state, op_reg, op_a, op_b, result_reg, cycle_cnt,
          elapsed,  \* history: unstalled EXEC cycles of the operation
          killed    \* history: flush_i was up while the operation was in EXEC

vars == <<state, op_reg, op_a, op_b, result_reg, cycle_cnt, elapsed, killed>>

Latency(op) == IF op \in MulOp THEN MUL_LAT ELSE DIV_LAT

\* Reset clears the registers; 0 is some word, and as an operation a multiply.
ResetWord == CHOOSE w \in Word : TRUE
ResetOp   == CHOOSE op \in MulOp : TRUE
Init == /\ state = "IDLE"
        /\ op_reg = ResetOp /\ op_a = ResetWord /\ op_b = ResetWord
        /\ result_reg = ResetWord /\ cycle_cnt = 0
        /\ elapsed = 0 /\ killed = FALSE
Reset == /\ state' = "IDLE"
         /\ op_reg' = ResetOp /\ op_a' = ResetWord /\ op_b' = ResetWord
         /\ result_reg' = ResetWord /\ cycle_cnt' = 0
         /\ elapsed' = 0 /\ killed' = FALSE

ready_o == state = "IDLE"
valid_o(stall_i) == state = "DONE" /\ ~stall_i

Idle == state = "IDLE" /\ UNCHANGED vars

StartCountOneMore(op) == Latency(op)                                \* variant
StartCount(op) == Latency(op) - 1

\* A flush in this cycle does not keep the operation from starting.
Accept(op, a, b) ==
  /\ state = "IDLE" /\ state' = "EXEC"
  /\ op_reg' = op /\ op_a' = a /\ op_b' = b
  /\ cycle_cnt' = StartCount(op)
  /\ elapsed' = 0 /\ killed' = FALSE
  /\ UNCHANGED result_reg

CountAfter(stall_i) == IF ~stall_i /\ cycle_cnt > 0 THEN cycle_cnt - 1 ELSE cycle_cnt

\* The result is computed in the last cycle, stalled or not.
ResultAfterDone(stall_i) ==                 \* variant: a cycle early
  IF cycle_cnt = 1 /\ ~stall_i THEN MulDiv(op_reg, op_a, op_b) ELSE result_reg
ResultAfter(stall_i) ==
  IF cycle_cnt = 0 THEN MulDiv(op_reg, op_a, op_b) ELSE result_reg

NextInExecDoneFirst(flush_i, stall_i) ==     \* variant: the last cycle is not flushed
  CASE cycle_cnt = 0 /\ ~stall_i -> "DONE"
    [] flush_i /\ ~(cycle_cnt = 0 /\ ~stall_i) -> "FLUSH"
    [] OTHER -> "EXEC"
NextInExec(flush_i, stall_i) ==
  CASE flush_i -> "FLUSH"
    [] ~flush_i /\ cycle_cnt = 0 /\ ~stall_i -> "DONE"
    [] OTHER -> "EXEC"

Exec(flush_i, stall_i) ==
  /\ state = "EXEC"
  /\ state' = NextInExec(flush_i, stall_i)
  /\ cycle_cnt' = CountAfter(stall_i)
  /\ result_reg' = ResultAfter(stall_i)
  /\ elapsed' = IF stall_i THEN elapsed ELSE elapsed + 1
  /\ killed' = (killed \/ flush_i)
  /\ UNCHANGED <<op_reg, op_a, op_b>>

\* The result waits for the stall to end; flush_i is not looked at.
Done(stall_i) ==
  /\ state = "DONE"
  /\ state' = IF stall_i THEN "DONE" ELSE "IDLE"
  /\ UNCHANGED <<op_reg, op_a, op_b, result_reg, cycle_cnt, elapsed, killed>>

FlushStuck == /\ state = "FLUSH" /\ state' = "FLUSH"                 \* variant
              /\ cycle_cnt' = 0
              /\ UNCHANGED <<op_reg, op_a, op_b, result_reg, elapsed, killed>>
Flush == /\ state = "FLUSH" /\ state' = "IDLE"
         /\ cycle_cnt' = 0
         /\ UNCHANGED <<op_reg, op_a, op_b, result_reg, elapsed, killed>>

Tick(flush_i, stall_i) ==
  \/ Idle
  \/ ~stall_i /\ \E op \in Op, a, b \in Word : Accept(op, a, b)
  \/ Exec(flush_i, stall_i) \/ Done(stall_i) \/ Flush

Next == Reset \/ \E flush_i, stall_i \in BOOLEAN : Tick(flush_i, stall_i)

Spec == Init /\ [][Next]_vars

\* The clock never stops and the stalls of the pipeline end.  No flush is
\* counted on.
StallsEnd == WF_vars(Tick(FALSE, FALSE))
FairSpec == Spec /\ StallsEnd

-----------------------------------------------------------------------------
TypeOK == /\ state \in {"IDLE", "EXEC", "DONE", "FLUSH"}
          /\ op_reg \in Op
          /\ op_a \in Word /\ op_b \in Word /\ result_reg \in Word
          /\ cycle_cnt \in 0..63
          /\ elapsed \in Nat
          /\ killed \in BOOLEAN

\* The result offered is that of the operands accepted, however often the
\* pipeline stalled in between.
ResultOfOperands == state = "DONE" => result_reg = MulDiv(op_reg, op_a, op_b)

\* An operation spends exactly its latency in unstalled EXEC cycles: no stall
\* shortens or lengthens the count.
LatencyExact ==
  /\ state = "EXEC" => elapsed + cycle_cnt + 1 = Latency(op_reg)
  /\ state = "DONE" => elapsed = Latency(op_reg)

\* Every operation leaves the unit: it is ready again once the stalls end.
ReadyAgain == ~ready_o ~> ready_o

\* "Flush/abort operation": an operation flushed in EXEC, its last cycle and stalled
\* cycles included, never offers a result.  A flush in DONE comes too late for it.
FlushAborts == killed => state \in {"IDLE", "FLUSH"}
=============================================================================
