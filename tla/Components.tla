----------------------------- MODULE Components -----------------------------
(***************************************************************************)
(* Components of the core, each by itself under any inputs: the atomic     *)
(* unit, the multiplier, the words that ALU, AMOs and multiplier compute,  *)
(* and the registers of the Red Pitaya wrapper.  `unit` says which of them *)
(* a behaviour runs; the variables of the others rest as they started.     *)
(***************************************************************************)
EXTENDS Rv32mMuldiv, WordWidth, AtomicParameters, WrapperWords

VARIABLES unit,
          a_state, reservation_valid, reservation_addr, a_op, addr_reg, rs2_reg,
          load_data, store_data, sc_success, mem, writes, touched, overtaken,
          rs1, rs2,
          axi_state, axi_awaddr_reg, axi_araddr_reg, cpu_enable, cpu_reset_req,
          single_step_mode, cpu_start_pc, reset_sync, write, aw, w, read, ar, last,
          landed, collided
atomic  == <<a_state, reservation_valid, reservation_addr, a_op, addr_reg, rs2_reg,
             load_data, store_data, sc_success, mem, writes, touched, overtaken>>
pair    == <<rs1, rs2>>
wrapper == <<axi_state, axi_awaddr_reg, axi_araddr_reg, cpu_enable, cpu_reset_req,
             single_step_mode, cpu_start_pc, reset_sync, write, aw, w, read, ar, last,
             landed, collided>>
compVars == <<unit, atomic, vars, pair, wrapper>>

Amos == INSTANCE Rv32aAtomic WITH state <- a_state, op_reg <- a_op
Check == INSTANCE WordAluCheck WITH WIDTH <- 4
Axi == INSTANCE CpuWrapper

\* The multiplier of the .cfg computes on words of WIDTH bits, the AMOs on bits.
Mul == INSTANCE MulDivAlu
MulWords == Mul!Words
MulResult(op, a, b) == Mul!MulDivResult(op, a, b)
OneBit == INSTANCE WordAlu WITH WIDTH <- 1
BitWords == OneBit!Words
BitAmo(op, loaded, operand) == OneBit!AmoResult(op, loaded, operand)

-----------------------------------------------------------------------------
CompInit ==
  /\ Init /\ Amos!Init /\ Axi!Init /\ rs2 = 0
  /\ \/ unit = "atomic" /\ rs1 = 0
     \/ unit \in {"muldiv", "axi"} /\ mem = [a \in Addr |-> Amos!ResetValue] /\ rs1 = 0
     \/ unit = "words" /\ mem = [a \in Addr |-> Amos!ResetValue] /\ rs1 \in Check!Words

\* A step of one of them, said here of the step it takes.
Atomics(step) == unit = "atomic" /\ step /\ UNCHANGED <<unit, vars, pair, wrapper>>
Muldiv(step) == unit = "muldiv" /\ step /\ UNCHANGED <<unit, atomic, pair, wrapper>>
Wrapper(step) == unit = "axi" /\ step /\ UNCHANGED <<unit, atomic, vars, pair>>
\* Every pair of words of four bits, one second operand after the other.
NextPair == /\ unit = "words" /\ rs2' = (rs2 + 1) % Check!Modulus
            /\ UNCHANGED <<unit, atomic, vars, rs1, wrapper>>

CompNext == Atomics(Amos!Next) \/ Muldiv(Next) \/ Wrapper(Axi!Next) \/ NextPair

\* The clock never stops, a memory is ready again and again, the stalls of the
\* pipeline end and an AXI master takes responses and raises what it owes; no flush
\* is counted on.  A behaviour runs one component: one condition serves for each.
Proceed == \/ Atomics(\E in \in Amos!EnvInput :
                         in.mem_ready /\ ~in.flush /\ Amos!Advance(in))
           \/ Muldiv(Tick(FALSE, FALSE))
           \/ Wrapper(Axi!Tick(TRUE, TRUE, Axi!Channels))
CompSpec == CompInit /\ [][CompNext]_compVars /\ WF_compVars(Proceed)

-----------------------------------------------------------------------------
\* When the atomic unit reports its result, memory has been written as often as
\* the result says, and never twice.
WritesAsReported == Amos!WritesAsReported

\* The word the atomic unit stores is computed from the word it loaded.
StoresOwnResult == Amos!StoresOwnResult

\* A reservation that stands is on a word no other master has written.
ReservationSound == Amos!ReservationSound

\* No store of the atomic unit overwrites a write it has not seen, unless that was
\* made in the cycle without lock just before it.
Atomic == Amos!Atomic

\* Every stall of the atomic unit ends.
StallEnds == Amos!StallEnds

\* ALU and AMOs compute what the reference definitions say, for all pairs of words of four bits.
AluCorrect == unit = "words" => Check!AluCorrect

\* Products, quotients and remainders fit the equations that define them.
MulDivExact == unit = "words" => Check!MulDivExact

\* A write of a register is answered only when it has landed, once, in the register
\* it names.
LandsOnce == Axi!LandsOnce

\* A register is read with the word of the last write answered before the read.
ReadsLastWritten == Axi!ReadsLastWritten

\* A read that was taken is being served, unless it was taken along with a write.
TakenReadServed == Axi!TakenReadServed

\* The response to a write that stops or resets the CPU finds it in reset, and the
\* CPU goes into reset for no other reason.
ResetInTime == Axi!ResetInTime

\* Every write is answered, and every read not taken together with a write.
AccessesEnd == Axi!AccessesEnd
=============================================================================
