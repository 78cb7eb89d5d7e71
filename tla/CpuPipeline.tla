----------------------------- MODULE CpuPipeline -----------------------------
(***************************************************************************)
(* cpu_top with memory_system: fetch, decode, execute, memory and          *)
(* write-back, with operand forwarding, the hazards that stall the         *)
(* pipeline, the handshakes with the multiplier (rv32m_muldiv) and the     *)
(* atomic unit (rv32a_atomic), and the register file.  Both ports of the   *)
(* memory answer after the edge at which they are read, stalled or not.    *)
(* One step is one rising clock edge.                                      *)
(*                                                                         *)
(* A word is abstracted to where it comes from: the value of a register is *)
(* the place, in the program, of the instruction that computed it from the *)
(* operands it should have, 0 before any did, and Wrong for anything else. *)
(* A program is laid out from place 1 on (the reset address) and NOPs      *)
(* follow its end; all of them are the place N + 1.                        *)
(***************************************************************************)
EXTENDS Integers

CONSTANTS N,          \* length of the program
          Reg,        \* registers; 0 is x0
          Setups,     \* [code : program, coprocessor : does one raise cp_stall_external]
          JUMP_DIST,  \* how far a jump or branch goes
          MUL_LAT     \* MUL_LAT of the multiplier

Kind == {"ALU", "LOAD", "STORE", "MUL", "AMO", "JUMP", "JALR", "BRANCH"}
Instruction == [kind : Kind, rd : Reg, rs1 : Reg, rs2 : Reg, taken : BOOLEAN]

ASSUME SizeAssumption == N \in Nat /\ JUMP_DIST \in Nat \ {0} /\ MUL_LAT \in 1..64
ASSUME RegAssumption == 0 \in Reg /\ Reg \subseteq Nat
ASSUME SetupAssumption == Setups \subseteq [code : [1..N -> Instruction], coprocessor : BOOLEAN]

VARIABLES setup,          \* never changes: what runs
          pc, fetched,    \* the fetch address, and the place imem_read_data shows
          if_stage,       \* if_inst, if_pc, if_valid
          id_stage,       \* id_inst, id_pc, id_valid
          id_data,        \* id_rs1_data, id_rs2_data
          ex_stage,       \* the instruction in EX, valid or a bubble, and its address
          mem_stage, wb_stage, \* instruction, valid, reg_write, result
          dread,          \* the address whose word dmem_read_data shows, {} for none
          mul,            \* the multiplier: state, instruction, cycle_cnt
          amo,            \* the atomic unit: state, instruction, address, loaded word
          int_regs,
          latest          \* history: per register the last writer that entered EX
\* History in the stages: due, the place whose instruction a stage should hold, and in
\* EX and the units right, whether the operands were those of the last writers.

vars == <<setup, pc, fetched, if_stage, id_stage, id_data, ex_stage, mem_stage,
          wb_stage, dread, mul, amo, int_regs, latest>>

End == N + 1
Place == 1..End
Wrong == -1                   \* a word that is no instruction's result
Value == 0..End \cup {Wrong}
Bounded(a) == IF a > End THEN End ELSE a

Nop == [kind |-> "ALU", rd |-> 0, rs1 |-> 0, rs2 |-> 0, taken |-> FALSE]
Placed(code, at) == IF at \in 1..N THEN code[at] ELSE Nop
Inst(at) == Placed(setup.code, at)
Is(stage, kind) == stage.valid /\ Inst(stage.at).kind = kind

\* Init and Reset leave the state in which the hold of ten cycles after rst_n ends.
NoFetch == [at |-> 1, pc |-> 1, due |-> 1, valid |-> FALSE]
NoData  == [rs1 |-> 0, rs2 |-> 0]
Nowhere == [base |-> 0, offset |-> 0]
NoInst  == [at |-> 1, due |-> 1, valid |-> FALSE, right |-> FALSE, addr |-> Nowhere]
NoWrite == [at |-> 1, due |-> 1, valid |-> FALSE, write |-> FALSE, result |-> 0]
MulIdle == [state |-> "IDLE", at |-> 1, right |-> FALSE, cycle_cnt |-> 0]
AmoIdle == [state |-> "IDLE", at |-> 1, right |-> FALSE, base |-> 0, data |-> 0]
NoRegs  == [r \in Reg |-> 0]

Init == /\ setup \in Setups
        /\ pc = 1 /\ fetched = 1
        /\ if_stage = NoFetch /\ id_stage = NoFetch /\ id_data = NoData
        /\ ex_stage = NoInst /\ mem_stage = NoWrite /\ wb_stage = NoWrite
        /\ dread = {} /\ mul = MulIdle /\ amo = AmoIdle
        /\ int_regs = NoRegs /\ latest = NoRegs
Reset == /\ pc' = 1 /\ fetched' = 1
         /\ if_stage' = NoFetch /\ id_stage' = NoFetch /\ id_data' = NoData
         /\ ex_stage' = NoInst /\ mem_stage' = NoWrite /\ wb_stage' = NoWrite
         /\ dread' = {} /\ mul' = MulIdle /\ amo' = AmoIdle
         /\ int_regs' = NoRegs /\ latest' = NoRegs
         /\ UNCHANGED setup

-----------------------------------------------------------------------------
\* Decode.  Loads, too, raise ex_reg_write; the units' results take another way.
WritesFromEx == {"ALU", "LOAD", "JUMP", "JALR"}
WritesRd(i) == i.rd # 0 /\ i.kind \in {"ALU", "LOAD", "MUL", "AMO", "JUMP", "JALR"}
IdInst == Inst(id_stage.at)
\* Hazards compare the register fields of every instruction, used or not.
Names(r) == r # 0 /\ r \in {IdInst.rs1, IdInst.rs2}

load_use_hazardRs2 ==                    \* variant: the first operand is not compared
  /\ Is(ex_stage, "LOAD") /\ id_stage.valid
  /\ Inst(ex_stage.at).rd # 0 /\ Inst(ex_stage.at).rd = IdInst.rs2
load_use_hazard ==
  Is(ex_stage, "LOAD") /\ id_stage.valid /\ Names(Inst(ex_stage.at).rd)
m_result_valid(cp_stall) == mul.state = "DONE" /\ ~load_use_hazard /\ ~cp_stall
a_result_valid == amo.state = "COMPLETE"
a_stall_req == amo.state \in {"LOAD", "COMPUTE", "STORE"}

HazardBlind(cp_stall) ==                 \* variant: results are not noticed
  /\ id_stage.valid /\ Names(Inst(ex_stage.at).rd)
  /\ Is(ex_stage, "MUL") \/ Is(ex_stage, "AMO")
data_hazard(cp_stall) ==
  /\ id_stage.valid /\ Names(Inst(ex_stage.at).rd)
  /\ \/ Is(ex_stage, "MUL") /\ ~m_result_valid(cp_stall)
     \/ Is(ex_stage, "AMO") /\ ~a_result_valid

StallForgetsAtomics(cp_stall) == load_use_hazard \/ data_hazard(cp_stall) \/ cp_stall \* variant
pipeline_stall(cp_stall) ==
  load_use_hazard \/ data_hazard(cp_stall) \/ cp_stall \/ a_stall_req

\* branch_taken || jump || jalr, of the instruction in ID, stalled or not.
FlushForgetsBranches == Is(id_stage, "JUMP") \/ Is(id_stage, "JALR")   \* variant
pipeline_flush == \/ Is(id_stage, "JUMP") \/ Is(id_stage, "JALR")
                  \/ Is(id_stage, "BRANCH") /\ IdInst.taken
\* The target is taken from id_pc, which is the address behind that of id_inst: if_pc
\* is the address the word after if_inst is read from.  A jalr that finds the right
\* word in its register goes as far.
JumpTarget == Bounded(id_stage.pc + JUMP_DIST)

\* What ex_result holds: an address for a load, no link value for a jump.
ExResult == IF Is(ex_stage, "ALU") /\ ex_stage.right THEN ex_stage.at ELSE Wrong
Holds(stage, r) == stage.valid /\ stage.write /\ Inst(stage.at).rd = r

ForwardOldest(r) ==                      \* variant: the older result wins
  CASE r = 0 -> 0
    [] r # 0 /\ Holds(wb_stage, r) -> wb_stage.result
    [] r # 0 /\ ~Holds(wb_stage, r) /\ Holds(mem_stage, r) -> mem_stage.result
    [] r # 0 /\ ~Holds(wb_stage, r) /\ ~Holds(mem_stage, r) /\ ex_stage.valid
         /\ Inst(ex_stage.at).kind \in WritesFromEx /\ Inst(ex_stage.at).rd = r -> ExResult
    [] OTHER -> int_regs[r]
Forward(r) ==
  IF r = 0 THEN 0
  ELSE IF /\ ex_stage.valid /\ Inst(ex_stage.at).kind \in WritesFromEx
          /\ Inst(ex_stage.at).rd = r
       THEN ExResult
  ELSE IF Holds(mem_stage, r) THEN mem_stage.result
  ELSE IF Holds(wb_stage, r) THEN wb_stage.result
  ELSE int_regs[r]

\* The words an instruction in ID is handed, each with the register it is for: what is
\* forwarded, or, to the units, what id_rs1_data and id_rs2_data caught for the
\* instruction before, or, for a compare and a jalr, the register file's output.
Operands(i) ==
  CASE i.kind \in {"ALU", "STORE"} -> {<<i.rs1, Forward(i.rs1)>>, <<i.rs2, Forward(i.rs2)>>}
    [] i.kind = "LOAD" -> {<<i.rs1, Forward(i.rs1)>>}
    [] i.kind \in {"MUL", "AMO"} -> {<<i.rs1, id_data.rs1>>, <<i.rs2, id_data.rs2>>}
    [] i.kind = "BRANCH" -> {<<i.rs1, int_regs[i.rs1]>>, <<i.rs2, int_regs[i.rs2]>>}
    [] i.kind = "JALR" -> {<<i.rs1, int_regs[i.rs1]>>}
    [] i.kind = "JUMP" -> {}
Fresh == \A operand \in Operands(IdInst) : operand[2] = latest[operand[1]]

-----------------------------------------------------------------------------
\* The stages after an edge in which the pipeline is not stalled.
IfAfter == [at |-> fetched, pc |-> pc, due |-> if_stage.pc, valid |-> TRUE]
DataAfter == [rs1 |-> Forward(IdInst.rs1), rs2 |-> Forward(IdInst.rs2)]
UnitDoneMulOnly(cp_stall) == Is(ex_stage, "MUL") /\ m_result_valid(cp_stall)  \* variant
UnitDone(cp_stall) == \/ Is(ex_stage, "MUL") /\ m_result_valid(cp_stall)
                      \/ Is(ex_stage, "AMO") /\ a_result_valid
MemAfter(cp_stall) ==
  [at |-> ex_stage.at, due |-> ex_stage.due, valid |-> ex_stage.valid,
   write |-> \/ UnitDone(cp_stall)
             \/ ex_stage.valid /\ Inst(ex_stage.at).kind \in WritesFromEx,
   result |-> CASE UnitDone(cp_stall) /\ Is(ex_stage, "MUL") ->
                     (IF mul.right THEN mul.at ELSE Wrong)
                [] UnitDone(cp_stall) /\ Is(ex_stage, "AMO") -> amo.data
                [] ~UnitDone(cp_stall) /\ Is(ex_stage, "LOAD") ->
                     (IF ex_stage.right /\ dread = {ex_stage.addr} THEN ex_stage.at ELSE Wrong)
                [] OTHER -> ExResult]

\* The rest of a load's immediate is taken to go with the bits in the field rs2.
IdToEx == [at |-> id_stage.at, due |-> id_stage.due, valid |-> id_stage.valid,
           right |-> Fresh,
           addr |-> [base |-> Forward(IdInst.rs1), offset |-> IdInst.rs2]]
\* load_use_hazard puts a bubble into EX, and it also stalls the pipeline.
ExAfterUnheld(cp_stall) ==               \* variant: EX moves on in every stall
  IF load_use_hazard THEN [ex_stage EXCEPT !.valid = FALSE]
  ELSE IdToEx
ExAfter(cp_stall) ==
  IF load_use_hazard THEN [ex_stage EXCEPT !.valid = FALSE]
  ELSE IF pipeline_stall(cp_stall) THEN ex_stage
  ELSE IdToEx

\* The port serves the atomic unit first.  A write leaves 0 in dmem_read_data.
a_mem_req == amo.state \in {"LOAD", "STORE"}
AmoAddress == [base |-> amo.base, offset |-> 0]
DreadAfter == CASE amo.state = "LOAD" -> {AmoAddress}
                [] amo.state # "LOAD" /\ ~a_mem_req /\ Is(ex_stage, "LOAD") -> {ex_stage.addr}
                [] amo.state = "STORE" \/ (~a_mem_req /\ Is(ex_stage, "STORE")) -> {}
                [] OTHER -> dread

\* Both units take the instruction in ID even when data_hazard keeps it there.
Offered(kind, cp_stall) == Is(id_stage, kind) /\ ~load_use_hazard /\ ~cp_stall

MulCount(stall) == IF stall \/ mul.cycle_cnt = 0 THEN mul.cycle_cnt ELSE mul.cycle_cnt - 1
MulAfter(cp_stall) ==
  LET stall == load_use_hazard \/ cp_stall
  IN CASE mul.state = "IDLE" ->
            (IF Offered("MUL", cp_stall)
             THEN [state |-> "EXEC", at |-> id_stage.at, right |-> Fresh,
                   cycle_cnt |-> MUL_LAT - 1]
             ELSE mul)
       [] mul.state = "EXEC" ->
            [mul EXCEPT !.state = IF pipeline_flush THEN "FLUSH"
                                  ELSE IF mul.cycle_cnt = 0 /\ ~stall THEN "DONE" ELSE "EXEC",
                        !.cycle_cnt = MulCount(stall)]
       [] mul.state = "DONE" -> (IF stall THEN mul ELSE [mul EXCEPT !.state = "IDLE"])
       [] mul.state = "FLUSH" -> [mul EXCEPT !.state = "IDLE", !.cycle_cnt = 0]

\* An AMO with a memory that is always ready, which takes the word that the port shows
\* in the cycle of its request.  A flush ends it in any state.
AmoNext(cp_stall) ==
  CASE amo.state = "IDLE" -> (IF Offered("AMO", cp_stall) THEN "LOAD" ELSE "IDLE")
    [] amo.state = "LOAD" -> "COMPUTE"
    [] amo.state = "COMPUTE" -> "STORE"
    [] amo.state = "STORE" -> "COMPLETE"
    [] amo.state = "COMPLETE" -> "IDLE"
AmoTakes(cp_stall) == amo.state = "IDLE" /\ Offered("AMO", cp_stall)
AmoAfter(cp_stall) ==
  [state |-> IF pipeline_flush THEN "IDLE" ELSE AmoNext(cp_stall),
   at |-> IF AmoTakes(cp_stall) THEN id_stage.at ELSE amo.at,
   right |-> IF AmoTakes(cp_stall) THEN Fresh ELSE amo.right,
   base |-> IF AmoTakes(cp_stall) THEN id_data.rs1 ELSE amo.base,
   data |-> IF amo.state # "LOAD" THEN amo.data
            ELSE IF amo.right /\ dread = {AmoAddress} THEN amo.at ELSE Wrong]

\* The register file writes whenever wb_reg_write is up; x0 is never written.
RegsAfter == LET rd == Inst(wb_stage.at).rd
             IN IF wb_stage.write /\ rd # 0
                THEN [int_regs EXCEPT ![rd] = wb_stage.result] ELSE int_regs

Enters(cp_stall) == id_stage.valid /\ ~pipeline_stall(cp_stall)
LatestAfter(cp_stall) == IF Enters(cp_stall) /\ WritesRd(IdInst)
                         THEN [latest EXCEPT ![IdInst.rd] = id_stage.at] ELSE latest

Tick(cp_stall) ==
  LET stall == pipeline_stall(cp_stall)
  IN /\ cp_stall => setup.coprocessor
     /\ pc' = IF stall THEN pc ELSE IF pipeline_flush THEN JumpTarget ELSE Bounded(pc + 1)
     /\ fetched' = pc
     /\ if_stage' = IF stall THEN if_stage ELSE IfAfter
     /\ id_stage' = IF stall THEN id_stage ELSE if_stage
     /\ id_data' = IF stall THEN id_data ELSE DataAfter
     /\ ex_stage' = ExAfter(cp_stall)
     /\ mem_stage' = IF stall THEN mem_stage ELSE MemAfter(cp_stall)
     /\ wb_stage' = IF stall THEN wb_stage ELSE mem_stage
     /\ dread' = DreadAfter
     /\ mul' = MulAfter(cp_stall)
     /\ amo' = AmoAfter(cp_stall)
     /\ int_regs' = RegsAfter
     /\ latest' = LatestAfter(cp_stall)
     /\ UNCHANGED setup

Next == Reset \/ \E cp_stall \in BOOLEAN : Tick(cp_stall)
Spec == Init /\ [][Next]_vars

\* The clock never stops and a coprocessor's stall ends.
FairSpec == Spec /\ WF_vars(Tick(FALSE))

-----------------------------------------------------------------------------
UnitStates == {"IDLE", "LOAD", "COMPUTE", "STORE", "COMPLETE"}
Address == [base : Value, offset : Reg]
TypeOK ==
  /\ setup \in Setups /\ pc \in Place /\ fetched \in Place
  /\ if_stage \in [at : Place, pc : Place, due : Place, valid : BOOLEAN]
  /\ id_stage \in [at : Place, pc : Place, due : Place, valid : BOOLEAN]
  /\ id_data \in [rs1 : Value, rs2 : Value]
  /\ ex_stage \in [at : Place, due : Place, valid : BOOLEAN, right : BOOLEAN, addr : Address]
  /\ \A s \in {mem_stage, wb_stage} :
       s \in [at : Place, due : Place, valid : BOOLEAN, write : BOOLEAN, result : Value]
  /\ dread \in SUBSET Address
  /\ mul \in [state : {"IDLE", "EXEC", "DONE", "FLUSH"}, at : Place, right : BOOLEAN,
              cycle_cnt : 0..63]
  /\ amo \in [state : UnitStates, at : Place, right : BOOLEAN, base : Value, data : Value]
  /\ int_regs \in [Reg -> Value] /\ latest \in [Reg -> Value]

\* What may come after place k on a path: the next place, or, after the third
\* instruction behind a jump, none of which is flushed, the jump's target.  The first
\* instruction is fetched twice.
GoesTo(i) == i.kind \in {"JUMP", "JALR"} \/ (i.kind = "BRANCH" /\ i.taken)
Target(j) == Bounded(j + 1 + JUMP_DIST)
Successors(code, k) ==
  {Bounded(k + 1)} \cup {Target(j) : j \in {j \in 1..N : GoesTo(code[j]) /\ k = j + 3}}
    \cup (IF k = 1 THEN {1} ELSE {})

\* The places that are due in the stages, and those fetched from next, follow each
\* other as the program does, and each stage holds the instruction that is due there:
\* whatever the stalls, none but a NOP is skipped, doubled or overtaken.
Dues == <<wb_stage.due, mem_stage.due, ex_stage.due, id_stage.due, if_stage.due,
          if_stage.pc, pc>>
HoldsDue(s) == s.at = s.due \/ (Inst(s.at) = Nop /\ Inst(s.due) = Nop)
StagesInOrder ==
  /\ \A i \in 1..6 : Dues[i + 1] \in Successors(setup.code, Dues[i])
  /\ HoldsDue(wb_stage) /\ HoldsDue(mem_stage) /\ HoldsDue(ex_stage)
  /\ HoldsDue(id_stage) /\ HoldsDue(if_stage)

\* An instruction that leaves ID, or that a unit takes from there, is handed for each
\* operand the word of the last instruction before it that writes the register:
\* forwarding loses to no younger and no older result, and what the units and the
\* compares read without it is no older either.
UnitTakes(cp_stall) == \/ mul.state = "IDLE" /\ Offered("MUL", cp_stall)
                       \/ AmoTakes(cp_stall)
OperandsFresh == Enters(FALSE) \/ UnitTakes(FALSE) => Fresh

\* No result gets lost on its way: the last writer of a register that entered EX
\* is in the register file or in a later stage that will write it there.
OnItsWay(r) == \/ ex_stage.valid /\ ex_stage.at = latest[r]
               \/ \E s \in {mem_stage, wb_stage} : Holds(s, r) /\ s.result = latest[r]
NothingLost == \A r \in Reg : int_regs[r] = latest[r] \/ OnItsWay(r)

\* The instructions execute one by one, in the order and with the effect a sequential
\* machine gives them, seen at two ends of the pipeline: where they leave ID, and where
\* their results reach the register file.  Of four places due one after the other, the
\* machine is at the first, or where the last jump among them goes to: what the
\* pipeline executes behind a jump the machine does not.
Sequential(b, c, d, e) ==
  IF e # Bounded(d + 1) THEN e
  ELSE IF d # Bounded(c + 1) THEN d
  ELSE IF c # Bounded(b + 1) THEN c
  ELSE b
ToIssue == Sequential(id_stage.due, if_stage.due, if_stage.pc, pc)
ToRetire == Sequential(mem_stage.due, ex_stage.due, id_stage.due, if_stage.due)
Retired(r) == IF r # 0 /\ Holds(wb_stage, r) THEN wb_stage.result ELSE int_regs[r]

AtIssue == INSTANCE SequentialCore WITH
  Programs <- [1..N -> Instruction], program <- setup.code,
  pc <- ToIssue, regs <- latest
AtRetirement == INSTANCE SequentialCore WITH
  Programs <- [1..N -> Instruction], program <- setup.code,
  pc <- ToRetire, regs <- [r \in Reg |-> Retired(r)]
ImplementsSequential == AtIssue!Spec /\ AtRetirement!Spec

\* The atomic unit takes the data port from no load or store.
PortNotShared == a_mem_req => ~Is(ex_stage, "LOAD") /\ ~Is(ex_stage, "STORE")

\* Every stall ends.
StallEnds == pipeline_stall(FALSE) ~> ~pipeline_stall(FALSE)

-----------------------------------------------------------------------------
\* cpu_top.sv:529 "Insert bubble (NOP) in EX stage when load-use hazard detected":
\* the bubble follows the load; the load itself goes on to MEM.
LoadGoesOn ==
  [][Is(ex_stage, "LOAD") => \/ ex_stage'.valid /\ ex_stage'.at = ex_stage.at
                             \/ mem_stage'.valid /\ mem_stage'.at = ex_stage.at
                             \/ Reset]_vars

\* cpu_top.sv:713 "Removed fetch_stall since BRAM is always ready": fetching needs
\* no stall of its own, the instructions of a straight line reach ID one by one.
FetchesAll ==
  [][id_stage'.at \in {id_stage.at, Bounded(id_stage.at + 1)} \/ Reset]_vars
=============================================================================
