-------------------------- MODULE CpuPipelineProof --------------------------
(***************************************************************************)
(* Proofs about CpuPipeline: the registers keep their types, and, when a   *)
(* program is scheduled as ScheduledPrograms says and no coprocessor       *)
(* stalls, its instructions keep their order, read the operands and leave  *)
(* the results that a sequential machine gives them, for every such        *)
(* program, of any length, and any latency of the multiplier.              *)
(***************************************************************************)
EXTENDS ScheduledPrograms, TLAPS

LEMMA EndIsNat == End \in Nat /\ End >= 1 /\ Place \subseteq Nat /\ Place \subseteq Value
  BY SizeAssumption DEF End, Place, Value

LEMMA BoundedIsPlace == ASSUME NEW a \in Nat, a >= 1 PROVE Bounded(a) \in Place
  BY EndIsNat DEF Bounded, Place, End

LEMMA InstIsInstruction ==
  ASSUME setup \in Setups, NEW at PROVE Inst(at) \in Instruction
  BY SetupAssumption, RegAssumption DEF Inst, Placed, Nop, Instruction, Kind

LEMMA FieldsAreRegs ==
  ASSUME setup \in Setups, NEW at
  PROVE  Inst(at).rd \in Reg /\ Inst(at).rs1 \in Reg /\ Inst(at).rs2 \in Reg
  BY InstIsInstruction DEF Instruction

\* The start, after reset or at power-up, has the right types.
LEMMA FreshTypes ==
  /\ NoFetch \in [at : Place, pc : Place, due : Place, valid : BOOLEAN]
  /\ NoData \in [rs1 : Value, rs2 : Value]
  /\ NoInst \in [at : Place, due : Place, valid : BOOLEAN, right : BOOLEAN, addr : Address]
  /\ NoWrite \in [at : Place, due : Place, valid : BOOLEAN, write : BOOLEAN, result : Value]
  /\ MulIdle \in [state : {"IDLE", "EXEC", "DONE", "FLUSH"}, at : Place, right : BOOLEAN,
                  cycle_cnt : 0..63]
  /\ AmoIdle \in [state : UnitStates, at : Place, right : BOOLEAN, base : Value, data : Value]
  /\ NoRegs \in [Reg -> Value]
  /\ 1 \in Place /\ 0 \in Value
<1>1. 1 \in Place /\ 0 \in Value  BY EndIsNat DEF Place, Value, End
<1>2. Nowhere \in Address  BY <1>1, RegAssumption DEF Nowhere, Address
<1> QED
  BY <1>1, <1>2 DEF NoFetch, NoData, NoInst, NoWrite, MulIdle, AmoIdle, NoRegs, UnitStates

LEMMA ExResultIsValue == ASSUME TypeOK PROVE ExResult \in Value
  BY EndIsNat DEF TypeOK, ExResult, Value, Wrong

LEMMA ForwardIsValue == ASSUME TypeOK, NEW r \in Reg PROVE Forward(r) \in Value
  BY ExResultIsValue, FreshTypes DEF TypeOK, Forward

LEMMA MemAfterType ==
  ASSUME TypeOK, NEW cp_stall \in BOOLEAN
  PROVE  MemAfter(cp_stall) \in
           [at : Place, due : Place, valid : BOOLEAN, write : BOOLEAN, result : Value]
<1> DEFINE word == MemAfter(cp_stall).result
<1>1. ex_stage.at \in Place /\ ex_stage.due \in Place /\ ex_stage.valid \in BOOLEAN
  BY DEF TypeOK
<1>2. mul.at \in Value /\ amo.data \in Value /\ ex_stage.at \in Value /\ Wrong \in Value
  BY EndIsNat DEF TypeOK, Value
<1>3. UnitDone(cp_stall) \in BOOLEAN
  BY DEF UnitDone, Is, m_result_valid, a_result_valid
<1>4. (UnitDone(cp_stall) \/ (ex_stage.valid /\ Inst(ex_stage.at).kind \in WritesFromEx))
        \in BOOLEAN
  OBVIOUS
<1>5. word \in Value
  BY <1>2, <1>3, ExResultIsValue DEF MemAfter
<1> QED  BY <1>1, <1>4, <1>5 DEF MemAfter

LEMMA MulAfterType ==
  ASSUME TypeOK, NEW cp_stall \in BOOLEAN
  PROVE  MulAfter(cp_stall) \in
           [state : {"IDLE", "EXEC", "DONE", "FLUSH"}, at : Place, right : BOOLEAN,
            cycle_cnt : 0..63]
<1> DEFINE Units == [state : {"IDLE", "EXEC", "DONE", "FLUSH"}, at : Place, right : BOOLEAN,
                     cycle_cnt : 0..63]
<1>1. mul \in Units /\ id_stage.at \in Place /\ MUL_LAT - 1 \in 0..63 /\ Fresh \in BOOLEAN
  BY SizeAssumption DEF TypeOK, Fresh
<1>2. ASSUME NEW stall PROVE MulCount(stall) \in 0..63  BY <1>1 DEF MulCount
<1>3. CASE mul.state = "IDLE"  BY <1>1, <1>3 DEF MulAfter
<1>4. CASE mul.state = "EXEC"  BY <1>1, <1>2, <1>4 DEF MulAfter
<1>5. CASE mul.state = "DONE"  BY <1>1, <1>5 DEF MulAfter
<1>6. CASE mul.state = "FLUSH"
  <2> DEFINE idle == [mul EXCEPT !.state = "IDLE"]
  <2>1. idle \in Units  BY <1>1
  <2>2. 0 \in 0..63  OBVIOUS
  <2>3. MulAfter(cp_stall) = [idle EXCEPT !.cycle_cnt = 0]  BY <1>6 DEF MulAfter
  <2> HIDE DEF idle
  <2>4. [idle EXCEPT !.cycle_cnt = 0] \in Units  BY <2>1, <2>2
  <2> QED  BY <2>3, <2>4
<1> QED  BY <1>1, <1>3, <1>4, <1>5, <1>6

LEMMA AmoAfterType ==
  ASSUME TypeOK, NEW cp_stall \in BOOLEAN
  PROVE  AmoAfter(cp_stall) \in
           [state : UnitStates, at : Place, right : BOOLEAN, base : Value, data : Value]
<1>1. /\ amo \in [state : UnitStates, at : Place, right : BOOLEAN, base : Value, data : Value]
      /\ id_stage.at \in Place /\ amo.at \in Value /\ Wrong \in Value
      /\ id_data.rs1 \in Value /\ Fresh \in BOOLEAN
  BY EndIsNat DEF TypeOK, Value, Fresh
<1>2. AmoNext(cp_stall) \in UnitStates  BY <1>1 DEF AmoNext, UnitStates
<1> QED  BY <1>1, <1>2 DEF AmoAfter, UnitStates

LEMMA RegsAfterType == ASSUME TypeOK PROVE RegsAfter \in [Reg -> Value]
  BY FieldsAreRegs DEF TypeOK, RegsAfter

LEMMA LatestAfterType ==
  ASSUME TypeOK, NEW cp_stall \in BOOLEAN PROVE LatestAfter(cp_stall) \in [Reg -> Value]
  BY FieldsAreRegs, EndIsNat DEF TypeOK, LatestAfter, IdInst

LEMMA PcAfterType ==
  ASSUME TypeOK PROVE Bounded(pc + 1) \in Place /\ JumpTarget \in Place
<1>1. pc \in Nat /\ pc >= 1 /\ id_stage.pc \in Nat /\ id_stage.pc >= 1 /\ JUMP_DIST \in Nat
  BY EndIsNat, SizeAssumption DEF TypeOK, Place
<1>2. pc + 1 \in Nat /\ pc + 1 >= 1 /\ id_stage.pc + JUMP_DIST \in Nat
      /\ id_stage.pc + JUMP_DIST >= 1
  BY <1>1
<1> QED  BY <1>2, BoundedIsPlace DEF JumpTarget

\* TypeOK is inductive: every register of the pipeline, its units and the
\* register file keeps its type.
LEMMA TypeStep == TypeOK /\ [Next]_vars => TypeOK'
<1> SUFFICES ASSUME TypeOK, [Next]_vars PROVE TypeOK'  OBVIOUS
<1>1. CASE Reset  BY <1>1, FreshTypes DEF Reset, TypeOK
<1>2. ASSUME NEW cp_stall \in BOOLEAN, Tick(cp_stall) PROVE TypeOK'
  <2> DEFINE Fetched == [at : Place, pc : Place, due : Place, valid : BOOLEAN]
             InEx == [at : Place, due : Place, valid : BOOLEAN, right : BOOLEAN, addr : Address]
  <2>1. setup' \in Setups  BY <1>2 DEF Tick, TypeOK
  <2>2. pc' \in Place /\ fetched' \in Place  BY <1>2, PcAfterType DEF Tick, TypeOK
  <2>3. IfAfter \in Fetched  BY DEF IfAfter, TypeOK
  <2>4. if_stage' \in Fetched /\ id_stage' \in Fetched  BY <1>2, <2>3 DEF Tick, TypeOK
  <2>5. ASSUME NEW r \in {IdInst.rs1, IdInst.rs2} PROVE r \in Reg /\ Forward(r) \in Value
    BY FieldsAreRegs, ForwardIsValue DEF TypeOK, IdInst
  <2>6. id_data' \in [rs1 : Value, rs2 : Value]
    BY <1>2, <2>5 DEF Tick, TypeOK, DataAfter
  <2>7. ex_stage' \in InEx
    <3>1. IdToEx \in InEx  BY <2>5 DEF IdToEx, Address, Fresh, TypeOK
    <3>2. [ex_stage EXCEPT !.valid = FALSE] \in InEx  BY DEF TypeOK
    <3> QED  BY <1>2, <3>1, <3>2 DEF Tick, TypeOK, ExAfter
  <2>8. /\ mem_stage' \in
             [at : Place, due : Place, valid : BOOLEAN, write : BOOLEAN, result : Value]
        /\ wb_stage' \in
             [at : Place, due : Place, valid : BOOLEAN, write : BOOLEAN, result : Value]
    BY <1>2, MemAfterType DEF Tick, TypeOK
  <2>9. dread' \in SUBSET Address
    <3>1. AmoAddress \in Address /\ ex_stage.addr \in Address
      BY RegAssumption DEF TypeOK, AmoAddress, Address
    <3> QED  BY <1>2, <3>1 DEF Tick, TypeOK, DreadAfter
  <2>10. mul' \in [state : {"IDLE", "EXEC", "DONE", "FLUSH"}, at : Place, right : BOOLEAN,
                   cycle_cnt : 0..63]
    BY <1>2, MulAfterType DEF Tick
  <2>11. amo' \in
           [state : UnitStates, at : Place, right : BOOLEAN, base : Value, data : Value]
    BY <1>2, AmoAfterType DEF Tick
  <2>12. int_regs' \in [Reg -> Value] /\ latest' \in [Reg -> Value]
    BY <1>2, RegsAfterType, LatestAfterType DEF Tick
  <2> QED
    BY <2>1, <2>2, <2>4, <2>6, <2>7, <2>8, <2>9, <2>10, <2>11, <2>12 DEF TypeOK
<1>3. CASE UNCHANGED vars  BY <1>3 DEF vars, TypeOK
<1> QED  BY <1>1, <1>2, <1>3 DEF Next

\* Every register keeps its type, for every program, scheduled or not.
THEOREM TypeCorrect == Spec => []TypeOK
<1>1. Init => TypeOK  BY FreshTypes DEF Init, TypeOK
<1> QED  BY <1>1, TypeStep, PTL DEF Spec
-----------------------------------------------------------------------------
\* Paths through a scheduled program.
LEMMA JumpShadow ==
  ASSUME NEW code, Scheduled(code), NEW j \in 1..N, GoesTo(code[j])
  PROVE  /\ j + 4 <= N
         /\ \A d \in 1..3 : Placed(code, j + d) = Nop
  BY DEF Scheduled, Shadows

LEMMA FirstIsNop == ASSUME NEW code, Scheduled(code) PROVE Placed(code, 1) = Nop
  BY DEF Scheduled

\* Up to the third place behind an instruction the path is straight; from there it goes
\* on straight or, if the instruction jumps, to its target.
LEMMA Straight ==
  ASSUME NEW code, Scheduled(code), NEW k \in 1..N, Placed(code, k) # Nop,
         NEW here \in k..(k + 3), here <= N, NEW m \in Successors(code, here)
  PROVE  m = here + 1 \/ (here = k + 3 /\ GoesTo(code[k]) /\ m = Target(k))
<1>1. N \in Nat /\ End = N + 1  BY SizeAssumption DEF End
<1>2. CASE m = Bounded(here + 1)  BY <1>1, <1>2 DEF Bounded
<1>3. CASE \E j \in 1..N : GoesTo(code[j]) /\ here = j + 3 /\ m = Target(j)
  <2>1. PICK j \in 1..N : GoesTo(code[j]) /\ here = j + 3 /\ m = Target(j)
    BY <1>3
  <2>2. \A e \in 1..3 : Placed(code, j + e) = Nop  BY <2>1, JumpShadow
  <2>3. CASE k = j  BY <2>1, <2>3
  <2>4. CASE k # j
    <3>1. k - j \in 1..3 /\ j + (k - j) = k  BY <1>1, <2>1, <2>4
    <3> QED  BY <2>2, <3>1
  <2> QED  BY <2>3, <2>4
<1>4. CASE here = 1 /\ m = 1
  <2>1. k = 1  BY <1>1, <1>4
  <2> QED  BY <2>1, FirstIsNop
<1> QED  BY <1>2, <1>3, <1>4 DEF Successors

\* Behind the end there is nothing else.
LEMMA BehindEnd ==
  ASSUME NEW code, Scheduled(code), NEW m \in Successors(code, End) PROVE m = End
<1>1. N \in Nat /\ End = N + 1  BY SizeAssumption DEF End
<1>2. CASE m = Bounded(End + 1)  BY <1>1, <1>2 DEF Bounded
<1>3. ASSUME NEW j \in 1..N, GoesTo(code[j]), End = j + 3 PROVE FALSE
  BY <1>1, <1>3, JumpShadow
<1> QED  BY <1>2, <1>3 DEF Successors

\* Nothing leads to the first place but itself.
LEMMA ToTheFirst ==
  ASSUME NEW code, NEW k \in Place, 1 \in Successors(code, k) PROVE k = 1
  BY SizeAssumption DEF Successors, Bounded, Target, Place, End

\* What follows on a path is scheduled as ScheduledPrograms says.
LEMMA Followers ==
  ASSUME NEW code, Scheduled(code), NEW k \in Place, NEW m1 \in Successors(code, k),
         NEW m2 \in Successors(code, m1), NEW m3 \in Successors(code, m2)
  PROVE  LET i == Placed(code, k)
         IN /\ Adjacent(i, Placed(code, m1))
            /\ Spread(i, Placed(code, m1), Placed(code, m2))
            /\ Undisturbed(i, Placed(code, m1)) /\ Undisturbed(i, Placed(code, m2))
            /\ Undisturbed(i, Placed(code, m3))
<1>1. CASE k \in 1..N  BY <1>1 DEF Scheduled
<1>2. CASE k \notin 1..N
  <2>1. k = End  BY <1>2, SizeAssumption DEF Place, End
  <2>2. m1 = End /\ m2 = End /\ m3 = End  BY <2>1, BehindEnd
  <2>3. Placed(code, End) = Nop  BY SizeAssumption DEF Placed, End
  <2> QED
    BY <2>1, <2>2, <2>3
    DEF Nop, Adjacent, Spread, Undisturbed, Uses, Unit, GoesTo, WritesRd
<1> QED  BY <1>1, <1>2

\* The four places behind an instruction, when it is no NOP.
LEMMA FourOn ==
  ASSUME NEW code, Scheduled(code), NEW k \in Place, Placed(code, k) # Nop,
         NEW m1 \in Successors(code, k), NEW m2 \in Successors(code, m1),
         NEW m3 \in Successors(code, m2), NEW m4 \in Successors(code, m3)
  PROVE  /\ k \in 1..N
         /\ m1 = Bounded(k + 1) /\ m2 = Bounded(k + 2) /\ m3 = Bounded(k + 3)
         /\ m4 = Bounded(k + 4) \/ (GoesTo(code[k]) /\ m4 = Target(k))
<1>1. k \in 1..N /\ N \in Nat /\ End = N + 1  BY SizeAssumption DEF Placed, End
<1>2. m1 = k + 1
  <2>1. k \in k..(k + 3) /\ k <= N /\ k # k + 3  BY <1>1
  <2> QED  BY <1>1, <2>1, Straight
<1>3. m2 = Bounded(k + 2)
  <2>1. CASE m1 <= N
    <3>1. m1 \in k..(k + 3) /\ m1 # k + 3  BY <1>1, <1>2
    <3>2. m2 = m1 + 1  BY <1>1, <2>1, <3>1, Straight
    <3> QED  BY <1>1, <1>2, <2>1, <3>2 DEF Bounded
  <2>2. CASE m1 > N
    <3>1. m1 = End  BY <1>1, <1>2, <2>2
    <3>2. m2 = End  BY <3>1, BehindEnd
    <3> QED  BY <1>1, <1>2, <3>1, <3>2 DEF Bounded
  <2> QED  BY <1>1, <1>2, <2>1, <2>2
<1>4. m3 = Bounded(k + 3)
  <2>1. CASE m2 <= N
    <3>1. m2 = k + 2 /\ m2 \in k..(k + 3) /\ m2 # k + 3  BY <1>1, <1>3, <2>1 DEF Bounded
    <3>2. m3 = m2 + 1  BY <1>1, <2>1, <3>1, Straight
    <3> QED  BY <1>1, <2>1, <3>1, <3>2 DEF Bounded
  <2>2. CASE ~(m2 <= N)
    <3>1. m2 = End /\ k + 2 >= End  BY <1>1, <1>3, <2>2 DEF Bounded
    <3>2. m3 = End  BY <3>1, BehindEnd
    <3> QED  BY <1>1, <3>1, <3>2 DEF Bounded
  <2> QED  BY <2>1, <2>2
<1>5. m4 = Bounded(k + 4) \/ (GoesTo(code[k]) /\ m4 = Target(k))
  <2>1. CASE m3 <= N
    <3>1. m3 = k + 3 /\ m3 \in k..(k + 3)  BY <1>1, <1>4, <2>1 DEF Bounded
    <3>2. m4 = m3 + 1 \/ (GoesTo(code[k]) /\ m4 = Target(k))
      BY <1>1, <2>1, <3>1, Straight
    <3> QED  BY <1>1, <2>1, <3>1, <3>2 DEF Bounded
  <2>2. CASE ~(m3 <= N)
    <3>1. m3 = End /\ k + 3 >= End  BY <1>1, <1>4, <2>2 DEF Bounded
    <3>2. m4 = End  BY <3>1, BehindEnd
    <3> QED  BY <1>1, <3>1, <3>2 DEF Bounded
  <2> QED  BY <2>1, <2>2
<1> QED  BY <1>1, <1>2, <1>3, <1>4, <1>5 DEF Bounded

\* Behind an instruction of a unit, the third and the fourth are NOPs.
LEMMA UnitShadow ==
  ASSUME NEW code, Scheduled(code), NEW k \in Place, Unit(Placed(code, k)),
         NEW m1 \in Successors(code, k), NEW m2 \in Successors(code, m1),
         NEW m3 \in Successors(code, m2), NEW m4 \in Successors(code, m3)
  PROVE  Placed(code, m3) = Nop /\ Placed(code, m4) = Nop
<1>1. Placed(code, k) # Nop /\ ~GoesTo(Placed(code, k))  BY DEF Unit, Nop, GoesTo
<1>2. k \in 1..N /\ m3 = Bounded(k + 3) /\ m4 = Bounded(k + 4)
  BY <1>1, FourOn DEF Placed
<1>3. \A d \in 3..4 : Placed(code, k + d) = Nop
  BY <1>2 DEF Scheduled, Shadows, Placed
<1>4. Placed(code, k + 3) = Nop /\ Placed(code, k + 4) = Nop
  <2>1. 3 \in 3..4 /\ 4 \in 3..4  OBVIOUS
  <2> QED  BY <1>3, <2>1
<1> QED  BY <1>2, <1>4, SizeAssumption DEF Bounded, Placed, End

\* Behind a jump the path goes on for three NOPs, and there is a place behind them.
LEMMA ThreeOn ==
  ASSUME NEW code, Scheduled(code), NEW k \in Place, GoesTo(Placed(code, k)),
         NEW m1 \in Successors(code, k), NEW m2 \in Successors(code, m1),
         NEW m3 \in Successors(code, m2)
  PROVE  /\ k \in 1..N /\ k + 4 <= N /\ GoesTo(code[k])
         /\ m1 = k + 1 /\ m2 = k + 2 /\ m3 = k + 3
<1>1. Placed(code, k) # Nop  BY DEF Nop, GoesTo
<1>2. k \in 1..N /\ GoesTo(code[k])  BY <1>1 DEF Placed
<1>3. k + 4 <= N  BY <1>2, JumpShadow
<1>4. \E m4 : m4 \in Successors(code, m3)  BY DEF Successors
<1>5. m1 = Bounded(k + 1) /\ m2 = Bounded(k + 2) /\ m3 = Bounded(k + 3)
  BY <1>1, <1>4, FourOn
<1> QED  BY <1>2, <1>3, <1>5, SizeAssumption DEF Bounded, End
-----------------------------------------------------------------------------
\* The theorems that follow are about the programs that suit the pipeline.
WellScheduled == Suits(setup)

InIf == Inst(if_stage.at)
InEx == Inst(ex_stage.at)
InMem == Inst(mem_stage.at)
InWb == Inst(wb_stage.at)

\* What follows the place c on the path that has come from a, three places before it.
After(a, c) == IF GoesTo(Inst(a)) THEN Target(a) ELSE Bounded(c + 1)

\* A stage that is not valid has nothing but the NOP of the first place.
Empty(s) == ~s.valid => s.at = 1 /\ s.due = 1

\* Fetching keeps to the path: what is due next but one follows the place of the
\* instruction that will then be in MEM, or EX, as the program goes.
Fetching ==
  /\ id_stage.pc = if_stage.due
  /\ fetched = if_stage.pc \/ (Inst(fetched) = Nop /\ Inst(if_stage.pc) = Nop)
  /\ pc = 1 \/ pc = After(ex_stage.due, if_stage.pc)
  /\ if_stage.pc = 1 \/ if_stage.pc = After(mem_stage.due, if_stage.due)
  /\ Empty(if_stage) /\ Empty(id_stage) /\ Empty(ex_stage)
  /\ Empty(mem_stage) /\ Empty(wb_stage)

\* A unit is at work exactly while its instruction is in EX.
UnitsInStep ==
  /\ mul.state \in {"IDLE", "EXEC", "DONE"}
  /\ mul.state # "IDLE" <=> InEx.kind = "MUL"
  /\ mul.state # "IDLE" => mul.at = ex_stage.at /\ mul.right
  /\ amo.state # "IDLE" <=> InEx.kind = "AMO"
  /\ amo.state # "IDLE" => amo.at = ex_stage.at /\ amo.right
  /\ amo.state = "LOAD" => dread = {AmoAddress}
  /\ amo.state \in {"COMPUTE", "STORE", "COMPLETE"} => amo.data = ex_stage.at

OrderInv == WellScheduled /\ StagesInOrder /\ Fetching /\ UnitsInStep

\* What the stages hold, and the path they lie on.
LEMMA Stages ==
  ASSUME OrderInv
  PROVE  /\ Scheduled(setup.code) /\ ~setup.coprocessor
         /\ mem_stage.due \in Successors(setup.code, wb_stage.due)
         /\ ex_stage.due \in Successors(setup.code, mem_stage.due)
         /\ id_stage.due \in Successors(setup.code, ex_stage.due)
         /\ if_stage.due \in Successors(setup.code, id_stage.due)
         /\ if_stage.pc \in Successors(setup.code, if_stage.due)
         /\ pc \in Successors(setup.code, if_stage.pc)
         /\ InIf = Inst(if_stage.due) /\ IdInst = Inst(id_stage.due)
         /\ InEx = Inst(ex_stage.due) /\ InMem = Inst(mem_stage.due)
         /\ InWb = Inst(wb_stage.due)
         /\ Inst(fetched) = Inst(if_stage.pc)
         /\ ~if_stage.valid => InIf = Nop
         /\ ~id_stage.valid => IdInst = Nop
         /\ ~ex_stage.valid => InEx = Nop
         /\ ~mem_stage.valid => InMem = Nop
         /\ ~wb_stage.valid => InWb = Nop
<1>1. Scheduled(setup.code) /\ ~setup.coprocessor
  BY DEF OrderInv, WellScheduled, Suits
<1>2. \A i \in 1..6 : Dues[i + 1] \in Successors(setup.code, Dues[i])
  BY DEF OrderInv, StagesInOrder
<1>3. /\ Dues[1 + 1] \in Successors(setup.code, Dues[1])
      /\ Dues[2 + 1] \in Successors(setup.code, Dues[2])
      /\ Dues[3 + 1] \in Successors(setup.code, Dues[3])
      /\ Dues[4 + 1] \in Successors(setup.code, Dues[4])
      /\ Dues[5 + 1] \in Successors(setup.code, Dues[5])
      /\ Dues[6 + 1] \in Successors(setup.code, Dues[6])
  BY <1>2
<1>4. /\ InIf = Inst(if_stage.due) /\ IdInst = Inst(id_stage.due)
      /\ InEx = Inst(ex_stage.due) /\ InMem = Inst(mem_stage.due)
      /\ InWb = Inst(wb_stage.due)
      /\ Inst(fetched) = Inst(if_stage.pc)
  BY DEF OrderInv, StagesInOrder, HoldsDue, Fetching, InIf, IdInst, InEx, InMem, InWb
<1>5. Inst(1) = Nop  BY <1>1, FirstIsNop DEF Inst
<1>6. /\ ~if_stage.valid => InIf = Nop
      /\ ~id_stage.valid => IdInst = Nop
      /\ ~ex_stage.valid => InEx = Nop
      /\ ~mem_stage.valid => InMem = Nop
      /\ ~wb_stage.valid => InWb = Nop
  BY <1>5 DEF OrderInv, Fetching, Empty, InIf, IdInst, InEx, InMem, InWb
<1> QED  BY <1>1, <1>3, <1>4, <1>6 DEF Dues

\* Instructions that follow each other in the stages are scheduled so.
LEMMA Neighbours ==
  ASSUME TypeOK, OrderInv
  PROVE  /\ Adjacent(InEx, IdInst) /\ Adjacent(IdInst, InIf)
         /\ Spread(InMem, InEx, IdInst) /\ Spread(InEx, IdInst, InIf)
         /\ Undisturbed(InEx, IdInst) /\ Undisturbed(InMem, IdInst)
         /\ Undisturbed(InWb, IdInst)
<1>1. /\ wb_stage.due \in Place /\ mem_stage.due \in Place /\ ex_stage.due \in Place
      /\ id_stage.due \in Place
  BY DEF TypeOK
<1>2. Undisturbed(InWb, IdInst)
  BY <1>1, Stages, Followers DEF Inst
<1>3. Spread(InMem, InEx, IdInst) /\ Undisturbed(InMem, IdInst)
  BY <1>1, Stages, Followers DEF Inst
<1>4. Adjacent(InEx, IdInst) /\ Undisturbed(InEx, IdInst) /\ Spread(InEx, IdInst, InIf)
  BY <1>1, Stages, Followers DEF Inst
<1>5. Adjacent(IdInst, InIf)
  BY <1>1, Stages, Followers DEF Inst
<1> QED  BY <1>2, <1>3, <1>4, <1>5

\* A load, a multiply and an AMO in EX, and what ID holds then.
LEMMA NoLoadUse == ASSUME TypeOK, OrderInv PROVE ~load_use_hazard
  BY Neighbours DEF load_use_hazard, Is, Names, Adjacent, Uses, InEx

LEMMA AfterMul ==
  ASSUME TypeOK, OrderInv, InEx.kind = "MUL"
  PROVE  /\ ex_stage.valid /\ id_stage.valid
         /\ IdInst.kind = "LOAD" /\ Names(InEx.rd) /\ IdInst.rs1 # InEx.rd
         /\ ~pipeline_flush
<1>1. InEx.rd # 0 /\ IdInst.kind = "LOAD" /\ IdInst.rs2 = InEx.rd /\ IdInst.rs1 # InEx.rd
  BY Neighbours DEF Adjacent, WaitsFor
<1>2. ex_stage.valid /\ id_stage.valid  BY <1>1, Stages DEF Nop
<1> QED  BY <1>1, <1>2 DEF Names, pipeline_flush, Is, IdInst

LEMMA AfterAmo ==
  ASSUME TypeOK, OrderInv, InEx.kind = "AMO"
  PROVE  /\ ex_stage.valid
         /\ ~Unit(IdInst) /\ ~Names(InEx.rd)
         /\ ~pipeline_flush
<1>1. ex_stage.valid  BY Stages DEF Nop
<1>2. Adjacent(InEx, IdInst)  BY Neighbours
<1> QED
  BY <1>1, <1>2 DEF Adjacent, Names, Uses, pipeline_flush, GoesTo, Is, IdInst

\* When the pipeline stalls: while a unit works, and EX holds its instruction.
LEMMA StallOfUnits ==
  ASSUME TypeOK, OrderInv
  PROVE  /\ pipeline_stall(FALSE) <=> \/ mul.state = "EXEC"
                                      \/ amo.state \in {"LOAD", "COMPUTE", "STORE"}
         /\ pipeline_stall(FALSE) => Unit(InEx)
<1>1. ~load_use_hazard  BY NoLoadUse
<1>2. CASE InEx.kind = "MUL"
  <2>1. id_stage.valid /\ Names(InEx.rd) /\ Is(ex_stage, "MUL") /\ ~Is(ex_stage, "AMO")
    BY <1>2, AfterMul DEF Is, InEx
  <2>2. amo.state = "IDLE" /\ mul.state \in {"EXEC", "DONE"}
    BY <1>2 DEF OrderInv, UnitsInStep
  <2>3. data_hazard(FALSE) <=> mul.state = "EXEC"
    BY <1>1, <2>1, <2>2 DEF data_hazard, m_result_valid, InEx
  <2> QED  BY <1>1, <1>2, <2>2, <2>3 DEF pipeline_stall, a_stall_req, Unit
<1>3. CASE InEx.kind = "AMO"
  <2>1. ~Names(InEx.rd)  BY <1>3, AfterAmo
  <2>2. mul.state = "IDLE"  BY <1>3 DEF OrderInv, UnitsInStep
  <2>3. ~data_hazard(FALSE)  BY <2>1 DEF data_hazard, InEx
  <2> QED  BY <1>1, <1>3, <2>2, <2>3 DEF pipeline_stall, a_stall_req, Unit
<1>4. CASE InEx.kind \notin {"MUL", "AMO"}
  <2>1. mul.state = "IDLE" /\ amo.state = "IDLE"  BY <1>4 DEF OrderInv, UnitsInStep
  <2>2. ~data_hazard(FALSE)  BY <1>4 DEF data_hazard, Is, InEx
  <2> QED  BY <1>1, <2>1, <2>2 DEF pipeline_stall, a_stall_req
<1> QED  BY <1>2, <1>3, <1>4

\* What an edge does to the stages.
LEMMA Moves ==
  ASSUME Tick(FALSE), ~pipeline_stall(FALSE)
  PROVE  /\ setup' = setup /\ fetched' = pc
         /\ pc' = IF pipeline_flush THEN JumpTarget ELSE Bounded(pc + 1)
         /\ if_stage' = IfAfter /\ id_stage' = if_stage /\ id_data' = DataAfter
         /\ ex_stage' = IdToEx /\ mem_stage' = MemAfter(FALSE) /\ wb_stage' = mem_stage
  BY DEF Tick, ExAfter, pipeline_stall

LEMMA Stays ==
  ASSUME TypeOK, OrderInv, Tick(FALSE), pipeline_stall(FALSE)
  PROVE  /\ setup' = setup /\ fetched' = pc /\ pc' = pc
         /\ if_stage' = if_stage /\ id_stage' = id_stage /\ id_data' = id_data
         /\ ex_stage' = ex_stage /\ mem_stage' = mem_stage /\ wb_stage' = wb_stage
         /\ latest' = latest
  BY NoLoadUse DEF Tick, ExAfter, LatestAfter, Enters

LEMMA InstStays == ASSUME setup' = setup, NEW at PROVE Inst(at)' = Inst(at)
  BY DEF Inst
-----------------------------------------------------------------------------
\* OrderInv is inductive.
LEMMA FlushIsJump ==
  ASSUME OrderInv PROVE pipeline_flush <=> GoesTo(IdInst)
  BY Stages DEF pipeline_flush, Is, IdInst, GoesTo, Nop

\* The next fetch address follows the one fetched from, as the program goes.
LEMMA NextFetch ==
  ASSUME TypeOK, OrderInv, Tick(FALSE), ~pipeline_stall(FALSE)
  PROVE  pc' = After(id_stage.due, pc) /\ pc' \in Successors(setup.code, pc)
<1>1. pc' = IF GoesTo(IdInst) THEN JumpTarget ELSE Bounded(pc + 1)
  BY Moves, FlushIsJump
<1>2. IdInst = Inst(id_stage.due)  BY Stages
<1>3. CASE ~GoesTo(IdInst)  BY <1>1, <1>2, <1>3 DEF After, Successors
<1>4. CASE GoesTo(IdInst)
  <2> DEFINE k == id_stage.due
  <2>1. k \in Place  BY DEF TypeOK
  <2>2. k \in 1..N /\ GoesTo(setup.code[k]) /\ if_stage.due = k + 1 /\ pc = k + 3
    BY <1>2, <1>4, <2>1, Stages, ThreeOn DEF Inst
  <2>3. pc' = Target(k)  BY <1>1, <1>4, <2>2 DEF JumpTarget, Target, OrderInv, Fetching
  <2> QED  BY <1>2, <1>4, <2>2, <2>3 DEF After, Successors
<1> QED  BY <1>3, <1>4

LEMMA OrderStays ==
  ASSUME TypeOK, OrderInv, Tick(FALSE), pipeline_stall(FALSE)
  PROVE  StagesInOrder' /\ Fetching'
<1>1. Inst(if_stage.pc) = Nop /\ Inst(pc) = Nop
  <2>1. Unit(Inst(ex_stage.due))  BY StallOfUnits, Stages
  <2>2. ex_stage.due \in Place  BY DEF TypeOK
  <2> QED  BY <2>1, <2>2, Stages, UnitShadow DEF Inst
<1>2. StagesInOrder'
  <2>1. Dues' = Dues  BY Stays DEF Dues
  <2> QED  BY <2>1, Stays, InstStays DEF OrderInv, StagesInOrder, HoldsDue
<1>3. Fetching'
  BY <1>1, Stays, InstStays DEF OrderInv, Fetching, After, Empty
<1> QED  BY <1>2, <1>3

LEMMA OrderMoves ==
  ASSUME TypeOK, OrderInv, Tick(FALSE), ~pipeline_stall(FALSE)
  PROVE  StagesInOrder' /\ Fetching'
<1>1. /\ if_stage'.at = fetched /\ if_stage'.pc = pc /\ if_stage'.due = if_stage.pc
      /\ if_stage'.valid
  BY Moves DEF IfAfter
<1>2. /\ ex_stage'.at = id_stage.at /\ ex_stage'.due = id_stage.due
      /\ ex_stage'.valid = id_stage.valid
  BY Moves DEF IdToEx
<1>3. /\ mem_stage'.at = ex_stage.at /\ mem_stage'.due = ex_stage.due
      /\ mem_stage'.valid = ex_stage.valid
  BY Moves DEF MemAfter
<1>4. id_stage' = if_stage /\ wb_stage' = mem_stage /\ fetched' = pc /\ setup' = setup
  BY Moves
<1>5. pc' = After(id_stage.due, pc) /\ pc' \in Successors(setup.code, pc)  BY NextFetch
<1>6. StagesInOrder'
  <2>1. Dues' = <<mem_stage.due, ex_stage.due, id_stage.due, if_stage.due, if_stage.pc, pc, pc'>>
    BY <1>1, <1>2, <1>3, <1>4 DEF Dues
  <2>2. ASSUME NEW i \in 1..6 PROVE Dues'[i + 1] \in Successors(setup.code, Dues'[i])
    <3>1. i \in {1, 2, 3, 4, 5, 6}  BY <2>2
    <3> QED  BY <1>5, <2>1, <3>1, Stages
  <2>3. HoldsDue(if_stage)'
    BY <1>1, <1>4, InstStays DEF HoldsDue, OrderInv, Fetching
  <2>4. HoldsDue(id_stage)' /\ HoldsDue(ex_stage)' /\ HoldsDue(mem_stage)' /\ HoldsDue(wb_stage)'
    BY <1>2, <1>3, <1>4, InstStays DEF HoldsDue, OrderInv, StagesInOrder
  <2> QED  BY <1>4, <2>2, <2>3, <2>4 DEF StagesInOrder
<1>7. Fetching'
  <2>1. /\ Empty(if_stage)' /\ Empty(id_stage)' /\ Empty(ex_stage)'
        /\ Empty(mem_stage)' /\ Empty(wb_stage)'
    BY <1>1, <1>2, <1>3, <1>4 DEF Empty, OrderInv, Fetching
  <2>2. pc' = After(ex_stage.due, if_stage.pc)'
    BY <1>1, <1>2, <1>4, <1>5, InstStays DEF After
  <2>3. if_stage'.pc = 1 \/ if_stage'.pc = After(mem_stage.due, if_stage.due)'
    BY <1>1, <1>3, <1>4, InstStays DEF After, OrderInv, Fetching
  <2> QED  BY <1>1, <1>4, <2>1, <2>2, <2>3 DEF Fetching
<1> QED  BY <1>6, <1>7

\* The word an AMO finds where a load before it has asked for it.
AmoWord == IdInst.kind = "AMO" => dread = {[base |-> latest[IdInst.rs1], offset |-> 0]}

\* The operands that a multiply or an AMO in ID is handed.
UnitData == Unit(IdInst) => /\ id_data.rs1 = latest[IdInst.rs1]
                            /\ id_data.rs2 = latest[IdInst.rs2]

LEMMA UnitIsFresh == ASSUME OrderInv, UnitData, Unit(IdInst) PROVE Fresh
  BY DEF UnitData, Unit, Fresh, Operands

\* A multiply leaves ID, and EX, at the edges at which the multiplier takes it and is
\* done with it.
LEMMA MulInStep ==
  ASSUME TypeOK, OrderInv, UnitData, Tick(FALSE)
  PROVE  /\ mul'.state \in {"IDLE", "EXEC", "DONE"}
         /\ mul'.state # "IDLE" <=> InEx'.kind = "MUL"
         /\ mul'.state # "IDLE" => mul'.at = ex_stage'.at /\ mul'.right
<1>1. /\ mul \in [state : {"IDLE", "EXEC", "DONE", "FLUSH"}, at : Place, right : BOOLEAN,
                  cycle_cnt : 0..63]
      /\ mul' = MulAfter(FALSE)
  BY DEF TypeOK, Tick
<1>2. ~load_use_hazard  BY NoLoadUse
<1>3. CASE pipeline_stall(FALSE)
  <2>1. InEx' = InEx /\ ex_stage' = ex_stage  BY <1>3, Stays, InstStays DEF InEx
  <2>2. CASE InEx.kind = "MUL"
    <3>1. ~pipeline_flush  BY <2>2, AfterMul
    <3>2. mul.state = "EXEC" /\ mul.at = ex_stage.at /\ mul.right
      BY <1>3, <2>2, StallOfUnits DEF OrderInv, UnitsInStep
    <3>3. mul'.state \in {"EXEC", "DONE"} /\ mul'.at = mul.at /\ mul'.right = mul.right
      BY <1>1, <3>1, <3>2 DEF MulAfter
    <3> QED  BY <2>1, <2>2, <3>2, <3>3
  <2>3. CASE InEx.kind # "MUL"
    <3>1. mul.state = "IDLE"  BY <2>3 DEF OrderInv, UnitsInStep
    <3>2. InEx.kind = "AMO"  BY <1>3, <2>3, StallOfUnits DEF Unit
    <3>3. ~Offered("MUL", FALSE)  BY <3>2, AfterAmo DEF Offered, Is, Unit, IdInst
    <3> QED  BY <1>1, <2>1, <2>3, <3>1, <3>3 DEF MulAfter
  <2> QED  BY <2>2, <2>3
<1>4. CASE ~pipeline_stall(FALSE)
  <2>1. InEx' = IdInst /\ ex_stage'.at = id_stage.at
    BY <1>4, Moves, InstStays DEF InEx, IdInst, IdToEx
  <2>2. CASE InEx.kind = "MUL"
    <3>1. mul.state = "DONE"  BY <1>4, <2>2, StallOfUnits DEF OrderInv, UnitsInStep
    <3>2. mul'.state = "IDLE"  BY <1>1, <1>2, <3>1 DEF MulAfter
    <3>3. IdInst.kind # "MUL"  BY <2>2, AfterMul
    <3> QED  BY <2>1, <3>2, <3>3
  <2>3. CASE InEx.kind # "MUL"
    <3>1. mul.state = "IDLE"  BY <2>3 DEF OrderInv, UnitsInStep
    <3>2. Offered("MUL", FALSE) <=> IdInst.kind = "MUL"
      BY <1>2, Stages DEF Offered, Is, IdInst, Nop
    <3>3. IdInst.kind = "MUL" => Fresh  BY UnitIsFresh DEF Unit
    <3> QED  BY <1>1, <2>1, <3>1, <3>2, <3>3 DEF MulAfter
  <2> QED  BY <2>2, <2>3
<1> QED  BY <1>3, <1>4

\* So does an AMO, and the unit has the word it loads.
LEMMA AmoInStep ==
  ASSUME TypeOK, OrderInv, UnitData, AmoWord, Tick(FALSE)
  PROVE  /\ amo'.state # "IDLE" <=> InEx'.kind = "AMO"
         /\ amo'.state # "IDLE" => amo'.at = ex_stage'.at /\ amo'.right
         /\ amo'.state = "LOAD" => dread' = {AmoAddress'}
         /\ amo'.state \in {"COMPUTE", "STORE", "COMPLETE"} => amo'.data = ex_stage'.at
<1>1. amo.state \in UnitStates /\ amo' = AmoAfter(FALSE) /\ dread' = DreadAfter
  BY DEF TypeOK, Tick
<1>2. ~load_use_hazard  BY NoLoadUse
<1>3. CASE amo.state = "IDLE"
  <2>1. InEx.kind # "AMO"  BY <1>3 DEF OrderInv, UnitsInStep
  <2>2. CASE IdInst.kind = "AMO"
    <3>1. ~Unit(InEx)
      <4>1. Adjacent(InEx, IdInst)  BY Neighbours
      <4> QED  BY <2>1, <2>2, <4>1, AfterMul DEF Unit
    <3>2. ~pipeline_stall(FALSE)  BY <3>1, StallOfUnits
    <3>3. InEx' = IdInst /\ ex_stage'.at = id_stage.at
      BY <3>2, Moves, InstStays DEF InEx, IdInst, IdToEx
    <3>4. AmoTakes(FALSE) /\ ~pipeline_flush
      BY <1>2, <1>3, <2>2, Stages
      DEF AmoTakes, Offered, Is, IdInst, Nop, pipeline_flush
    <3>5. /\ amo'.state = "LOAD" /\ amo'.at = id_stage.at /\ amo'.right = Fresh
          /\ amo'.base = id_data.rs1
      BY <1>1, <1>3, <3>4 DEF AmoAfter, AmoNext, AmoTakes
    <3>6. Fresh /\ id_data.rs1 = latest[IdInst.rs1]
      BY <2>2, UnitIsFresh DEF UnitData, Unit
    <3>7. dread' = dread
      <4>1. InEx.kind \notin {"LOAD", "STORE"}  BY <2>2, Neighbours DEF Spread
      <4> QED  BY <1>1, <1>3, <4>1 DEF DreadAfter, a_mem_req, Is, InEx
    <3>8. dread' = {[base |-> amo'.base, offset |-> 0]}
      BY <2>2, <3>5, <3>6, <3>7 DEF AmoWord
    <3> QED  BY <2>2, <3>3, <3>5, <3>6, <3>8 DEF AmoAddress
  <2>3. CASE IdInst.kind # "AMO"
    <3>1. amo'.state = "IDLE"
      BY <1>1, <1>3, <2>3 DEF AmoAfter, AmoNext, Offered, Is, IdInst
    <3>2. InEx'.kind # "AMO"
      <4>1. CASE pipeline_stall(FALSE)
        BY <2>1, <4>1, Stays, InstStays DEF InEx
      <4>2. CASE ~pipeline_stall(FALSE)
        BY <2>3, <4>2, Moves, InstStays DEF InEx, IdInst, IdToEx
      <4> QED  BY <4>1, <4>2
    <3> QED  BY <3>1, <3>2
  <2> QED  BY <2>2, <2>3
<1>4. CASE amo.state \in {"LOAD", "COMPUTE", "STORE"}
  <2>1. InEx.kind = "AMO" /\ amo.at = ex_stage.at /\ amo.right
    BY <1>4 DEF OrderInv, UnitsInStep
  <2>2. ~pipeline_flush  BY <2>1, AfterAmo
  <2>3. ~AmoTakes(FALSE)  BY <1>4 DEF AmoTakes
  <2>4. /\ amo'.state \in {"COMPUTE", "STORE", "COMPLETE"}
        /\ amo'.at = amo.at /\ amo'.right = amo.right
    BY <1>1, <1>4, <2>2, <2>3 DEF AmoAfter, AmoNext
  <2>5. amo'.data = ex_stage.at
    <3>1. CASE amo.state = "LOAD"
      BY <1>1, <2>1, <3>1 DEF AmoAfter, OrderInv, UnitsInStep
    <3>2. CASE amo.state # "LOAD"
      BY <1>1, <1>4, <2>1, <3>2 DEF AmoAfter, OrderInv, UnitsInStep
    <3> QED  BY <3>1, <3>2
  <2>6. InEx' = InEx /\ ex_stage' = ex_stage
    BY <1>4, StallOfUnits, Stays, InstStays DEF InEx
  <2> QED  BY <2>1, <2>4, <2>5, <2>6
<1>5. CASE amo.state = "COMPLETE"
  <2>1. InEx.kind = "AMO"  BY <1>5 DEF OrderInv, UnitsInStep
  <2>2. ~Unit(IdInst) /\ ~pipeline_flush  BY <2>1, AfterAmo
  <2>3. ~pipeline_stall(FALSE)
    BY <1>5, <2>1, StallOfUnits DEF OrderInv, UnitsInStep
  <2>4. amo'.state = "IDLE"  BY <1>1, <1>5, <2>2 DEF AmoAfter, AmoNext
  <2>5. InEx' = IdInst  BY <2>3, Moves, InstStays DEF InEx, IdInst, IdToEx
  <2> QED  BY <2>2, <2>4, <2>5 DEF Unit
<1> QED  BY <1>1, <1>3, <1>4, <1>5 DEF UnitStates

LEMMA UnitsInStepStep ==
  ASSUME TypeOK, OrderInv, UnitData, AmoWord, Tick(FALSE) PROVE UnitsInStep'
  BY MulInStep, AmoInStep DEF UnitsInStep
-----------------------------------------------------------------------------
\* Operands and results.
\* The instruction in EX was handed the right operands; a load that repeats the one
\* before it finds its word.
Words ==
  /\ ex_stage.valid => ex_stage.right
  /\ InEx.kind = "LOAD" /\ (InEx.rd = 0 \/ InEx.rd # InEx.rs1) =>
       ex_stage.addr = [base |-> latest[InEx.rs1], offset |-> InEx.rs2]
  /\ InEx.kind = "LOAD" /\ InEx.rd # 0 => dread = {ex_stage.addr}

\* What raises reg_write is there and writes, and each instruction that writes a
\* register carries its own result.
Honest == \A s \in {mem_stage, wb_stage} :
            s.write => s.valid /\ (Inst(s.at).rd = 0 \/ WritesRd(Inst(s.at)))
OwnResult == \A s \in {mem_stage, wb_stage} :
               s.valid /\ WritesRd(Inst(s.at)) => s.write /\ s.result = s.at

\* The last writer of r is in EX, or its result in the first stage behind that
\* holds one for r.
Supplies(r) == ex_stage.valid /\ WritesRd(InEx) /\ InEx.rd = r
Newest(r) == IF Supplies(r) THEN ex_stage.at
             ELSE IF Holds(mem_stage, r) THEN mem_stage.result
             ELSE IF Holds(wb_stage, r) THEN wb_stage.result
             ELSE int_regs[r]
Known == /\ int_regs[0] = 0 /\ latest[0] = 0
         /\ \A r \in Reg \ {0} : latest[r] = Newest(r)

FlowInv == UnitData /\ AmoWord /\ Words /\ Honest /\ OwnResult /\ Known

\* Forwarding hands on what EX computes, or what the stages behind it hold.
LEMMA ForwardIsLatest ==
  ASSUME TypeOK, OrderInv, FlowInv, NEW r \in Reg,
         WritesRd(InEx) /\ InEx.rd = r => InEx.kind = "ALU"
  PROVE  Forward(r) = latest[r]
<1>1. CASE r = 0  BY <1>1 DEF Forward, FlowInv, Known
<1>2. CASE r # 0
  <2>1. latest[r] = Newest(r)  BY <1>2 DEF FlowInv, Known
  <2>2. (ex_stage.valid /\ InEx.kind \in WritesFromEx /\ InEx.rd = r) <=> Supplies(r)
    BY <1>2 DEF Supplies, WritesRd, WritesFromEx
  <2>3. Supplies(r) => ExResult = ex_stage.at
    BY DEF Supplies, ExResult, Is, InEx, FlowInv, Words
  <2> QED  BY <1>2, <2>1, <2>2, <2>3 DEF Forward, Newest, InEx
<1> QED  BY <1>1, <1>2

\* The register file has the word for a compare and a jalr.
LEMMA FileIsLatest ==
  ASSUME TypeOK, OrderInv, FlowInv, NEW r \in Reg, Uses(IdInst, r),
         IdInst.kind \in {"BRANCH", "JALR"}
  PROVE  int_regs[r] = latest[r]
<1>1. r # 0 /\ latest[r] = Newest(r)  BY DEF Uses, FlowInv, Known
<1>2. ~Supplies(r)
  BY Neighbours DEF Undisturbed, Supplies
<1>3. ~Holds(mem_stage, r) /\ ~Holds(wb_stage, r)
  BY <1>1, Neighbours DEF Undisturbed, Holds, FlowInv, Honest, InMem, InWb
<1> QED  BY <1>1, <1>2, <1>3 DEF Newest

LEMMA OperandsInId == ASSUME TypeOK, OrderInv, FlowInv PROVE Fresh
<1> DEFINE i == IdInst
<1>1. i.rs1 \in Reg /\ i.rs2 \in Reg /\ Adjacent(InEx, i)
  BY FieldsAreRegs, Neighbours DEF TypeOK, IdInst
<1>2. ASSUME NEW r \in Reg, r \in {i.rs1, i.rs2}, i.kind # "LOAD" \/ r = i.rs1, ~Unit(i)
      PROVE  Forward(r) = latest[r]
  <2>1. ASSUME WritesRd(InEx), InEx.rd = r PROVE InEx.kind = "ALU"
    <3>1. Uses(i, r)  BY <1>2, <2>1 DEF Uses, WritesRd
    <3>2. InEx.kind # "MUL"  BY <1>1, <1>2, <2>1 DEF Adjacent, WaitsFor
    <3> QED  BY <1>1, <2>1, <3>1, <3>2 DEF Adjacent, WritesRd
  <2> QED  BY <1>2, <2>1, ForwardIsLatest
<1>3. CASE Unit(i)  BY <1>3, UnitIsFresh DEF FlowInv
<1>4. CASE i.kind \in {"ALU", "STORE", "LOAD"}
  BY <1>1, <1>2, <1>4 DEF Fresh, Operands, Unit
<1>5. CASE i.kind \in {"BRANCH", "JALR"}
  <2>1. ASSUME NEW r \in {i.rs1, i.rs2} PROVE int_regs[r] = latest[r]
    <3>1. CASE r = 0  BY <3>1 DEF FlowInv, Known
    <3>2. CASE r # 0  BY <1>1, <1>5, <2>1, <3>2, FileIsLatest DEF Uses
    <3> QED  BY <3>1, <3>2
  <2> QED  BY <1>5, <2>1 DEF Fresh, Operands
<1>6. CASE i.kind = "JUMP"  BY <1>6 DEF Fresh, Operands
<1>7. i.kind \in Kind  BY InstIsInstruction DEF TypeOK, IdInst, Instruction
<1> QED  BY <1>3, <1>4, <1>5, <1>6, <1>7 DEF Kind, Unit

\* What an edge at which the pipeline moves makes of latest.
LEMMA LatestMoves ==
  ASSUME TypeOK, OrderInv, Tick(FALSE), ~pipeline_stall(FALSE), NEW r \in Reg
  PROVE  latest'[r] = IF WritesRd(IdInst) /\ IdInst.rd = r THEN id_stage.at ELSE latest[r]
<1>1. latest' = LatestAfter(FALSE) /\ latest \in [Reg -> Value]  BY DEF Tick, TypeOK
<1>2. WritesRd(IdInst) => id_stage.valid  BY Stages DEF WritesRd, Nop
<1> QED  BY <1>1, <1>2 DEF LatestAfter, Enters

LEMMA WordsMove ==
  ASSUME TypeOK, OrderInv, FlowInv, Tick(FALSE), ~pipeline_stall(FALSE)
  PROVE  UnitData' /\ AmoWord' /\ Words'
<1>1. /\ Adjacent(InEx, IdInst) /\ Adjacent(IdInst, InIf) /\ Spread(InEx, IdInst, InIf)
  BY Neighbours
<1>2. /\ IdInst' = InIf /\ InEx' = IdInst
      /\ id_data'.rs1 = Forward(IdInst.rs1) /\ id_data'.rs2 = Forward(IdInst.rs2)
      /\ ex_stage'.right = Fresh
      /\ ex_stage'.addr = [base |-> Forward(IdInst.rs1), offset |-> IdInst.rs2]
  BY Moves, InstStays DEF IdInst, InIf, InEx, IdToEx, DataAfter
<1>3. /\ IdInst.rs1 \in Reg /\ IdInst.rs2 \in Reg /\ InIf.rs1 \in Reg /\ InIf.rs2 \in Reg
  BY FieldsAreRegs DEF TypeOK, IdInst, InIf
<1>4. ASSUME NEW r \in Reg, Unit(InIf) \/ InIf.kind = "AMO", r \in {InIf.rs1, InIf.rs2}
      PROVE  latest'[r] = latest[r]
  <2>1. ~(WritesRd(IdInst) /\ IdInst.rd = r)
    BY <1>1, <1>4 DEF Adjacent, Uses, Unit, WritesRd
  <2> QED  BY <2>1, LatestMoves
<1>5. ASSUME Unit(InIf), NEW r \in {IdInst.rs1, IdInst.rs2} PROVE Forward(r) = latest[r]
  <2>1. ASSUME WritesRd(InEx), InEx.rd = r PROVE InEx.kind = "ALU"
    <3>1. Uses(IdInst, r)  BY <1>5, <2>1 DEF Uses, WritesRd
    <3>2. InEx.kind # "MUL"  BY <1>1, <1>5 DEF Spread
    <3> QED  BY <1>1, <2>1, <3>1, <3>2 DEF Adjacent, WritesRd
  <2> QED  BY <1>3, <1>5, <2>1, ForwardIsLatest
<1>6. UnitData'
  <2> SUFFICES ASSUME Unit(InIf)
               PROVE  id_data'.rs1 = latest'[InIf.rs1] /\ id_data'.rs2 = latest'[InIf.rs2]
    BY <1>2 DEF UnitData
  <2>1. IdInst.rs1 = InIf.rs1 /\ IdInst.rs2 = InIf.rs2  BY <1>1 DEF Adjacent
  <2> QED  BY <1>2, <1>3, <1>4, <1>5, <2>1
<1>7. InEx.kind = "LOAD" => dread' = {ex_stage.addr}
  <2>1. ASSUME InEx.kind = "LOAD" PROVE amo.state = "IDLE" /\ ex_stage.valid
    BY <2>1, Stages DEF OrderInv, UnitsInStep, Nop
  <2> QED  BY <2>1 DEF Tick, DreadAfter, a_mem_req, Is, InEx
<1>8. InEx.kind = "LOAD" /\ InEx.rs1 = IdInst.rs1 =>
        ex_stage.addr = [base |-> latest[IdInst.rs1], offset |-> InEx.rs2]
  BY <1>1 DEF Adjacent, Uses, FlowInv, Words
<1>9. AmoWord'
  <2> SUFFICES ASSUME InIf.kind = "AMO"
               PROVE  dread' = {[base |-> latest'[InIf.rs1], offset |-> 0]}
    BY <1>2 DEF AmoWord
  <2>1. InEx.kind = "LOAD" /\ InEx.rs1 = InIf.rs1 /\ InEx.rs2 = 0  BY <1>1 DEF Spread
  <2>2. IdInst.rs1 = InIf.rs1  BY <1>1 DEF Adjacent, Unit
  <2>3. latest'[InIf.rs1] = latest[InIf.rs1]  BY <1>3, <1>4
  <2> QED  BY <1>7, <1>8, <2>1, <2>2, <2>3
<1>10. Words'
  <2>1. Fresh  BY OperandsInId
  <2>2. IdInst.kind = "LOAD" => Forward(IdInst.rs1) = latest[IdInst.rs1]
    BY <2>1 DEF Fresh, Operands
  <2>3. ASSUME IdInst.kind = "LOAD", IdInst.rd = 0 \/ IdInst.rd # IdInst.rs1
        PROVE  ex_stage'.addr = [base |-> latest'[IdInst.rs1], offset |-> IdInst.rs2]
    <3>1. latest'[IdInst.rs1] = latest[IdInst.rs1]
      BY <1>3, <2>3, LatestMoves DEF WritesRd
    <3> QED  BY <1>2, <2>2, <2>3, <3>1
  <2>4. ASSUME IdInst.kind = "LOAD", IdInst.rd # 0 PROVE dread' = {ex_stage'.addr}
    <3>1. InEx.kind = "LOAD" /\ InEx.rs1 = IdInst.rs1 /\ InEx.rs2 = IdInst.rs2
      BY <1>1, <2>4 DEF Adjacent
    <3>2. ex_stage'.addr = ex_stage.addr  BY <1>2, <1>8, <2>2, <2>4, <3>1
    <3> QED  BY <1>7, <3>1, <3>2
  <2> QED  BY <1>2, <2>1, <2>3, <2>4 DEF Words
<1> QED  BY <1>6, <1>9, <1>10

LEMMA WordsStay ==
  ASSUME TypeOK, OrderInv, FlowInv, Tick(FALSE), pipeline_stall(FALSE)
  PROVE  UnitData' /\ AmoWord' /\ Words'
<1>1. Unit(InEx)  BY StallOfUnits
<1>2. IdInst' = IdInst /\ InEx' = InEx /\ ex_stage' = ex_stage
      /\ id_data' = id_data /\ latest' = latest
  BY Stays, InstStays DEF IdInst, InEx
<1>3. IdInst.kind # "AMO"  BY <1>1, AfterMul, AfterAmo DEF Unit
<1>4. InEx.kind # "LOAD"  BY <1>1 DEF Unit
<1> QED  BY <1>2, <1>3, <1>4 DEF FlowInv, UnitData, AmoWord, Words

\* Whatever writes a register leaves EX with its own result, and nothing else does.
LEMMA LeavesEx ==
  ASSUME TypeOK, OrderInv, FlowInv, Tick(FALSE), ~pipeline_stall(FALSE)
  PROVE  /\ mem_stage'.at = ex_stage.at /\ mem_stage'.valid = ex_stage.valid
         /\ mem_stage'.write => ex_stage.valid /\ (InEx.rd = 0 \/ WritesRd(InEx))
         /\ WritesRd(InEx) =>
              ex_stage.valid /\ mem_stage'.write /\ mem_stage'.result = ex_stage.at
<1>1. mem_stage' = MemAfter(FALSE)  BY Moves
<1>2. mul.state # "EXEC" /\ amo.state \notin {"LOAD", "COMPUTE", "STORE"}  BY StallOfUnits
<1>3. InEx.kind = "MUL" => m_result_valid(FALSE) /\ mul.at = ex_stage.at /\ mul.right
  BY <1>2, NoLoadUse DEF OrderInv, UnitsInStep, m_result_valid
<1>4. InEx.kind = "AMO" => a_result_valid /\ amo.data = ex_stage.at
  BY <1>2 DEF OrderInv, UnitsInStep, a_result_valid, TypeOK, UnitStates
<1>5. /\ UnitDone(FALSE) => ex_stage.valid /\ InEx.kind \in {"MUL", "AMO"}
      /\ ex_stage.valid /\ InEx.kind \in {"MUL", "AMO"} => UnitDone(FALSE)
  BY <1>3, <1>4 DEF UnitDone, Is, InEx
<1>6. mem_stage'.write <=> \/ UnitDone(FALSE)
                           \/ ex_stage.valid /\ InEx.kind \in WritesFromEx
  BY <1>1 DEF MemAfter, InEx
<1>7. mem_stage'.write => ex_stage.valid /\ (InEx.rd = 0 \/ WritesRd(InEx))
  BY <1>5, <1>6 DEF WritesRd, WritesFromEx
<1>8. ASSUME WritesRd(InEx)
      PROVE  ex_stage.valid /\ mem_stage'.write /\ mem_stage'.result = ex_stage.at
  <2>1. ex_stage.valid /\ InEx.rd # 0  BY <1>8, Stages DEF WritesRd, Nop
  <2>2. InEx.kind \in {"ALU", "LOAD", "MUL", "AMO"}
    BY <1>8, Neighbours DEF Adjacent, WritesRd
  <2>3. mem_stage'.write  BY <1>5, <1>6, <2>1, <2>2 DEF WritesFromEx
  <2>4. ex_stage.right  BY <2>1 DEF FlowInv, Words
  <2>5. CASE InEx.kind = "ALU"
    <3>1. ~UnitDone(FALSE) /\ ~Is(ex_stage, "LOAD")  BY <1>5, <2>5 DEF Is, InEx
    <3>2. mem_stage'.result = ExResult  BY <1>1, <3>1 DEF MemAfter
    <3> QED  BY <2>1, <2>3, <2>4, <2>5, <3>2 DEF ExResult, Is, InEx
  <2>6. CASE InEx.kind = "LOAD"
    <3>1. ~UnitDone(FALSE) /\ Is(ex_stage, "LOAD")  BY <1>5, <2>1, <2>6 DEF Is, InEx
    <3>2. dread = {ex_stage.addr}  BY <2>1, <2>6 DEF FlowInv, Words
    <3> QED  BY <1>1, <2>1, <2>3, <2>4, <3>1, <3>2 DEF MemAfter
  <2>7. CASE InEx.kind = "MUL"
    <3>1. UnitDone(FALSE) /\ Is(ex_stage, "MUL") /\ ~Is(ex_stage, "AMO")
      BY <1>5, <2>1, <2>7 DEF Is, InEx
    <3>2. mem_stage'.result = mul.at  BY <1>1, <1>3, <2>7, <3>1 DEF MemAfter
    <3> QED  BY <1>3, <2>1, <2>3, <2>7, <3>2
  <2>8. CASE InEx.kind = "AMO"
    <3>1. UnitDone(FALSE) /\ Is(ex_stage, "AMO") /\ ~Is(ex_stage, "MUL")
      BY <1>5, <2>1, <2>8 DEF Is, InEx
    <3>2. mem_stage'.result = amo.data  BY <1>1, <3>1 DEF MemAfter
    <3> QED  BY <1>4, <2>1, <2>3, <2>8, <3>2
  <2> QED  BY <2>2, <2>5, <2>6, <2>7, <2>8
<1>9. mem_stage'.at = ex_stage.at /\ mem_stage'.valid = ex_stage.valid
  BY <1>1 DEF MemAfter
<1> QED  BY <1>7, <1>8, <1>9

LEMMA ResultsStep ==
  ASSUME TypeOK, OrderInv, FlowInv, Tick(FALSE) PROVE Honest' /\ OwnResult'
<1>1. CASE pipeline_stall(FALSE)
  BY <1>1, Stays, InstStays DEF FlowInv, Honest, OwnResult
<1>2. CASE ~pipeline_stall(FALSE)
  <2>1. wb_stage' = mem_stage /\ InMem' = InEx /\ InWb' = InMem
    BY <1>2, Moves, LeavesEx, InstStays DEF InEx, InMem, InWb
  <2>2. /\ mem_stage'.write => mem_stage'.valid /\ (InMem'.rd = 0 \/ WritesRd(InMem'))
        /\ mem_stage'.valid /\ WritesRd(InMem') =>
             mem_stage'.write /\ mem_stage'.result = mem_stage'.at
    BY <1>2, <2>1, LeavesEx
  <2>3. /\ wb_stage'.write => wb_stage'.valid /\ (InWb'.rd = 0 \/ WritesRd(InWb'))
        /\ wb_stage'.valid /\ WritesRd(InWb') =>
             wb_stage'.write /\ wb_stage'.result = wb_stage'.at
    BY <2>1 DEF FlowInv, Honest, OwnResult, InMem
  <2> QED  BY <2>2, <2>3 DEF Honest, OwnResult, InMem, InWb
<1> QED  BY <1>1, <1>2
\* After an edge the register file holds what WB had for it.
LEMMA RegsTakeWb ==
  ASSUME TypeOK, Honest, NEW cp_stall \in BOOLEAN, Tick(cp_stall), NEW r \in Reg
  PROVE  int_regs'[r] = Retired(r)
<1>1. int_regs' = RegsAfter /\ int_regs \in [Reg -> Value]  BY DEF Tick, TypeOK
<1>2. Holds(wb_stage, r) \/ r = 0 <=> (wb_stage.write /\ Inst(wb_stage.at).rd = r) \/ r = 0
  BY DEF Holds, Honest
<1> QED  BY <1>1, <1>2 DEF RegsAfter, Retired

LEMMA KnownStep ==
  ASSUME TypeOK, OrderInv, FlowInv, Tick(FALSE) PROVE Known'
<1>1. int_regs' = RegsAfter /\ latest' = LatestAfter(FALSE) /\ setup' = setup
  BY DEF Tick
<1>2. int_regs'[0] = 0 /\ latest'[0] = 0
  BY <1>1, RegAssumption DEF RegsAfter, LatestAfter, WritesRd, FlowInv, Known, TypeOK
<1>3. ASSUME NEW r \in Reg \ {0} PROVE latest'[r] = Newest(r)'
  <2>1. latest[r] = Newest(r)  BY <1>3 DEF FlowInv, Known
  <2>2. int_regs'[r] = IF Holds(wb_stage, r) THEN wb_stage.result ELSE int_regs[r]
    BY <1>3, RegsTakeWb DEF Retired, FlowInv
  <2>3. CASE pipeline_stall(FALSE)
    <3>1. /\ ex_stage' = ex_stage /\ mem_stage' = mem_stage /\ wb_stage' = wb_stage
          /\ latest' = latest
      BY <2>3, Stays
    <3>2. /\ Supplies(r)' <=> Supplies(r)
          /\ Holds(mem_stage, r)' <=> Holds(mem_stage, r)
          /\ Holds(wb_stage, r)' <=> Holds(wb_stage, r)
      BY <1>1, <3>1 DEF Supplies, Holds, Inst, InEx
    <3> QED  BY <2>1, <2>2, <3>1, <3>2 DEF Newest
  <2>4. CASE ~pipeline_stall(FALSE)
    <3>1. /\ ex_stage'.at = id_stage.at /\ ex_stage'.valid = id_stage.valid
          /\ wb_stage' = mem_stage /\ InEx' = IdInst
      BY <2>4, Moves, InstStays DEF IdToEx, InEx, IdInst
    <3>2. Supplies(r)' <=> WritesRd(IdInst) /\ IdInst.rd = r
      BY <3>1, Stages DEF Supplies, WritesRd, Nop
    <3>3. latest'[r] = IF Supplies(r)' THEN id_stage.at ELSE latest[r]
      BY <1>3, <2>4, <3>2, LatestMoves
    <3>4. Holds(mem_stage, r)' <=> Supplies(r)
      BY <1>1, <1>3, <2>4, LeavesEx DEF Supplies, Holds, Inst, InEx
    <3>5. Supplies(r) => mem_stage'.result = ex_stage.at
      BY <2>4, LeavesEx DEF Supplies
    <3>6. Holds(wb_stage, r)' <=> Holds(mem_stage, r)
      BY <1>1, <3>1 DEF Holds, Inst
    <3> QED  BY <2>1, <2>2, <3>1, <3>3, <3>4, <3>5, <3>6 DEF Newest
  <2> QED  BY <2>3, <2>4
<1> QED  BY <1>2, <1>3 DEF Known

PipeInv == TypeOK /\ OrderInv /\ FlowInv

\* Where power-up and Reset leave the pipeline.
Started == /\ pc = 1 /\ fetched = 1
           /\ if_stage = NoFetch /\ id_stage = NoFetch /\ id_data = NoData
           /\ ex_stage = NoInst /\ mem_stage = NoWrite /\ wb_stage = NoWrite
           /\ dread = {} /\ mul = MulIdle /\ amo = AmoIdle
           /\ int_regs = NoRegs /\ latest = NoRegs

LEMMA FromStart == setup \in Setups /\ WellScheduled /\ Started => PipeInv
<1> SUFFICES ASSUME setup \in Setups, WellScheduled, Started PROVE PipeInv  OBVIOUS
<1>1. TypeOK  BY FreshTypes DEF Started, TypeOK
<1>2. Inst(1) = Nop  BY FirstIsNop DEF WellScheduled, Suits, Inst
<1>3. /\ if_stage.at = 1 /\ if_stage.due = 1 /\ if_stage.pc = 1
      /\ id_stage.at = 1 /\ id_stage.due = 1 /\ id_stage.pc = 1
      /\ ex_stage.at = 1 /\ ex_stage.due = 1 /\ mem_stage.at = 1 /\ mem_stage.due = 1
      /\ wb_stage.at = 1 /\ wb_stage.due = 1 /\ pc = 1 /\ fetched = 1
      /\ ~ex_stage.valid /\ ~mem_stage.write /\ ~mem_stage.valid
      /\ ~wb_stage.write /\ ~wb_stage.valid
      /\ mul.state = "IDLE" /\ amo.state = "IDLE"
  BY DEF Started, NoFetch, NoInst, NoWrite, MulIdle, AmoIdle
<1>4. StagesInOrder
  <2>1. ASSUME NEW i \in 1..6 PROVE Dues[i + 1] \in Successors(setup.code, Dues[i])
    <3>1. Dues = <<1, 1, 1, 1, 1, 1, 1>>  BY <1>3 DEF Dues
    <3>2. Dues[i + 1] = 1 /\ Dues[i] = 1  BY <3>1
    <3> QED  BY <3>2 DEF Successors
  <2> QED  BY <1>3, <2>1 DEF StagesInOrder, HoldsDue
<1>5. Fetching  BY <1>3 DEF Fetching, Empty
<1>6. InEx = Nop /\ IdInst = Nop  BY <1>2, <1>3 DEF InEx, IdInst
<1>7. UnitsInStep  BY <1>3, <1>6 DEF UnitsInStep, Nop
<1>8. UnitData /\ AmoWord /\ Words
  BY <1>3, <1>6 DEF UnitData, AmoWord, Words, Unit, Nop
<1>9. Honest /\ OwnResult  BY <1>3 DEF Honest, OwnResult
<1>10. Known
  BY <1>3, RegAssumption DEF Started, NoRegs, Known, Newest, Supplies, Holds
<1> QED  BY <1>1, <1>4, <1>5, <1>7, <1>8, <1>9, <1>10 DEF PipeInv, OrderInv, FlowInv

\* No coprocessor stalls.
LEMMA NextIsTick ==
  ASSUME OrderInv, [Next]_vars PROVE Reset \/ Tick(FALSE) \/ UNCHANGED vars
<1>1. ~setup.coprocessor  BY DEF OrderInv, WellScheduled, Suits
<1>2. ASSUME NEW cp_stall \in BOOLEAN, Tick(cp_stall) PROVE Tick(FALSE)
  <2>1. cp_stall = FALSE  BY <1>1, <1>2 DEF Tick
  <2> QED  BY <1>2, <2>1
<1> QED  BY <1>2 DEF Next

LEMMA PipeStep == PipeInv /\ [Next]_vars => PipeInv'
<1> SUFFICES ASSUME PipeInv, [Next]_vars PROVE PipeInv'  OBVIOUS
<1>1. TypeOK' /\ setup' = setup
  BY TypeStep DEF PipeInv, Next, Reset, Tick, vars
<1>2. WellScheduled'  BY <1>1 DEF PipeInv, OrderInv, WellScheduled
<1>3. CASE Reset
  <2>1. Started' /\ (setup \in Setups)'  BY <1>1, <1>3 DEF Reset, Started, TypeOK
  <2>2. (setup \in Setups /\ WellScheduled /\ Started => PipeInv)'  BY FromStart, PTL
  <2> QED  BY <1>2, <2>1, <2>2
<1>4. CASE Tick(FALSE)
  <2>1. TypeOK /\ OrderInv /\ FlowInv /\ UnitData /\ AmoWord  BY DEF PipeInv, FlowInv
  <2>2. StagesInOrder' /\ Fetching'  BY <1>4, <2>1, OrderStays, OrderMoves
  <2>3. UnitsInStep'  BY <1>4, <2>1, UnitsInStepStep
  <2>4. UnitData' /\ AmoWord' /\ Words'  BY <1>4, <2>1, WordsMove, WordsStay
  <2>5. Honest' /\ OwnResult' /\ Known'  BY <1>4, <2>1, ResultsStep, KnownStep
  <2> QED
    BY <1>1, <1>2, <2>2, <2>3, <2>4, <2>5 DEF PipeInv, OrderInv, FlowInv
<1>5. CASE UNCHANGED vars
  BY <1>5 DEF vars, PipeInv, OrderInv, WellScheduled, FlowInv, TypeOK, StagesInOrder, Dues,
              HoldsDue, Fetching, Empty, After, UnitsInStep, AmoAddress, UnitData, AmoWord,
              Words, Honest, OwnResult, Known, Newest, Supplies, Holds, InEx, IdInst, Inst
<1> QED  BY <1>3, <1>4, <1>5, NextIsTick DEF PipeInv

LEMMA PipeInvHolds == Spec /\ WellScheduled => []PipeInv
<1>1. Init /\ WellScheduled => PipeInv  BY FromStart DEF Init, Started
<1> QED  BY <1>1, PipeStep, PTL DEF Spec

\* In a scheduled program, none but NOPs are skipped, doubled or overtaken between the
\* fetch and the register file, whatever the units make the pipeline wait: also with a
\* memory that does not wait for it.
THEOREM OrderKept == Spec /\ WellScheduled => []StagesInOrder
<1>1. PipeInv => StagesInOrder  BY DEF PipeInv, OrderInv
<1> QED  BY <1>1, PipeInvHolds, PTL

\* In a scheduled program, whatever leaves ID, or is taken from there by a unit, is
\* handed the words of the last writers before it: the forwarded ones, those the units
\* find in the registers of the instruction before, and those of the register file.
THEOREM OperandsAreFresh == Spec /\ WellScheduled => []OperandsFresh
<1>1. PipeInv => OperandsFresh  BY OperandsInId DEF PipeInv, OperandsFresh
<1> QED  BY <1>1, PipeInvHolds, PTL

\* In a scheduled program no result gets lost between EX and the register file: the last
\* writer of every register is in EX, in MEM or WB with its own result, or in the
\* register file.
THEOREM NoResultIsLost == Spec /\ WellScheduled => []NothingLost
<1>1. PipeInv => NothingLost
  <2> SUFFICES ASSUME PipeInv, NEW r \in Reg
               PROVE  int_regs[r] = latest[r] \/ OnItsWay(r)
    BY DEF NothingLost
  <2>1. CASE r = 0  BY <2>1 DEF PipeInv, FlowInv, Known
  <2>2. CASE r # 0
    <3>1. latest[r] = Newest(r)  BY <2>2 DEF PipeInv, FlowInv, Known
    <3> QED  BY <3>1 DEF Newest, OnItsWay, Supplies
  <2> QED  BY <2>1, <2>2
<1> QED  BY <1>1, PipeInvHolds, PTL

\* In a scheduled program, while the atomic unit drives the data port, EX holds the AMO
\* itself: no load or store finds the port taken.
THEOREM PortIsExclusive == Spec /\ WellScheduled => []PortNotShared
<1>1. PipeInv => PortNotShared
  BY DEF PipeInv, OrderInv, UnitsInStep, PortNotShared, a_mem_req, Is, InEx
<1> QED  BY <1>1, PipeInvHolds, PTL
-----------------------------------------------------------------------------
\* The sequential machine.  Its operators are those of the pipeline's decoder.
LEMMA SameDecode ==
  ASSUME NEW at, NEW a
  PROVE  /\ AtIssue!JumpsFrom(at) <=> GoesTo(Inst(at))
         /\ AtRetirement!JumpsFrom(at) <=> GoesTo(Inst(at))
         /\ AtIssue!Clip(a) = Bounded(a) /\ AtRetirement!Clip(a) = Bounded(a)
  BY DEF AtIssue!JumpsFrom, AtRetirement!JumpsFrom, AtIssue!Clip, AtRetirement!Clip,
         GoesTo, Inst, Placed, Nop, Bounded, End

LEMMA SameWrites ==
  ASSUME setup \in Setups, NEW at
  PROVE  /\ AtIssue!WritesFrom(at) <=> WritesRd(Inst(at))
         /\ AtRetirement!WritesFrom(at) <=> WritesRd(Inst(at))
         /\ WritesRd(Inst(at)) => setup.code[at].rd = Inst(at).rd
<1>1. Inst(at).kind \in Kind  BY InstIsInstruction DEF Instruction
<1> QED
  BY <1>1 DEF AtIssue!WritesFrom, AtRetirement!WritesFrom, WritesRd, Inst, Placed, Nop, Kind

\* Of four places on a path the machine is at the first, or has stopped for the NOPs
\* behind a jump; when the path goes on, it executes the first or stays where it is.
LEMMA PathStep ==
  ASSUME JUMP_DIST >= 4, NEW code, Scheduled(code),
         NEW b \in Place, NEW c \in Successors(code, b), NEW d \in Successors(code, c),
         NEW e \in Successors(code, d), NEW f \in Successors(code, e),
         c \in Place, d \in Place, e \in Place,
         f = 1 \/ f = IF GoesTo(Placed(code, b)) THEN Target(b) ELSE Bounded(e + 1)
  PROVE  \/ /\ Sequential(b, c, d, e) = b
            /\ Sequential(c, d, e, f) = IF GoesTo(Placed(code, b)) THEN Target(b)
                                        ELSE Bounded(b + 1)
         \/ /\ Sequential(c, d, e, f) = Sequential(b, c, d, e)
            /\ Placed(code, b) = Nop
<1>1. CASE f = 1
  <2>1. e = 1 /\ d = 1 /\ c = 1 /\ b = 1  BY <1>1, ToTheFirst
  <2>2. Placed(code, b) = Nop  BY <2>1, FirstIsNop
  <2> QED  BY <1>1, <2>1, <2>2 DEF Sequential
<1>2. CASE f # 1 /\ GoesTo(Placed(code, b))
  <2>1. b \in 1..N /\ b + 4 <= N /\ c = b + 1 /\ d = b + 2 /\ e = b + 3
    BY <1>2, ThreeOn
  <2>2. f = Target(b)  BY <1>2
  <2>3. N \in Nat /\ JUMP_DIST \in Nat /\ End = N + 1  BY SizeAssumption DEF End
  <2>4. c = Bounded(b + 1) /\ d = Bounded(c + 1) /\ e = Bounded(d + 1)
    BY <2>1, <2>3 DEF Bounded
  <2>5. Bounded(e + 1) = b + 4 /\ f # b + 4
    BY <2>1, <2>2, <2>3 DEF Bounded, Target
  <2> QED  BY <1>2, <2>2, <2>4, <2>5 DEF Sequential
<1>3. CASE f # 1 /\ ~GoesTo(Placed(code, b)) /\ Placed(code, b) # Nop
  <2>1. b \in 1..N /\ c = Bounded(b + 1) /\ d = Bounded(b + 2) /\ e = Bounded(b + 3)
    BY <1>3, FourOn
  <2>2. N \in Nat /\ End = N + 1  BY SizeAssumption DEF End
  <2>3. d = Bounded(c + 1) /\ e = Bounded(d + 1)  BY <2>1, <2>2 DEF Bounded
  <2>4. f = Bounded(e + 1)  BY <1>3
  <2> QED  BY <1>3, <2>1, <2>3, <2>4 DEF Sequential
<1>4. CASE f # 1 /\ ~GoesTo(Placed(code, b)) /\ Placed(code, b) = Nop
  <2>1. f = Bounded(e + 1)  BY <1>4
  <2>2. CASE c = Bounded(b + 1) /\ d = Bounded(c + 1) /\ e = Bounded(d + 1)
    BY <1>4, <2>1, <2>2 DEF Sequential
  <2>3. CASE ~(c = Bounded(b + 1) /\ d = Bounded(c + 1) /\ e = Bounded(d + 1))
    BY <1>4, <2>1, <2>3 DEF Sequential
  <2> QED  BY <2>2, <2>3
<1> QED  BY <1>1, <1>2, <1>3, <1>4

LEMMA IssueStep ==
  ASSUME JUMP_DIST >= 4, PipeInv, Tick(FALSE)
  PROVE  AtIssue!Execute \/ UNCHANGED AtIssue!sequentialVars
<1>1. TypeOK /\ OrderInv /\ setup' = setup  BY DEF PipeInv, Tick
<1>2. CASE pipeline_stall(FALSE)
  BY <1>1, <1>2, Stays DEF ToIssue, AtIssue!sequentialVars
<1>3. CASE ~pipeline_stall(FALSE)
  <2> DEFINE b == id_stage.due
  <2>1. /\ ToIssue = Sequential(b, if_stage.due, if_stage.pc, pc)
        /\ ToIssue' = Sequential(if_stage.due, if_stage.pc, pc, pc')
    BY <1>1, <1>3, Moves DEF ToIssue, IfAfter, Sequential
  <2>2. /\ pc' \in Successors(setup.code, pc)
        /\ pc' = IF GoesTo(Placed(setup.code, b)) THEN Target(b) ELSE Bounded(pc + 1)
    BY <1>1, <1>3, NextFetch DEF After, Inst
  <2>3. /\ b \in Place /\ if_stage.due \in Place /\ if_stage.pc \in Place /\ pc \in Place
    BY <1>1 DEF TypeOK
  <2>4. \/ ToIssue = b /\ ToIssue' = IF GoesTo(Inst(b)) THEN Target(b) ELSE Bounded(b + 1)
        \/ ToIssue' = ToIssue /\ Inst(b) = Nop
    BY <1>1, <2>1, <2>2, <2>3, Stages, PathStep DEF Inst
  <2>5. IdInst = Inst(b)  BY <1>1, Stages
  <2>6. WritesRd(IdInst) => id_stage.at = b /\ id_stage.valid
    BY <1>1, Stages DEF WritesRd, Nop, OrderInv, StagesInOrder, HoldsDue, IdInst
  <2>7. latest' = IF WritesRd(Inst(b)) THEN [latest EXCEPT ![Inst(b).rd] = b] ELSE latest
    BY <1>3, <2>5, <2>6 DEF Tick, LatestAfter, Enters
  <2>8. CASE ToIssue = b /\ ToIssue' = IF GoesTo(Inst(b)) THEN Target(b) ELSE Bounded(b + 1)
    <3>1. ToIssue' = IF AtIssue!JumpsFrom(b) THEN AtIssue!Clip(b + 1 + JUMP_DIST)
                     ELSE AtIssue!Clip(b + 1)
      BY <2>8, SameDecode DEF Target
    <3>2. latest' = IF AtIssue!WritesFrom(b)
                    THEN [latest EXCEPT ![setup.code[b].rd] = b] ELSE latest
      BY <1>1, <2>7, SameWrites DEF TypeOK
    <3> QED  BY <1>1, <2>8, <3>1, <3>2 DEF AtIssue!Execute
  <2>9. CASE ToIssue' = ToIssue /\ Inst(b) = Nop
    BY <1>1, <2>7, <2>9 DEF WritesRd, Nop, AtIssue!sequentialVars
  <2> QED  BY <2>4, <2>8, <2>9
<1> QED  BY <1>2, <1>3

LEMMA StartedMachine ==
  setup \in Setups /\ Started => AtIssue!Start /\ AtRetirement!Start
<1> SUFFICES ASSUME setup \in Setups, Started PROVE AtIssue!Start /\ AtRetirement!Start
  OBVIOUS
<1>1. ToIssue = 1 /\ ToRetire = 1
  BY DEF Started, NoFetch, NoInst, NoWrite, ToIssue, ToRetire, Sequential
<1>2. latest = NoRegs /\ \A r \in Reg : Retired(r) = 0
  BY DEF Started, NoWrite, NoRegs, Retired, Holds
<1> QED  BY <1>1, <1>2 DEF AtIssue!Start, AtRetirement!Start, NoRegs

\* Power-up is the start of both machines, and so is Reset.
LEMMA MachinesStart ==
  /\ Init => AtIssue!Init /\ AtRetirement!Init
  /\ TypeOK /\ Reset => AtIssue!Reset /\ AtRetirement!Reset
<1>1. ASSUME Init PROVE AtIssue!Init /\ AtRetirement!Init
  <2>1. setup \in Setups /\ Started  BY <1>1 DEF Init, Started
  <2>2. setup.code \in [1..N -> Instruction]  BY <2>1, SetupAssumption
  <2> QED  BY <2>1, <2>2, StartedMachine DEF AtIssue!Init, AtRetirement!Init
<1>2. ASSUME TypeOK, Reset PROVE AtIssue!Reset /\ AtRetirement!Reset
  <2>1. setup' = setup /\ (setup \in Setups /\ Started)'
    BY <1>2 DEF Reset, Started, TypeOK
  <2>2. (setup \in Setups /\ Started => AtIssue!Start /\ AtRetirement!Start)'
    BY StartedMachine, PTL
  <2> QED  BY <2>1, <2>2 DEF AtIssue!Reset, AtRetirement!Reset
<1> QED  BY <1>1, <1>2

\* The instructions of a scheduled program leave ID in the order in which a sequential
\* machine executes them, for which a jump takes place at once; `latest' are its
\* registers, and so OperandsFresh compares every operand with what sequential
\* execution would read.  A jump has to reach beyond what is executed behind it.
THEOREM IssueIsSequential ==
  ASSUME JUMP_DIST >= 4 PROVE Spec /\ WellScheduled => AtIssue!Spec
<1>1. PipeInv /\ [Next]_vars => [AtIssue!Next]_(AtIssue!sequentialVars)
  <2> SUFFICES ASSUME PipeInv, [Next]_vars
               PROVE  AtIssue!Next \/ UNCHANGED AtIssue!sequentialVars
    OBVIOUS
  <2>1. TypeOK /\ OrderInv  BY DEF PipeInv
  <2>2. ASSUME UNCHANGED vars PROVE UNCHANGED AtIssue!sequentialVars
    BY <2>2 DEF vars, ToIssue, AtIssue!sequentialVars
  <2> QED  BY <2>1, <2>2, NextIsTick, MachinesStart, IssueStep DEF AtIssue!Next
<1> QED  BY <1>1, MachinesStart, PipeInvHolds, PTL DEF Spec, AtIssue!Spec

LEMMA RetireStep ==
  ASSUME JUMP_DIST >= 4, PipeInv, Tick(FALSE)
  PROVE  AtRetirement!Execute \/ UNCHANGED AtRetirement!sequentialVars
<1> DEFINE regs == [r \in Reg |-> Retired(r)]
<1>1. TypeOK /\ OrderInv /\ FlowInv /\ Honest /\ OwnResult /\ setup' = setup
  BY DEF PipeInv, FlowInv, Tick
<1>2. \A r \in Reg : int_regs'[r] = Retired(r)  BY <1>1, RegsTakeWb
<1>3. CASE pipeline_stall(FALSE)
  <2>1. ToRetire' = ToRetire  BY <1>1, <1>3, Stays DEF ToRetire
  <2>2. ASSUME NEW r \in Reg PROVE Retired(r)' = Retired(r)
    BY <1>1, <1>2, <1>3, Stays DEF Retired, Holds, Inst
  <2> QED  BY <1>1, <2>1, <2>2 DEF AtRetirement!sequentialVars
<1>4. CASE ~pipeline_stall(FALSE)
  <2> DEFINE b == mem_stage.due
  <2>1. /\ ToRetire = Sequential(b, ex_stage.due, id_stage.due, if_stage.due)
        /\ ToRetire' = Sequential(ex_stage.due, id_stage.due, if_stage.due, if_stage.pc)
    BY <1>1, <1>4, Moves DEF ToRetire, MemAfter, IdToEx, IfAfter, Sequential
  <2>2. /\ if_stage.pc = 1
             \/ if_stage.pc = IF GoesTo(Placed(setup.code, b)) THEN Target(b)
                              ELSE Bounded(if_stage.due + 1)
    BY <1>1 DEF OrderInv, Fetching, After, Inst
  <2>3. /\ b \in Place /\ ex_stage.due \in Place /\ id_stage.due \in Place
        /\ if_stage.due \in Place
    BY <1>1 DEF TypeOK
  <2>4. \/ ToRetire = b
             /\ ToRetire' = IF GoesTo(Inst(b)) THEN Target(b) ELSE Bounded(b + 1)
        \/ ToRetire' = ToRetire /\ Inst(b) = Nop
    BY <1>1, <2>1, <2>2, <2>3, Stages, PathStep DEF Inst
  <2>5. InMem = Inst(b)  BY <1>1, Stages
  <2>6. WritesRd(InMem) => /\ mem_stage.valid /\ mem_stage.write /\ mem_stage.at = b
                           /\ mem_stage.result = b
    BY <1>1, Stages
    DEF WritesRd, Nop, OrderInv, StagesInOrder, HoldsDue, InMem, OwnResult
  <2>7. ASSUME NEW r \in Reg
        PROVE  Retired(r)' = IF WritesRd(Inst(b)) /\ Inst(b).rd = r THEN b ELSE Retired(r)
    <3>1. wb_stage' = mem_stage /\ Inst(wb_stage.at)' = InMem
      BY <1>1, <1>4, Moves, InstStays DEF InMem
    <3>2. Retired(r)' = IF r # 0 /\ Holds(mem_stage, r) THEN mem_stage.result ELSE Retired(r)
      BY <1>1, <1>2, <2>7, <3>1, InstStays DEF Retired, Holds, InMem
    <3>3. r # 0 /\ Holds(mem_stage, r) <=> WritesRd(InMem) /\ InMem.rd = r
      BY <1>1, <2>6 DEF Holds, Honest, InMem, WritesRd
    <3> QED  BY <2>5, <2>6, <3>2, <3>3
  <2>8. regs' = IF AtRetirement!WritesFrom(b)
                THEN [regs EXCEPT ![setup.code[b].rd] = b] ELSE regs
    <3>1. /\ AtRetirement!WritesFrom(b) <=> WritesRd(Inst(b))
          /\ WritesRd(Inst(b)) => setup.code[b].rd = Inst(b).rd
      BY <1>1, SameWrites DEF TypeOK
    <3>2. regs' = [r \in Reg |-> IF WritesRd(Inst(b)) /\ Inst(b).rd = r THEN b ELSE Retired(r)]
      BY <2>7
    <3> QED  BY <3>1, <3>2
  <2>9. CASE ToRetire = b
               /\ ToRetire' = IF GoesTo(Inst(b)) THEN Target(b) ELSE Bounded(b + 1)
    <3>1. ToRetire' = IF AtRetirement!JumpsFrom(b) THEN AtRetirement!Clip(b + 1 + JUMP_DIST)
                      ELSE AtRetirement!Clip(b + 1)
      BY <2>9, SameDecode DEF Target
    <3> QED  BY <1>1, <2>8, <2>9, <3>1 DEF AtRetirement!Execute
  <2>10. CASE ToRetire' = ToRetire /\ Inst(b) = Nop
    <3>1. \A r \in Reg : Retired(r)' = Retired(r)  BY <2>7, <2>10 DEF WritesRd, Nop
    <3> QED  BY <1>1, <2>10, <3>1 DEF AtRetirement!sequentialVars
  <2> QED  BY <2>4, <2>9, <2>10
<1> QED  BY <1>3, <1>4

\* A scheduled program's results reach the register file one by one, in the order and
\* with the values of a sequential machine: no stall, unit or jump makes one of them
\* early, late, double or missing.
THEOREM RetirementIsSequential ==
  ASSUME JUMP_DIST >= 4 PROVE Spec /\ WellScheduled => AtRetirement!Spec
<1>1. PipeInv /\ [Next]_vars => [AtRetirement!Next]_(AtRetirement!sequentialVars)
  <2> SUFFICES ASSUME PipeInv, [Next]_vars
               PROVE  AtRetirement!Next \/ UNCHANGED AtRetirement!sequentialVars
    OBVIOUS
  <2>1. TypeOK /\ OrderInv  BY DEF PipeInv
  <2>2. ASSUME UNCHANGED vars PROVE UNCHANGED AtRetirement!sequentialVars
    BY <2>2 DEF vars, ToRetire, Retired, Holds, Inst, AtRetirement!sequentialVars
  <2> QED  BY <2>1, <2>2, NextIsTick, MachinesStart, RetireStep DEF AtRetirement!Next
<1> QED  BY <1>1, MachinesStart, PipeInvHolds, PTL DEF Spec, AtRetirement!Spec

\* The pipeline implements the sequential machine at both ends.
THEOREM PipelineIsSequential ==
  ASSUME JUMP_DIST >= 4 PROVE Spec /\ WellScheduled => ImplementsSequential
  BY IssueIsSequential, RetirementIsSequential DEF ImplementsSequential
=============================================================================
