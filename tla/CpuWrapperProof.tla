-------------------------- MODULE CpuWrapperProof --------------------------
(***************************************************************************)
(* Proofs about CpuWrapper, for every set of words: a write lands once in  *)
(* the register it names, a read shows the last word written, a read that  *)
(* was taken is served unless it was taken along with a write, and the CPU *)
(* is in reset when the write that asked for it is answered.               *)
(***************************************************************************)
EXTENDS CpuWrapper, TLAPS

LEMMA BitType == \A d \in AxiWord : Bit(d) \in 0..1
  BY WordAssumption DEF Bit

\* Where the write under way stands, state by state.
WriteInv ==
  /\ axi_state = "WRITE_ADDR" =>
       write.busy /\ aw = "done" /\ w # "done" /\ landed = <<>> /\ axi_awaddr_reg = write.addr
  /\ axi_state \in {"WRITE_DATA", "WRITE_RESP"} =>
       write.busy /\ aw = "done" /\ w = "done" /\ landed = <<write.addr>>
  /\ axi_state \in {"IDLE", "READ_ADDR", "READ_DATA"} =>
       aw # "done" /\ w # "done" /\ landed = <<>>
  /\ ~write.busy => aw = "quiet" /\ w = "quiet"

\* Where the read under way stands.
ReadInv ==
  /\ TakenReadServed
  /\ ~read.busy => ar = "quiet" /\ ~collided
  /\ collided => ar = "done"
  /\ axi_state \in {"READ_ADDR", "READ_DATA"} => axi_araddr_reg = read.addr

\* The word a register was given last, the write that has landed included.
Newest(r) == IF axi_state \in {"WRITE_DATA", "WRITE_RESP"} /\ write.addr = r
             THEN write.data ELSE last[r]
ValueInv ==
  /\ cpu_enable = Bit(Newest("ENABLE"))
  /\ single_step_mode = Bit(Newest("STEP"))
  /\ cpu_start_pc = Newest("START_PC")
  /\ cpu_reset_req = IF axi_state = "WRITE_DATA" /\ write.addr = "RESET"
                     THEN Bit(write.data) ELSE 0

Inv == TypeOK /\ WriteInv /\ ReadInv /\ ValueInv

LEMMA Start == Init => Inv
<1> SUFFICES ASSUME Init PROVE Inv  OBVIOUS
<1>1. Bit(0) = 0  BY DEF Bit
<1>2. axi_state = "IDLE" /\ ~write.busy /\ ~read.busy /\ write.addr = "OTHER"
  BY DEF Init, NoWrite, NoRead
<1>3. /\ write \in [addr : Register, data : AxiWord, busy : BOOLEAN]
      /\ read \in [addr : Register, busy : BOOLEAN] /\ landed \in Seq(Register)
      /\ last \in [Stored -> AxiWord]
  BY WordAssumption DEF Init, NoWrite, NoRead, Register
<1>4. TypeOK
  <2>1. /\ axi_state \in AxiStates
        /\ axi_awaddr_reg \in Register /\ axi_araddr_reg \in Register
    BY DEF Init, Register, AxiStates
  <2>2. cpu_enable \in 0..1 /\ cpu_reset_req \in 0..1 /\ single_step_mode \in 0..1
        /\ reset_sync \in 0..4
    BY DEF Init
  <2>3. cpu_start_pc \in AxiWord  BY WordAssumption DEF Init
  <2>4. aw \in Channel /\ w \in Channel /\ ar \in Channel /\ collided \in BOOLEAN
    BY DEF Init, Channel
  <2> QED  BY <1>3, <2>1, <2>2, <2>3, <2>4 DEF TypeOK
<1>5. WriteInv /\ ReadInv  BY <1>2 DEF Init, WriteInv, ReadInv, TakenReadServed
<1>6. last["ENABLE"] = 0 /\ last["STEP"] = 0 /\ last["START_PC"] = 0
  BY DEF Init, Stored
<1>7. ValueInv  BY <1>1, <1>2, <1>6 DEF Init, ValueInv, Newest
<1> QED  BY <1>4, <1>5, <1>7 DEF Inv

LEMMA Restart == Reset => Inv'
<1> SUFFICES ASSUME Reset PROVE Inv'  OBVIOUS
<1>1. Bit(0) = 0  BY DEF Bit
<1>2. axi_state' = "IDLE" /\ ~write'.busy /\ ~read'.busy /\ write'.addr = "OTHER"
  BY DEF Reset, NoWrite, NoRead
<1>3. /\ write' \in [addr : Register, data : AxiWord, busy : BOOLEAN]
      /\ read' \in [addr : Register, busy : BOOLEAN] /\ landed' \in Seq(Register)
      /\ last' \in [Stored -> AxiWord]
  BY WordAssumption DEF Reset, NoWrite, NoRead, Register
<1>4. TypeOK'
  <2>1. /\ axi_state' \in AxiStates
        /\ axi_awaddr_reg' \in Register /\ axi_araddr_reg' \in Register
    BY DEF Reset, Register, AxiStates
  <2>2. cpu_enable' \in 0..1 /\ cpu_reset_req' \in 0..1 /\ single_step_mode' \in 0..1
        /\ reset_sync' \in 0..4
    BY DEF Reset
  <2>3. cpu_start_pc' \in AxiWord  BY WordAssumption DEF Reset
  <2>4. aw' \in Channel /\ w' \in Channel /\ ar' \in Channel /\ collided' \in BOOLEAN
    BY DEF Reset, Channel
  <2> QED  BY <1>3, <2>1, <2>2, <2>3, <2>4 DEF TypeOK
<1>5. WriteInv' /\ ReadInv'  BY <1>2 DEF Reset, WriteInv, ReadInv, TakenReadServed
<1>6. last'["ENABLE"] = 0 /\ last'["STEP"] = 0 /\ last'["START_PC"] = 0
  BY DEF Reset, Stored
<1>7. ValueInv'  BY <1>1, <1>2, <1>6 DEF Reset, ValueInv, Newest
<1> QED  BY <1>4, <1>5, <1>7 DEF Inv

LEMMA TypeStep ==
  ASSUME Inv, NEW bready \in BOOLEAN, NEW rready \in BOOLEAN, NEW raise \in SUBSET Channels,
         Tick(bready, rready, raise)
  PROVE  TypeOK'
<1>1. TypeOK /\ Slave(bready, rready) /\ Writes(bready, raise) /\ Reads(rready)
  BY DEF Inv, Tick
<1>2. /\ axi_state' \in AxiStates /\ axi_awaddr_reg' \in Register
      /\ axi_araddr_reg' \in Register
  BY <1>1 DEF TypeOK, Slave, axi_next_state, AddressAfter, AxiStates
<1>3. Bit(write.data) \in 0..1  BY <1>1, BitType DEF TypeOK
<1>4. cpu_enable' \in 0..1 /\ cpu_reset_req' \in 0..1 /\ single_step_mode' \in 0..1
  BY <1>1, <1>3 DEF TypeOK, Slave, StepBitAfter
<1>5. cpu_start_pc' \in AxiWord  BY <1>1 DEF TypeOK, Slave
<1>6. reset_sync' \in 0..4  BY <1>1 DEF TypeOK, Slave, ResetSyncAfter
<1>7. /\ write' \in [addr : Register, data : AxiWord, busy : BOOLEAN]
      /\ aw' \in Channel /\ w' \in Channel
  <2>1. NoWrite \in [addr : Register, data : AxiWord, busy : BOOLEAN]
    BY WordAssumption DEF NoWrite, Register
  <2>2. \A r \in Register, d \in AxiWord :
          [addr |-> r, data |-> d, busy |-> TRUE]
            \in [addr : Register, data : AxiWord, busy : BOOLEAN]
    OBVIOUS
  <2>3. write \in [addr : Register, data : AxiWord, busy : BOOLEAN]  BY <1>1 DEF TypeOK
  <2>4. write' \in [addr : Register, data : AxiWord, busy : BOOLEAN]
    BY <1>1, <2>1, <2>2, <2>3 DEF Writes
  <2>5. aw' \in Channel /\ w' \in Channel
    BY <1>1 DEF TypeOK, Writes, Raise, Channel
  <2> QED  BY <2>4, <2>5
<1>8. last' \in [Stored -> AxiWord] /\ landed' \in Seq(Register)
  <2>1. last \in [Stored -> AxiWord] /\ landed \in Seq(Register)
        /\ axi_awaddr_reg \in Register /\ write.data \in AxiWord
    BY <1>1 DEF TypeOK
  <2>2. Append(landed, axi_awaddr_reg) \in Seq(Register) /\ <<>> \in Seq(Register)
    BY <2>1
  <2> QED  BY <1>1, <2>1, <2>2 DEF Writes
<1>9. read' \in [addr : Register, busy : BOOLEAN] /\ ar' \in Channel
      /\ collided' \in BOOLEAN
  <2>1. NoRead \in [addr : Register, busy : BOOLEAN]  BY DEF NoRead, Register
  <2>2. \A r \in Register : [addr |-> r, busy |-> TRUE] \in [addr : Register, busy : BOOLEAN]
    OBVIOUS
  <2>3. read' \in [addr : Register, busy : BOOLEAN]
    BY <1>1, <2>1, <2>2 DEF TypeOK, Reads
  <2>4. ar' \in Channel  BY <1>1 DEF TypeOK, Reads, Channel
  <2>5. collided' \in BOOLEAN  BY <1>1 DEF TypeOK, Reads
  <2> QED  BY <2>3, <2>4, <2>5
<1> QED  BY <1>2, <1>4, <1>5, <1>6, <1>7, <1>8, <1>9 DEF TypeOK

LEMMA WriteStep ==
  ASSUME Inv, NEW bready \in BOOLEAN, NEW rready \in BOOLEAN, NEW raise \in SUBSET Channels,
         Tick(bready, rready, raise)
  PROVE  WriteInv'
<1>1. /\ axi_state \in AxiStates /\ aw \in Channel /\ w \in Channel /\ WriteInv
      /\ axi_state' = axi_next_state(bready, rready) /\ axi_awaddr_reg' = AddressAfter
      /\ Writes(bready, raise)
  BY DEF Inv, TypeOK, Tick, Slave
<1>2. CASE ~write.busy
  <2>1. axi_state \in {"IDLE", "READ_ADDR", "READ_DATA"} /\ aw = "quiet" /\ w = "quiet"
    BY <1>1, <1>2 DEF WriteInv, AxiStates
  <2>2. axi_state' \in {"IDLE", "READ_ADDR", "READ_DATA"}
    BY <1>1, <2>1 DEF axi_next_state
  <2>3. aw' = "quiet" /\ w' = "quiet" /\ landed' = <<>>
    BY <1>1, <1>2 DEF Writes
  <2> QED  BY <2>2, <2>3 DEF WriteInv
<1>3. CASE write.busy /\ WriteEnds(bready)
  <2>1. axi_state' = "IDLE"
    BY <1>1, <1>3 DEF WriteEnds, s_axi_bvalid, axi_next_state
  <2>2. aw' = "quiet" /\ w' = "quiet" /\ landed' = <<>>
    BY <1>1, <1>3 DEF Writes
  <2> QED  BY <2>1, <2>2 DEF WriteInv
<1>4. CASE write.busy /\ ~WriteEnds(bready)
  <2>1. /\ aw' = Raise(aw, TakesAw, "AW" \in raise) /\ w' = Raise(w, TakesW, "W" \in raise)
        /\ landed' = (IF TakesW THEN Append(landed, axi_awaddr_reg) ELSE landed)
        /\ write' = write
    BY <1>1, <1>4 DEF Writes
  <2>2. CASE axi_state = "IDLE"
    <3>1. w' # "done" /\ landed' = <<>> /\ (aw' = "done" <=> aw = "up")
      BY <1>1, <2>1, <2>2
      DEF WriteInv, Raise, TakesW, TakesAw, s_axi_wready, s_axi_awready, Channel
    <3>2. axi_state' = IF aw = "up" THEN "WRITE_ADDR"
                       ELSE IF ar = "up" THEN "READ_ADDR" ELSE "IDLE"
      BY <1>1, <2>2 DEF axi_next_state
    <3>3. aw = "up" => axi_awaddr_reg' = write.addr
      BY <1>1, <2>2 DEF AddressAfter, TakesAw, s_axi_awready
    <3> QED  BY <1>4, <2>1, <3>1, <3>2, <3>3 DEF WriteInv
  <2>3. CASE axi_state = "WRITE_ADDR"
    <3>1. aw = "done" /\ w # "done" /\ landed = <<>> /\ axi_awaddr_reg = write.addr
      BY <1>1, <2>3 DEF WriteInv
    <3>2. aw' = "done" /\ axi_awaddr_reg' = write.addr
      BY <1>1, <2>1, <3>1 DEF Raise, TakesAw, AddressAfter
    <3>3. CASE w = "up"
      <4>1. TakesW  BY <2>3, <3>3 DEF TakesW, s_axi_wready
      <4>2. w' = "done" /\ landed' = <<write.addr>> /\ axi_state' = "WRITE_DATA"
        BY <1>1, <2>1, <2>3, <3>1, <3>3, <4>1 DEF Raise, axi_next_state
      <4> QED  BY <1>4, <2>1, <3>2, <4>2 DEF WriteInv
    <3>4. CASE w # "up"
      <4>1. ~TakesW  BY <3>4 DEF TakesW
      <4>2. w' # "done" /\ landed' = <<>> /\ axi_state' = "WRITE_ADDR"
        BY <1>1, <2>1, <2>3, <3>1, <3>4, <4>1 DEF Raise, axi_next_state
      <4> QED  BY <1>4, <2>1, <3>2, <4>2 DEF WriteInv
    <3> QED  BY <3>3, <3>4
  <2>4. CASE axi_state \in {"WRITE_DATA", "WRITE_RESP"}
    <3>1. aw = "done" /\ w = "done" /\ landed = <<write.addr>>
      BY <1>1, <2>4 DEF WriteInv
    <3>2. axi_state' = "WRITE_RESP"
      BY <1>1, <1>4, <2>4 DEF axi_next_state, WriteEnds, s_axi_bvalid
    <3>3. aw' = "done" /\ w' = "done" /\ landed' = <<write.addr>>
      BY <2>1, <3>1 DEF Raise, TakesAw, TakesW
    <3> QED  BY <1>4, <2>1, <3>2, <3>3 DEF WriteInv
  <2>5. CASE axi_state \in {"READ_ADDR", "READ_DATA"}
    <3>1. aw # "done" /\ w # "done" /\ landed = <<>>  BY <1>1, <2>5 DEF WriteInv
    <3>2. ~TakesAw /\ ~TakesW
      BY <2>5 DEF TakesAw, TakesW, s_axi_awready, s_axi_wready
    <3>3. aw' # "done" /\ w' # "done" /\ landed' = <<>>
      BY <2>1, <3>1, <3>2 DEF Raise
    <3>4. axi_state' \in {"IDLE", "READ_DATA"}  BY <1>1, <2>5 DEF axi_next_state
    <3> QED  BY <1>4, <2>1, <3>3, <3>4 DEF WriteInv
  <2> QED  BY <1>1, <2>2, <2>3, <2>4, <2>5 DEF AxiStates
<1> QED  BY <1>2, <1>3, <1>4

LEMMA ReadStep ==
  ASSUME Inv, NEW bready \in BOOLEAN, NEW rready \in BOOLEAN, NEW raise \in SUBSET Channels,
         Tick(bready, rready, raise)
  PROVE  ReadInv'
<1>1. /\ axi_state \in AxiStates /\ ar \in Channel /\ collided \in BOOLEAN
      /\ WriteInv /\ ReadInv /\ axi_state' = axi_next_state(bready, rready)
      /\ axi_araddr_reg' = (IF TakesAr THEN read.addr ELSE axi_araddr_reg)
      /\ Reads(rready)
  BY DEF Inv, TypeOK, Tick, Slave
<1>2. TakenReadServed  BY <1>1 DEF ReadInv
<1>3. CASE ~read.busy
  <2>1. ar = "quiet" /\ ~collided /\ axi_state \notin {"READ_ADDR", "READ_DATA"}
    BY <1>1, <1>2, <1>3 DEF ReadInv, TakenReadServed
  <2>2. axi_state' \notin {"READ_ADDR", "READ_DATA"}
    BY <1>1, <2>1 DEF axi_next_state, AxiStates
  <2>3. ~collided' /\ (ar' = "quiet" \/ (ar' = "up" /\ read'.busy))
    BY <1>1, <1>3, <2>1 DEF Reads
  <2> QED  BY <2>2, <2>3 DEF ReadInv, TakenReadServed
<1>4. CASE read.busy /\ ReadEnds(rready)
  <2>1. axi_state' = "IDLE"  BY <1>1, <1>4 DEF ReadEnds, s_axi_rvalid, axi_next_state
  <2>2. ar' = "quiet" /\ ~collided'  BY <1>1, <1>4 DEF Reads
  <2> QED  BY <2>1, <2>2 DEF ReadInv, TakenReadServed
<1>5. CASE read.busy /\ ~ReadEnds(rready)
  <2>1. /\ ar' = (IF TakesAr THEN "done" ELSE ar) /\ read' = read
        /\ collided' = (collided \/ (TakesAr /\ TakesAw))
    BY <1>1, <1>5 DEF Reads
  <2>2. CASE axi_state = "IDLE"
    <3>1. axi_state' = IF aw = "up" THEN "WRITE_ADDR"
                       ELSE IF ar = "up" THEN "READ_ADDR" ELSE "IDLE"
      BY <1>1, <2>2 DEF axi_next_state
    <3>2. (TakesAr <=> ar = "up") /\ (TakesAw <=> aw = "up")
      BY <2>2 DEF TakesAr, TakesAw, s_axi_arready, s_axi_awready
    <3>3. ar = "done" => collided  BY <1>2, <2>2 DEF TakenReadServed
    <3>4. CASE ar = "up"
      <4>1. ar' = "done" /\ axi_araddr_reg' = read'.addr
        BY <1>1, <2>1, <3>2, <3>4
      <4>2. ~collided  BY <1>1, <3>4 DEF ReadInv
      <4>3. collided' <=> aw = "up"  BY <2>1, <3>2, <3>4, <4>2
      <4> QED  BY <1>5, <2>1, <3>1, <3>4, <4>1, <4>3 DEF ReadInv, TakenReadServed
    <3>5. CASE ar = "quiet"
      <4>1. ar' # "done" /\ ~collided /\ ~collided'
        BY <1>1, <2>1, <3>2, <3>5 DEF ReadInv
      <4>2. axi_state' \notin {"READ_ADDR", "READ_DATA"}  BY <3>1, <3>5
      <4> QED  BY <1>5, <2>1, <4>1, <4>2 DEF ReadInv, TakenReadServed
    <3>6. CASE ar = "done"
      <4>1. ar' = "done" /\ collided'  BY <2>1, <3>2, <3>3, <3>6
      <4>2. axi_state' \notin {"READ_ADDR", "READ_DATA"}  BY <3>1, <3>6
      <4> QED  BY <1>5, <2>1, <4>1, <4>2 DEF ReadInv, TakenReadServed
    <3> QED  BY <1>1, <3>4, <3>5, <3>6 DEF Channel
  <2>3. CASE axi_state # "IDLE"
    <3>1. ~TakesAr  BY <2>3 DEF TakesAr, s_axi_arready
    <3>2. /\ ar' = "done" <=> ar = "done"
          /\ collided' = collided /\ axi_araddr_reg' = axi_araddr_reg
      BY <1>1, <2>1, <3>1
    <3>3. axi_state' \in {"READ_ADDR", "READ_DATA"} <=>
            axi_state \in {"READ_ADDR", "READ_DATA"}
      BY <1>1, <1>5, <2>3 DEF axi_next_state, ReadEnds, s_axi_rvalid, AxiStates
    <3> QED  BY <1>1, <1>5, <2>1, <3>2, <3>3 DEF ReadInv, TakenReadServed
  <2> QED  BY <2>2, <2>3
<1> QED  BY <1>3, <1>4, <1>5

LEMMA ValueStep ==
  ASSUME Inv, NEW bready \in BOOLEAN, NEW rready \in BOOLEAN, NEW raise \in SUBSET Channels,
         Tick(bready, rready, raise)
  PROVE  ValueInv'
<1>1. /\ axi_state \in AxiStates /\ WriteInv /\ ValueInv /\ Slave(bready, rready)
      /\ axi_state' = axi_next_state(bready, rready)
      /\ Writes(bready, raise) /\ write.data \in AxiWord
  BY DEF Inv, TypeOK, Tick, Slave
<1> DEFINE landing == axi_state \in {"WRITE_DATA", "WRITE_RESP"}
<1>2. TakesW => axi_state = "WRITE_ADDR"
  BY <1>1 DEF TakesW, s_axi_wready, WriteInv
<1>3. CASE TakesW
  <2>1. /\ axi_state = "WRITE_ADDR" /\ write.busy /\ axi_awaddr_reg = write.addr
        /\ axi_state' = "WRITE_DATA"
    BY <1>1, <1>2, <1>3 DEF WriteInv, TakesW, axi_next_state
  <2>2. write' = write /\ last' = last
    BY <1>1, <2>1 DEF Writes, WriteEnds, s_axi_bvalid
  <2>3. \A r \in Stored :
          Newest(r)' = IF write.addr = r THEN write.data ELSE Newest(r)
    BY <2>1, <2>2 DEF Newest
  <2>4. \A r : Hits(r) <=> write.addr = r  BY <1>3, <2>1 DEF Hits
  <2>5. cpu_reset_req' = IF write'.addr = "RESET" THEN Bit(write'.data) ELSE 0
    BY <1>1, <2>2, <2>4 DEF Slave
  <2> QED  BY <1>1, <2>1, <2>3, <2>4, <2>5 DEF ValueInv, Slave, StepBitAfter, Stored
<1>4. CASE ~TakesW
  <2>1. \A r : ~Hits(r)  BY <1>4 DEF Hits
  <2>2. /\ cpu_enable' = cpu_enable /\ single_step_mode' = single_step_mode
        /\ cpu_start_pc' = cpu_start_pc /\ cpu_reset_req' = 0
    BY <1>1, <2>1 DEF Slave, StepBitAfter
  <2>3. \A r \in Stored : Newest(r)' = Newest(r)
    <3>1. CASE ~landing
      <4>1. axi_state' \notin {"WRITE_DATA", "WRITE_RESP"}
        BY <1>1, <1>4, <3>1 DEF axi_next_state, AxiStates, TakesW, s_axi_wready
      <4>2. last' = last  BY <1>1, <3>1 DEF Writes, WriteEnds, s_axi_bvalid
      <4> QED  BY <3>1, <4>1, <4>2 DEF Newest
    <3>2. CASE landing /\ WriteEnds(bready)
      <4>1. axi_state' = "IDLE" /\ write.busy
        BY <1>1, <3>2 DEF WriteEnds, s_axi_bvalid, axi_next_state, WriteInv
      <4>2. last' = [r \in Stored |-> IF r = write.addr THEN write.data ELSE last[r]]
        BY <1>1, <3>2, <4>1 DEF Writes
      <4> QED  BY <3>2, <4>1, <4>2 DEF Newest
    <3>3. CASE landing /\ ~WriteEnds(bready)
      <4>1. axi_state' = "WRITE_RESP" /\ write.busy
        BY <1>1, <3>3 DEF WriteEnds, s_axi_bvalid, axi_next_state, WriteInv
      <4>2. write' = write /\ last' = last  BY <1>1, <3>3, <4>1 DEF Writes
      <4> QED  BY <3>3, <4>1, <4>2 DEF Newest
    <3> QED  BY <3>1, <3>2, <3>3
  <2>4. axi_state' # "WRITE_DATA"
    BY <1>1, <1>4 DEF axi_next_state, AxiStates, TakesW, s_axi_wready
  <2> QED  BY <1>1, <2>2, <2>3, <2>4 DEF ValueInv, Stored
<1> QED  BY <1>3, <1>4

\* What the master and the slave look at in a cycle are inputs of a cycle.
LEMMA NextTicks ==
  Next => \/ Reset
          \/ \E bready, rready \in BOOLEAN, raise \in SUBSET Channels :
               Tick(bready, rready, raise)
  BY DEF Next, ToRaise, s_axi_bvalid, s_axi_rvalid

LEMMA InvStep == Inv /\ [Next]_vars => Inv'
<1> SUFFICES ASSUME Inv, [Next]_vars PROVE Inv'  OBVIOUS
<1>1. CASE Reset  BY <1>1, Restart
<1>2. ASSUME NEW bready \in BOOLEAN, NEW rready \in BOOLEAN, NEW raise \in SUBSET Channels,
             Tick(bready, rready, raise)
      PROVE  Inv'
  BY <1>2, TypeStep, WriteStep, ReadStep, ValueStep DEF Inv
<1>3. CASE UNCHANGED vars
  BY <1>3 DEF vars, slave, Inv, TypeOK, WriteInv, ReadInv, ValueInv, TakenReadServed, Newest
<1> QED  BY <1>1, <1>2, <1>3, NextTicks

LEMMA InvHolds == Spec => []Inv
  BY Start, InvStep, PTL DEF Spec

\* The registers, the master's channels and the histories keep their types.
THEOREM TypeCorrect == Spec => []TypeOK
<1>1. Inv => TypeOK  BY DEF Inv
<1> QED  BY <1>1, InvHolds, PTL

\* A write that is answered has landed once, in the register it names.
THEOREM WritesLandOnce == Spec => []LandsOnce
<1>1. Inv => LandsOnce  BY DEF Inv, WriteInv, LandsOnce, s_axi_bvalid
<1> QED  BY <1>1, InvHolds, PTL

\* A read that was taken is being served, unless it was taken along with a write.
THEOREM TakenReadsServed == Spec => []TakenReadServed
<1>1. Inv => TakenReadServed  BY DEF Inv, ReadInv
<1> QED  BY <1>1, InvHolds, PTL

\* A read is answered with the last word written.
THEOREM ReadsShowLastWrite == Spec => []ReadsLastWritten
<1>1. Inv => ReadsLastWritten
  <2> SUFFICES ASSUME Inv, s_axi_rvalid
               PROVE  read.busy /\ axi_araddr_reg = read.addr /\ s_axi_rdata = Shown(read.addr)
    BY DEF ReadsLastWritten
  <2>1. /\ axi_state = "READ_DATA" /\ ar = "done" /\ read.busy
        /\ axi_araddr_reg = read.addr /\ read.addr \in Register
    BY DEF s_axi_rvalid, Inv, ReadInv, TakenReadServed, TypeOK
  <2>2. /\ cpu_enable = Bit(last["ENABLE"]) /\ single_step_mode = Bit(last["STEP"])
        /\ cpu_start_pc = last["START_PC"] /\ cpu_reset_req = 0
    BY <2>1 DEF Inv, ValueInv, Newest, TypeOK
  <2>3. s_axi_rdata = Shown(read.addr)
    BY <2>1, <2>2 DEF s_axi_rdata, Shown, Register
  <2> QED  BY <2>1, <2>3
<1> QED  BY <1>1, InvHolds, PTL

-----------------------------------------------------------------------------
\* The response to a write that resets or stops the CPU comes up in the cycle after
\* its data has taken effect, when the CPU is in reset.
LEMMA AnsweredInReset ==
  ASSUME Inv, NEW bready \in BOOLEAN, NEW rready \in BOOLEAN, NEW raise \in SUBSET Channels,
         Tick(bready, rready, raise), s_axi_bvalid', ~s_axi_bvalid
  PROVE  \/ write.addr \notin {"RESET", "ENABLE"}
         \/ Bit(write.data) = IF write.addr = "RESET" THEN 0 ELSE 1
         \/ ~cpu_rst_n'
<1>1. /\ axi_state \in AxiStates /\ axi_state' = axi_next_state(bready, rready)
      /\ ValueInv /\ Slave(bready, rready) /\ write.data \in AxiWord
  BY DEF Inv, TypeOK, Tick, Slave
<1>2. axi_state = "WRITE_DATA"
  BY <1>1 DEF axi_next_state, AxiStates, s_axi_bvalid
<1>3. Bit(write.data) \in 0..1  BY <1>1, BitType
<1>4. ASSUME write.addr = "RESET", Bit(write.data) = 1 PROVE ~cpu_rst_n'
  <2>1. cpu_reset_req = 1  BY <1>1, <1>2, <1>4 DEF ValueInv
  <2>2. reset_sync' = 0  BY <1>1, <2>1 DEF Slave, ResetSyncAfter
  <2> QED  BY <2>2 DEF cpu_rst_n
<1>5. ASSUME write.addr = "ENABLE", Bit(write.data) = 0 PROVE ~cpu_rst_n'
  <2>1. cpu_enable = 0  BY <1>1, <1>2, <1>5 DEF ValueInv, Newest
  <2>2. aw = "done" /\ w = "done"  BY <1>2 DEF Inv, WriteInv
  <2>3. cpu_enable' = 0  BY <1>1, <2>1, <2>2 DEF Slave, Hits, TakesW
  <2> QED  BY <2>3 DEF cpu_rst_n
<1> QED  BY <1>3, <1>4, <1>5

\* Only such a write, while it is under way, puts a running CPU into reset.
LEMMA ResetOnlyByWrite ==
  ASSUME Inv, NEW bready \in BOOLEAN, NEW rready \in BOOLEAN, NEW raise \in SUBSET Channels,
         Tick(bready, rready, raise), cpu_rst_n, ~cpu_rst_n'
  PROVE  \/ write.busy /\ write.addr = "RESET" /\ Bit(write.data) = 1
         \/ write.busy /\ write.addr = "ENABLE" /\ Bit(write.data) = 0
<1>1. /\ WriteInv /\ ValueInv /\ Slave(bready, rready) /\ write.data \in AxiWord
      /\ cpu_enable = 1 /\ reset_sync = 4 /\ cpu_reset_req \in 0..1
  BY DEF Inv, TypeOK, Tick, cpu_rst_n
<1>2. Bit(write.data) \in 0..1  BY <1>1, BitType
<1>3. CASE reset_sync' # 4
  <2>1. cpu_reset_req = 1  BY <1>1, <1>3 DEF Slave, ResetSyncAfter
  <2>2. axi_state = "WRITE_DATA" /\ write.addr = "RESET" /\ Bit(write.data) = 1
    BY <1>1, <2>1 DEF ValueInv
  <2> QED  BY <1>1, <2>2 DEF WriteInv
<1>4. CASE cpu_enable' # 1
  <2>1. Hits("ENABLE") /\ Bit(write.data) = 0  BY <1>1, <1>2, <1>4 DEF Slave
  <2>2. axi_state = "WRITE_ADDR" /\ write.busy /\ write.addr = "ENABLE"
    BY <1>1, <2>1 DEF Hits, TakesW, s_axi_wready, WriteInv
  <2> QED  BY <2>1, <2>2
<1> QED  BY <1>3, <1>4 DEF cpu_rst_n

\* A write that stops or resets the CPU is answered when the CPU is in reset, and
\* the CPU goes into reset for no other reason.
THEOREM ResetsInTime == Spec => ResetInTime
<1>1. Inv /\ [Next]_vars => [ResetStep]_vars
  <2> SUFFICES ASSUME Inv, Next PROVE ResetStep  OBVIOUS
  <2>1. CASE Reset
    <3>1. ~s_axi_bvalid'  BY <2>1 DEF Reset, s_axi_bvalid
    <3> QED  BY <2>1, <3>1 DEF ResetStep
  <2>2. ASSUME NEW bready \in BOOLEAN, NEW rready \in BOOLEAN,
               NEW raise \in SUBSET Channels, Tick(bready, rready, raise)
        PROVE  ResetStep
    BY <2>2, AnsweredInReset, ResetOnlyByWrite DEF ResetStep
  <2> QED  BY <2>1, <2>2, NextTicks
<1>2. Spec => [][ResetStep]_vars  BY <1>1, InvHolds, PTL DEF Spec
<1> QED  BY <1>2 DEF ResetInTime
=============================================================================
