----------------------------- MODULE CpuWrapper -----------------------------
(***************************************************************************)
(* red_pitaya_cpu_wrapper: the AXI4-Lite slave through which software      *)
(* enables, resets and reads the CPU, its control registers and the        *)
(* synchroniser of the CPU's reset.  One step is one rising clock edge.    *)
(*                                                                         *)
(* The master keeps to AXI4-Lite: it holds a valid signal until it is      *)
(* taken, raises address and data of a write in any order, and has at most *)
(* one write and one read under way, a read from when its address is up.   *)
(* Write strobes, which the slave latches and ignores, the LEDs and the    *)
(* performance counters are left out; a register that only shows the CPU's *)
(* state is the address OTHER.                                             *)
(***************************************************************************)
EXTENDS WrapperWords, Sequences

Register == {"ENABLE", "RESET", "STEP", "START_PC", "OTHER"}
Stored == {"ENABLE", "STEP", "START_PC"}   \* the registers that keep what is written
AxiStates == {"IDLE", "WRITE_ADDR", "WRITE_DATA", "WRITE_RESP", "READ_ADDR", "READ_DATA"}
Channel == {"quiet", "up", "done"}      \* not raised yet, valid, taken

VARIABLES axi_state, axi_awaddr_reg, axi_araddr_reg,
          cpu_enable, cpu_reset_req, single_step_mode, cpu_start_pc,
          reset_sync,       \* how many of the four flip-flops, from the lowest, are set
          write, aw, w,     \* the master's write [addr, data] under way and its channels
          read, ar,         \* the master's read under way and its address channel
          last,             \* history: the word last written to each of these
          landed,           \* history: registers the write under way has changed
          collided          \* history: the read was taken along with a write

slave == <<axi_state, axi_awaddr_reg, axi_araddr_reg, cpu_enable, cpu_reset_req,
           single_step_mode, cpu_start_pc, reset_sync>>
vars == <<slave, write, aw, w, read, ar, last, landed, collided>>

NoWrite == [addr |-> "OTHER", data |-> 0, busy |-> FALSE]
NoRead  == [addr |-> "OTHER", busy |-> FALSE]
Bit(word) == word % 2

Init == /\ axi_state = "IDLE" /\ axi_awaddr_reg = "ENABLE" /\ axi_araddr_reg = "ENABLE"
        /\ cpu_enable = 0 /\ cpu_reset_req = 0 /\ single_step_mode = 0 /\ cpu_start_pc = 0
        /\ reset_sync = 0
        /\ write = NoWrite /\ aw = "quiet" /\ w = "quiet" /\ read = NoRead /\ ar = "quiet"
        /\ last = [r \in Stored |-> 0] /\ landed = <<>> /\ collided = FALSE
Reset == /\ axi_state' = "IDLE" /\ axi_awaddr_reg' = "ENABLE" /\ axi_araddr_reg' = "ENABLE"
         /\ cpu_enable' = 0 /\ cpu_reset_req' = 0 /\ single_step_mode' = 0 /\ cpu_start_pc' = 0
         /\ reset_sync' = 0
         /\ write' = NoWrite /\ aw' = "quiet" /\ w' = "quiet" /\ read' = NoRead /\ ar' = "quiet"
         /\ last' = [r \in Stored |-> 0] /\ landed' = <<>> /\ collided' = FALSE

-----------------------------------------------------------------------------
s_axi_awready == axi_state \in {"IDLE", "WRITE_ADDR"}
s_axi_wreadyEarly == axi_state \in {"IDLE", "WRITE_ADDR", "WRITE_DATA"}     \* variant
s_axi_wready  == axi_state \in {"WRITE_ADDR", "WRITE_DATA"}
s_axi_bvalid  == axi_state = "WRITE_RESP"
s_axi_arreadyResp == axi_state \in {"IDLE", "WRITE_RESP"}                   \* variant
s_axi_arready == axi_state = "IDLE"
s_axi_rvalid  == axi_state = "READ_DATA"
cpu_rst_n == reset_sync = 4 /\ cpu_enable = 1

s_axi_rdata == CASE axi_araddr_reg = "ENABLE" -> cpu_enable
                 [] axi_araddr_reg = "RESET" -> cpu_reset_req
                 [] axi_araddr_reg = "STEP" -> single_step_mode
                 [] axi_araddr_reg = "START_PC" -> cpu_start_pc
                 [] axi_araddr_reg = "OTHER" -> 0

TakesAw == aw = "up" /\ s_axi_awready
TakesW  == w = "up" /\ s_axi_wready
TakesAr == ar = "up" /\ s_axi_arready

axi_next_stateHasty(bready, rready) ==       \* variant: no WRITE_DATA state
  CASE axi_state = "IDLE" -> (IF aw = "up" THEN "WRITE_ADDR"
                              ELSE IF ar = "up" THEN "READ_ADDR" ELSE "IDLE")
    [] axi_state = "WRITE_ADDR" -> (IF w = "up" THEN "WRITE_RESP" ELSE "WRITE_ADDR")
    [] axi_state = "WRITE_DATA" -> "WRITE_RESP"
    [] axi_state = "WRITE_RESP" -> (IF bready THEN "IDLE" ELSE "WRITE_RESP")
    [] axi_state = "READ_ADDR" -> "READ_DATA"
    [] axi_state = "READ_DATA" -> (IF rready THEN "IDLE" ELSE "READ_DATA")
\* In IDLE a write wins over a read.
axi_next_state(bready, rready) ==
  CASE axi_state = "IDLE" -> (IF aw = "up" THEN "WRITE_ADDR"
                              ELSE IF ar = "up" THEN "READ_ADDR" ELSE "IDLE")
    [] axi_state = "WRITE_ADDR" -> (IF w = "up" THEN "WRITE_DATA" ELSE "WRITE_ADDR")
    [] axi_state = "WRITE_DATA" -> "WRITE_RESP"
    [] axi_state = "WRITE_RESP" -> (IF bready THEN "IDLE" ELSE "WRITE_RESP")
    [] axi_state = "READ_ADDR" -> "READ_DATA"
    [] axi_state = "READ_DATA" -> (IF rready THEN "IDLE" ELSE "READ_DATA")

AddressAfterLate == IF TakesW THEN write.addr ELSE axi_awaddr_reg       \* variant
AddressAfter == IF TakesAw THEN write.addr ELSE axi_awaddr_reg
Hits(r) == TakesW /\ axi_awaddr_reg = r

ResetSyncAfter == CASE cpu_reset_req = 1 -> 0
                    [] cpu_reset_req = 0 /\ reset_sync < 4 -> reset_sync + 1
                    [] OTHER -> reset_sync

StepBitAfterOther == IF Hits("START_PC") THEN Bit(write.data) ELSE single_step_mode \* variant
StepBitAfter == IF Hits("STEP") THEN Bit(write.data) ELSE single_step_mode

Slave(bready, rready) ==
  /\ axi_state' = axi_next_state(bready, rready)
  /\ axi_awaddr_reg' = AddressAfter
  /\ axi_araddr_reg' = IF TakesAr THEN read.addr ELSE axi_araddr_reg
  /\ cpu_enable' = IF Hits("ENABLE") THEN Bit(write.data) ELSE cpu_enable
  /\ cpu_reset_req' = IF Hits("RESET") THEN Bit(write.data) ELSE 0
  /\ single_step_mode' = StepBitAfter
  /\ cpu_start_pc' = IF Hits("START_PC") THEN write.data ELSE cpu_start_pc
  /\ reset_sync' = ResetSyncAfter

-----------------------------------------------------------------------------
\* The master.  A channel that is up stays up until it is taken.
Raise(channel, taken, raise) ==
  CASE channel = "up" /\ taken -> "done"
    [] channel = "quiet" /\ raise -> "up"
    [] OTHER -> channel
WriteEnds(bready) == s_axi_bvalid /\ bready
ReadEnds(rready)  == s_axi_rvalid /\ rready

Writes(bready, raise) ==
  \/ /\ ~write.busy
     /\ \/ UNCHANGED write
        \/ \E r \in Register, d \in AxiWord : write' = [addr |-> r, data |-> d, busy |-> TRUE]
     /\ aw' = "quiet" /\ w' = "quiet" /\ landed' = <<>> /\ UNCHANGED last
  \/ /\ write.busy /\ WriteEnds(bready)
     /\ write' = NoWrite /\ aw' = "quiet" /\ w' = "quiet" /\ landed' = <<>>
     /\ last' = [r \in Stored |-> IF r = write.addr THEN write.data ELSE last[r]]
  \/ /\ write.busy /\ ~WriteEnds(bready)
     /\ aw' = Raise(aw, TakesAw, "AW" \in raise)
     /\ w' = Raise(w, TakesW, "W" \in raise)
     /\ landed' = IF TakesW THEN Append(landed, axi_awaddr_reg) ELSE landed
     /\ UNCHANGED <<write, last>>

Reads(rready) ==
  \/ /\ ~read.busy
     /\ \/ UNCHANGED <<read, ar>>
        \/ \E r \in Register : read' = [addr |-> r, busy |-> TRUE] /\ ar' = "up"
     /\ collided' = FALSE
  \/ /\ read.busy /\ ReadEnds(rready)
     /\ read' = NoRead /\ ar' = "quiet" /\ collided' = FALSE
  \/ /\ read.busy /\ ~ReadEnds(rready)
     /\ ar' = IF TakesAr THEN "done" ELSE ar
     /\ collided' = (collided \/ (TakesAr /\ TakesAw))
     /\ UNCHANGED read

Tick(bready, rready, raise) ==
  Slave(bready, rready) /\ Writes(bready, raise) /\ Reads(rready)

\* Only what the slave or the master looks at in this cycle: a ready signal while a
\* response is offered, and the channels of a write under way not raised yet.
Channels == {"AW", "W"}
ToRaise == {c \in Channels : CASE c = "AW" -> write.busy /\ aw = "quiet"
                               [] c = "W"  -> write.busy /\ w = "quiet"}
Next == \/ Reset
        \/ \E bready \in {FALSE, s_axi_bvalid}, rready \in {FALSE, s_axi_rvalid},
              raise \in SUBSET ToRaise : Tick(bready, rready, raise)
Spec == Init /\ [][Next]_vars

\* The clock never stops, and the master takes responses and raises what it owes.
FairSpec == Spec /\ WF_vars(Tick(TRUE, TRUE, Channels))

-----------------------------------------------------------------------------
TypeOK ==
  /\ axi_state \in AxiStates /\ axi_awaddr_reg \in Register /\ axi_araddr_reg \in Register
  /\ cpu_enable \in 0..1 /\ cpu_reset_req \in 0..1 /\ single_step_mode \in 0..1
  /\ cpu_start_pc \in AxiWord /\ reset_sync \in 0..4
  /\ write \in [addr : Register, data : AxiWord, busy : BOOLEAN]
  /\ read \in [addr : Register, busy : BOOLEAN]
  /\ aw \in Channel /\ w \in Channel /\ ar \in Channel
  /\ last \in [Stored -> AxiWord] /\ landed \in Seq(Register) /\ collided \in BOOLEAN

\* A write is answered only when it has landed, once, in the register it names,
\* whichever of address and data came first.
LandsOnce == s_axi_bvalid => write.busy /\ landed = <<write.addr>>

\* A read is answered with the word of the last write answered before it, for a
\* one-bit register its lowest bit; the reset request always reads 0.
Shown(r) == CASE r = "START_PC" -> last[r]
              [] r \in {"ENABLE", "STEP"} -> Bit(last[r])
              [] OTHER -> 0
ReadsLastWritten == s_axi_rvalid =>
  read.busy /\ axi_araddr_reg = read.addr /\ s_axi_rdata = Shown(read.addr)

\* A read that was taken is being served, unless it was taken in the same cycle as
\* a write: then it is never answered, and the limit is that the master must not
\* raise both.  A read is served only for a master that waits for it.
TakenReadServed ==
  /\ ar = "done" /\ ~collided => axi_state \in {"READ_ADDR", "READ_DATA"}
  /\ axi_state \in {"READ_ADDR", "READ_DATA"} => ar = "done" /\ ~collided

\* The response to a write that stops or resets the CPU is offered when the CPU is
\* in reset, and the CPU goes into reset for no other reason.
ResetStep ==
  /\ s_axi_bvalid' /\ ~s_axi_bvalid =>
       \/ write.addr \notin {"RESET", "ENABLE"}
       \/ Bit(write.data) = IF write.addr = "RESET" THEN 0 ELSE 1
       \/ ~cpu_rst_n'
  /\ cpu_rst_n /\ ~cpu_rst_n' =>
       \/ Reset
       \/ write.busy /\ write.addr = "RESET" /\ Bit(write.data) = 1
       \/ write.busy /\ write.addr = "ENABLE" /\ Bit(write.data) = 0
ResetInTime == [][ResetStep]_vars

\* Every write is answered, whatever reads run beside it, and every read that was not
\* taken together with a write.
AccessesEnd == /\ write.busy ~> ~write.busy
               /\ read.busy ~> (~read.busy \/ collided)
=============================================================================
