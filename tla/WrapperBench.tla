----------------------------- MODULE WrapperBench -----------------------------
(***************************************************************************)
(* tb/red_pitaya_cpu_wrapper_tb.py against the wrapper.  Its AXI4-Lite      *)
(* master raises address and data of a write together, lowers each when it  *)
(* sees it ready, then takes the response; it has one transaction under way *)
(* and none of its loops gives up.  A transaction starts in an edge or two  *)
(* in which nothing is valid: where the test waits less before the next     *)
(* one, the model waits an edge more.  Of the data words the test writes    *)
(* only whether they are equal and whether they are odd is kept.            *)
(***************************************************************************)
EXTENDS CpuWrapper, Bench, TLC

VARIABLES dut,       \* the LEDs that show enable and interrupt; they are registered
          board      \* the interrupt wire

benchVars == <<vars, progress, dut, board>>

-----------------------------------------------------------------------------
\* The scripts.
Step(op, addr, data, expect) == [op |-> op, addr |-> addr, data |-> data, expect |-> expect]
Write(addr, data) == <<Step("write", addr, data, Anything)>>
Shows(addr, data) == <<Step("read", addr, 0, [data |-> data])>>
Fetch(addr) == <<Step("read", addr, 0, Anything)>>
Clocks(n) == [i \in 1..n |-> Step("clock", "OTHER", 0, Anything)]
Leds(expect) == <<Step("clock", "OTHER", 0, expect)>>
Interrupt(on) == <<Step("interrupt", "OTHER", on, Anything)>>

\* Fixed data: 0x1000, 0xAAAAAAAA, 0x55555555 and 0xFFFFFFFF.
Page == 2
Evens == 4
Odds == 3
Ones == 5

reset_dut == <<Step("reset", "OTHER", 0, Anything)>> \o Clocks(10)
WriteThenShows(addr, data) == Write(addr, data) \o Clocks(2) \o Shows(addr, data)
Enabled == Write("ENABLE", 1) \o Clocks(10)

test_axi_register_access ==
  reset_dut \o WriteThenShows("ENABLE", 1) \o WriteThenShows("START_PC", Page)
  \o WriteThenShows("STEP", 1)
test_cpu_reset_sequence ==
  reset_dut \o Enabled \o Shows("ENABLE", 1) \o Write("RESET", 1) \o Clocks(10)
  \o Shows("RESET", 0)
test_performance_counters == reset_dut \o Enabled \o Fetch("OTHER") \o Clocks(100) \o Fetch("OTHER")
test_interrupt_signal ==
  reset_dut \o Enabled \o Interrupt(1) \o Clocks(4) \o Leds([interrupt |-> 1])
  \o Interrupt(0) \o Clocks(4) \o Leds([interrupt |-> 0])
test_debug_interface == reset_dut \o Enabled \o Fetch("OTHER") \o Fetch("OTHER") \o Fetch("OTHER")
test_led_status_output == reset_dut \o Leds([enable |-> 0]) \o Enabled \o Leds([enable |-> 1])
test_write_read_consistency ==
  LET start_pc(val) == WriteThenShows("START_PC", val)
  IN reset_dut \o start_pc(0) \o start_pc(1) \o start_pc(Evens) \o start_pc(Odds) \o start_pc(Ones)
     \o WriteThenShows("ENABLE", 0) \o WriteThenShows("ENABLE", 1)
     \o WriteThenShows("STEP", 0) \o WriteThenShows("STEP", 1)

Scripts == [test_axi_register_access |-> test_axi_register_access,
            test_cpu_reset_sequence |-> test_cpu_reset_sequence,
            test_performance_counters |-> test_performance_counters,
            test_interrupt_signal |-> test_interrupt_signal,
            test_debug_interface |-> test_debug_interface,
            test_led_status_output |-> test_led_status_output,
            test_write_read_consistency |-> test_write_read_consistency]
Script == Scripts[test]
Now == Script[at + 1]
Doing(op) == ~Done(Script) /\ Now.op = op

-----------------------------------------------------------------------------
BenchInit == /\ Init /\ InitTest(DOMAIN Scripts)
             /\ dut = [enable |-> 0, interrupt |-> 0]
             /\ board = [ext_interrupt |-> 0]

\* An edge of the slave and of what the wrapper has besides.
Edge(bready, rready, raise) ==
  /\ Tick(bready, rready, raise)
  /\ dut' = [enable |-> cpu_enable, interrupt |-> board.ext_interrupt]
Waits == UNCHANGED progress

reset == /\ Doing("reset") /\ Reset /\ UNCHANGED dut /\ Observe(TRUE)
         /\ board' = [ext_interrupt |-> 0]
clock == /\ Doing("clock") /\ Edge(FALSE, FALSE, {}) /\ UNCHANGED <<write, read, board>>
         /\ Observe(Agrees(Now.expect, dut))
interrupt == /\ Doing("interrupt") /\ Edge(FALSE, FALSE, {}) /\ UNCHANGED <<write, read>>
             /\ board' = [board EXCEPT !.ext_interrupt = Now.data] /\ Observe(TRUE)

\* A write: both channels are raised, the response is taken once both are lowered.
write_starts == /\ Doing("write") /\ ~write.busy /\ Edge(FALSE, FALSE, {})
                /\ UNCHANGED <<read, board>>
                /\ write' = [addr |-> Now.addr, data |-> Now.data, busy |-> TRUE]
                /\ Waits
write_goes_on ==
  /\ Doing("write") /\ write.busy
  /\ LET bready == aw = "done" /\ w = "done" IN
     /\ Edge(bready, FALSE, {"AW", "W"}) /\ UNCHANGED <<read, board>>
     /\ IF WriteEnds(bready) THEN Observe(TRUE) ELSE Waits

read_starts == /\ Doing("read") /\ ~read.busy /\ Edge(FALSE, FALSE, {})
               /\ UNCHANGED <<write, board>>
               /\ read' = [addr |-> Now.addr, busy |-> TRUE] /\ Waits
read_goes_on ==
  /\ Doing("read") /\ read.busy
  /\ LET rready == ar = "done" IN
     /\ Edge(FALSE, rready, {"AR"}) /\ UNCHANGED <<write, board>>
     /\ IF ReadEnds(rready) THEN Observe(Agrees(Now.expect, [data |-> s_axi_rdata])) ELSE Waits

BenchNext == \/ reset \/ clock \/ interrupt \/ write_starts \/ write_goes_on
             \/ read_starts \/ read_goes_on
BenchSpec == BenchInit /\ [][BenchNext]_benchVars
=============================================================================
