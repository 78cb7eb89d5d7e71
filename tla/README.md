# Verification of the CPU and its interfaces

The repository holds a RISC-V core in SystemVerilog for the Red Pitaya (RV32I with
M and A), the blocks through which it talks to a GPU and to coprocessors, an AXI
wrapper through which software controls it, a C driver, and the cocotb benches that
test all this. This directory holds TLA+ models of those parts, the TLC runs that check
them, and proofs, checked by TLAPS, of what matters most about them. Paths below are
relative to the repository, those of SystemVerilog files to `src/` or `rtl_utils/`.

One reading of time holds throughout: **one step of a model is one rising clock
edge**. Registers are variables, combinational signals are operators with the
signal's name, input wires sampled at the edge are the parameters of the action
`Tick` (or of the action of the FSM's state) and are chosen by `\E` in `Next`.
`Reset` is an edge with the reset active and may come at any time. Where two clocked
blocks assign one bit at one edge, both orders are explored.

## 1. The system

| part | source | state it keeps | operations |
|---|---|---|---|
| CPU core | `src/cpu_top.sv`, `control_unit.sv`, `branch_calc.sv` | pc, five stages | fetch, decode, forward, stall, flush, hand over to units, write back |
| multiplier | `rtl_utils/rv32m_muldiv.sv` | FSM, operands, countdown | accept, count, flush, offer result |
| atomic unit | `rtl_utils/rv32a_atomic.sv` | FSM, reservation, loaded and stored word | LR, SC, AMO as locked memory accesses; snoop |
| register file | `src/register_file_system.sv` | integer, shadow, FP registers, CSRs, privilege mode | write, bank swap, CSR access, trap, return |
| memory | `src/memory_system.sv` | two block RAMs, registered read ports | read, write with byte enables |
| control wrapper | `src/red_pitaya_cpu_wrapper.sv` | AXI4-Lite FSM, control registers, reset synchroniser, counters | register write and read, reset of the CPU |
| GPU operation queue | `src/gpu_op_queue.sv` | ring, pointers, count, error flags | enqueue, dequeue |
| GPU result buffers | `src/gpu_result_wb.sv`, `gpu_result_buffer.sv` | ring, register and tag scoreboards | store, drain, dependency report |
| offload manager | `src/offload_logic.sv` | destination table, counters, stall timer | classify, allocate, complete, stall, time out |
| coprocessors | `src/coprocessor_system.sv`, `dispatcher.sv` | CSRs, a second multiplier, custom unit | execute, interrupt |
| MMU | `src/mmu.sv` | TLB, page walker | translate, walk, flush |
| interconnect | `src/_interconnect.sv` | grant and request registers | arbitrate, decode, route |
| older parts | `cpu_axi_wrapper.sv`, `instruction_buffer.sv`, `pipeline_stages.sv` | | superseded or instantiated nowhere |
| benches | `tb/*_tb.py`, `tb/uvm/` | a design each, drivers, copies of what the design holds | drive wires, wait for edges, compare |
| driver, loader | `sw/drivers/*.c` | mapped registers, configuration | init, reset, start, stop, step, breakpoints, load |

**How they interact.** Software writes the wrapper's registers over AXI; the wrapper
derives the CPU's reset and connects the CPU's two memory ports to `memory_system`.
Within the core the instruction in ID is offered to the multiplier and the atomic
unit by wires of its own; both answer with a valid pulse that MEM must catch, and
both can stall the pipeline. The atomic unit takes the data port over while it
accesses memory. The GPU blocks stand beside the core, behind request and valid
wires; `cpu_top` instantiates neither them nor the offload manager, which would sit
between ID and the coprocessors and stall the pipeline; it instantiates the dispatcher and
leaves its outputs unconnected. Each bench is the only user of its design: it sets wires
between edges and reads the outputs, each test in a coroutine that the simulator wakes.

**What is hard.**
- *Handshakes by pulse*: a unit's result is valid for a cycle in which the pipeline may
  or may not move; a flush comes from an instruction younger than the one it kills.
- *One stall, many causes*: load-use, data hazard, coprocessor and atomic stalls stop
  some stages, and none of them stops the units or the registered memory ports.
- *Registers updated by separate rules*: pointers, count, valid bits and scoreboards are
  assigned in independent `if`s or clocked blocks and must agree at full, at empty and
  when both sides act in one cycle.
- *Concurrency on memory*: other masters between LR and SC, or in an AMO's cycle
  without the lock.
- *Independent bus channels*: an AXI write's address and data come in any order, with a
  read beside it and a reset of the CPU as a side effect.
- *Matching answers to requests by position*: the offload manager counts results, the
  coprocessors and the MMU use what stands on the wires when they answer.
- *Tests that race their design*: a coroutine woken by an edge reads what was before it, a
  write overwritten before the next edge is never seen.

**What makes each part correct.** Queue and buffers: every accepted entry leaves once,
in order; flags and scoreboards tell the truth. Multiplier: the result is that of the
operands taken, after exactly its latency, unless flushed. Atomic unit: an operation
writes as often as its result says, no reservation survives another master's write, an
AMO loses no update. Pipeline: instructions pass in program order, none lost or
doubled; each reads the last value written, in whatever unit; each result arrives; every
stall ends.
Wrapper: a write lands once where it was addressed, reads show the last write, the CPU
is in reset when the write that resets it is answered, every access ends. Offload
manager: its marks, table entries and counter describe the operations under way,
each instruction due an entry takes one, operations wait for those before them, and no
instruction is held for ever. MMU: an entry
holds what the walk for its page found. Benches: an assertion fails only where the
design is wrong, and what a test relies on without asserting it is true. Not modelled yet:
only valid privilege modes are entered; a request gets the answer of its slave.

## 2. The modules

| module | models | extends / uses |
|---|---|---|
| `BoundedFifo` | abstract specification: a bounded queue with flags for refused requests | |
| `GpuOpQueue` | `gpu_op_queue.sv` | implements `BoundedFifo` |
| `GpuResultWb` | `gpu_result_wb.sv` | implements `BoundedFifo` |
| `GpuResultBuffer`, `MCGpuResultBuffer` | `gpu_result_buffer.sv`; its instance | `GpuResultWb` |
| `AtomicParameters`, `Rv32aAtomic`, `MCRv32aAtomic` | `rv32a_atomic.sv` with memory and other masters; an instance | `WordAlu` in the instance |
| `Rv32mMuldiv` | `rv32m_muldiv.sv` | |
| `WordWidth`, `MulDivAlu`, `WordAlu` | what the multiplier computes; what ALU and AMOs compute | `WordAlu` extends `MulDivAlu` |
| `WordAluCheck` | reference definitions of the two | `WordAlu` |
| `Components` | the atomic unit, the multiplier, the words and the wrapper, each by itself in one run | the four of them |
| `SequentialCore` | abstract specification: a machine that executes one instruction at a time | |
| `CpuPipeline` | `cpu_top.sv` with decoder, units, register file and memory ports | implements `SequentialCore` |
| `ScheduledPrograms` | what `cpu_top.sv` needs of its compiler | `CpuPipeline` |
| `MCCpuPipeline` | programs for the runs | `ScheduledPrograms` |
| `WrapperWords`, `CpuWrapper` | `red_pitaya_cpu_wrapper.sv` and an AXI4-Lite master | |
| `Offload`, `MCOffload` | `offload_logic.sv`; pipelines and coprocessors around it | |
| `Dispatcher`, `CoprocessorSystem`, `Mmu` | `dispatcher.sv`, `coprocessor_system.sv`, `mmu.sv`, as functions from registers and wires to registers | |
| `Bench` | what the cocotb benches have in common | |
| `GpuOpQueueBench`, `WrapperBench`, `CpuTopBench` | the bench of the same name under `tb/` | `GpuOpQueue`, `CpuWrapper`, `CpuPipeline` |
| `DispatcherBench`, `CoprocessorBench`, `MmuBench` | likewise | the design's module |
| `BranchCalcBench`, `BypassBench`, `ControlUnitBench`, `InstructionBufferBench` | likewise, with the small design itself | |
| `UvmBench` | `tb/uvm`: driver, monitor and tests, with the fetch stage they see | |
| `BenchRegression` | the eleven benches, as `make all_tests` runs them | all bench modules |
| `RingFacts` | lemmas about a ring of N slots, and about powers of two | |
| `GpuOpQueueProof` | theorems about `GpuOpQueue`, nine of the benches and `branch_calc` | `BenchRegression`, `RingFacts` |
| `GpuResultWbProof` | theorems about `GpuResultWb` and `GpuResultBuffer` | `RingFacts` |
| `Rv32mMuldivProof` | theorems about `Rv32mMuldiv`, `MulDivAlu` and `WordAlu` | `WordAluCheck`, `RingFacts` |
| `CpuPipelineProof` | theorems about `CpuPipeline` | `ScheduledPrograms` |
| `OffloadProof` | theorems about `Offload` | `RingFacts` |
| `Rv32aAtomicProof`, `CpuWrapperProof` | theorems about the module of that name | |

`PROJECT.json` maps every definition that models code to its lines. A definition marked
*variant* is a plausible bug; putting it in the place of the definition after it makes
a run fail, which shows that the run looks at that code.

**GpuOpQueue.** `queue` is the ring (entry and valid bit per slot), the other variables
are the registers of the same name. An entry is one value; entries are not reset, so
`Init` leaves them open. The depth must be a power of two: the pointers wrap by overflow
of `$clog2` bits (`PowerOfTwo`).

**GpuResultWb, GpuResultBuffer.** As above, with the scoreboards. The module has two
clocked blocks that assign the same registers. `CountsUp` and `CountsDown` are their
guesses about each other, and `ScoreboardAfter` is the *set* of outcomes when one edge sets
and clears one bit. `gpu_result_buffer.sv` has the same clocked part (and does not
elaborate, because its record type is not declared); its dependency flags are operators.

**Rv32aAtomic.** One action per state of the FSM, plus `Accept`. Memory and other
masters are external: in a cycle the memory may be ready or not, and another master may
write a word unless `mem_lock_o` is up; that write is the snoop. `writes` and `touched` are
history: what the operation has written, what others wrote since the last LR. `flush_i`
and `exception_i` act alike and are one input. `overtaken` is history as well: another master
wrote the operation's word in the cycle just before, when the lock was down.

**Rv32mMuldiv.** One action per state. `MulDiv` is a constant operator, so the proofs
hold for any function; `Components` uses `MulDivAlu`, whose
products and quotients have theorems of their own. `elapsed` and `killed` are history.

**CpuPipeline.** A word is abstracted to the *place of the instruction that computed
it* (0 for a word from reset, -1, `Wrong`, for anything else, such as the result of an instruction
that was given a wrong operand), which is what forwarding, hazards and the wiring of the units can get
wrong. The program is part of the state, chosen in `Init`; an instruction is its kind, its
register fields, and for a branch whether it is taken. Jumps go forward by `JUMP_DIST`, counted
from the address behind the jump because `branch_calc` is given `id_pc`, which is one ahead (:493); places past
the end hold NOPs. The hold of ten cycles after reset is abstracted to its end.

What each kind of instruction is handed is `Operands`: EX the forwarded words; the multiplier and the
atomic unit what `id_rs1_data` and `id_rs2_data` (`id_data`) caught *for the instruction before*
(:171, :196, :497); compares and jalr the register file's output (:382, :652). `Fresh` compares
them with `latest`, the history of the last writer of each register that entered EX.
The memory is `memory_system`, as `red_pitaya_cpu_wrapper` wires it: both read ports are registered
and take an address at every edge, stalled or not (`fetched`, `dread`), and both ready wires are high
(`memory_system.sv:95` and `:141`). A load, and an AMO, take whatever the port shows, which is the
word of the access before; `dread` keeps its address. The benches' memory behaves likewise: it reads the
wires before an edge and answers after it. The units are modelled as the core sees them.

`SequentialCore` is the meaning of a program: the place of the next instruction and the
registers; a jump takes place at once. The pipeline is mapped to it twice: at issue an instruction
executes when it leaves ID, and the machine's registers are `latest`; at retirement when its result
enters WB, and the registers are the register file with what WB is about to write. What the pipeline
executes between a jump and its target is, in a scheduled program, NOPs, and the machine stutters.

**Offload.** The manager, the destination table and the stall handler are one module: they
share every wire. An instruction is the coprocessor it is for and three registers; a mark
of register 0 is no mark, as in the code, where `pending_reg_write` is clear for x0. The
process that drives `global_stall` leaves it unassigned in the branches of a hazard, and hazards
depend on `global_stall` through `classify_valid`; the model takes any value of it at which all
the equations hold (`Tick` chooses `stalls = global_stall(in, stalls)`). `flush_all` is a
flush of all coprocessors. `cp_exception` is one wire into a port of `CP_NUM` bits: it
reaches coprocessor 0's mark. `running`, what the coprocessors do, is external; `fate` is history:
what became at the last edge of the instruction in ID (due an entry, held, lost, or none for a
coprocessor). In `Spec` the inputs are arbitrary; in `WorkingSpec` a coprocessor is busy as long as it
works and answers only what it was given, in any order and at any time. Nothing
else is asked of the surroundings.

**The benches.** A test is a script, a sequence of steps; a step is what the test or its
driver does to the wires, the edges it waits, and what it then expects. `Bench` keeps the
test, the place in its script and whether an expectation failed, at which cocotb ends the
test. A test that draws at random is a choice of steps. Two rules of the simulator matter and
are modelled (`tb/logs.txt` shows them in the recorded runs): a coroutine woken by
`RisingEdge` reads the registers as they were *before* that edge and its writes are sampled
at the next one; after `Timer(1, "ns")` it reads what the edge left. Where the bench drives
a module that is modelled for itself (queue, wrapper, core), its steps are actions of that
module. The other designs are records: `dut` holds the design's registers, `board` what the
bench keeps. Words are kept as far as the assertions tell them apart: sets of bits where
immediates are built and CSR bits set, names or numbers elsewhere.

**CpuWrapper.** The slave's state machine, the four control registers, the four
flip-flops of the reset synchroniser (as the number set) and a master that keeps to
AXI4-Lite: it holds valid until taken, raises address and data in any order, and has one write
and one read under way. `last`, `landed` and `collided` are history. The
register that reads as the CPU's state is the address `OTHER`.

**Components.** The four modules with instances of their own in one run: `unit` says which of them a
behaviour is about, and the variables of the others rest. Its properties are those of the modules (`Atomic` is
`Amos!Atomic`), so the theorems about the modules are theorems about what the run checks.

## 3. What the runs show

Passing runs:

| run | instance | shows |
|---|---|---|
| `result_ring` | 4 slots, 2 registers, 2 tags | the two clocked blocks never clash except on a scoreboard bit; a marked register has a pending write and the youngest one's tag; reported hazards are real; some held result is ready; refinement |
| `components` | atomic unit: 2 words of 1 bit, LR, SC, 2 AMOs, another master | writes match results, stored word computed from the loaded one, reservations sound, no store overwrites a write it has not seen but one of the unlocked cycle, stalls end |
| | multiplier: 2-bit words, latencies 1 and 3 | result of the operands taken, exact latency, flush aborts, unit ready again |
| | all pairs of 4-bit words | 10 ALU and 9 AMO operations, 8 multiply and divide operations against definitions by bits, orders and equations |
| | wrapper: words 0 and 3 | writes land once, reads show the last write, reset in time, accesses end |
| `cpu_pipeline` | 12,981 scheduled programs of up to 11 instructions over x0 and x1 | order of instructions, fresh operands, no lost result, data port not shared, stalls end; the sequential machine is implemented at issue and at retirement |
| `offload_manager` | 2 coprocessors, 2 entries, time limit 2, x0 and x1 | marks are the operations under way; one entry for each instruction due one; no operation is taken before those it depends on; what is held leaves or has timed out |
| `bench_regression` | the eleven benches, each on its design at the size the bench uses | just four assertions fail, each at its step (and those of the instruction buffer, by its data); what the tests rely on (below) |

`TypeOK` of a module that has a proof is proved and not run again. The operation queue has
no run of its own: its type, ring and refinement are proved for every depth, and
`bench_regression` checks the ring at its real depth of 32.

`bench_regression` asks of the benches:
- `OnlyKnownFailures`: under every choice of the random tests the four assertions of section 5
  fail, at the step given there, and no other does but by the instruction buffer's undriven data;
- `HoldsTheCopy`: the rings hold what the test's own copy holds (queue and instruction
  buffer; the tests compare only flags and counts);
- `TakenOnce`, `ResultIsOwn`: each instruction is taken once, by the coprocessor it is for,
  and no case of the coprocessor bench takes the result of another;
- `FillsFromTheWalk`: a TLB entry is what the memory was answering, for the page the walk
  was started for, but in `test_superpage` and `test_concurrent_requests`;
- `RetiresTheProgram`: the programs of `cpu_top_tb` finish while the bench watches, one
  load excepted, and whether or not the instruction marked "(should skip)" runs;
  `AgreesOnEveryStage`: the bench's model of forwarding is the design;
- `ImmediatesSurvive`: five places encode or decode immediates; all agree but
  `control_unit` with `imme`, on two types;
- `TestsEnd`: the loops of the AXI master, which have no limit, end.

Runs that show the code to differ from what the repository says of it (seven findings):

| run | statement | what happens |
|---|---|---|
| `result_wb_pending` | the bits "track which registers have pending writes" (`gpu_result_wb.sv:55`) | draining one of two results for a register clears the bit |
| `atomic_sc_reuse` | "Clear on successful SC" (`rv32a_atomic.sv:95`) | the flag tested is set a cycle too late; a second SC with no LR succeeds |
| `cpu_load_use` | "Insert bubble (NOP) in EX" on a load-use hazard (`cpu_top.sv:529`) | MEM is stalled by the same hazard, so the bubble replaces the load: it is lost |
| `cpu_bram_fetch` | "BRAM is always ready" (`cpu_top.sv:713`) | the port's register is overwritten in every stalled cycle: an instruction is skipped |
| `cpu_should_skip` | "ADDI x3, x0, 0xFF (should skip)" behind a taken branch (`cpu_top_tb.py:363`; of a JAL :443, :446) | a jump clears neither IF nor ID (`cpu_top.sv:231`): the test's own program executes it, and the test asserts nothing |
| `offload_order` | "Out-of-order completion for coprocessors" (`docs/README.md:34`) | results are matched by counting (:172): the second coprocessor's completes the first one's entry |
| `offload_timeout` | "Timeout protection for hung operations" (`docs/README.md:36`) | the flag and `global_stall` keep each other up (:752): after the limit the stall never ends |

**What `cpu_pipeline` asks of programs.** The core executes correctly only programs that keep
away from its limits. `ScheduledPrograms` states what that takes; each clause is a limit of the code,
and is what a compiler for this core has to do:
- the first instruction is a NOP: it is fetched twice;
- no instruction names the register of a load just before it (the load is lost, :528), or of an AMO
  (its word is not forwarded, :314);
- a load that writes is repeated: the second takes the word that the first one asked for (:586). An AMO
  is preceded, by two places, by a load from its address, for the same reason, and by no access in
  between;
- the instruction before a multiply or an AMO names the same registers and writes neither:
  it is the one whose operands the unit is handed (:171, :196);
- a multiply writes, and is followed by a load that names the product in its unused `rs2` field
  and so waits for it; the pipeline does not wait for a multiply by itself and the product would be
  dropped (`m_stall` at :181 is used nowhere). The one behind that is for no unit;
- after an AMO comes no instruction for a unit (it would be taken while it waits in ID) and no jump
  (which would kill the AMO, :159);
- a stall loses the fetched instruction and executes the next one twice (:252): the third and fourth
  instruction behind one for a unit are NOPs;
- so are the three behind a jump or taken branch, which are executed (:231), and a jump writes no
  register (what it would write is not its return address);
- a branch compares, and a jalr adds to, registers written at least four instructions before (:382).

What follows what is a matter of the path: behind the third instruction after a jump comes the
target. No coprocessor stalls: neither top level has one that does, and each stall would lose an
instruction. (Stalls by a coprocessor are in `Tick`, and `bench_regression` takes them.)

That so much has to be excluded is itself a result: the hazards these clauses keep out are
*not* caught by the properties of `cpu_pipeline`, which say that the clauses are enough. Two of them are
findings, each with a run of its own (`cpu_load_use`, `cpu_bram_fetch`), and `cpu_should_skip` a third;
the others contradict no statement of the repository (section 5).

**What `offload_manager` asks of its surroundings.** That a coprocessor is busy as long as it
works, and answers only what it was given. Results come in any order and several at an
edge, exceptions and flushes at any time, the table fills up, coprocessors are not available. What
these do to the table's entries is the finding `offload_order`; `Tracked` says that the *marks*, which
the hazards look at, stay right all the same, but for an exception's effect on coprocessor 0.
`OfferedOnce` counts the two ways in which an instruction is lost (a full table, a coprocessor that is
not available) and shows that there is no third. A stall that has timed out is excepted from
`StallsEnd`; `offload_timeout` shows that it does not end.

A reset may come at any time.

**Bounds.** Four slots give a ring that wraps, is full, empty and in between; two
registers and tags tell same from different; the entries are never inspected. Two words
separate a reservation's address from another; 1-bit values separate a word from its
change; what the AMOs compute is checked on words of 4 bits, which have every sign
boundary (`OTHER` is the default branch of the AMO's case), and proved for up to 32. Latencies 1 and 3 are
the least and one that counts. A program of `cpu_pipeline` is made of up to four pieces: a single
instruction, a repeated load, a unit's instruction with what has to stand around it, or a jump over an
instruction. Four span forwarding from EX, MEM, WB and the register file; a unit or a jump has one or two
pieces before it and up to two behind; one register besides x0 suffices for the matching of
numbers. `MUL_LAT = 2` is `cpu_top`'s. `JUMP_DIST = 4` is the least distance beyond what is executed
behind a jump. `cpu_load_use` and `cpu_bram_fetch` need no more than three instructions;
`cpu_should_skip` runs the branch test's program as it stands.
Words 0 and 3 differ in the low bit, which is all that the one-bit registers keep, and in the rest, which
they drop. Two coprocessors answer in either order; two entries let the counter of
completions wrap, the table fill and two entries be open; with the time limit 2 a stall of one cycle
passes and a second brings the limit; one register besides x0 gives every hazard. `Seen` leaves
out inputs that the signals do not tell apart from others, each named there, and instructions
name register 1 once. With two coprocessors an instruction for a third does not exist.
The benches fix their own sizes: the operation queue has its 32 slots, the instruction
buffer 8, the TLB 4 entries, the core its 32 registers. Random tests are shortened: 4 operations of
100 on the queue (`RandomOps`), 8 on the instruction buffer (`BufferOps`), 8 instructions of 20
for the dispatcher (`StreamLength`), 20 instructions of 500 and 1000 (`LongRun`); each of them makes
every choice in every step. Words 0 to 5 are the words the wrapper's test
writes, as far as it tells them apart. No run uses a state constraint.

**Fairness.** The clock never stops: each fair specification has weak fairness of a
tick. In addition the atomic unit's memory is ready again and again (`memory_system.sv:141`
ties it high), the multiplier's stalls end in some tick (`Tick(FALSE, FALSE)`), an AXI master takes
responses and raises the channels it owes, as AXI asks of it (`Proceed` of `Components`, which is these
three for the unit the behaviour runs); `CpuPipeline`'s clock ticks; `MCOffload` has the operations
answer again and again and EX, MM and the memory free of what an instruction waits for
(`Helpful`); `bench_regression` has the simulator's clock run while a test of the wrapper is not over
(`cocotb.start_soon` of a `Clock` that nothing stops).
The ticks named by fairness are always enabled, but for the end of a
bench's script, so only a behaviour in which the environment refuses for ever is excluded. No
flush or reset is counted on.

**Deadlock** is checked in all runs but the two of benches, whose tests end. `Reset` and `Tick`
are always possible, so it says only that no tick is left undefined by a missing case.

## 4. What is proved

Theorems hold for every value of the constants that satisfies the module's assumptions;
the runs check the same definitions on the instances above.

- **GpuOpQueue** (`GpuOpQueueProof`): `TypeCorrect`, `RingStaysConsistent` and
  `QueueImplementsFifo`, for every depth that is a power of two and every set of
  entries. `IInv`, registers in range and `RingConsistent`, is inductive: the refinement needs to know which slots
  are valid and that `wr_ptr` is `count` slots after `rd_ptr`. Each tick maps to the
  abstract step with the same requests; `Reset` to the abstract reset. The arithmetic is that of
  `RingFacts`: a slot counted from another is a sum, or a sum less the depth, and two
  slots less than a round apart differ.
- **The queue's bench and three more** (the same module, about `SuiteSpec` of `BenchRegression`): `CopiesAreHeld`
  (`HoldsTheCopy`), `InstructionsTakenOnce` (`TakenOnce`) and `ForwardingAgrees`
  (`AgreesOnEveryStage`), for every depth of the queue and all lengths of the random tests.
  The queue's bench enqueues what its scripts say, not members of `Entry`, so `CopyInv` has the
  ring's invariant for *some* set of entries, and adds that the copy is what the abstract queue
  holds once the test's reset is done. `BufferInv` is the same for the instruction buffer: pointers in
  0..15, at most 8 words between them, and these are the copy (`BufferPlaces`: the places
  are distinct modulo 8 and the next write goes behind the last). `DispatchInv` needs no more than
  that the driver has a wire `inst_valid`: an instruction on the wires is taken at
  that edge exactly when one is due (`OfferedIsDue`). None of them looks at the scripts but
  `RandomScript`, which says that the queue's random test resets only at its start. The forwarding
  multiplexer keeps no state; `ForwardsTheNewest` is about any register numbers.
- **The coprocessor system's bench** (the same module): `ResultsAreTheCasesOwn` (`ResultIsOwn`).
  A case leaves its instruction on the wires for an edge too many, so the multiplier is started
  again and the next case begins while it runs; that the case still takes its own result is a matter of counting
  edges. `CoprocInv` counts them (`UntilRest`): before a test's first product the multiplier, left
  running by the test before, comes to rest in time (`StartsClean`); from then on each product
  finds it at an early edge, and takes over with the operands now on the wires; and the polling
  loop, at most 20 edges long, ends after the result and not before (`Polls`). What a product is does not matter to it.
- **The MMU's bench** (the same module): `WalksFillWhatTheyWereStartedFor` (`FillsFromTheWalk`).
  The walker installs what stands on the data wires one edge after the answer. `AnswerStands` says
  why that is the answer: whatever step raises `ptw_ready`, the next one lowers it and leaves
  `ptw_data`. It is shown of the scripts by the pieces they are put together from (`Joined`), not
  step by step. `KeepsItsAddress` says of each test why no address changes under a walk.
  The exception is `test_permission_check`, whose walk may be started by the request the
  test before left raised; there the walker is followed edge by edge (`FirstPage`). The two tests
  that `FillsFromTheWalk` excepts are the ones for which no such reason exists.
- **Immediates** (the same module): `BranchesReachTheirTargets`, for every kind of branch and jump,
  base, offset that the ISA lets it carry and rest of the instruction; `InstructionsDecode`, the same for
  the generator and decoder of `tb/uvm`; and `ImmediatesComeBack` (`ImmediatesSurvive`) for the
  three benches. Of a number only two things are needed: the bits above its format are its sign
  (`SignedWord`, from `SignBit` and `PowersOfTwo` of `RingFacts`), and an even one has no bit 0. That a format
  gives back what it was given is then a matter of places (`BraRoundTrip`, `FieldReadsBack`
  and the like). That the scripts stay within the formats is `BranchScripts` and `GeneratedFits`. The
  run draws the ends of each range and the powers of two; the theorems take all numbers.
- **GpuResultWb** (`GpuResultWbProof`): `TypeCorrect`, `BlocksNeverClash`,
  `ScoreboardTruthful`, `BufferImplementsFifo`, and of the dependency flags of
  `GpuResultBuffer` `HazardsAreReal` and `HeldResultsCanGo`, for every depth, register and tag set. `IInv` is
  `TypeOK` with the ring's consistency and that a valid slot is ready; the two clocked
  blocks are shown to agree on the count before anything is said of a tick. The
  scoreboard is proved by the ages of the results: a register marked after a tick is marked by
  the result stored in it, or was marked before, and then a result other than
  the one drained is held for it. What fails is the converse, `result_wb_pending`. A result
  that waits has a marked register, whose youngest result is then held and waits for no
  other (`YoungestIsReady`): it is the one waited for, and some held result is always ready;
  `LeastNumber` of `RingFacts` gives the first that `next_ready_idx` finds.
- **Rv32aAtomic** (`Rv32aAtomicProof`): `TypeCorrect`, `WritesMatchResult`,
  `StoresMatchResult`, `ReservationsSound`, `StoresAreAtomic`, for all words, values, AMO
  functions and behaviours of memory, flush and other masters. None of the properties is
  inductive alone; `IInv` adds `Progress`, which ties the FSM's state to the kind of
  operation, the SC's verdict and the writes made so far. `Atomic` compares the word in memory, as another
  master may have left it, with the word loaded: in COMPUTE the lock has kept them equal since the load, and
  in STORE they differ only if `overtaken` says that the unlocked cycle was used.
- **Rv32mMuldiv** (`Rv32mMuldivProof`): `TypeCorrect`, `ResultCorrect`, `LatencyHolds`,
  `FlushesAbort`, for all latencies from 1 to 64 and any function. `TypeOK` with the
  latency equation is inductive; the result follows from operands that stay.
- **Multiplier's arithmetic** (`Rv32mMuldivProof`): `ResultsAreExact`, for every width up to
  32 bits and every pair of operands: MUL, MULH, MULHSU and MULHU give the two halves of the signed,
  mixed and unsigned products; quotient and remainder satisfy the division law, with the remainder
  smaller than the divisor and of the dividend's sign, and the instruction set's answers for a zero
  divisor and for overflow. `components` checks the same definition on 4 bits. `HeldOperandsExact`
  says it of the operands the unit holds in any state, which `ResultCorrect` turns into results.
- **ALU and AMOs** (the same module): `WordsAreExact` (`AluCorrect`), for the same widths and all words.
  Everything rests on one fact about bits (`BitOfMultiple`): what is added above a place does not
  change the bit there. Shifts are then quotients of quotients (`DivOfDiv`), the sign that SRA
  copies is the bit of a small number above its size (`BitAbove`), and signed comparison is the order of the sign bits
  first (`SignedOrder`). Logic is defined bit by bit through a recursive function (`WordOf`); that it exists and gives back
  the bits (`WordOfBits`) is shown by the least length for which it would not, `LeastNumber` of
  `RingFacts` taking the place of induction.
- **CpuPipeline** (`CpuPipelineProof`): `TypeCorrect` for every program and latency. For every program
  that satisfies `Suits`, of any length, over any registers and any multiplier latency, with the registered
  memory: `OrderKept`, `OperandsAreFresh`, `NoResultIsLost`, `PortIsExclusive`; and for jumps of at
  least four, `IssueIsSequential` and `RetirementIsSequential`, together `PipelineIsSequential`, the refinement
  the run checks. Programs are assumed to be scheduled because the core executes no others
  rightly; the theorems say that what `ScheduledPrograms` lists is *enough*, for all such programs.
  - `OrderInv` is about where instructions are. The places due in the stages form a path of the
    program (`StagesInOrder`), and what a stage holds is what is due there, or both are NOPs: that is
    what a stall makes of a memory that does not wait (`Fetching`: where a stall makes the word fetched differ from the one
    due, both are NOPs, by the clause about what follows a unit). A unit works
    exactly while its instruction is in EX (`UnitsInStep`), from which it follows when there is a
    stall (`StallOfUnits`).
  - `FlowInv` is about words. The last writer of each register is what forwarding would supply, the first
    of EX, MEM, WB and register file that has one (`Known`); what a unit is about to take is the last
    writers' (`UnitData`); a repeated load and an AMO find their word on the port (`Words`, `AmoWord`); EX
    and the units have been given what they should (`Honest`, `OwnResult`). Each clause of
    `ScheduledPrograms` is used by one lemma (`AfterAmo`, `AfterMul`, `UnitShadow`, `JumpShadow`, ...).
  - Between a jump and its target `Sequential` puts the machine at the target as soon as the target is
    known; `FourOn` and `Straight` say that the places around a jump lie on a line otherwise, so that
    every tick is a step of the machine or a stutter (`PathStep`, `IssueStep`, `RetireStep`).
- **Offload** (`OffloadProof`), for 2 to 4 coprocessors, every table whose size is a power of two,
  every set of registers and time limit. In every environment, whatever pipeline and coprocessors do:
  `TypeCorrect` and `EntryForEach` (`OfferedOnce`). In `WorkingSpec`, with results in any order:
  `TracksWhatRuns` and `TakenWithOperands`. `TypeOK` and `Tracked` are inductive; what `EntryForEach`
  needs is that the free entry found is the least one, and only one (`LeastFree`, `TakenEntry`).
- **CpuWrapper** (`CpuWrapperProof`): `TypeCorrect`, `WritesLandOnce`,
  `TakenReadsServed`, `ReadsShowLastWrite`, and the action property `ResetsInTime`, for any set of
  words. `Inv` is `TypeOK` with
  the protocol of a write (which channels are done in which state, where its data went), the
  protocol of a read, and the agreement of the registers with `last` outside a write.

**Only model-checked**: liveness (fairness and ENABLED are out of the prover's reach);
and two properties of the benches.
`RetiresTheProgram` says that concrete programs of up to 99 cycles finish while the bench watches, and
`OnlyKnownFailures` the outcome of every assertion of eleven benches: no invariant is shorter than the
executions themselves, so a proof would run them, as TLC does. The lengths of
random tests have no bound in the theorems about benches; those of the other benches are finite
in the code too.

## 5. Limits of the code met while modelling

Beside the findings, with no statement in the repository they contradict, or in parts
not modelled yet; the hazards in `PROJECT.json` give more.

- `cpu_top.sv`: a multiply in ID during
  an AMO's stall is gone before EX, and its reader waits for ever (:170, :682). An AMO held in
  ID by a data hazard executes, and writes memory, repeatedly (:192). A
  load takes the word the memory port read *before* (:586); the link address is not computed (:388); a
  jump's target is counted from one instruction too far (:493). The units
  take `id_rs1_data`, captured for the instruction before (:171). BLT and BGE
  compare without sign (:654). JAL and JALR write no return address (`control_unit.sv:112`);
  `control_unit.sv:53` and `imme.sv:12` number the B and U immediates the other way round.
- `rv32a_atomic.sv`: a snoop in the cycle of SC_CHECK comes too late (:150); the lock is
  down in COMPUTE (:263); a flush in STORE aborts an operation whose write is made (:165).
- `rv32m_muldiv.sv`: a flush in DONE is not looked at (:88).
- `gpu_op_queue.sv:117`, `gpu_result_wb.sv:137`: `count` has no bit for a full ring: 32, or 16,
  shows as 0.
- `red_pitaya_cpu_wrapper.sv`: a read taken in the same cycle as a write is never
  answered (:129, part of `TakenReadServed`); a second write address replaces the first
  (:220); byte strobes are ignored (:175); the step and start-address registers are
  connected to nothing.
- `offload_logic.sv`: an exception clears coprocessor 0's mark, whichever raised it (:651); an
  instruction that meets a full table or a coprocessor that is not available is lost (:159); entries are freed by
  a flush alone (:496), which does not reset the counter of completions (:166); `global_stall` is a latch (:760);
  results go to the register of the instruction now in ID (:184); marks are not flushed (:650);
  an instruction in WB is not looked at for a RAW hazard (:676), though
  `docs/offload_system.md:122` names WB too.
- `_interconnect.sv`: fixed priority (:70); main memory's range covers the three
  others (:85); requests are shown for one cycle (:118).
- `mmu.sv`: the walk follows the address now on the port (:240); flush and update of
  the TLB race (:318). `coprocessor_system.sv`: CSRRS and CSRRC use the previous CSR read (:185).
- `instruction_buffer.sv`: nothing drives `data_out`.
- `cpu_driver.c`: `cpu_init` uses functions that refuse to work before it has finished (:75).

What `bench_regression` shows of the benches:

- *Assertions that fail.* `test_queue_full` (`gpu_op_queue_tb.py:351`): the count shows 0.
  `test_tlb_flush` and `test_page_fault` of `mmu_tb.py` look an edge after the one at which
  `ptw_req` and `page_fault` are high. `test_load_store_operations` of `cpu_top_tb.py`: a load returns
  what the bench set for the access before. Eight of the nine tests of
  `instruction_buffer_tb.py`: `data_out` is undriven.
- *Tests that pass and do not test.* In `test_pipeline_stalls` a load is lost, which no
  assertion sees; in the branch test the instruction marked "should skip" executes (a finding); the first
  instruction executes twice, since the bench's memory answers in the next cycle. Two walks of
  `mmu_tb.py` fill the entry of another page. The tests of `tb/uvm` serve no memory and compare
  nothing: the driver's queue is logged and the scoreboard is called by nobody.

## 6. What is not modelled, and the plan

Left to model, in order of importance:

1. **Privilege**: CSRs, traps and returns of `register_file_system.sv`, against its own
   assertion that mode 2 is never entered (:355); shadow banks. Constants: the fields
   of mstatus and sstatus; theorem: without a write of mode 2 to MPP, the assertion holds.
2. **Interconnect**: grant, decode, response routing; safety of routing, starvation.
3. **CpuWrapper extended**: the driver's `cpu_init`, `cpu_start`, `cpu_stop` and polling
   over the same registers; a pipelining master; `cpu_axi_wrapper.sv` beside it.
4. **CpuPipeline extended**: what happens to programs that are not scheduled beyond the three findings (a
   unit held in ID: deadlock and repeated AMO); values of addresses and byte enables of `memory_system`;
   composition with `Rv32aAtomic` and `Rv32mMuldiv` in place of the inlined units.
5. **Compositions**: `Offload` with `CoprocessorSystem` behind it and `CpuPipeline` before it
   (no module of the repository wires them yet); requesters of `Mmu` and of the
   coprocessors other than their benches, with what they must keep to.
6. **Proofs**: that the units inlined in `CpuPipeline` implement `Rv32mMuldiv` and `Rv32aAtomic`;
   that the MMU's walk installs what the memory answered for every requester that holds its
   address, and not only for the bench.

Of the benches: `memory_system_tb.py` drives `cache_flush` and `cache_invalidate`, ports its
design does not have, and cannot start; `uvm/cpu_debug_test.py` only logs; the jump test and the
debug test of `cpu_top_tb.py` (absolute addresses; only logs) and `test_axi_deadbeef` of the
wrapper's bench; in `tb/uvm` the scoreboard, the cycle monitor, `verify_results`, the
memory interface and `load_program_at_pc`, which no test of the two modelled files
reaches, and `cpu_config.py`, which is data. Eight benches are empty files (`imme_tb`, `mux_n_tb`,
`interconnect_tb`, `gpu_result_buffer_tb`, `gpu_result_wb_tb`, `pipeline_stages_tb`,
`register_file_system_tb`, `offload_logic_tb`), and three that `tb/Makefile` names do not
exist (`equ_tb`, `clock_divider_tb`, `cpu_axi_wrapper_tb`).

Left out for good: the loader and the number parsing in the driver (pure input), the
combinational selectors, the superseded stage modules, empty files, synthesis scripts, LEDs
and performance counters, which influence nothing.
