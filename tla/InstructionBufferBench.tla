----------------------- MODULE InstructionBufferBench -----------------------
(***************************************************************************)
(* tb/instruction_buffer_tb.py and the ring it drives.  write, read and     *)
(* both together wait one edge, raise their wires for one edge and lower    *)
(* them; the edge a test then waits for moves nothing, and at it the test   *)
(* reads what the operation left.  A test pattern is its number in the      *)
(* list; none of them is the word 0.                                        *)
(***************************************************************************)
EXTENDS Integers, Bench, TLC

CONSTANTS BUFFER_DEPTH,
          RandomOps      \* turns of the random test (100 in the bench)

VARIABLES dut,       \* inst_buffer, write_ptr, read_ptr
          board      \* expected_buffer; whether data_out was what failed

benchVars == <<progress, dut, board>>

-----------------------------------------------------------------------------
\* The ring.  The pointers have one bit more than an index.
ResetState == [inst_buffer |-> [i \in 0..(BUFFER_DEPTH - 1) |-> 0],
               write_ptr |-> 0, read_ptr |-> 0]
NextPtr(ptr) == (ptr + 1) % (2 * BUFFER_DEPTH)
Lower(ptr) == ptr % BUFFER_DEPTH
is_empty(d) == d.write_ptr = d.read_ptr
is_full(d) == Lower(d.write_ptr) = Lower(d.read_ptr) /\ d.write_ptr # d.read_ptr
do_writeUnguarded(d, write_en) == write_en                        \* variant
do_write(d, write_en) == write_en /\ ~is_full(d)
do_read(d, read_en) == read_en /\ ~is_empty(d)
After(d, write_en, data_in, read_en) ==
  [inst_buffer |-> IF do_write(d, write_en)
                   THEN [d.inst_buffer EXCEPT ![Lower(d.write_ptr)] = data_in]
                   ELSE d.inst_buffer,
   write_ptr |-> IF do_write(d, write_en) THEN NextPtr(d.write_ptr) ELSE d.write_ptr,
   read_ptr |-> IF do_read(d, read_en) THEN NextPtr(d.read_ptr) ELSE d.read_ptr]

\* Nothing drives data_out; an undriven wire reads 0.
data_out == 0
Outputs(d) == [is_empty |-> is_empty(d), is_full |-> is_full(d), data_out |-> data_out]

-----------------------------------------------------------------------------
\* The scripts.
Step(op, instruction, expect) == <<[op |-> op, instruction |-> instruction, expect |-> expect]>>
Writes(from, to) == [i \in 1..(to - from + 1) |-> Step("write", from + i - 1, Anything)[1]]
Looks(expect) == Step("look", 0, expect)
Shows(instruction) == Looks([data_out |-> instruction])
ReadThenShows(instruction) == Step("read", 0, [data_out |-> instruction])

test_reset == Looks([is_empty |-> TRUE, is_full |-> FALSE, data_out |-> 0])
test_simple_write_read ==
  Writes(1, 1) \o Looks([data_out |-> 1, is_empty |-> FALSE])
  \o Step("read", 0, [is_empty |-> TRUE])
test_multiple_writes_reads ==
  Writes(1, 5) \o Shows(1) \o ReadThenShows(2) \o ReadThenShows(3) \o ReadThenShows(4)
  \o ReadThenShows(5) \o Step("read", 0, Anything)
test_buffer_full ==
  Writes(1, BUFFER_DEPTH) \o Looks([is_full |-> TRUE, is_empty |-> FALSE])
  \o Step("write", BUFFER_DEPTH + 1, [is_full |-> TRUE, data_out |-> 1])
test_stall_behavior ==
  Writes(1, 4) \o Shows(1) \o [i \in 1..5 |-> Shows(1)[1]] \o ReadThenShows(2)
test_simultaneous_read_write == Writes(1, 3) \o Step("both", 4, [data_out |-> 2])
test_circular_buffer ==
  LET empties == [i \in 1..BUFFER_DEPTH |->
        Step("read", 0, IF i < BUFFER_DEPTH THEN [data_out |-> i + 1]
                        ELSE [is_empty |-> TRUE])[1]]
      round == Writes(1, BUFFER_DEPTH) \o Shows(1) \o empties
  IN round \o round \o round
test_random_operations == [i \in 1..RandomOps |-> Step("random", 0, Anything)[1]]
test_prefetch_behavior == Writes(1, 2) \o Shows(1) \o ReadThenShows(2)

Scripts == [test_reset |-> test_reset, test_simple_write_read |-> test_simple_write_read,
            test_multiple_writes_reads |-> test_multiple_writes_reads,
            test_buffer_full |-> test_buffer_full, test_stall_behavior |-> test_stall_behavior,
            test_simultaneous_read_write |-> test_simultaneous_read_write,
            test_circular_buffer |-> test_circular_buffer,
            test_random_operations |-> test_random_operations,
            test_prefetch_behavior |-> test_prefetch_behavior]
Script == Scripts[test]
Now == Script[at + 1]

-----------------------------------------------------------------------------
\* reset_dut comes first in every test.
BenchInit == /\ InitTest(DOMAIN Scripts) /\ dut = ResetState
             /\ board = [expected_buffer |-> <<>>, data_differs |-> FALSE]

\* What the buffer should hold after an operation the bench has not guarded.
Expected(writes, instruction, reads) ==
  LET kept == IF reads /\ board.expected_buffer # <<>> THEN Tail(board.expected_buffer)
              ELSE board.expected_buffer
      room == Len(board.expected_buffer) < BUFFER_DEPTH
  IN IF writes /\ room THEN Append(kept, instruction) ELSE kept

Compare(expect, d, copy) ==
  /\ Observe(Agrees(expect, Outputs(d)))
  /\ board' = [expected_buffer |-> copy,
               data_differs |-> "data_out" \in DOMAIN expect /\ expect.data_out # data_out]

\* write_instruction, read_instruction, write_read_simultaneous, or a look only.
operate ==
  /\ ~Done(Script) /\ Now.op # "random"
  /\ LET writes == Now.op \in {"write", "both"}
         reads == Now.op \in {"read", "both"}
     IN /\ dut' = After(dut, writes, Now.instruction, reads)
        /\ Compare(Now.expect, dut', Expected(writes, Now.instruction, reads))

\* A turn of the random test compares the outputs with the copy before it draws an
\* operation that the copy allows; a comparison that fails ends the test there.
random_turn ==
  /\ ~Done(Script) /\ Now.op = "random"
  /\ LET copy == board.expected_buffer
         before == IF copy = <<>> THEN [is_empty |-> TRUE] ELSE [data_out |-> Head(copy)]
         failed == ~Agrees(before, Outputs(dut))
     IN \E writes, reads \in BOOLEAN, instruction \in {1, 2} :
          /\ writes => Len(copy) < BUFFER_DEPTH
          /\ reads => copy # <<>>
          /\ failed => ~writes /\ ~reads
          /\ dut' = After(dut, writes, instruction, reads)
          /\ Compare(before, dut, Expected(writes, instruction, reads))

BenchNext == operate \/ random_turn
BenchSpec == BenchInit /\ [][BenchNext]_benchVars

-----------------------------------------------------------------------------
\* Whatever fails, fails because of data_out: the two flags are as every test
\* expects them, the random one included.
OnlyDataDiffers == mismatch => board.data_differs

\* The words between the pointers are the ones written and not yet read, in order.
Size == (dut.write_ptr - dut.read_ptr) % (2 * BUFFER_DEPTH)
HoldsTheCopy ==
  board.expected_buffer =
    [k \in 1..Size |-> dut.inst_buffer[Lower(dut.read_ptr + k - 1)]]
=============================================================================
