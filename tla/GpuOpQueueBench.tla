--------------------------- MODULE GpuOpQueueBench ---------------------------
(***************************************************************************)
(* tb/gpu_op_queue_tb.py against the ring it drives.  Every method of the   *)
(* driver raises its wires, waits for one edge, lowers them and lets the    *)
(* outputs settle: it is one Tick.  An operation, with its two addresses,   *)
(* is a number; 0 is what the ring shows when it offers nothing.            *)
(***************************************************************************)
EXTENDS GpuOpQueue, Bench, TLC

CONSTANTS RandomOps,    \* operations of the random test (100 in the bench)
          RandomInstr   \* what create_random_instruction may return

VARIABLE expected_queue       \* the random test's own copy of the queue

benchVars == <<vars, progress, expected_queue>>

-----------------------------------------------------------------------------
\* The outputs the monitor reads.
o_queue_nearly_full == count >= QUEUE_DEPTH - 4
o_dequeue_valid == ~o_queue_empty /\ queue[rd_ptr].valid
o_instruction == IF o_dequeue_valid THEN queue[rd_ptr].entry ELSE 0
Monitor == [empty |-> o_queue_empty, full |-> o_queue_full, count |-> o_queue_count,
            nearly_full |-> o_queue_nearly_full, underrun |-> o_queue_underrun,
            overflow |-> o_queue_overflow, valid |-> o_dequeue_valid,
            instruction |-> o_instruction]

-----------------------------------------------------------------------------
\* The scripts.  A step names the driver's method, its operation, the expectation.
Step(op, instr, expect) == [op |-> op, instr |-> instr, expect |-> expect]
Reset_(expect) == <<Step("reset", 0, expect)>>
Enqueue(instr, expect) == <<Step("enqueue", instr, expect)>>
Dequeue(expect) == <<Step("dequeue", 0, expect)>>

\* Operations from..to are enqueued; before each of the dequeues that follow the
\* oldest is offered.
Offers(instr) == [valid |-> TRUE, instruction |-> instr]
Filling(from, to, during, full) ==
  [i \in 1..(to - from + 1) |->
     Step("enqueue", from + i - 1, IF from + i - 1 < to THEN during ELSE full)]
Draining(from, to, finally) ==
  [i \in 1..(to - from + 1) |->
     Step("dequeue", 0, IF from + i - 1 < to THEN Offers(from + i) ELSE finally)]

Empty == [empty |-> TRUE, full |-> FALSE, count |-> 0, nearly_full |-> FALSE,
          underrun |-> FALSE, overflow |-> FALSE, valid |-> FALSE]

LargestShown == IF QUEUE_DEPTH < 31 THEN QUEUE_DEPTH ELSE 31

test_reset == Reset_(Empty)
test_simple_enqueue_dequeue ==
  Reset_(Anything)
  \o Enqueue(1, [empty |-> FALSE, count |-> 1, valid |-> TRUE, instruction |-> 1])
  \o Dequeue([empty |-> TRUE, count |-> 0, valid |-> FALSE])
test_queue_full ==
  Reset_(Anything)
  \o Filling(1, QUEUE_DEPTH, [full |-> FALSE],
             [full |-> TRUE, count |-> LargestShown, nearly_full |-> TRUE])
  \o Enqueue(QUEUE_DEPTH + 1, [overflow |-> TRUE])
  \o Dequeue([full |-> FALSE])
test_queue_empty_dequeue ==
  Reset_([empty |-> TRUE]) \o Dequeue([underrun |-> TRUE, valid |-> FALSE])
test_simultaneous_operations ==
  Reset_(Anything) \o Filling(1, 5, Anything, Anything)
  \o <<Step("both", 6, [kept |-> TRUE])>>
test_priority_levels ==
  Reset_(Anything) \o Filling(1, 4, Anything, Offers(1)) \o Draining(1, 4, Anything)
test_nearly_full_threshold ==
  LET threshold == QUEUE_DEPTH - 4 IN
  Reset_(Anything) \o Filling(1, threshold - 1, Anything, [nearly_full |-> FALSE])
  \o Enqueue(threshold, [nearly_full |-> TRUE, full |-> FALSE])
test_wrap_around ==
  LET cycle(c) == LET first == c * QUEUE_DEPTH + 1
                      end == (c + 1) * QUEUE_DEPTH
                  IN Filling(first, end, Anything, [full |-> TRUE] @@ Offers(first))
                     \o Draining(first, end, [empty |-> TRUE])
  IN Reset_(Anything) \o cycle(0) \o cycle(1) \o cycle(2)
test_instruction_types ==
  Reset_(Anything) \o Filling(1, 7, Anything, Offers(1)) \o Draining(1, 7, [empty |-> TRUE])
test_random_operations ==
  Reset_(Anything) \o [i \in 1..RandomOps |-> Step("random", 0, Anything)]

Scripts == [test_reset |-> test_reset,
            test_simple_enqueue_dequeue |-> test_simple_enqueue_dequeue,
            test_queue_full |-> test_queue_full,
            test_queue_empty_dequeue |-> test_queue_empty_dequeue,
            test_simultaneous_operations |-> test_simultaneous_operations,
            test_priority_levels |-> test_priority_levels,
            test_nearly_full_threshold |-> test_nearly_full_threshold,
            test_wrap_around |-> test_wrap_around,
            test_random_operations |-> test_random_operations,
            test_instruction_types |-> test_instruction_types]
Script == Scripts[test]

-----------------------------------------------------------------------------
BenchInit == /\ Init /\ \A s \in Slot : queue[s].entry = 0
             /\ InitTest(DOMAIN Scripts) /\ expected_queue = <<>>

Now == Script[at + 1]
Doing(op) == ~Done(Script) /\ Now.op = op

\* The step's expectation holds once the outputs have settled.
Expect == Observe(Agrees(Now.expect, [kept |-> o_queue_count' = o_queue_count] @@ Monitor'))

reset == Doing("reset") /\ Reset /\ Expect /\ UNCHANGED expected_queue
enqueue == Doing("enqueue") /\ Tick(TRUE, Now.instr, FALSE) /\ Expect /\ UNCHANGED expected_queue
dequeue == Doing("dequeue") /\ Tick(FALSE, 0, TRUE) /\ Expect /\ UNCHANGED expected_queue
enqueue_dequeue_simultaneous ==
  Doing("both") /\ Tick(TRUE, Now.instr, TRUE) /\ Expect /\ UNCHANGED expected_queue

\* One turn of the random test: an operation the copy allows, then the flags are
\* compared with the copy.  The idle turn reads them before the edge's update.
can_enqueue == Len(expected_queue) < QUEUE_DEPTH
can_dequeue == Len(expected_queue) > 0
FlagsAgree(full, empty, copy) ==
  Observe(full = (Len(copy) >= QUEUE_DEPTH) /\ empty = (Len(copy) = 0))
random_enqueue ==
  /\ Doing("random") /\ can_enqueue
  /\ \E instr \in RandomInstr : /\ Tick(TRUE, instr, FALSE)
                                /\ expected_queue' = Append(expected_queue, instr)
  /\ FlagsAgree(o_queue_full', o_queue_empty', expected_queue')
random_dequeue ==
  /\ Doing("random") /\ can_dequeue
  /\ Tick(FALSE, 0, TRUE) /\ expected_queue' = Tail(expected_queue)
  /\ FlagsAgree(o_queue_full', o_queue_empty', expected_queue')
random_both ==
  /\ Doing("random") /\ can_enqueue /\ can_dequeue
  /\ \E instr \in RandomInstr : /\ Tick(TRUE, instr, TRUE)
                                /\ expected_queue' = Append(Tail(expected_queue), instr)
  /\ FlagsAgree(o_queue_full', o_queue_empty', expected_queue')
random_idle ==
  /\ Doing("random") /\ Tick(FALSE, 0, FALSE) /\ UNCHANGED expected_queue
  /\ FlagsAgree(o_queue_full, o_queue_empty, expected_queue)

BenchNext == \/ reset \/ enqueue \/ dequeue \/ enqueue_dequeue_simultaneous
             \/ random_enqueue \/ random_dequeue \/ random_both \/ random_idle
BenchSpec == BenchInit /\ [][BenchNext]_benchVars

-----------------------------------------------------------------------------
\* The random test compares two flags with its copy of the queue and never what is
\* dequeued; the ring nevertheless holds the copy, operation by operation, and
\* what it offers next is the copy's oldest.
ScoreboardIsQueue ==
  test = "test_random_operations" /\ at > 0 =>
    /\ Contents = expected_queue
    /\ o_instruction = IF expected_queue = <<>> THEN 0 ELSE Head(expected_queue)
=============================================================================
