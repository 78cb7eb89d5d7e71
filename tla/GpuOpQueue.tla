----------------------------- MODULE GpuOpQueue -----------------------------
(***************************************************************************)
(* gpu_op_queue: the ring through which the CPU hands operations to the    *)
(* GPU.  One Tick is one rising clock edge; the request wires sampled at   *)
(* the edge are the parameters of Tick.  An entry (instruction, source and *)
(* destination address) is one member of Entry.                            *)
(***************************************************************************)
EXTENDS Integers, Sequences

CONSTANTS QUEUE_DEPTH,  \* slots in the ring
          Entry,        \* what can be enqueued
          COUNT_BITS    \* width of the port o_queue_count

ASSUME DepthAssumption == QUEUE_DEPTH \in Nat \ {0}
\* wr_ptr and rd_ptr are $clog2(QUEUE_DEPTH) bits wide and wrap by overflow,
\* which is a ring only if the depth is a power of two.
ASSUME PowerOfTwo == \E k \in 0..QUEUE_DEPTH : QUEUE_DEPTH = 2^k
ASSUME EntryAssumption == Entry # {}

VARIABLES queue,             \* the slots: [entry, valid]
          wr_ptr, rd_ptr,
          count,
          o_queue_overflow,
          o_queue_underrun

vars == <<queue, wr_ptr, rd_ptr, count, o_queue_overflow, o_queue_underrun>>

Slot == 0..(QUEUE_DEPTH - 1)
Advance(ptr) == (ptr + 1) % QUEUE_DEPTH

o_queue_full  == count = QUEUE_DEPTH
o_queue_empty == count = 0
o_queue_count == count % 2^COUNT_BITS

\* The entries are not reset: they hold whatever the memory held.
Init == /\ queue \in [Slot -> [entry : Entry, valid : {FALSE}]]
        /\ wr_ptr = 0
        /\ rd_ptr = 0
        /\ count = 0
        /\ o_queue_overflow = FALSE
        /\ o_queue_underrun = FALSE

Reset == /\ queue' = [s \in Slot |-> [queue[s] EXCEPT !.valid = FALSE]]
         /\ wr_ptr' = 0
         /\ rd_ptr' = 0
         /\ count' = 0
         /\ o_queue_overflow' = FALSE
         /\ o_queue_underrun' = FALSE

Enqueues(i_enqueue_valid) == i_enqueue_valid /\ ~o_queue_full
Dequeues(i_dequeue_req)   == i_dequeue_req /\ ~o_queue_empty

\* variant: an entry stored while another leaves takes the slot being freed.
QueueAfterReuse(stores, entry, frees) ==
  IF stores THEN [queue EXCEPT ![IF frees THEN rd_ptr ELSE wr_ptr] =
                                 [entry |-> entry, valid |-> TRUE]]
  ELSE IF frees THEN [queue EXCEPT ![rd_ptr].valid = FALSE] ELSE queue

\* The slots after the edge: the entry is stored at wr_ptr, the slot at rd_ptr
\* is freed; were they the same slot, the later assignment would win.
QueueAfter(stores, entry, frees) ==
  LET stored == IF stores
                THEN [queue EXCEPT ![wr_ptr] = [entry |-> entry, valid |-> TRUE]]
                ELSE queue
  IN IF frees THEN [stored EXCEPT ![rd_ptr].valid = FALSE] ELSE stored

\* A rising edge with i_enqueue_valid, the operation offered, i_dequeue_req.
Tick(enq, entry, deq) ==
  /\ queue' = QueueAfter(Enqueues(enq), entry, Dequeues(deq))
  /\ wr_ptr' = IF Enqueues(enq) THEN Advance(wr_ptr) ELSE wr_ptr
  /\ rd_ptr' = IF Dequeues(deq) THEN Advance(rd_ptr) ELSE rd_ptr
  /\ count' = CASE Enqueues(enq) /\ ~Dequeues(deq) -> count + 1
                [] Dequeues(deq) /\ ~Enqueues(enq) -> count - 1
                [] OTHER -> count
  /\ o_queue_overflow' = (o_queue_overflow \/ (enq /\ o_queue_full))
  /\ o_queue_underrun' = (o_queue_underrun \/ (deq /\ o_queue_empty))

Next == \/ Reset
        \/ \E enq, deq \in BOOLEAN, entry \in Entry : Tick(enq, entry, deq)

Spec == Init /\ [][Next]_vars

-----------------------------------------------------------------------------
\* Every register stays in its range: the pointers in the ring, the count
\* between empty and full, so neither wraps at the wrong value.
TypeOK == /\ queue \in [Slot -> [entry : Entry, valid : BOOLEAN]]
          /\ wr_ptr \in Slot
          /\ rd_ptr \in Slot
          /\ count \in 0..QUEUE_DEPTH
          /\ o_queue_overflow \in BOOLEAN
          /\ o_queue_underrun \in BOOLEAN

\* The k-th oldest entry sits k slots after rd_ptr.
SlotOf(k) == (rd_ptr + k) % QUEUE_DEPTH

\* The count, the two pointers and the valid bits, each updated by its own
\* rule, always describe the same occupied slots.  In particular the slot at
\* rd_ptr is valid whenever the count is not zero, so the GPU, which is offered
\* an entry only if it is valid, never waits on a queue that holds work.
RingConsistent ==
  /\ wr_ptr = (rd_ptr + count) % QUEUE_DEPTH
  /\ \A k \in 0..(QUEUE_DEPTH - 1) : queue[SlotOf(k)].valid <=> k < count

\* The ring implements the abstract queue: entries leave in the order they
\* were accepted, none is lost, duplicated or overwritten, and the two error
\* flags record exactly the refused requests.
Contents == [k \in 1..count |-> queue[SlotOf(k - 1)].entry]
Fifo == INSTANCE BoundedFifo WITH Item <- Entry, Capacity <- QUEUE_DEPTH,
                                  items <- Contents,
                                  overflow <- o_queue_overflow,
                                  underrun <- o_queue_underrun
ImplementsFifo == Fifo!Spec
=============================================================================
