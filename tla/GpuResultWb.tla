---------------------------- MODULE GpuResultWb ----------------------------
(***************************************************************************)
(* gpu_result_wb: the ring that holds GPU results until the writeback      *)
(* stage takes them, with a scoreboard of destination registers.  One Tick *)
(* is one rising clock edge.  The module has two clocked blocks, the write *)
(* logic and the read logic, that assign to the same registers: where both *)
(* assign to one bit at one edge, either assignment may be the last.       *)
(* Data, vector flag and memory address of a result ride along unchanged   *)
(* and are not distinguished.                                              *)
(***************************************************************************)
EXTENDS Integers, Sequences

CONSTANTS BUFFER_DEPTH, Reg, Tag,
          Result     \* the results offered: [dest_reg, tag, write_mem]

ASSUME DepthAssumption == BUFFER_DEPTH \in Nat \ {0}
\* The pointers wrap by overflow, which is a ring only for a power of two.
ASSUME PowerOfTwo == \E k \in 0..BUFFER_DEPTH : BUFFER_DEPTH = 2^k
ASSUME ResultAssumption ==
  Result \subseteq [dest_reg : Reg, tag : Tag, write_mem : BOOLEAN]

VARIABLES buffer,            \* the slots: [result, valid, ready]
          wr_ptr, rd_ptr, count,
          reg_scoreboard,    \* one bit per register
          tag_scoreboard,    \* one tag per register
          o_buffer_overflow, o_buffer_underflow

vars == <<buffer, wr_ptr, rd_ptr, count, reg_scoreboard, tag_scoreboard,
          o_buffer_overflow, o_buffer_underflow>>

Slot == 0..(BUFFER_DEPTH - 1)
Advance(ptr) == (ptr + 1) % BUFFER_DEPTH

o_buffer_full  == count = BUFFER_DEPTH
o_buffer_empty == count = 0
o_wb_valid == ~o_buffer_empty /\ buffer[rd_ptr].valid /\ buffer[rd_ptr].ready

\* Result fields are not reset, tags and bits are; the tag after reset is 0,
\* which some tag of Tag stands for.
InitTag == CHOOSE t \in Tag : TRUE

Init == /\ buffer \in [Slot -> [result : Result, valid : {FALSE}, ready : {FALSE}]]
        /\ wr_ptr = 0 /\ rd_ptr = 0 /\ count = 0
        /\ reg_scoreboard = [r \in Reg |-> FALSE]
        /\ tag_scoreboard = [r \in Reg |-> InitTag]
        /\ o_buffer_overflow = FALSE /\ o_buffer_underflow = FALSE

Reset == /\ buffer' = [s \in Slot |-> [result |-> buffer[s].result,
                                  valid |-> FALSE, ready |-> FALSE]]
         /\ wr_ptr' = 0 /\ rd_ptr' = 0 /\ count' = 0
         /\ reg_scoreboard' = [r \in Reg |-> FALSE]
         /\ tag_scoreboard' = [r \in Reg |-> InitTag]
         /\ o_buffer_overflow' = FALSE /\ o_buffer_underflow' = FALSE

AcceptsUnguarded(i_result_valid) == i_result_valid  \* variant
Accepts(i_result_valid) == i_result_valid /\ ~o_buffer_full
Drains(i_wb_req)        == i_wb_req /\ ~o_buffer_empty

\* The write logic counts up and the read logic counts down, each only when it
\* believes the other block leaves the count alone.
CountsUp(i_result_valid, i_wb_req) ==
  Accepts(i_result_valid) /\ (~i_wb_req \/ o_buffer_empty)
CountsDownUnguarded(i_result_valid, i_wb_req) == Drains(i_wb_req)  \* variant
CountsDown(i_result_valid, i_wb_req) ==
  Drains(i_wb_req) /\ (~i_result_valid \/ o_buffer_full)

BufferAfter(stores, result, frees) ==
  LET stored == IF stores
                THEN [buffer EXCEPT ![wr_ptr] =
                        [result |-> result, valid |-> TRUE, ready |-> TRUE]]
                ELSE buffer
  IN IF frees THEN [stored EXCEPT ![rd_ptr].valid = FALSE] ELSE stored

\* The scoreboard bits after the edge.  When one edge sets and clears the bit
\* of one register, the order of the two blocks decides.
ScoreboardNeverCleared(stores, result, frees) ==                     \* variant
  {IF stores /\ ~result.write_mem
   THEN [reg_scoreboard EXCEPT ![result.dest_reg] = TRUE] ELSE reg_scoreboard}
ScoreboardAfter(stores, result, frees) ==
  LET sets   == stores /\ ~result.write_mem
      leaves == buffer[rd_ptr].result
      clears == frees /\ ~leaves.write_mem
      Set(b)   == IF sets THEN [b EXCEPT ![result.dest_reg] = TRUE] ELSE b
      Clear(b) == IF clears THEN [b EXCEPT ![leaves.dest_reg] = FALSE] ELSE b
  IN {Clear(Set(reg_scoreboard)), Set(Clear(reg_scoreboard))}

TagsOnlyWhenFree(stores, result) ==   \* variant: a pending register keeps its tag
  IF stores /\ ~result.write_mem /\ ~reg_scoreboard[result.dest_reg]
  THEN [tag_scoreboard EXCEPT ![result.dest_reg] = result.tag] ELSE tag_scoreboard
TagsAfter(stores, result) ==
  IF stores /\ ~result.write_mem
  THEN [tag_scoreboard EXCEPT ![result.dest_reg] = result.tag] ELSE tag_scoreboard

\* A rising edge with i_result_valid, the result offered, i_wb_req.
Tick(valid, result, req) ==
  /\ buffer' = BufferAfter(Accepts(valid), result, Drains(req))
  /\ wr_ptr' = IF Accepts(valid) THEN Advance(wr_ptr) ELSE wr_ptr
  /\ rd_ptr' = IF Drains(req) THEN Advance(rd_ptr) ELSE rd_ptr
  /\ count' = CASE CountsDown(valid, req) -> count - 1
                [] ~CountsDown(valid, req) /\ CountsUp(valid, req) -> count + 1
                [] OTHER -> count
  /\ reg_scoreboard' \in ScoreboardAfter(Accepts(valid), result, Drains(req))
  /\ tag_scoreboard' = TagsAfter(Accepts(valid), result)
  /\ o_buffer_overflow' = (o_buffer_overflow \/ (valid /\ o_buffer_full))
  /\ o_buffer_underflow' = (o_buffer_underflow \/ (req /\ o_buffer_empty))

Next == \/ Reset
        \/ \E valid, req \in BOOLEAN, result \in Result : Tick(valid, result, req)

Spec == Init /\ [][Next]_vars

-----------------------------------------------------------------------------
\* Registers in range.
TypeOK == /\ buffer \in [Slot -> [result : Result, valid : BOOLEAN, ready : BOOLEAN]]
          /\ wr_ptr \in Slot /\ rd_ptr \in Slot
          /\ count \in 0..BUFFER_DEPTH
          /\ reg_scoreboard \in [Reg -> BOOLEAN]
          /\ tag_scoreboard \in [Reg -> Tag]
          /\ o_buffer_overflow \in BOOLEAN /\ o_buffer_underflow \in BOOLEAN

SlotOf(k) == (rd_ptr + k) % BUFFER_DEPTH

\* The two clocked blocks assign count and the valid bits without an arbiter.  They
\* never assign the count at the same edge, nor the valid bit of one slot, and what
\* they leave agrees: a result is offered exactly when the buffer says it holds one.
BlocksAgree ==
  /\ \A valid, req \in BOOLEAN :
       /\ ~(CountsUp(valid, req) /\ CountsDown(valid, req))
       /\ Accepts(valid) /\ Drains(req) => wr_ptr # rd_ptr
  /\ o_wb_valid <=> ~o_buffer_empty

\* The ring delivers every accepted result once, in order of acceptance, and the
\* two error flags record exactly the refused requests.
Contents == [k \in 1..count |-> buffer[SlotOf(k - 1)].result]
Fifo == INSTANCE BoundedFifo WITH Item <- Result, Capacity <- BUFFER_DEPTH,
                                  items <- Contents,
                                  overflow <- o_buffer_overflow,
                                  underrun <- o_buffer_underflow
ImplementsFifo == Fifo!Spec

\* The results that will still write register r, oldest first in their ring.
PendingFor(r) == {k \in 0..(BUFFER_DEPTH - 1) :
                    /\ buffer[SlotOf(k)].valid
                    /\ ~buffer[SlotOf(k)].result.write_mem
                    /\ buffer[SlotOf(k)].result.dest_reg = r}

\* A register is never marked when nothing will write it: a reader that waits
\* for the bit to clear is always released by a drain.  And the tag on record is
\* that of the youngest pending result, the one whose value is to stay.
ScoreboardSound ==
  \A r \in Reg : reg_scoreboard[r] =>
    \E k \in PendingFor(r) :
      /\ \A j \in PendingFor(r) : j <= k
      /\ tag_scoreboard[r] = buffer[SlotOf(k)].result.tag

\* gpu_result_wb.sv:55 says of reg_scoreboard "Track which registers have pending
\* writes": a register some held result will write is marked.
ScoreboardTracksPending ==
  \A r \in Reg : PendingFor(r) # {} => reg_scoreboard[r]
=============================================================================
