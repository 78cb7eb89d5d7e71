-------------------------- MODULE GpuResultBuffer --------------------------
(***************************************************************************)
(* gpu_result_buffer: the clocked part is that of gpu_result_wb, statement *)
(* for statement, so it is taken from GpuResultWb; this module adds what   *)
(* the buffer computes from it: which results depend on a pending write    *)
(* and which result could go next.  (The source declares the buffer with a *)
(* record type that it does not define; its fields are those of the arrays *)
(* declared above it, the ones GpuResultWb has.)                           *)
(***************************************************************************)
EXTENDS GpuResultWb

PendingWrite(i) == buffer[i].valid /\ ~buffer[i].result.write_mem
WaitsForOther(i) ==
  LET r == buffer[i].result.dest_reg
  IN reg_scoreboard[r] /\ tag_scoreboard[r] # buffer[i].result.tag

hazard_detected == \E i \in Slot : PendingWrite(i) /\ WaitsForOther(i)

ready_mask == {i \in Slot : buffer[i].valid /\ (PendingWrite(i) => ~WaitsForOther(i))}

\* Oldest ready slot, rd_ptr if there is none.
next_ready_idx ==
  IF ready_mask = {} THEN rd_ptr
  ELSE SlotOf(CHOOSE k \in Slot : /\ SlotOf(k) \in ready_mask
                                  /\ \A j \in 0..(k - 1) : SlotOf(j) \notin ready_mask)

-----------------------------------------------------------------------------
\* A dependency is reported only where two held results with different tags
\* write one register: the scoreboard never blocks a result behind a write that
\* has already left.
HazardIsReal ==
  hazard_detected =>
    \E i, j \in Slot : /\ PendingWrite(i) /\ PendingWrite(j)
                       /\ buffer[i].result.dest_reg = buffer[j].result.dest_reg
                       /\ buffer[i].result.tag # buffer[j].result.tag

\* Results never wait on each other in a circle: as long as one is held, one is
\* ready, and next_ready_idx names a held one.
SomethingReady ==
  ~o_buffer_empty => ready_mask # {} /\ buffer[next_ready_idx].valid
=============================================================================
