-------------------------- MODULE GpuResultWbProof --------------------------
(***************************************************************************)
(* Proofs about GpuResultWb and, at the end, the dependency flags of       *)
(* GpuResultBuffer, for every depth and all registers and tags.            *)
(***************************************************************************)
EXTENDS GpuResultBuffer, RingFacts, SequenceTheorems, TLAPS

LEMMA AdvanceSlot ==
  ASSUME NEW p \in Slot
  PROVE  /\ Advance(p) \in Slot
         /\ Advance(p) = IF p + 1 < BUFFER_DEPTH THEN p + 1 ELSE 0
  BY DepthAssumption DEF Slot, Advance

\* The slots counted from rd_ptr are in the ring, and differ.
LEMMA SlotOfInSlot ==
  ASSUME TypeOK, NEW k \in 0..BUFFER_DEPTH
  PROVE  /\ SlotOf(k) \in Slot
         /\ SlotOf(k) = IF rd_ptr + k < BUFFER_DEPTH THEN rd_ptr + k
                                                   ELSE rd_ptr + k - BUFFER_DEPTH
  BY RingSum, DepthAssumption DEF Slot, SlotOf, TypeOK

-----------------------------------------------------------------------------
\* Pointers, count, valid and ready bits always describe the same held results.
RingConsistent ==
  /\ wr_ptr = (rd_ptr + count) % BUFFER_DEPTH
  /\ \A k \in 0..(BUFFER_DEPTH - 1) : buffer[SlotOf(k)].valid <=> k < count
  /\ \A s \in Slot : buffer[s].valid => buffer[s].ready

IInv == TypeOK /\ RingConsistent

\* The tag a register has after reset is a tag: there is a result that has one.
LEMMA InitTagIsTag == Result # {} => InitTag \in Tag
  BY ResultAssumption DEF InitTag

LEMMA InitIInv == Init => IInv
<1> SUFFICES ASSUME Init PROVE IInv
  OBVIOUS
<1>0. BUFFER_DEPTH \in Nat \ {0}
  BY DepthAssumption
<1>1. TypeOK
  <2>1. buffer \in [Slot -> [result : Result, valid : BOOLEAN, ready : BOOLEAN]]
    BY DEF Init
  <2>2. wr_ptr \in Slot /\ rd_ptr \in Slot /\ count \in 0..BUFFER_DEPTH
    BY <1>0 DEF Init, Slot
  <2>3. Result # {}
    <3>1. 0 \in Slot
      BY <1>0 DEF Slot
    <3> QED
      BY <2>1, <3>1
  <2>4. reg_scoreboard \in [Reg -> BOOLEAN] /\ tag_scoreboard \in [Reg -> Tag]
    BY <2>3, InitTagIsTag DEF Init
  <2> QED
    BY <2>1, <2>2, <2>4 DEF Init, TypeOK
<1>2. \A k \in Slot : SlotOf(k) \in Slot
  BY <1>0, <1>1, SlotOfInSlot DEF Slot
<1>3. RingConsistent
  <2>1. wr_ptr = (rd_ptr + count) % BUFFER_DEPTH
    BY <1>0 DEF Init
  <2>2. ASSUME NEW k \in Slot PROVE buffer[SlotOf(k)].valid <=> k < count
    <3>1. buffer[SlotOf(k)].valid = FALSE
      BY <1>2 DEF Init
    <3>2. ~(k < count)
      BY <1>0 DEF Init, Slot
    <3> QED
      BY <3>1, <3>2
  <2>3. \A s \in Slot : buffer[s].valid => buffer[s].ready
    BY DEF Init
  <2> QED
    BY <2>1, <2>2, <2>3 DEF RingConsistent, Slot
<1> QED
  BY <1>1, <1>3 DEF IInv

\* The count after a tick, whatever the two blocks guess of each other.
LEMMA CountAfter ==
  ASSUME TypeOK, NEW valid \in BOOLEAN, NEW e \in Result, NEW req \in BOOLEAN,
         Tick(valid, e, req)
  PROVE  count' = IF Accepts(valid)
                  THEN IF Drains(req) THEN count ELSE count + 1
                  ELSE IF Drains(req) THEN count - 1 ELSE count
  BY DEF TypeOK, Tick, CountsUp, CountsDown, Accepts, Drains, o_buffer_full, o_buffer_empty

\* A tick keeps the registers in range: the count never passes full or empty.
LEMMA TickType ==
  ASSUME IInv, NEW valid \in BOOLEAN, NEW e \in Result, NEW req \in BOOLEAN,
         Tick(valid, e, req)
  PROVE  TypeOK'
<1>0. BUFFER_DEPTH \in Nat \ {0} /\ wr_ptr \in Slot /\ rd_ptr \in Slot
  BY DepthAssumption DEF IInv, TypeOK
<1>1. Advance(wr_ptr) \in Slot /\ Advance(rd_ptr) \in Slot
  BY <1>0, AdvanceSlot
<1>2. buffer' \in [Slot -> [result : Result, valid : BOOLEAN, ready : BOOLEAN]]
  BY <1>0 DEF IInv, TypeOK, Tick, BufferAfter
<1>3. wr_ptr' \in Slot /\ rd_ptr' \in Slot
  BY <1>0, <1>1 DEF Tick
<1>4. count' \in 0..BUFFER_DEPTH
  BY <1>0, CountAfter DEF IInv, TypeOK, Accepts, Drains, o_buffer_full, o_buffer_empty
<1>5. o_buffer_overflow' \in BOOLEAN /\ o_buffer_underflow' \in BOOLEAN
  BY DEF IInv, TypeOK, Tick
<1>6. e.dest_reg \in Reg /\ e.tag \in Tag
  BY ResultAssumption
<1>7. reg_scoreboard' \in [Reg -> BOOLEAN]
  BY <1>6 DEF IInv, TypeOK, Tick, ScoreboardAfter
<1>8. tag_scoreboard' \in [Reg -> Tag]
  BY <1>6 DEF IInv, TypeOK, Tick, TagsAfter
<1> QED
  BY <1>2, <1>3, <1>4, <1>5, <1>7, <1>8 DEF TypeOK

-----------------------------------------------------------------------------
\* Facts about the ring used by the step proofs.

LEMMA SlotOfInjective ==
  ASSUME TypeOK, NEW i \in Slot, NEW j \in Slot, SlotOf(i) = SlotOf(j)
  PROVE  i = j
  BY RingInjective, DepthAssumption DEF TypeOK, Slot, SlotOf

LEMMA SlotOfAtEnds ==
  ASSUME TypeOK
  PROVE  SlotOf(0) = rd_ptr /\ SlotOf(BUFFER_DEPTH) = rd_ptr
  BY RingEnds, DepthAssumption DEF TypeOK, Slot, SlotOf

\* After a drain the k-th oldest result is the one that was (k+1)-th.
LEMMA SlotOfShifts ==
  ASSUME TypeOK, rd_ptr' = Advance(rd_ptr), NEW k \in Slot
  PROVE  SlotOf(k)' = SlotOf(k + 1)
  BY RingShift, DepthAssumption DEF TypeOK, Slot, SlotOf, Advance

LEMMA SlotOfNext ==
  ASSUME TypeOK, NEW k \in Slot
  PROVE  Advance(SlotOf(k)) = SlotOf(k + 1)
  BY RingNext, DepthAssumption DEF TypeOK, Slot, SlotOf, Advance

\* The result in a slot changes only where an accepted one is stored.
LEMMA ResultAfter ==
  ASSUME TypeOK, NEW valid \in BOOLEAN, NEW e \in Result, NEW req \in BOOLEAN,
         Tick(valid, e, req), NEW s \in Slot
  PROVE  buffer'[s].result = IF Accepts(valid) /\ s = wr_ptr THEN e ELSE buffer[s].result
  BY DEF TypeOK, Tick, BufferAfter

-----------------------------------------------------------------------------
\* What a tick does to the ring, in terms of ages: an accepted result gets
\* the age count (less one if a result leaves), every other one keeps its age
\* (less one if a result leaves).

LEMMA TickRing ==
  ASSUME IInv, NEW valid \in BOOLEAN, NEW e \in Result, NEW req \in BOOLEAN,
         Tick(valid, e, req)
  PROVE  RingConsistent'
<1> DEFINE accepts == Accepts(valid)
           drains == Drains(req)
<1>0. BUFFER_DEPTH \in Nat \ {0} /\ TypeOK /\ count \in 0..BUFFER_DEPTH
      /\ wr_ptr \in Slot /\ rd_ptr \in Slot
  BY DepthAssumption DEF IInv, TypeOK
<1>1. wr_ptr = SlotOf(count)
  BY DEF IInv, RingConsistent, SlotOf
<1>2. TypeOK'
  BY TickType
<1>3. (accepts => count < BUFFER_DEPTH) /\ (drains => count > 0)
  BY <1>0 DEF Accepts, Drains, o_buffer_full, o_buffer_empty
<1>4. ASSUME NEW s \in Slot
      PROVE  /\ (drains /\ s = rd_ptr) => buffer'[s].valid = FALSE
             /\ (~(drains /\ s = rd_ptr) /\ accepts /\ s = wr_ptr)
                  => buffer'[s].valid = TRUE
             /\ (~(drains /\ s = rd_ptr) /\ ~(accepts /\ s = wr_ptr))
                  => buffer'[s].valid = buffer[s].valid
  BY <1>0 DEF TypeOK, Tick, BufferAfter
<1>5. ASSUME NEW k \in Slot
      PROVE  buffer[SlotOf(k)].valid <=> k < count
  BY DEF IInv, RingConsistent, Slot
<1>6. ASSUME NEW k \in Slot PROVE SlotOf(k) \in Slot
  BY <1>0, SlotOfInSlot DEF Slot
<1>7. \A s \in Slot : buffer'[s].valid => buffer'[s].ready
  BY <1>0 DEF IInv, RingConsistent, TypeOK, Tick, BufferAfter
<1>8. CASE ~drains
  <2>1. rd_ptr' = rd_ptr
    BY <1>8 DEF Tick
  <2>2. count' = IF accepts THEN count + 1 ELSE count
    BY <1>0, <1>8, CountAfter
  <2>3. wr_ptr' = (rd_ptr' + count') % BUFFER_DEPTH
    <3>1. CASE accepts
      <4>1. count \in Slot
        BY <1>0, <1>3, <3>1 DEF Slot
      <4>2. wr_ptr' = SlotOf(count + 1)
        BY <1>1, <3>1, <4>1, <1>0, SlotOfNext DEF Tick
      <4> QED
        BY <2>1, <2>2, <3>1, <4>2 DEF SlotOf
    <3>2. CASE ~accepts
      BY <1>1, <2>1, <2>2, <3>2 DEF Tick, SlotOf
    <3> QED
      BY <3>1, <3>2
  <2>4. ASSUME NEW k \in Slot
        PROVE  buffer'[SlotOf(k)'].valid <=> k < count'
    <3>1. SlotOf(k)' = SlotOf(k) /\ SlotOf(k) \in Slot
      BY <1>6, <2>1 DEF SlotOf
    <3>2. CASE accepts /\ k = count
      <4>1. buffer'[SlotOf(k)].valid = TRUE
        BY <1>0, <1>1, <1>4, <1>8, <3>1, <3>2
      <4>2. k < count'
        BY <1>0, <2>2, <3>2
      <4> QED
        BY <3>1, <4>1, <4>2
    <3>3. CASE ~(accepts /\ k = count)
      <4>1. ~(accepts /\ SlotOf(k) = wr_ptr)
        <5>1. accepts => count \in Slot
          BY <1>0, <1>3 DEF Slot
        <5> QED
          BY <1>0, <1>1, <3>3, <5>1, SlotOfInjective
      <4>2. buffer'[SlotOf(k)].valid = buffer[SlotOf(k)].valid
        BY <1>0, <1>4, <1>8, <3>1, <4>1
      <4>3. k < count' <=> k < count
        BY <1>0, <2>2, <3>3 DEF Slot
      <4> QED
        BY <1>5, <3>1, <4>2, <4>3
    <3> QED
      BY <3>2, <3>3
  <2> QED
    BY <1>7, <2>3, <2>4 DEF RingConsistent, Slot
<1>9. CASE drains
  <2>1. rd_ptr' = Advance(rd_ptr)
    BY <1>9 DEF Tick
  <2>2. count' = IF accepts THEN count ELSE count - 1
    BY <1>0, <1>9, CountAfter
  <2>3. count' \in Slot /\ count = IF accepts THEN count' ELSE count' + 1
    BY <1>0, <1>3, <1>9, <2>2 DEF Slot
  <2>4. wr_ptr' = (rd_ptr' + count') % BUFFER_DEPTH
    <3>1. PICK k \in Slot : k = count'
      BY <2>3
    <3>2. (rd_ptr' + count') % BUFFER_DEPTH = SlotOf(k + 1)
      BY <1>0, <2>1, <3>1, SlotOfShifts DEF SlotOf
    <3>3. wr_ptr' = SlotOf(k + 1)
      <4>1. CASE accepts
        BY <1>0, <1>1, <2>3, <3>1, <4>1, SlotOfNext DEF Tick
      <4>2. CASE ~accepts
        BY <1>1, <2>3, <3>1, <4>2 DEF Tick
      <4> QED
        BY <4>1, <4>2
    <3> QED
      BY <3>2, <3>3
  <2>5. ASSUME NEW k \in Slot
        PROVE  buffer'[SlotOf(k)'].valid <=> k < count'
    <3>1. SlotOf(k)' = SlotOf(k + 1)
      BY <1>0, <2>1, SlotOfShifts
    <3>2. CASE k + 1 = BUFFER_DEPTH
      <4>1. SlotOf(k + 1) = rd_ptr
        BY <1>0, <3>2, SlotOfAtEnds
      <4>2. buffer'[SlotOf(k + 1)].valid = FALSE
        BY <1>0, <1>4, <1>9, <4>1
      <4>3. ~(k < count')
        BY <1>0, <1>3, <2>2, <3>2 DEF Slot
      <4> QED
        BY <3>1, <4>2, <4>3
    <3>3. CASE k + 1 # BUFFER_DEPTH
      <4>1. k + 1 \in Slot /\ k + 1 # 0 /\ 0 \in Slot
        BY <1>0, <3>3 DEF Slot
      <4>2. SlotOf(k + 1) # rd_ptr /\ SlotOf(k + 1) \in Slot
        BY <1>0, <1>6, <4>1, SlotOfAtEnds, SlotOfInjective
      <4>3. CASE accepts /\ k + 1 = count
        <5>1. buffer'[SlotOf(k + 1)].valid = TRUE
          BY <1>0, <1>1, <1>4, <4>2, <4>3
        <5>2. k < count'
          BY <1>0, <2>2, <4>3 DEF Slot
        <5> QED
          BY <3>1, <5>1, <5>2
      <4>4. CASE ~(accepts /\ k + 1 = count)
        <5>1. ~(accepts /\ SlotOf(k + 1) = wr_ptr)
          <6>1. accepts => count \in Slot
            BY <1>0, <1>3 DEF Slot
          <6> QED
            BY <1>0, <1>1, <4>1, <4>4, <6>1, SlotOfInjective
        <5>2. buffer'[SlotOf(k + 1)].valid = buffer[SlotOf(k + 1)].valid
          BY <1>0, <1>4, <4>2, <5>1
        <5>3. k < count' <=> k + 1 < count
          BY <1>0, <2>2, <4>4 DEF Slot
        <5> QED
          BY <1>5, <3>1, <4>1, <5>2, <5>3
      <4> QED
        BY <4>3, <4>4
    <3> QED
      BY <3>2, <3>3
  <2> QED
    BY <1>7, <2>4, <2>5 DEF RingConsistent, Slot
<1> QED
  BY <1>8, <1>9

-----------------------------------------------------------------------------
LEMMA ResetIInv == IInv /\ Reset => IInv'
<1> SUFFICES ASSUME IInv, Reset PROVE IInv'
  OBVIOUS
<1>0. BUFFER_DEPTH \in Nat \ {0} /\ TypeOK
  BY DepthAssumption DEF IInv
<1>1. TypeOK'
  <2>1. buffer' \in [Slot -> [result : Result, valid : BOOLEAN, ready : BOOLEAN]]
    BY <1>0 DEF Reset, TypeOK
  <2>2. wr_ptr' \in Slot /\ rd_ptr' \in Slot /\ count' \in 0..BUFFER_DEPTH
    BY <1>0 DEF Reset, Slot
  <2>3. Result # {}
    <3>1. 0 \in Slot
      BY <1>0 DEF Slot
    <3> QED
      BY <1>0, <3>1 DEF TypeOK
  <2>4. reg_scoreboard' \in [Reg -> BOOLEAN] /\ tag_scoreboard' \in [Reg -> Tag]
    BY <2>3, InitTagIsTag DEF Reset
  <2> QED
    BY <2>1, <2>2, <2>4 DEF Reset, TypeOK
<1>2. RingConsistent'
  <2>1. wr_ptr' = (rd_ptr' + count') % BUFFER_DEPTH
    BY <1>0 DEF Reset
  <2>2. ASSUME NEW k \in Slot PROVE buffer'[SlotOf(k)'].valid <=> k < count'
    <3>1. SlotOf(k)' \in Slot
      BY <1>0 DEF Reset, SlotOf, Slot
    <3>2. buffer'[SlotOf(k)'].valid = FALSE
      BY <1>0, <3>1 DEF Reset, TypeOK
    <3>3. ~(k < count')
      BY <1>0 DEF Reset, Slot
    <3> QED
      BY <3>2, <3>3
  <2>3. \A s \in Slot : buffer'[s].valid => buffer'[s].ready
    BY <1>0 DEF Reset, TypeOK
  <2> QED
    BY <2>1, <2>2, <2>3 DEF RingConsistent, Slot
<1> QED
  BY <1>1, <1>2 DEF IInv

LEMMA NextIInv == IInv /\ [Next]_vars => IInv'
<1> SUFFICES ASSUME IInv, [Next]_vars PROVE IInv'
  OBVIOUS
<1>1. CASE Reset
  BY <1>1, ResetIInv
<1>2. ASSUME NEW valid \in BOOLEAN, NEW req \in BOOLEAN, NEW e \in Result,
             Tick(valid, e, req)
      PROVE  IInv'
  BY <1>2, TickType, TickRing DEF IInv
<1>3. CASE UNCHANGED vars
  BY <1>3 DEF IInv, vars, TypeOK, RingConsistent, SlotOf
<1> QED
  BY <1>1, <1>2, <1>3 DEF Next

\* The invariant: registers in range, and pointers, count, valid and ready bits
\* in agreement, whatever requests come.
THEOREM IInvHolds == Spec => []IInv
<1>1. Init => IInv
  BY InitIInv
<1>2. IInv /\ [Next]_vars => IInv'
  BY NextIInv
<1> QED
  BY <1>1, <1>2, PTL DEF Spec

\* Every register of the result ring stays in its range.
THEOREM TypeCorrect == Spec => []TypeOK
  BY IInvHolds, PTL DEF IInv

LEMMA AgreeInv == IInv => BlocksAgree
<1> SUFFICES ASSUME IInv PROVE BlocksAgree
  OBVIOUS
<1>0. BUFFER_DEPTH \in Nat \ {0} /\ TypeOK /\ count \in 0..BUFFER_DEPTH /\ 0 \in Slot
      /\ rd_ptr \in Slot
  BY DepthAssumption DEF IInv, TypeOK, Slot
<1>1. SlotOf(0) = rd_ptr /\ wr_ptr = SlotOf(count)
  BY <1>0, SlotOfAtEnds DEF IInv, RingConsistent, SlotOf
<1>2. ASSUME NEW valid \in BOOLEAN, NEW req \in BOOLEAN
      PROVE  /\ ~(CountsUp(valid, req) /\ CountsDown(valid, req))
             /\ Accepts(valid) /\ Drains(req) => wr_ptr # rd_ptr
  <2>1. ~(CountsUp(valid, req) /\ CountsDown(valid, req))
    BY DEF CountsUp, CountsDown, Accepts, Drains
  <2>2. ASSUME Accepts(valid), Drains(req) PROVE wr_ptr # rd_ptr
    <3>1. count \in Slot /\ count # 0
      BY <1>0, <2>2 DEF Accepts, Drains, o_buffer_full, o_buffer_empty, Slot
    <3> QED
      BY <1>0, <1>1, <3>1, SlotOfInjective
  <2> QED
    BY <2>1, <2>2
<1>3. o_wb_valid <=> ~o_buffer_empty
  <2>1. buffer[rd_ptr].valid <=> 0 < count
    BY <1>0, <1>1 DEF IInv, RingConsistent, Slot
  <2>2. buffer[rd_ptr].valid => buffer[rd_ptr].ready
    BY <1>0 DEF IInv, RingConsistent
  <2> QED
    BY <1>0, <2>1, <2>2 DEF o_wb_valid, o_buffer_empty
<1> QED
  BY <1>2, <1>3 DEF BlocksAgree

\* The two clocked blocks never assign the count or one valid bit together, and a
\* result is offered exactly when one is held.
THEOREM BlocksNeverClash == Spec => []BlocksAgree
  BY IInvHolds, AgreeInv, PTL

-----------------------------------------------------------------------------
\* The scoreboard.

\* The result of age k after a tick is the accepted one, if it is the youngest, or
\* the one that had this age, or one more if a result left.
LEMMA ResultOfAge ==
  ASSUME IInv, NEW valid \in BOOLEAN, NEW e \in Result, NEW req \in BOOLEAN,
         Tick(valid, e, req), NEW k \in Slot, NEW a,
         a = IF Drains(req) THEN k + 1 ELSE k, k < count'
  PROVE  /\ a \in Slot /\ a <= count
         /\ a = count => Accepts(valid)
         /\ buffer'[SlotOf(k)'].result =
              IF a = count THEN e ELSE buffer[SlotOf(a)].result
<1>0. BUFFER_DEPTH \in Nat \ {0} /\ TypeOK /\ count \in 0..BUFFER_DEPTH
  BY DepthAssumption DEF IInv, TypeOK
<1>1. wr_ptr = SlotOf(count)
  BY DEF IInv, RingConsistent, SlotOf
<1>2. Accepts(valid) => count \in Slot
  BY <1>0 DEF Accepts, o_buffer_full, Slot
<1>3. a \in Slot /\ a <= count /\ (a = count => Accepts(valid))
  BY <1>0, <1>2, CountAfter DEF Slot, Drains, o_buffer_empty
<1>4. SlotOf(k)' = SlotOf(a) /\ SlotOf(a) \in Slot
  <2>1. a \in 0..BUFFER_DEPTH
    BY <1>0, <1>3 DEF Slot
  <2>2. CASE Drains(req)
    BY <1>0, <2>1, <2>2, SlotOfShifts, SlotOfInSlot DEF Tick
  <2>3. CASE ~Drains(req)
    BY <1>0, <2>1, <2>3, SlotOfInSlot DEF Tick, SlotOf
  <2> QED
    BY <2>2, <2>3
<1>5. buffer'[SlotOf(a)].result = IF Accepts(valid) /\ SlotOf(a) = wr_ptr
                                  THEN e ELSE buffer[SlotOf(a)].result
  BY <1>0, <1>4, ResultAfter
<1>6. Accepts(valid) => (SlotOf(a) = wr_ptr <=> a = count)
  BY <1>0, <1>1, <1>2, <1>3, SlotOfInjective
<1> QED
  BY <1>3, <1>4, <1>5, <1>6

\* Pending results are counted by age: those younger than the count.
LEMMA PendingAges ==
  ASSUME IInv, NEW r, NEW k \in Slot
  PROVE  k \in PendingFor(r) <=> /\ k < count
                                 /\ ~buffer[SlotOf(k)].result.write_mem
                                 /\ buffer[SlotOf(k)].result.dest_reg = r
  BY DEF IInv, RingConsistent, PendingFor, Slot

LEMMA PendingAgesNext ==
  ASSUME IInv', NEW r, NEW k \in Slot
  PROVE  k \in PendingFor(r)' <=> /\ k < count'
                                  /\ ~buffer'[SlotOf(k)'].result.write_mem
                                  /\ buffer'[SlotOf(k)'].result.dest_reg = r
  BY DEF IInv, RingConsistent, PendingFor, Slot

LEMMA TickScoreboard ==
  ASSUME IInv, IInv', ScoreboardSound,
         NEW valid \in BOOLEAN, NEW e \in Result, NEW req \in BOOLEAN,
         Tick(valid, e, req)
  PROVE  ScoreboardSound'
<1> DEFINE age(k) == IF Drains(req) THEN k + 1 ELSE k
           arrives(r) == Accepts(valid) /\ ~e.write_mem /\ e.dest_reg = r
           leaves(r) == /\ Drains(req)
                        /\ ~buffer[rd_ptr].result.write_mem
                        /\ buffer[rd_ptr].result.dest_reg = r
<1>0. BUFFER_DEPTH \in Nat \ {0} /\ TypeOK /\ count \in 0..BUFFER_DEPTH
      /\ count' \in 0..BUFFER_DEPTH
  BY DepthAssumption DEF IInv, TypeOK
<1>1. Slot \subseteq Int /\ Slot = 0..(BUFFER_DEPTH - 1)
  BY <1>0 DEF Slot
<1> SUFFICES ASSUME NEW r \in Reg, reg_scoreboard'[r]
             PROVE  \E k \in PendingFor(r)' :
                      /\ \A j \in PendingFor(r)' : j <= k
                      /\ tag_scoreboard'[r] = buffer'[SlotOf(k)'].result.tag
  BY DEF ScoreboardSound
<1>2. PendingFor(r) \subseteq Slot /\ PendingFor(r)' \subseteq Slot
  BY DEF PendingFor, Slot
<1>3. CASE arrives(r)
  <2>1. count' = IF Drains(req) THEN count ELSE count + 1
    BY <1>0, <1>3, CountAfter
  <2>2. Drains(req) => count # 0
    BY DEF Drains, o_buffer_empty
  <2>3. count' - 1 \in Slot /\ age(count' - 1) = count /\ count' - 1 < count'
    BY <1>0, <1>1, <2>1, <2>2
  <2>4. PICK k \in Slot : k = count' - 1 /\ age(k) = count
    BY <2>3
  <2>5. k < count'
    BY <2>4, <2>3
  <2>6. buffer'[SlotOf(k)'].result = e
    BY <2>4, <2>5, ResultOfAge
  <2>7. k \in PendingFor(r)'
    BY <1>3, <2>5, <2>6, PendingAgesNext
  <2>8. ASSUME NEW j \in PendingFor(r)' PROVE j <= k
    BY <1>0, <1>1, <1>2, <2>4, PendingAgesNext
  <2>9. tag_scoreboard'[r] = e.tag
    BY <1>0, <1>3 DEF TypeOK, Tick, TagsAfter
  <2> QED
    BY <2>6, <2>7, <2>8, <2>9
<1>4. CASE ~arrives(r)
  <2>1. reg_scoreboard[r] /\ ~leaves(r) /\ tag_scoreboard'[r] = tag_scoreboard[r]
    <3>1. e.dest_reg \in Reg
      BY ResultAssumption
    <3>2. reg_scoreboard[r] /\ ~leaves(r)
      BY <1>0, <1>4, <3>1 DEF TypeOK, Tick, ScoreboardAfter
    <3>3. tag_scoreboard'[r] = tag_scoreboard[r]
      BY <1>0, <1>4, <3>1 DEF TypeOK, Tick, TagsAfter
    <3> QED
      BY <3>2, <3>3
  <2>2. PICK k \in PendingFor(r) : /\ \A j \in PendingFor(r) : j <= k
                                   /\ tag_scoreboard[r] = buffer[SlotOf(k)].result.tag
    BY <2>1 DEF ScoreboardSound
  <2>3. /\ k \in Slot /\ k < count
        /\ ~buffer[SlotOf(k)].result.write_mem
        /\ buffer[SlotOf(k)].result.dest_reg = r
    BY <1>2, PendingAges
  <2>4. Drains(req) => k # 0
    BY <1>0, <2>1, <2>3, SlotOfAtEnds
  <2>5. PICK i \in Slot : i < count' /\ age(i) = k
    <3> DEFINE i == IF Drains(req) THEN k - 1 ELSE k
    <3>1. i \in Slot /\ i < count' /\ age(i) = k
      BY <1>0, <1>1, <2>3, <2>4, CountAfter
    <3> QED
      BY <3>1
  <2>6. buffer'[SlotOf(i)'].result = buffer[SlotOf(k)].result
    BY <1>0, <1>1, <2>3, <2>5, ResultOfAge
  <2>7. i \in PendingFor(r)'
    BY <2>3, <2>5, <2>6, PendingAgesNext
  <2>8. ASSUME NEW j \in PendingFor(r)' PROVE j <= i
    <3>1. /\ j \in Slot /\ j < count'
          /\ ~buffer'[SlotOf(j)'].result.write_mem
          /\ buffer'[SlotOf(j)'].result.dest_reg = r
      BY <1>2, PendingAgesNext
    <3>2. /\ age(j) \in Slot /\ age(j) <= count
          /\ age(j) = count => Accepts(valid)
          /\ buffer'[SlotOf(j)'].result =
               IF age(j) = count THEN e ELSE buffer[SlotOf(age(j))].result
      BY <3>1, ResultOfAge
    <3>3. age(j) # count
      BY <1>4, <3>1, <3>2
    <3>4. age(j) \in PendingFor(r)
      BY <1>0, <1>1, <3>1, <3>2, <3>3, PendingAges
    <3>5. age(j) <= age(i)
      BY <2>2, <2>5, <3>4
    <3> QED
      BY <1>1, <3>1, <3>5
  <2> QED
    BY <2>1, <2>2, <2>6, <2>7, <2>8
<1> QED
  BY <1>3, <1>4

\* A register marked as pending has a held result that will write it, and the tag
\* recorded for it is that of the youngest: for every depth, every order of the two
\* blocks, and any stream of results.
THEOREM ScoreboardTruthful == Spec => []ScoreboardSound
<1>1. Init => ScoreboardSound
  BY DEF Init, ScoreboardSound
<1>2. IInv /\ IInv' /\ ScoreboardSound /\ [Next]_vars => ScoreboardSound'
  <2> SUFFICES ASSUME IInv, IInv', ScoreboardSound, [Next]_vars PROVE ScoreboardSound'
    OBVIOUS
  <2>1. CASE Reset
    BY <2>1 DEF Reset, ScoreboardSound
  <2>2. ASSUME NEW valid \in BOOLEAN, NEW req \in BOOLEAN, NEW e \in Result,
               Tick(valid, e, req)
        PROVE  ScoreboardSound'
    BY <2>2, TickScoreboard
  <2>3. CASE UNCHANGED vars
    BY <2>3 DEF vars, ScoreboardSound, PendingFor, SlotOf
  <2> QED
    BY <2>1, <2>2, <2>3 DEF Next
<1> QED
  BY <1>1, <1>2, IInvHolds, PTL DEF Spec

-----------------------------------------------------------------------------
\* The refinement.

ContentsOK ==
  /\ Contents \in Seq(Result)
  /\ Len(Contents) = count
  /\ \A k \in 1..count : Contents[k] = buffer[SlotOf(k - 1)].result

LEMMA ContentsFacts == TypeOK => ContentsOK
<1> SUFFICES ASSUME TypeOK PROVE ContentsOK
  OBVIOUS
<1>1. count \in Nat
  BY DepthAssumption DEF TypeOK
<1>2. ASSUME NEW k \in 1..count PROVE buffer[SlotOf(k - 1)].result \in Result
  <2>1. k - 1 \in 0..BUFFER_DEPTH
    BY DepthAssumption DEF TypeOK
  <2>2. SlotOf(k - 1) \in Slot
    BY <2>1, SlotOfInSlot
  <2> QED
    BY <2>2 DEF TypeOK
<1> QED
  BY <1>1, <1>2 DEF Contents, ContentsOK

LEMMA ContentsFactsNext == TypeOK' => ContentsOK'
  BY ContentsFacts, PTL

\* A tick of the ring is a cycle of the abstract queue.
LEMMA TickRefines ==
  ASSUME IInv, NEW valid \in BOOLEAN, NEW e \in Result, NEW req \in BOOLEAN,
         Tick(valid, e, req)
  PROVE  Fifo!Cycle(valid, e, req)
<1> DEFINE left == IF Drains(req) THEN Tail(Contents) ELSE Contents
           age(k) == IF Drains(req) THEN k ELSE k - 1
<1>0. BUFFER_DEPTH \in Nat \ {0} /\ TypeOK /\ TypeOK' /\ count \in 0..BUFFER_DEPTH
  BY DepthAssumption, TickType DEF IInv, TypeOK
<1>1. ContentsOK /\ ContentsOK'
  BY <1>0, ContentsFacts, ContentsFactsNext
<1>2. (Drains(req) <=> req /\ Contents # << >>)
      /\ (Accepts(valid) <=> valid /\ Len(Contents) < BUFFER_DEPTH)
  <2>1. Contents = << >> <=> count = 0
    BY <1>0, <1>1, EmptySeq DEF ContentsOK
  <2> QED
    BY <1>0, <1>1, <2>1 DEF ContentsOK, Accepts, Drains, o_buffer_full, o_buffer_empty
<1>3. /\ left \in Seq(Result)
      /\ Len(left) = IF Drains(req) THEN count - 1 ELSE count
      /\ \A k \in 1..Len(left) : left[k] = buffer[SlotOf(age(k))].result
  <2>1. CASE Drains(req)
    <3>1. Contents # << >>
      BY <1>2, <2>1
    <3>2. /\ Tail(Contents) \in Seq(Result)
          /\ Len(Tail(Contents)) = count - 1
          /\ \A k \in 1..(count - 1) : Tail(Contents)[k] = Contents[k + 1]
      BY <1>1, <3>1, HeadTailProperties DEF ContentsOK
    <3>3. ASSUME NEW k \in 1..(count - 1)
          PROVE  Contents[k + 1] = buffer[SlotOf(k)].result
      <4>1. k + 1 \in 1..count /\ (k + 1) - 1 = k
        BY <1>0
      <4> QED
        BY <1>1, <4>1 DEF ContentsOK
    <3> QED
      BY <2>1, <3>2, <3>3
  <2>2. CASE ~Drains(req)
    BY <1>1, <2>2 DEF ContentsOK
  <2> QED
    BY <2>1, <2>2
<1>4. count' = IF Accepts(valid) THEN Len(left) + 1 ELSE Len(left)
  BY <1>0, <1>3, CountAfter
<1>5. Len(left) \in Nat /\ Len(left) \in 0..count
  BY <1>0, <1>3 DEF Drains, o_buffer_empty
<1>6. ASSUME NEW k \in 1..BUFFER_DEPTH
      PROVE  SlotOf(k - 1)' = SlotOf(age(k)) /\ SlotOf(age(k)) \in Slot
  <2>1. k - 1 \in Slot /\ (k - 1) + 1 = k
    BY <1>0 DEF Slot
  <2>2. age(k) \in 0..BUFFER_DEPTH
    BY <1>0
  <2>3. CASE Drains(req)
    BY <1>0, <2>1, <2>2, <2>3, SlotOfShifts, SlotOfInSlot DEF Tick
  <2>4. CASE ~Drains(req)
    BY <1>0, <2>1, <2>2, <2>4, SlotOfInSlot DEF Tick, SlotOf
  <2> QED
    BY <2>3, <2>4
<1>7. Accepts(valid) => count \in Slot /\ wr_ptr = SlotOf(count)
  BY <1>0 DEF IInv, RingConsistent, SlotOf, Slot, Accepts, o_buffer_full
<1>8. ASSUME NEW k \in 1..Len(left)
      PROVE  Contents'[k] = left[k]
  <2>1. k \in 1..BUFFER_DEPTH /\ k \in 1..count'
    BY <1>0, <1>4, <1>5
  <2>2. Contents'[k] = buffer'[SlotOf(age(k))].result
    BY <1>1, <1>6, <2>1 DEF ContentsOK
  <2>3. ~(Accepts(valid) /\ SlotOf(age(k)) = wr_ptr)
    <3>1. Accepts(valid) => age(k) \in Slot /\ age(k) # count
      BY <1>0, <1>3, <1>7, <2>1 DEF Slot
    <3> QED
      BY <1>0, <1>7, <3>1, SlotOfInjective
  <2>4. buffer'[SlotOf(age(k))].result = buffer[SlotOf(age(k))].result
    BY <1>0, <1>6, <2>1, <2>3, ResultAfter
  <2> QED
    BY <1>3, <2>2, <2>4
<1>9. ASSUME Accepts(valid)
      PROVE  Contents'[Len(left) + 1] = e
  <2> DEFINE last == Len(left) + 1
  <2>1. last \in 1..count' /\ last \in 1..BUFFER_DEPTH /\ age(last) = count
    BY <1>0, <1>3, <1>4, <1>5, <1>7, <1>9 DEF Slot
  <2>2. Contents'[last] = buffer'[SlotOf(count)].result
    BY <1>1, <1>6, <2>1 DEF ContentsOK
  <2>3. buffer'[wr_ptr].result = e
    BY <1>0, <1>9, ResultAfter DEF TypeOK
  <2> QED
    BY <1>7, <1>9, <2>2, <2>3
<1>10. Contents' = IF Accepts(valid) THEN Append(left, e) ELSE left
  <2> HIDE DEF left
  <2>1. Contents' \in Seq(Result) /\ Len(Contents') = count'
    BY <1>1 DEF ContentsOK
  <2>2. CASE Accepts(valid)
    <3>1. /\ Append(left, e) \in Seq(Result)
          /\ Len(Append(left, e)) = Len(left) + 1
          /\ \A k \in 1..Len(left) : Append(left, e)[k] = left[k]
          /\ Append(left, e)[Len(left) + 1] = e
      BY <1>3, AppendProperties
    <3>2. ASSUME NEW k \in 1..Len(Contents')
          PROVE  Contents'[k] = Append(left, e)[k]
      <4>1. k \in 1..Len(left) \/ k = Len(left) + 1
        BY <1>4, <1>5, <2>1, <2>2
      <4> QED
        BY <1>8, <1>9, <2>2, <3>1, <4>1
    <3>3. Len(Contents') = Len(Append(left, e))
      BY <1>4, <2>1, <2>2, <3>1
    <3>4. Contents' = Append(left, e)
      BY <2>1, <3>1, <3>2, <3>3, SeqEqual
    <3> QED
      BY <2>2, <3>4
  <2>3. CASE ~Accepts(valid)
    <3>1. Len(Contents') = Len(left)
      BY <1>4, <2>1, <2>3
    <3>2. Contents' = left
      BY <1>3, <1>8, <2>1, <3>1, SeqEqual
    <3> QED
      BY <2>3, <3>2
  <2> QED
    BY <2>2, <2>3
<1> QED
  BY <1>2, <1>10 DEF Fifo!Cycle, Tick, Accepts, Drains, o_buffer_full, o_buffer_empty

LEMMA InitRefines == Init => Fifo!Init
<1> SUFFICES ASSUME Init PROVE Fifo!Init
  OBVIOUS
<1>1. Contents = << >>
  BY DEF Init, Contents
<1> QED
  BY <1>1 DEF Init, Fifo!Init

LEMMA NextRefines == IInv /\ [Next]_vars => [Fifo!Next]_(Fifo!fifoVars)
<1> SUFFICES ASSUME IInv, [Next]_vars PROVE [Fifo!Next]_(Fifo!fifoVars)
  OBVIOUS
<1>1. CASE Reset
  <2>1. Contents' = << >>
    BY <1>1 DEF Reset, Contents
  <2> QED
    BY <1>1, <2>1 DEF Reset, Fifo!Reset, Fifo!Next
<1>2. ASSUME NEW valid \in BOOLEAN, NEW req \in BOOLEAN, NEW e \in Result,
             Tick(valid, e, req)
      PROVE  Fifo!Next
  BY <1>2, TickRefines DEF Fifo!Next
<1>3. CASE UNCHANGED vars
  BY <1>3 DEF vars, Fifo!fifoVars, Contents, SlotOf
<1> QED
  BY <1>1, <1>2, <1>3 DEF Next

\* The ring of gpu_result_wb implements the abstract first-in first-out queue: no
\* result is lost, doubled, overwritten or reordered, for every depth.
THEOREM BufferImplementsFifo == Spec => ImplementsFifo
<1>1. Init => Fifo!Init
  BY InitRefines
<1>2. IInv /\ [Next]_vars => [Fifo!Next]_(Fifo!fifoVars)
  BY NextRefines
<1> QED
  BY <1>1, <1>2, IInvHolds, PTL DEF Spec, ImplementsFifo, Fifo!Spec

-----------------------------------------------------------------------------
\* The dependency flags of gpu_result_buffer.

\* A register that is marked has a held result that waits for no other: the
\* youngest that writes it, whose tag is on record.
LEMMA YoungestIsReady ==
  ASSUME IInv, ScoreboardSound, NEW r \in Reg, reg_scoreboard[r]
  PROVE  \E k \in Slot : /\ PendingWrite(SlotOf(k)) /\ ~WaitsForOther(SlotOf(k))
                         /\ buffer[SlotOf(k)].result.dest_reg = r
                         /\ buffer[SlotOf(k)].result.tag = tag_scoreboard[r]
<1>1. PICK k \in PendingFor(r) : tag_scoreboard[r] = buffer[SlotOf(k)].result.tag
  BY DEF ScoreboardSound
<1>2. /\ k \in Slot /\ buffer[SlotOf(k)].valid
      /\ ~buffer[SlotOf(k)].result.write_mem
      /\ buffer[SlotOf(k)].result.dest_reg = r
  BY DEF PendingFor, Slot
<1> QED
  BY <1>1, <1>2 DEF PendingWrite, WaitsForOther

LEMMA HeldResult ==
  ASSUME IInv, NEW s \in Slot
  PROVE  buffer[s].result.dest_reg \in Reg
<1>1. buffer[s].result \in Result
  BY DEF IInv, TypeOK
<1> QED
  BY <1>1, ResultAssumption

LEMMA SlotsAreSlots == IInv => \A k \in Slot : SlotOf(k) \in Slot
  BY SlotOfInSlot, DepthAssumption DEF IInv, Slot

\* A dependency that is reported is one on another held result, with another tag,
\* that writes the same register.
THEOREM HazardsAreReal == Spec => []HazardIsReal
<1>1. IInv /\ ScoreboardSound => HazardIsReal
  <2> SUFFICES ASSUME IInv, ScoreboardSound,
                      NEW i \in Slot, PendingWrite(i), WaitsForOther(i)
               PROVE  \E j \in Slot :
                        /\ PendingWrite(j)
                        /\ buffer[i].result.dest_reg = buffer[j].result.dest_reg
                        /\ buffer[i].result.tag # buffer[j].result.tag
    BY DEF HazardIsReal, hazard_detected
  <2> DEFINE r == buffer[i].result.dest_reg
  <2>1. r \in Reg /\ reg_scoreboard[r] /\ tag_scoreboard[r] # buffer[i].result.tag
    BY HeldResult DEF WaitsForOther
  <2>2. PICK k \in Slot : /\ PendingWrite(SlotOf(k))
                         /\ buffer[SlotOf(k)].result.dest_reg = r
                         /\ buffer[SlotOf(k)].result.tag = tag_scoreboard[r]
    BY <2>1, YoungestIsReady
  <2>3. SlotOf(k) \in Slot
    BY SlotsAreSlots
  <2> QED
    BY <2>1, <2>2, <2>3
<1> QED
  BY <1>1, IInvHolds, ScoreboardTruthful, PTL

\* Held results never wait for each other in a circle: one of them is ready, and
\* next_ready_idx finds it.
THEOREM HeldResultsCanGo == Spec => []SomethingReady
<1>1. IInv /\ ScoreboardSound => SomethingReady
  <2> SUFFICES ASSUME IInv, ScoreboardSound, count # 0
               PROVE  ready_mask # {} /\ buffer[next_ready_idx].valid
    BY DEF SomethingReady, o_buffer_empty
  <2> DEFINE ready == {k \in Slot : SlotOf(k) \in ready_mask}
  <2>1. TypeOK /\ Slot \subseteq Nat /\ 0 \in Slot /\ SlotOf(0) = rd_ptr /\ rd_ptr \in Slot
    BY SlotOfAtEnds, DepthAssumption DEF IInv, TypeOK, Slot
  <2>2. buffer[rd_ptr].valid
    BY <2>1 DEF IInv, RingConsistent, TypeOK, Slot
  <2>3. ready # {}
    <3> DEFINE r == buffer[rd_ptr].result.dest_reg
    <3>1. CASE ~PendingWrite(rd_ptr) \/ ~WaitsForOther(rd_ptr)
      BY <2>1, <2>2, <3>1 DEF ready_mask
    <3>2. CASE WaitsForOther(rd_ptr)
      <4>1. r \in Reg /\ reg_scoreboard[r]
        BY <2>1, <3>2, HeldResult DEF WaitsForOther
      <4>2. PICK k \in Slot : PendingWrite(SlotOf(k)) /\ ~WaitsForOther(SlotOf(k))
        BY <4>1, YoungestIsReady
      <4>3. SlotOf(k) \in ready_mask
        BY <4>2, SlotsAreSlots DEF ready_mask, PendingWrite
      <4> QED
        BY <4>3
    <3> QED
      BY <3>1, <3>2
  <2>4. PICK k \in ready : \A m \in ready : k <= m
    BY <2>1, <2>3, LeastNumber
  <2>5. \A j \in 0..(k - 1) : SlotOf(j) \notin ready_mask
    <3> SUFFICES ASSUME NEW j \in 0..(k - 1) PROVE j \notin ready /\ j \in Slot
      OBVIOUS
    <3>1. k \in Nat /\ ~(k <= j)
      BY <2>1
    <3> QED
      BY <2>4, <3>1, DepthAssumption DEF Slot
  <2>6. next_ready_idx \in ready_mask
    <3> DEFINE First(n) == /\ SlotOf(n) \in ready_mask
                           /\ \A j \in 0..(n - 1) : SlotOf(j) \notin ready_mask
    <3>1. ready_mask # {} /\ k \in Slot /\ First(k)
      BY <2>4, <2>5
    <3>2. next_ready_idx = SlotOf(CHOOSE n \in Slot : First(n))
      BY <3>1 DEF next_ready_idx
    <3>3. First(CHOOSE n \in Slot : First(n))
      BY <3>1
    <3> QED
      BY <3>2, <3>3
  <2> QED
    BY <2>6 DEF ready_mask
<1> QED
  BY <1>1, IInvHolds, ScoreboardTruthful, PTL
=============================================================================
