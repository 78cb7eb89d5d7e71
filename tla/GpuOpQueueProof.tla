--------------------------- MODULE GpuOpQueueProof ---------------------------
(***************************************************************************)
(* Proofs about GpuOpQueue for every depth and every set of entries; about *)
(* the benches of the queue, the instruction buffer, the dispatcher, the   *)
(* forwarding multiplexer, the coprocessor system and the MMU; and about   *)
(* the formats of an immediate, in branch_calc, in the benches and in the  *)
(* generator of tb/uvm.                                                    *)
(***************************************************************************)
EXTENDS BenchRegression, RingFacts, SequenceTheorems, TLAPS

LEMMA AdvanceSlot ==
  ASSUME NEW p \in Slot
  PROVE  /\ Advance(p) \in Slot
         /\ Advance(p) = IF p + 1 < QUEUE_DEPTH THEN p + 1 ELSE 0
  BY DepthAssumption DEF Slot, Advance

\* The registers in range, with entries from E: the queue's bench, unlike Next,
\* enqueues what it likes.
RingTyped(E) ==
  /\ queue \in [Slot -> [entry : E, valid : BOOLEAN]]
  /\ wr_ptr \in Slot /\ rd_ptr \in Slot /\ count \in 0..QUEUE_DEPTH
  /\ o_queue_overflow \in BOOLEAN /\ o_queue_underrun \in BOOLEAN

\* The slots counted from rd_ptr are in the ring, and differ.
LEMMA SlotOfInSlot ==
  ASSUME rd_ptr \in Slot, NEW k \in 0..QUEUE_DEPTH
  PROVE  /\ SlotOf(k) \in Slot
         /\ SlotOf(k) = IF rd_ptr + k < QUEUE_DEPTH THEN rd_ptr + k
                                                   ELSE rd_ptr + k - QUEUE_DEPTH
  BY RingSum, DepthAssumption DEF Slot, SlotOf

-----------------------------------------------------------------------------
IInv(E) == RingTyped(E) /\ RingConsistent

LEMMA InitIInv ==
  ASSUME NEW E, Init, queue \in [Slot -> [entry : E, valid : {FALSE}]]
  PROVE  IInv(E)
<1>0. QUEUE_DEPTH \in Nat \ {0}
  BY DepthAssumption
<1>1. RingTyped(E)
  <2>1. queue \in [Slot -> [entry : E, valid : BOOLEAN]]
    BY DEF Init
  <2>2. wr_ptr \in Slot /\ rd_ptr \in Slot /\ count \in 0..QUEUE_DEPTH
    BY <1>0 DEF Init, Slot
  <2> QED
    BY <2>1, <2>2 DEF Init, RingTyped
<1>2. \A k \in Slot : SlotOf(k) \in Slot
  BY <1>0, <1>1, SlotOfInSlot DEF Slot, RingTyped
<1>3. RingConsistent
  <2>1. wr_ptr = (rd_ptr + count) % QUEUE_DEPTH
    BY <1>0 DEF Init
  <2>2. ASSUME NEW k \in Slot PROVE queue[SlotOf(k)].valid <=> k < count
    <3>1. queue[SlotOf(k)].valid = FALSE
      BY <1>2 DEF Init
    <3>2. ~(k < count)
      BY <1>0 DEF Init, Slot
    <3> QED
      BY <3>1, <3>2
  <2> QED
    BY <2>1, <2>2 DEF RingConsistent, Slot
<1> QED
  BY <1>1, <1>3 DEF IInv

\* A tick keeps the registers in range: the count never passes full or empty.
LEMMA TickType ==
  ASSUME NEW E, IInv(E), NEW enq \in BOOLEAN, NEW e \in E, NEW deq \in BOOLEAN,
         Tick(enq, e, deq)
  PROVE  RingTyped(E)'
<1>0. QUEUE_DEPTH \in Nat \ {0} /\ wr_ptr \in Slot /\ rd_ptr \in Slot
  BY DepthAssumption DEF IInv, RingTyped
<1>1. Advance(wr_ptr) \in Slot /\ Advance(rd_ptr) \in Slot
  BY <1>0, AdvanceSlot
<1>2. queue' \in [Slot -> [entry : E, valid : BOOLEAN]]
  BY <1>0 DEF IInv, RingTyped, Tick, QueueAfter
<1>3. wr_ptr' \in Slot /\ rd_ptr' \in Slot
  BY <1>0, <1>1 DEF Tick
<1>4. count' \in 0..QUEUE_DEPTH
  BY <1>0 DEF IInv, RingTyped, Tick, Enqueues, Dequeues, o_queue_full, o_queue_empty
<1>5. o_queue_overflow' \in BOOLEAN /\ o_queue_underrun' \in BOOLEAN
  BY DEF IInv, RingTyped, Tick
<1> QED
  BY <1>2, <1>3, <1>4, <1>5 DEF RingTyped

-----------------------------------------------------------------------------
\* Facts about the ring used by the step proofs.

LEMMA SlotOfInjective ==
  ASSUME rd_ptr \in Slot, NEW i \in Slot, NEW j \in Slot, SlotOf(i) = SlotOf(j)
  PROVE  i = j
  BY RingInjective, DepthAssumption DEF Slot, SlotOf

LEMMA SlotOfAtEnds ==
  ASSUME rd_ptr \in Slot
  PROVE  SlotOf(0) = rd_ptr /\ SlotOf(QUEUE_DEPTH) = rd_ptr
  BY RingEnds, DepthAssumption DEF Slot, SlotOf

\* After a dequeue the k-th oldest entry is the one that was (k+1)-th.
LEMMA SlotOfShifts ==
  ASSUME rd_ptr \in Slot, rd_ptr' = Advance(rd_ptr), NEW k \in Slot
  PROVE  SlotOf(k)' = SlotOf(k + 1)
  BY RingShift, DepthAssumption DEF Slot, SlotOf, Advance

LEMMA SlotOfNext ==
  ASSUME rd_ptr \in Slot, NEW k \in Slot
  PROVE  Advance(SlotOf(k)) = SlotOf(k + 1)
  BY RingNext, DepthAssumption DEF Slot, SlotOf, Advance

\* The entry in a slot changes only where an accepted entry is stored.
LEMMA EntryAfter ==
  ASSUME NEW E, RingTyped(E), NEW enq \in BOOLEAN, NEW e \in E, NEW deq \in BOOLEAN,
         Tick(enq, e, deq), NEW s \in Slot
  PROVE  queue'[s].entry = IF Enqueues(enq) /\ s = wr_ptr THEN e ELSE queue[s].entry
  BY DEF RingTyped, Tick, QueueAfter

-----------------------------------------------------------------------------
\* What a tick does to the ring, in terms of ages: an accepted entry gets the
\* age count (less one if an entry leaves), every other entry keeps its age
\* (less one if an entry leaves).

LEMMA TickRing ==
  ASSUME NEW E, IInv(E), NEW enq \in BOOLEAN, NEW e \in E, NEW deq \in BOOLEAN,
         Tick(enq, e, deq)
  PROVE  RingConsistent'
<1> DEFINE enqueues == Enqueues(enq)
           dequeues == Dequeues(deq)
<1>0. QUEUE_DEPTH \in Nat \ {0} /\ RingTyped(E) /\ count \in 0..QUEUE_DEPTH
      /\ wr_ptr \in Slot /\ rd_ptr \in Slot
  BY DepthAssumption DEF IInv, RingTyped
<1>1. wr_ptr = SlotOf(count)
  BY DEF IInv, RingConsistent, SlotOf
<1>2. RingTyped(E)'
  BY TickType
<1>3. (enqueues => count < QUEUE_DEPTH) /\ (dequeues => count > 0)
  BY <1>0 DEF Enqueues, Dequeues, o_queue_full, o_queue_empty
<1>4. ASSUME NEW s \in Slot
      PROVE  /\ (dequeues /\ s = rd_ptr) => queue'[s].valid = FALSE
             /\ (~(dequeues /\ s = rd_ptr) /\ enqueues /\ s = wr_ptr)
                  => queue'[s].valid = TRUE
             /\ (~(dequeues /\ s = rd_ptr) /\ ~(enqueues /\ s = wr_ptr))
                  => queue'[s].valid = queue[s].valid
  BY <1>0 DEF RingTyped, Tick, QueueAfter
<1>5. ASSUME NEW k \in Slot
      PROVE  queue[SlotOf(k)].valid <=> k < count
  BY DEF IInv, RingConsistent, Slot
<1>6. ASSUME NEW k \in Slot PROVE SlotOf(k) \in Slot
  BY <1>0, SlotOfInSlot DEF Slot
<1>7. CASE ~dequeues
  <2>1. rd_ptr' = rd_ptr
    BY <1>7 DEF Tick
  <2>2. count' = IF enqueues THEN count + 1 ELSE count
    BY <1>7 DEF Tick
  <2>3. wr_ptr' = (rd_ptr' + count') % QUEUE_DEPTH
    <3>1. CASE enqueues
      <4>1. count \in Slot
        BY <1>0, <1>3, <3>1 DEF Slot
      <4>2. wr_ptr' = SlotOf(count + 1)
        BY <1>1, <3>1, <4>1, <1>0, SlotOfNext DEF Tick
      <4> QED
        BY <2>1, <2>2, <3>1, <4>2 DEF SlotOf
    <3>2. CASE ~enqueues
      BY <1>1, <2>1, <2>2, <3>2 DEF Tick, SlotOf
    <3> QED
      BY <3>1, <3>2
  <2>4. ASSUME NEW k \in Slot
        PROVE  queue'[SlotOf(k)'].valid <=> k < count'
    <3>1. SlotOf(k)' = SlotOf(k) /\ SlotOf(k) \in Slot
      BY <1>6, <2>1 DEF SlotOf
    <3>2. CASE enqueues /\ k = count
      <4>1. queue'[SlotOf(k)].valid = TRUE
        BY <1>0, <1>1, <1>4, <1>7, <3>1, <3>2
      <4>2. k < count'
        BY <1>0, <2>2, <3>2
      <4> QED
        BY <3>1, <4>1, <4>2
    <3>3. CASE ~(enqueues /\ k = count)
      <4>1. ~(enqueues /\ SlotOf(k) = wr_ptr)
        <5>1. enqueues => count \in Slot
          BY <1>0, <1>3 DEF Slot
        <5> QED
          BY <1>0, <1>1, <3>3, <5>1, SlotOfInjective
      <4>2. queue'[SlotOf(k)].valid = queue[SlotOf(k)].valid
        BY <1>0, <1>4, <1>7, <3>1, <4>1
      <4>3. k < count' <=> k < count
        BY <1>0, <2>2, <3>3 DEF Slot
      <4> QED
        BY <1>5, <3>1, <4>2, <4>3
    <3> QED
      BY <3>2, <3>3
  <2> QED
    BY <2>3, <2>4 DEF RingConsistent, Slot
<1>8. CASE dequeues
  <2>1. rd_ptr' = Advance(rd_ptr)
    BY <1>8 DEF Tick
  <2>2. count' = IF enqueues THEN count ELSE count - 1
    BY <1>8 DEF Tick
  <2>3. count' \in Slot /\ count = IF enqueues THEN count' ELSE count' + 1
    BY <1>0, <1>3, <1>8, <2>2 DEF Slot
  <2>4. wr_ptr' = (rd_ptr' + count') % QUEUE_DEPTH
    <3>1. PICK k \in Slot : k = count'
      BY <2>3
    <3>2. (rd_ptr' + count') % QUEUE_DEPTH = SlotOf(k + 1)
      BY <1>0, <2>1, <3>1, SlotOfShifts DEF SlotOf
    <3>3. wr_ptr' = SlotOf(k + 1)
      <4>1. CASE enqueues
        BY <1>0, <1>1, <2>3, <3>1, <4>1, SlotOfNext DEF Tick
      <4>2. CASE ~enqueues
        BY <1>1, <2>3, <3>1, <4>2 DEF Tick
      <4> QED
        BY <4>1, <4>2
    <3> QED
      BY <3>2, <3>3
  <2>5. ASSUME NEW k \in Slot
        PROVE  queue'[SlotOf(k)'].valid <=> k < count'
    <3>1. SlotOf(k)' = SlotOf(k + 1)
      BY <1>0, <2>1, SlotOfShifts
    <3>2. CASE k + 1 = QUEUE_DEPTH
      <4>1. SlotOf(k + 1) = rd_ptr
        BY <1>0, <3>2, SlotOfAtEnds
      <4>2. queue'[SlotOf(k + 1)].valid = FALSE
        BY <1>0, <1>4, <1>8, <4>1
      <4>3. ~(k < count')
        BY <1>0, <1>3, <2>2, <3>2 DEF Slot
      <4> QED
        BY <3>1, <4>2, <4>3
    <3>3. CASE k + 1 # QUEUE_DEPTH
      <4>1. k + 1 \in Slot /\ k + 1 # 0 /\ 0 \in Slot
        BY <1>0, <3>3 DEF Slot
      <4>2. SlotOf(k + 1) # rd_ptr /\ SlotOf(k + 1) \in Slot
        BY <1>0, <1>6, <4>1, SlotOfAtEnds, SlotOfInjective
      <4>3. CASE enqueues /\ k + 1 = count
        <5>1. queue'[SlotOf(k + 1)].valid = TRUE
          BY <1>0, <1>1, <1>4, <4>2, <4>3
        <5>2. k < count'
          BY <1>0, <2>2, <4>3 DEF Slot
        <5> QED
          BY <3>1, <5>1, <5>2
      <4>4. CASE ~(enqueues /\ k + 1 = count)
        <5>1. ~(enqueues /\ SlotOf(k + 1) = wr_ptr)
          <6>1. enqueues => count \in Slot
            BY <1>0, <1>3 DEF Slot
          <6> QED
            BY <1>0, <1>1, <4>1, <4>4, <6>1, SlotOfInjective
        <5>2. queue'[SlotOf(k + 1)].valid = queue[SlotOf(k + 1)].valid
          BY <1>0, <1>4, <4>2, <5>1
        <5>3. k < count' <=> k + 1 < count
          BY <1>0, <2>2, <4>4 DEF Slot
        <5> QED
          BY <1>5, <3>1, <4>1, <5>2, <5>3
      <4> QED
        BY <4>3, <4>4
    <3> QED
      BY <3>2, <3>3
  <2> QED
    BY <2>4, <2>5 DEF RingConsistent, Slot
<1> QED
  BY <1>7, <1>8

-----------------------------------------------------------------------------
LEMMA ResetIInv ==
  ASSUME NEW E, IInv(E), Reset
  PROVE  IInv(E)'
<1>0. QUEUE_DEPTH \in Nat \ {0} /\ RingTyped(E)
  BY DepthAssumption DEF IInv
<1>1. RingTyped(E)'
  <2>1. queue' \in [Slot -> [entry : E, valid : BOOLEAN]]
    BY <1>0 DEF Reset, RingTyped
  <2>2. wr_ptr' \in Slot /\ rd_ptr' \in Slot /\ count' \in 0..QUEUE_DEPTH
    BY <1>0 DEF Reset, Slot
  <2> QED
    BY <2>1, <2>2 DEF Reset, RingTyped
<1>2. RingConsistent'
  <2>1. wr_ptr' = (rd_ptr' + count') % QUEUE_DEPTH
    BY <1>0 DEF Reset
  <2>2. ASSUME NEW k \in Slot PROVE queue'[SlotOf(k)'].valid <=> k < count'
    <3>1. SlotOf(k)' \in Slot
      BY <1>0 DEF Reset, SlotOf, Slot
    <3>2. queue'[SlotOf(k)'].valid = FALSE
      BY <1>0, <3>1 DEF Reset, RingTyped
    <3>3. ~(k < count')
      BY <1>0 DEF Reset, Slot
    <3> QED
      BY <3>2, <3>3
  <2> QED
    BY <2>1, <2>2 DEF RingConsistent, Slot
<1> QED
  BY <1>1, <1>2 DEF IInv

LEMMA NextIInv ==
  ASSUME IInv(Entry), [Next]_vars
  PROVE  IInv(Entry)'
<1>1. CASE Reset
  BY <1>1, ResetIInv
<1>2. ASSUME NEW enq \in BOOLEAN, NEW deq \in BOOLEAN, NEW e \in Entry,
             Tick(enq, e, deq)
      PROVE  IInv(Entry)'
  BY <1>2, TickType, TickRing DEF IInv
<1>3. CASE UNCHANGED vars
  BY <1>3 DEF IInv, vars, RingTyped, RingConsistent, SlotOf
<1> QED
  BY <1>1, <1>2, <1>3 DEF Next

\* The invariant: registers in range, and pointers, count and valid bits in
\* agreement, for every depth and every set of entries.
THEOREM IInvHolds == Spec => []IInv(Entry)
<1>1. Init => IInv(Entry)
  BY InitIInv DEF Init
<1>2. IInv(Entry) /\ [Next]_vars => IInv(Entry)'
  BY NextIInv
<1> QED
  BY <1>1, <1>2, PTL DEF Spec

\* Every register of the queue stays in its range.
THEOREM TypeCorrect == Spec => []TypeOK
<1>1. IInv(Entry) => TypeOK
  BY DEF IInv, RingTyped, TypeOK
<1> QED
  BY <1>1, IInvHolds, PTL

\* Pointers, count and valid bits always describe the same held entries, so an
\* entry is offered whenever the queue holds one.
THEOREM RingStaysConsistent == Spec => []RingConsistent
<1>1. IInv(Entry) => RingConsistent
  BY DEF IInv
<1> QED
  BY <1>1, IInvHolds, PTL

-----------------------------------------------------------------------------
\* The refinement.

ContentsOK(E) ==
  /\ Contents \in Seq(E)
  /\ Len(Contents) = count
  /\ \A k \in 1..count : Contents[k] = queue[SlotOf(k - 1)].entry

LEMMA ContentsFacts ==
  ASSUME NEW E, RingTyped(E)
  PROVE  ContentsOK(E)
<1>1. count \in Nat
  BY DepthAssumption DEF RingTyped
<1>2. ASSUME NEW k \in 1..count PROVE queue[SlotOf(k - 1)].entry \in E
  <2>1. k - 1 \in 0..QUEUE_DEPTH
    BY DepthAssumption DEF RingTyped
  <2>2. SlotOf(k - 1) \in Slot
    BY <2>1, SlotOfInSlot DEF RingTyped
  <2> QED
    BY <2>2 DEF RingTyped
<1> QED
  BY <1>1, <1>2 DEF Contents, ContentsOK

LEMMA ContentsFactsNext ==
  ASSUME NEW E
  PROVE  RingTyped(E)' => ContentsOK(E)'
<1>1. RingTyped(E) => ContentsOK(E)
  BY ContentsFacts
<1> QED
  BY <1>1, PTL

\* A tick of the ring is a cycle of the abstract queue.
LEMMA TickRefines ==
  ASSUME NEW E, IInv(E), NEW enq \in BOOLEAN, NEW e \in E, NEW deq \in BOOLEAN,
         Tick(enq, e, deq)
  PROVE  Fifo!Cycle(enq, e, deq)
<1> DEFINE left == IF Dequeues(deq) THEN Tail(Contents) ELSE Contents
           age(k) == IF Dequeues(deq) THEN k ELSE k - 1
<1>0. QUEUE_DEPTH \in Nat \ {0} /\ RingTyped(E) /\ RingTyped(E)'
      /\ rd_ptr \in Slot /\ count \in 0..QUEUE_DEPTH
  BY DepthAssumption, TickType DEF IInv, RingTyped
<1>1. ContentsOK(E) /\ ContentsOK(E)'
  BY <1>0, ContentsFacts, ContentsFactsNext
<1>2. (Dequeues(deq) <=> deq /\ Contents # << >>)
      /\ (Enqueues(enq) <=> enq /\ Len(Contents) < QUEUE_DEPTH)
  <2>1. Contents = << >> <=> count = 0
    BY <1>0, <1>1, EmptySeq DEF ContentsOK
  <2> QED
    BY <1>0, <1>1, <2>1 DEF ContentsOK, Enqueues, Dequeues, o_queue_full, o_queue_empty
<1>3. /\ left \in Seq(E)
      /\ Len(left) = IF Dequeues(deq) THEN count - 1 ELSE count
      /\ \A k \in 1..Len(left) : left[k] = queue[SlotOf(age(k))].entry
  <2>1. CASE Dequeues(deq)
    <3>1. Contents # << >>
      BY <1>2, <2>1
    <3>2. /\ Tail(Contents) \in Seq(E)
          /\ Len(Tail(Contents)) = count - 1
          /\ \A k \in 1..(count - 1) : Tail(Contents)[k] = Contents[k + 1]
      BY <1>1, <3>1, HeadTailProperties DEF ContentsOK
    <3>3. ASSUME NEW k \in 1..(count - 1)
          PROVE  Contents[k + 1] = queue[SlotOf(k)].entry
      <4>1. k + 1 \in 1..count /\ (k + 1) - 1 = k
        BY <1>0
      <4> QED
        BY <1>1, <4>1 DEF ContentsOK
    <3> QED
      BY <2>1, <3>2, <3>3
  <2>2. CASE ~Dequeues(deq)
    BY <1>1, <2>2 DEF ContentsOK
  <2> QED
    BY <2>1, <2>2
<1>4. count' = IF Enqueues(enq) THEN Len(left) + 1 ELSE Len(left)
  BY <1>0, <1>3 DEF Tick
<1>5. Len(left) \in Nat /\ Len(left) \in 0..count
  BY <1>0, <1>3 DEF Dequeues, o_queue_empty
<1>6. ASSUME NEW k \in 1..QUEUE_DEPTH
      PROVE  SlotOf(k - 1)' = SlotOf(age(k)) /\ SlotOf(age(k)) \in Slot
  <2>1. k - 1 \in Slot /\ (k - 1) + 1 = k
    BY <1>0 DEF Slot
  <2>2. age(k) \in 0..QUEUE_DEPTH
    BY <1>0
  <2>3. CASE Dequeues(deq)
    BY <1>0, <2>1, <2>2, <2>3, SlotOfShifts, SlotOfInSlot DEF Tick
  <2>4. CASE ~Dequeues(deq)
    BY <1>0, <2>1, <2>2, <2>4, SlotOfInSlot DEF Tick, SlotOf
  <2> QED
    BY <2>3, <2>4
<1>7. Enqueues(enq) => count \in Slot /\ wr_ptr = SlotOf(count)
  BY <1>0 DEF IInv, RingConsistent, SlotOf, Slot, Enqueues, o_queue_full
<1>8. ASSUME NEW k \in 1..Len(left)
      PROVE  Contents'[k] = left[k]
  <2>1. k \in 1..QUEUE_DEPTH /\ k \in 1..count'
    BY <1>0, <1>4, <1>5
  <2>2. Contents'[k] = queue'[SlotOf(age(k))].entry
    BY <1>1, <1>6, <2>1 DEF ContentsOK
  <2>3. ~(Enqueues(enq) /\ SlotOf(age(k)) = wr_ptr)
    <3>1. Enqueues(enq) => age(k) \in Slot /\ age(k) # count
      BY <1>0, <1>3, <1>7, <2>1 DEF Slot
    <3> QED
      BY <1>0, <1>7, <3>1, SlotOfInjective
  <2>4. queue'[SlotOf(age(k))].entry = queue[SlotOf(age(k))].entry
    BY <1>0, <1>6, <2>1, <2>3, EntryAfter
  <2> QED
    BY <1>3, <2>2, <2>4
<1>9. ASSUME Enqueues(enq)
      PROVE  Contents'[Len(left) + 1] = e
  <2> DEFINE newest == Len(left) + 1
  <2>1. newest \in 1..count' /\ newest \in 1..QUEUE_DEPTH /\ age(newest) = count
    BY <1>0, <1>3, <1>4, <1>5, <1>7, <1>9 DEF Slot
  <2>2. Contents'[newest] = queue'[SlotOf(count)].entry
    BY <1>1, <1>6, <2>1 DEF ContentsOK
  <2>3. queue'[wr_ptr].entry = e
    BY <1>0, <1>9, EntryAfter DEF RingTyped
  <2> QED
    BY <1>7, <1>9, <2>2, <2>3
<1>10. Contents' = IF Enqueues(enq) THEN Append(left, e) ELSE left
  <2> HIDE DEF left
  <2>1. Contents' \in Seq(E) /\ Len(Contents') = count'
    BY <1>1 DEF ContentsOK
  <2>2. CASE Enqueues(enq)
    <3>1. /\ Append(left, e) \in Seq(E)
          /\ Len(Append(left, e)) = Len(left) + 1
          /\ \A k \in 1..Len(left) : Append(left, e)[k] = left[k]
          /\ Append(left, e)[Len(left) + 1] = e
      BY <1>3, AppendProperties
    <3>2. ASSUME NEW k \in 1..Len(Contents')
          PROVE  Contents'[k] = Append(left, e)[k]
      <4>1. k \in 1..Len(left) \/ k = Len(left) + 1
        BY <1>4, <1>5, <2>1, <2>2
      <4> QED
        BY <1>8, <1>9, <2>2, <3>1, <4>1
    <3>3. Len(Contents') = Len(Append(left, e))
      BY <1>4, <2>1, <2>2, <3>1
    <3>4. Contents' = Append(left, e)
      BY <2>1, <3>1, <3>2, <3>3, SeqEqual
    <3> QED
      BY <2>2, <3>4
  <2>3. CASE ~Enqueues(enq)
    <3>1. Len(Contents') = Len(left)
      BY <1>4, <2>1, <2>3
    <3>2. Contents' = left
      BY <1>3, <1>8, <2>1, <3>1, SeqEqual
    <3> QED
      BY <2>3, <3>2
  <2> QED
    BY <2>2, <2>3
<1> QED
  BY <1>2, <1>10 DEF Fifo!Cycle, Tick, Enqueues, Dequeues, o_queue_full, o_queue_empty

LEMMA InitRefines == Init => Fifo!Init
<1> SUFFICES ASSUME Init PROVE Fifo!Init
  OBVIOUS
<1>1. Contents = << >>
  BY DEF Init, Contents
<1> QED
  BY <1>1 DEF Init, Fifo!Init

LEMMA NextRefines == IInv(Entry) /\ [Next]_vars => [Fifo!Next]_(Fifo!fifoVars)
<1> SUFFICES ASSUME IInv(Entry), [Next]_vars PROVE [Fifo!Next]_(Fifo!fifoVars)
  OBVIOUS
<1>1. CASE Reset
  <2>1. Contents' = << >>
    BY <1>1 DEF Reset, Contents
  <2> QED
    BY <1>1, <2>1 DEF Reset, Fifo!Reset, Fifo!Next
<1>2. ASSUME NEW enq \in BOOLEAN, NEW deq \in BOOLEAN, NEW e \in Entry,
             Tick(enq, e, deq)
      PROVE  Fifo!Next
  BY <1>2, TickRefines DEF Fifo!Next
<1>3. CASE UNCHANGED vars
  BY <1>3 DEF vars, Fifo!fifoVars, Contents, SlotOf
<1> QED
  BY <1>1, <1>2, <1>3 DEF Next

\* The ring of gpu_op_queue implements the abstract first-in first-out queue,
\* for every depth and every set of entries.
THEOREM QueueImplementsFifo == Spec => ImplementsFifo
<1>1. Init => Fifo!Init
  BY InitRefines
<1>2. IInv(Entry) /\ [Next]_vars => [Fifo!Next]_(Fifo!fifoVars)
  BY NextRefines
<1> QED
  BY <1>1, <1>2, IInvHolds, PTL DEF Spec, ImplementsFifo, Fifo!Spec

-----------------------------------------------------------------------------
\* The queue's bench.  What it enqueues is in some set of entries, whatever its
\* scripts are; its copy of the queue is what the abstract queue holds.

RingSound == \E E : IInv(E)

LEMMA AnyTick ==
  ASSUME RingSound, NEW enq \in BOOLEAN, NEW e, NEW deq \in BOOLEAN, Tick(enq, e, deq)
  PROVE  RingSound' /\ Fifo!Cycle(enq, e, deq)
<1>1. PICK E : IInv(E)  BY DEF RingSound
<1> DEFINE F == E \cup {e}
<1>2. IInv(F)  BY <1>1 DEF IInv, RingTyped
<1>3. e \in F  OBVIOUS
<1> HIDE DEF F
<1>4. IInv(F)'  BY <1>2, <1>3, TickType, TickRing DEF IInv
<1>5. Fifo!Cycle(enq, e, deq)  BY <1>2, <1>3, TickRefines
<1> QED  BY <1>4, <1>5 DEF RingSound

LEMMA AnyReset ==
  ASSUME RingSound, Reset
  PROVE  RingSound' /\ Contents' = << >>
<1>1. PICK E : IInv(E)  BY DEF RingSound
<1>2. IInv(E)'  BY <1>1, ResetIInv
<1>3. Contents' = << >>  BY DEF Reset, Contents
<1> QED  BY <1>2, <1>3 DEF RingSound

\* What the ring offers is the oldest entry it holds.
LEMMA OffersOldest ==
  ASSUME RingSound
  PROVE  o_instruction = IF Contents = << >> THEN 0 ELSE Head(Contents)
<1>1. PICK E : IInv(E)  BY DEF RingSound
<1>2. RingTyped(E) /\ RingConsistent  BY <1>1 DEF IInv
<1>3. ContentsOK(E)  BY <1>2, ContentsFacts
<1>4. QUEUE_DEPTH \in Nat \ {0} /\ rd_ptr \in Slot /\ count \in 0..QUEUE_DEPTH
  BY <1>2, DepthAssumption DEF RingTyped
<1>5. SlotOf(0) = rd_ptr  BY <1>4, SlotOfAtEnds
<1>6. CASE count = 0
  <2>1. Contents = << >>  BY <1>3, <1>6, EmptySeq DEF ContentsOK
  <2> QED  BY <1>6, <2>1 DEF o_instruction, o_dequeue_valid, o_queue_empty
<1>7. CASE count # 0
  <2>1. 0 \in 0..(QUEUE_DEPTH - 1) /\ 0 < count  BY <1>4, <1>7
  <2>2. queue[rd_ptr].valid  BY <1>2, <1>5, <2>1 DEF RingConsistent
  <2>3. 1 \in 1..count /\ 1 - 1 = 0  BY <1>4, <1>7
  <2>4. Contents[1] = queue[rd_ptr].entry  BY <1>3, <1>5, <2>3 DEF ContentsOK
  <2>5. Contents \in Seq(E) /\ Contents # << >>
    BY <1>3, <1>4, <1>7, EmptySeq DEF ContentsOK
  <2>6. Head(Contents) = Contents[1]  BY <2>5, HeadTailProperties
  <2> QED  BY <1>7, <2>2, <2>4, <2>5, <2>6 DEF o_instruction, o_dequeue_valid, o_queue_empty
<1> QED  BY <1>6, <1>7

\* The random test is a reset and random turns.
LEMMA RandomScript ==
  ASSUME RandomOps \in Nat, test = "test_random_operations", at \in Nat, ~Done(Script)
  PROVE  Now.op = IF at = 0 THEN "reset" ELSE "random"
<1> DEFINE first == Step("reset", 0, Anything)
           turn == Step("random", 0, Anything)
           turns == [i \in 1..RandomOps |-> turn]
           S == {first, turn}
<1>1. Script = <<first>> \o turns
  BY DEF Script, Scripts, test_random_operations, Reset_
<1>2. first.op = "reset" /\ turn.op = "random"  BY DEF Step
<1> HIDE DEF first, turn
<1>3. <<first>> \in Seq(S) /\ turns \in Seq(S) /\ Len(<<first>>) = 1 /\ Len(turns) = RandomOps
  OBVIOUS
<1>4. at < Len(Script)  BY <1>1, <1>3 DEF Done
<1> HIDE DEF turns
<1>5. at + 1 \in 1..(1 + RandomOps) /\ Script[at + 1] = IF at = 0 THEN first ELSE turns[at]
  BY <1>1, <1>3, <1>4
<1>6. at # 0 => turns[at] = turn  BY <1>5 DEF turns
<1> QED  BY <1>2, <1>5, <1>6 DEF Now

CopyInv ==
  /\ RingSound /\ at \in Nat
  /\ test = "test_random_operations" =>
       IF at = 0 THEN expected_queue = << >> ELSE Contents = expected_queue

LEMMA BenchInitCopy == BenchInit => CopyInv
<1> SUFFICES ASSUME BenchInit PROVE CopyInv
  OBVIOUS
<1>1. queue \in [Slot -> [entry : {0}, valid : {FALSE}]]  BY DEF BenchInit, Init
<1>2. IInv({0})  BY <1>1, InitIInv DEF BenchInit
<1> QED  BY <1>2 DEF CopyInv, RingSound, BenchInit, InitTest

LEMMA BenchStepCopy ==
  ASSUME RandomOps \in Nat, CopyInv, BenchNext
  PROVE  CopyInv'
<1>1. at \in Nat /\ at' = at + 1 /\ test' = test /\ ~Done(Script)
  BY DEF CopyInv, BenchNext, reset, enqueue, dequeue, enqueue_dequeue_simultaneous,
         random_enqueue, random_dequeue, random_both, random_idle, Expect, FlagsAgree,
         Observe, Doing
<1>2. ASSUME test = "test_random_operations"
      PROVE  Now.op = IF at = 0 THEN "reset" ELSE "random"
  BY <1>1, <1>2, RandomScript
<1>3. SUFFICES ASSUME test = "test_random_operations" => Contents' = expected_queue', RingSound'
      PROVE  CopyInv'
  <2>1. RingSound' /\ (test = "test_random_operations" => Contents' = expected_queue')
    <3>1. CASE reset
      <4>1. RingSound' /\ Contents' = << >>  BY <3>1, AnyReset DEF reset, CopyInv
      <4>2. test = "test_random_operations" => at = 0
        BY <1>1, <1>2, <3>1 DEF reset, Doing
      <4> QED  BY <3>1, <4>1, <4>2 DEF reset, CopyInv
    <3>2. ASSUME NEW enq \in BOOLEAN, NEW e, NEW deq \in BOOLEAN, Tick(enq, e, deq),
                 Now.op # "random", Now.op # "reset"
          PROVE  RingSound' /\ test # "test_random_operations"
      BY <1>2, <3>2, AnyTick DEF CopyInv
    <3>3. CASE enqueue \/ dequeue \/ enqueue_dequeue_simultaneous
      BY <3>2, <3>3 DEF enqueue, dequeue, enqueue_dequeue_simultaneous, Doing
    <3>4. ASSUME Now.op = "random", test = "test_random_operations"
          PROVE  Contents = expected_queue
      BY <1>2, <3>4 DEF CopyInv
    <3>5. CASE random_enqueue
      <4>1. PICK e \in RandomInstr : /\ Tick(TRUE, e, FALSE)
                                     /\ expected_queue' = Append(expected_queue, e)
        BY <3>5 DEF random_enqueue
      <4>2. RingSound' /\ Fifo!Cycle(TRUE, e, FALSE)  BY <4>1, AnyTick DEF CopyInv
      <4> QED  BY <3>4, <3>5, <4>1, <4>2 DEF random_enqueue, Doing, can_enqueue, Fifo!Cycle
    <3>6. CASE random_dequeue
      <4>1. Tick(FALSE, 0, TRUE)  BY <3>6 DEF random_dequeue
      <4>2. RingSound' /\ Fifo!Cycle(FALSE, 0, TRUE)  BY <4>1, AnyTick DEF CopyInv
      <4>3. expected_queue # << >>  BY <3>6 DEF random_dequeue, can_dequeue
      <4> QED  BY <3>4, <3>6, <4>2, <4>3 DEF random_dequeue, Doing, Fifo!Cycle
    <3>7. CASE random_both
      <4>1. PICK e \in RandomInstr : /\ Tick(TRUE, e, TRUE)
                                     /\ expected_queue' = Append(Tail(expected_queue), e)
        BY <3>7 DEF random_both
      <4>2. RingSound' /\ Fifo!Cycle(TRUE, e, TRUE)  BY <4>1, AnyTick DEF CopyInv
      <4>3. expected_queue # << >>  BY <3>7 DEF random_both, can_dequeue
      <4> QED
        BY <3>4, <3>7, <4>1, <4>2, <4>3 DEF random_both, Doing, can_enqueue, Fifo!Cycle
    <3>8. CASE random_idle
      <4>1. RingSound' /\ Fifo!Cycle(FALSE, 0, FALSE)
        BY <3>8, AnyTick DEF CopyInv, random_idle
      <4> QED  BY <3>4, <3>8, <4>1 DEF random_idle, Doing, Fifo!Cycle
    <3> QED  BY <3>1, <3>3, <3>5, <3>6, <3>7, <3>8 DEF BenchNext
  <2> QED  BY <1>3, <2>1
<1> QED  BY <1>1, <1>3 DEF CopyInv

LEMMA CopyIsHeld == CopyInv => ScoreboardIsQueue /\ RingConsistent
<1> SUFFICES ASSUME CopyInv PROVE ScoreboardIsQueue /\ RingConsistent
  OBVIOUS
<1>1. RingConsistent  BY DEF CopyInv, RingSound, IInv
<1>2. ScoreboardIsQueue  BY OffersOldest DEF CopyInv, ScoreboardIsQueue
<1> QED  BY <1>1, <1>2

-----------------------------------------------------------------------------
\* The instruction buffer's bench: eight slots, pointers with one bit more.

LEMMA BufferArithmetic ==
  ASSUME NEW wr \in 0..15, NEW r \in 0..15
  PROVE  /\ (wr + 1) % 16 \in 0..15 /\ (wr + 1) % 16 = IF wr = 15 THEN 0 ELSE wr + 1
         /\ (wr - r) % 16 = IF r <= wr THEN wr - r ELSE wr - r + 16
         /\ wr % 8 = (IF wr < 8 THEN wr ELSE wr - 8) /\ wr % 8 \in 0..7
  OBVIOUS

\* Where the kth entry from the reading end lies, and where the next one goes.
Placed(wr, r, next, size) ==
  /\ \A k \in 0..9 : (r + k) % 8 \in 0..7 /\ (next + k) % 8 = (r + k + 1) % 8
  /\ (r + size) % 8 = wr % 8
  /\ size > 0 => (next + (size - 1)) % 8 = wr % 8
  /\ \A k \in 0..7 : size < 8 /\ k < size => (r + k) % 8 # wr % 8

LEMMA BufferPlaces ==
  ASSUME NEW wr \in 0..15, NEW r \in 0..15, NEW next \in 0..15, NEW size \in 0..8,
         size = (IF r <= wr THEN wr - r ELSE wr - r + 16),
         next = (IF r = 15 THEN 0 ELSE r + 1)
  PROVE  Placed(wr, r, next, size)
<1>1. size = IF r <= wr THEN wr - r ELSE wr - r + 16  OBVIOUS
<1>2. next = IF r = 15 THEN 0 ELSE r + 1  OBVIOUS
<1>3. \A x \in 0..31 : x % 8 = IF x < 8 THEN x ELSE IF x < 16 THEN x - 8
                                  ELSE IF x < 24 THEN x - 16 ELSE x - 24
  OBVIOUS
<1>4. ASSUME NEW k \in 0..9
      PROVE  (r + k) % 8 \in 0..7 /\ (next + k) % 8 = (r + k + 1) % 8
  BY <1>2, <1>3, r + k \in 0..31, r + k + 1 \in 0..31, next + k \in 0..31
<1>5. (r + size) % 8 = wr % 8
  <2>1. CASE r <= wr
    <3>1. r + size = wr  BY <1>1, <2>1
    <3> QED  BY <3>1
  <2>2. CASE ~(r <= wr)
    <3>1. r + size = wr + 16  BY <1>1, <2>2
    <3>2. (wr + 16) % 8 = wr % 8  OBVIOUS
    <3> QED  BY <3>1, <3>2
  <2> QED  BY <2>1, <2>2
<1>6. size > 0 => (next + (size - 1)) % 8 = wr % 8
  BY <1>4, <1>5
<1>7. ASSUME NEW k \in 0..7, size < 8, k < size PROVE (r + k) % 8 # wr % 8
  BY <1>1, <1>3, <1>7, r + k \in 0..31, wr \in 0..31
<1> QED  BY <1>4, <1>5, <1>6, <1>7 DEF Placed

BufferInv ==
  /\ dut.write_ptr \in 0..15 /\ dut.read_ptr \in 0..15
  /\ \E E : dut.inst_buffer \in [0..7 -> E]
  /\ InstBuf!Size \in 0..8
  /\ InstBuf!HoldsTheCopy

LEMMA BufferStep ==
  ASSUME BufferInv, NEW writes \in BOOLEAN, NEW instruction, NEW reads \in BOOLEAN,
         dut' = InstBuf!After(dut, writes, instruction, reads),
         board'.expected_buffer = InstBuf!Expected(writes, instruction, reads)
  PROVE  BufferInv'
<1> DEFINE wr == dut.write_ptr
           r == dut.read_ptr
           b == dut.inst_buffer
           size == InstBuf!Size
           stores == InstBuf!do_write(dut, writes)
           frees == InstBuf!do_read(dut, reads)
           copy == board.expected_buffer
<1>1. /\ dut'.inst_buffer = IF stores THEN [b EXCEPT ![wr % 8] = instruction] ELSE b
      /\ dut'.write_ptr = IF stores THEN (wr + 1) % 16 ELSE wr
      /\ dut'.read_ptr = IF frees THEN (r + 1) % 16 ELSE r
  BY DEF InstBuf!After, InstBuf!NextPtr, InstBuf!Lower
<1>2. wr \in 0..15 /\ r \in 0..15 /\ size \in 0..8 /\ size = (wr - r) % 16
  BY DEF BufferInv, InstBuf!Size
<1>3. copy = [k \in 1..size |-> b[(r + k - 1) % 8]]
  BY DEF BufferInv, InstBuf!HoldsTheCopy, InstBuf!Lower
<1>4. /\ stores <=> writes /\ size < 8
      /\ frees <=> reads /\ size > 0
  BY <1>2, BufferArithmetic
  DEF InstBuf!do_write, InstBuf!do_read, InstBuf!is_full, InstBuf!is_empty, InstBuf!Lower
<1>5. /\ dut'.write_ptr \in 0..15 /\ dut'.read_ptr \in 0..15
      /\ InstBuf!Size' = (size + (IF stores THEN 1 ELSE 0)) - (IF frees THEN 1 ELSE 0)
  BY <1>1, <1>2, <1>4, BufferArithmetic DEF InstBuf!Size
<1>6. InstBuf!Size' \in 0..8  BY <1>2, <1>4, <1>5
<1>7. PICK E : b \in [0..7 -> E]  BY DEF BufferInv
<1> DEFINE F == E \cup {instruction}
<1>8. b \in [0..7 -> F] /\ instruction \in F  BY <1>7
<1>9. dut'.inst_buffer \in [0..7 -> F]  BY <1>1, <1>2, <1>8, BufferArithmetic
<1> HIDE DEF F, wr, r, b, size, stores, frees
<1> DEFINE next == (r + 1) % 16
<1>10. /\ next \in 0..15
       /\ \A k \in 0..9 : (r + k) % 8 \in 0..7 /\ (next + k) % 8 = (r + k + 1) % 8
       /\ (r + size) % 8 = wr % 8
       /\ size > 0 => (next + (size - 1)) % 8 = wr % 8
       /\ \A k \in 0..7 : size < 8 /\ k < size => (r + k) % 8 # wr % 8
  <2>1. next \in 0..15  BY <1>2
  <2> HIDE DEF next
  <2>2. next = (r + 1) % 16  BY DEF next
  <2>3. Placed(wr, r, next, size)  BY <1>2, <2>1, <2>2, BufferArithmetic, BufferPlaces
  <2> QED  BY <2>1, <2>3 DEF Placed
<1> HIDE DEF next
<1>11. copy \in Seq(F) /\ Len(copy) = size
  <2>1. \A k \in 1..size : k - 1 \in 0..9 /\ r + k - 1 = r + (k - 1)  BY <1>2
  <2>2. \A k \in 1..size : b[(r + k - 1) % 8] \in F  BY <1>8, <1>10, <2>1
  <2>3. copy \in [1..size -> F] /\ size \in Nat  BY <1>2, <1>3, <2>2
  <2> HIDE DEF copy
  <2> QED  BY <2>3
<1> HIDE DEF copy
<1> DEFINE kept == IF frees THEN Tail(copy) ELSE copy
<1>12. board'.expected_buffer = IF stores THEN Append(kept, instruction) ELSE kept
  <2>1. copy # << >> <=> size > 0  BY <1>2, <1>11, EmptySeq
  <2>2. Len(copy) < 8 <=> size < 8  BY <1>11
  <2> QED  BY <1>4, <2>1, <2>2 DEF InstBuf!Expected, copy, kept
<1>13. /\ kept \in Seq(F) /\ Len(kept) = IF frees THEN size - 1 ELSE size
       /\ \A k \in 1..Len(kept) : kept[k] = IF frees THEN copy[k + 1] ELSE copy[k]
  <2>1. CASE frees
    <3>1. copy # << >>  BY <1>2, <1>4, <1>11, <2>1, EmptySeq
    <3> QED  BY <1>11, <2>1, <3>1, HeadTailProperties
  <2>2. CASE ~frees  BY <1>11, <2>2
  <2> QED  BY <2>1, <2>2
<1>14. dut'.read_ptr \in 0..15 /\ dut'.read_ptr = IF frees THEN next ELSE r
  BY <1>1, <1>5 DEF r, frees, next
<1>15. dut'.inst_buffer = IF stores THEN [b EXCEPT ![wr % 8] = instruction] ELSE b
  BY <1>1 DEF b, stores, wr
<1> HIDE DEF kept
<1>16. ASSUME NEW k \in 1..Len(kept)
       PROVE  kept[k] = dut'.inst_buffer[(dut'.read_ptr + k - 1) % 8]
  <2>1. k \in 1..8 /\ (frees => k + 1 \in 1..size) /\ (~frees => k \in 1..size)
    BY <1>2, <1>13
  <2>2. PICK j \in 1..size : j = IF frees THEN k + 1 ELSE k  BY <2>1
  <2>3. kept[k] = b[(r + (j - 1)) % 8]
    BY <1>2, <1>3, <1>13, <2>2, r + j - 1 = r + (j - 1)
  <2>4. (dut'.read_ptr + k - 1) % 8 = (r + (j - 1)) % 8
    <3>1. dut'.read_ptr + k - 1 = dut'.read_ptr + (k - 1) /\ k - 1 \in 0..9  BY <1>14, <2>1
    <3>2. CASE frees
      <4>1. r + (k - 1) + 1 = r + (j - 1)  BY <1>2, <2>1, <2>2, <3>2
      <4>2. (next + (k - 1)) % 8 = (r + (k - 1) + 1) % 8  BY <1>10, <3>1
      <4> QED  BY <1>14, <3>1, <3>2, <4>1, <4>2
    <3>3. CASE ~frees  BY <1>14, <2>2, <3>1, <3>3
    <3> QED  BY <3>2, <3>3
  <2>5. stores => (r + (j - 1)) % 8 # wr % 8
    <3>1. j - 1 \in 0..7 /\ j - 1 < size  BY <1>2, <2>2
    <3>2. stores => size < 8  BY <1>4
    <3> QED  BY <1>10, <3>1, <3>2
  <2> QED  BY <1>15, <2>3, <2>4, <2>5
<1>17. ASSUME stores
       PROVE  dut'.inst_buffer[(dut'.read_ptr + (Len(kept) + 1) - 1) % 8] = instruction
  <2>1. Len(kept) = (IF frees THEN size - 1 ELSE size) /\ (frees => size > 0)
    BY <1>4, <1>13 DEF frees, size
  <2>2. dut'.read_ptr + (Len(kept) + 1) - 1 = dut'.read_ptr + Len(kept)  BY <1>2, <1>14, <2>1
  <2>3. (dut'.read_ptr + Len(kept)) % 8 = wr % 8  BY <1>2, <1>10, <1>14, <2>1
  <2>4. wr % 8 \in 0..7  BY <1>2, BufferArithmetic
  <2>5. [b EXCEPT ![wr % 8] = instruction][wr % 8] = instruction  BY <1>8, <2>4
  <2> QED  BY <1>15, <1>17, <2>2, <2>3, <2>5
<1>18. InstBuf!HoldsTheCopy'
  <2> HIDE DEF kept
  <2> DEFINE held == [k \in 1..InstBuf!Size' |-> dut'.inst_buffer[(dut'.read_ptr + k - 1) % 8]]
  <2>1. held \in Seq(F) /\ Len(held) = InstBuf!Size'
    <3>1. \A k \in 1..InstBuf!Size' : k - 1 \in 0..9 /\ dut'.read_ptr + k - 1 \in 0..31
      BY <1>6, <1>14
    <3>2. \A x \in 0..31 : x % 8 \in 0..7  OBVIOUS
    <3>3. held \in [1..InstBuf!Size' -> F] /\ InstBuf!Size' \in Nat
      BY <1>6, <1>9, <3>1, <3>2
    <3> HIDE DEF held
    <3> QED  BY <3>3
  <2>2. board'.expected_buffer \in Seq(F) /\ Len(board'.expected_buffer) = InstBuf!Size'
    <3>1. InstBuf!Size' = Len(kept) + (IF stores THEN 1 ELSE 0)
      BY <1>2, <1>5, <1>13 DEF stores, frees, size
    <3>2. CASE stores  BY <1>8, <1>12, <1>13, <3>1, <3>2, AppendProperties
    <3>3. CASE ~stores  BY <1>12, <1>13, <3>1, <3>3
    <3> QED  BY <3>2, <3>3
  <2>3. ASSUME NEW k \in 1..InstBuf!Size' PROVE held[k] = board'.expected_buffer[k]
    <3>1. CASE k \in 1..Len(kept)
      BY <1>12, <1>13, <1>16, <3>1, <2>3, AppendProperties, <1>8
    <3>2. CASE k \notin 1..Len(kept)
      <4>1. stores /\ k = Len(kept) + 1
        <5>1. InstBuf!Size' = Len(kept) + (IF stores THEN 1 ELSE 0) /\ Len(kept) \in Nat
          BY <1>2, <1>5, <1>13 DEF stores, frees, size
        <5> QED  BY <2>3, <3>2, <5>1
      <4> QED  BY <1>8, <1>12, <1>13, <1>17, <2>3, <4>1, AppendProperties
    <3> QED  BY <3>1, <3>2
  <2>4. board'.expected_buffer = held
    <3> HIDE DEF held
    <3> QED  BY <2>1, <2>2, <2>3, SeqEqual
  <2> QED  BY <2>4 DEF InstBuf!HoldsTheCopy, InstBuf!Lower
<1> QED  BY <1>5, <1>6, <1>9, <1>18 DEF BufferInv

LEMMA BufferInit == InstBuf!BenchInit => BufferInv
<1> SUFFICES ASSUME InstBuf!BenchInit PROVE BufferInv
  OBVIOUS
<1>1. /\ dut.write_ptr = 0 /\ dut.read_ptr = 0 /\ board.expected_buffer = << >>
      /\ dut.inst_buffer = [i \in 0..7 |-> 0]
  BY DEF InstBuf!BenchInit, InstBuf!ResetState
<1>2. InstBuf!Size = 0  BY <1>1 DEF InstBuf!Size
<1>3. \E E : dut.inst_buffer \in [0..7 -> E]
  <2>1. dut.inst_buffer \in [0..7 -> {0}]  BY <1>1
  <2> QED  BY <2>1
<1>4. InstBuf!HoldsTheCopy
  <2> DEFINE held == [k \in 1..InstBuf!Size |->
                        dut.inst_buffer[(dut.read_ptr + k - 1) % 8]]
  <2>1. held \in Seq({0}) /\ Len(held) = 0  BY <1>2
  <2>2. board.expected_buffer = held
    <3> HIDE DEF held
    <3> QED  BY <1>1, <2>1, EmptySeq
  <2> QED  BY <2>2 DEF InstBuf!HoldsTheCopy, InstBuf!Lower
<1> QED  BY <1>1, <1>2, <1>3, <1>4 DEF BufferInv

LEMMA BufferBenchStep ==
  ASSUME BufferInv, InstBuf!BenchNext
  PROVE  BufferInv'
<1>1. CASE InstBuf!operate
  <2> DEFINE writes == InstBuf!Now.op \in {"write", "both"}
             reads == InstBuf!Now.op \in {"read", "both"}
  <2>1. dut' = InstBuf!After(dut, writes, InstBuf!Now.instruction, reads)
    BY <1>1 DEF InstBuf!operate
  <2>2. board'.expected_buffer = InstBuf!Expected(writes, InstBuf!Now.instruction, reads)
    BY <1>1 DEF InstBuf!operate, InstBuf!Compare
  <2>3. writes \in BOOLEAN /\ reads \in BOOLEAN  OBVIOUS
  <2> HIDE DEF writes, reads
  <2> QED  BY <2>1, <2>2, <2>3, BufferStep
<1>2. CASE InstBuf!random_turn
  <2>1. PICK writes \in BOOLEAN, reads \in BOOLEAN, instruction \in {1, 2} :
          /\ dut' = InstBuf!After(dut, writes, instruction, reads)
          /\ board'.expected_buffer = InstBuf!Expected(writes, instruction, reads)
    BY <1>2 DEF InstBuf!random_turn, InstBuf!Compare
  <2> QED  BY <2>1, BufferStep
<1> QED  BY <1>1, <1>2 DEF InstBuf!BenchNext

-----------------------------------------------------------------------------
\* The dispatcher's bench.  An instruction it sends is taken at that edge or never.

DispatchInv ==
  /\ "inst_valid" \in DOMAIN dut
  /\ {"taken", "due"} \subseteq DOMAIN board
  /\ Dispatch!TakenOnce

LEMMA OfferedIsDue ==
  ASSUME NEW wires, wires.inst_valid = TRUE, board.taken = board.due
  PROVE  Dispatch!Taken(wires) = Dispatch!Due(wires)
<1> DEFINE opcode == wires.instruction.opcode
<1>1. CASE opcode \in Dispatch!CpOpcode /\ wires.cp_ready /\ ~wires.pipeline_stall
  <2>1. Dispatch!cp_result_valid(wires) /\ Dispatch!coprocessor_detected(wires)
    BY <1>1 DEF Dispatch!cp_result_valid, Dispatch!coprocessor_detected
  <2>2. Dispatch!coprocessor_select(wires) = Dispatch!CpFor[opcode]
    BY <1>1, <2>1 DEF Dispatch!coprocessor_select, Dispatch!CpFor, Dispatch!CpOpcode
  <2> QED  BY <1>1, <2>1, <2>2 DEF Dispatch!Taken, Dispatch!Due, Dispatch!Counted
<1>2. CASE ~(opcode \in Dispatch!CpOpcode /\ wires.cp_ready /\ ~wires.pipeline_stall)
  <2>1. ~Dispatch!cp_result_valid(wires)
    BY <1>2 DEF Dispatch!cp_result_valid, Dispatch!coprocessor_detected
  <2> QED  BY <1>2, <2>1 DEF Dispatch!Taken, Dispatch!Due, Dispatch!Counted
<1> QED  BY <1>1, <1>2

LEMMA DispatchInit == Dispatch!BenchInit => DispatchInv
  BY DEF Dispatch!BenchInit, Dispatch!DispatcherDriver, DispatchInv, Dispatch!TakenOnce

LEMMA DispatchStep ==
  ASSUME DispatchInv, Dispatch!BenchNext
  PROVE  DispatchInv'
<1>1. board.taken = board.due  BY DEF DispatchInv, Dispatch!TakenOnce
<1>2. CASE Dispatch!send_instruction
  <2>1. "inst_valid" \in DOMAIN dut' /\ dut'.inst_valid = TRUE
    BY <1>2 DEF DispatchInv, Dispatch!send_instruction, Dispatch!Wires
  <2>2. Dispatch!Taken(dut') = Dispatch!Due(dut')  BY <1>1, <2>1, OfferedIsDue
  <2>3. /\ DOMAIN board' = DOMAIN board
        /\ board'.taken = Dispatch!Taken(dut') /\ board'.due = Dispatch!Due(dut')
    BY <1>2 DEF DispatchInv, Dispatch!send_instruction
  <2> QED  BY <2>1, <2>2, <2>3 DEF DispatchInv, Dispatch!TakenOnce
<1>3. CASE Dispatch!ClockCycles
  <2>1. "inst_valid" \in DOMAIN dut' /\ dut'.inst_valid = FALSE
    BY <1>3 DEF DispatchInv, Dispatch!ClockCycles, Dispatch!Wires
  <2>2. Dispatch!Taken(dut') = board.taken
    BY <2>1 DEF Dispatch!Taken, Dispatch!Counted, Dispatch!cp_result_valid,
                Dispatch!coprocessor_detected
  <2>3. /\ DOMAIN board' = DOMAIN board
        /\ board'.taken = Dispatch!Taken(dut') /\ board'.due = board.due
    BY <1>3 DEF DispatchInv, Dispatch!ClockCycles
  <2> QED  BY <1>1, <2>1, <2>2, <2>3 DEF DispatchInv, Dispatch!TakenOnce
<1>4. CASE Dispatch!random_instruction
  <2>1. "inst_valid" \in DOMAIN dut' /\ dut'.inst_valid = TRUE
    BY <1>4 DEF DispatchInv, Dispatch!random_instruction
  <2>2. Dispatch!Taken(dut') = Dispatch!Due(dut')  BY <1>1, <2>1, OfferedIsDue
  <2>3. /\ {"taken", "due"} \subseteq DOMAIN board'
        /\ board'.taken = Dispatch!Taken(dut') /\ board'.due = Dispatch!Due(dut')
    BY <1>4 DEF Dispatch!random_instruction
  <2> QED  BY <2>1, <2>2, <2>3 DEF DispatchInv, Dispatch!TakenOnce
<1> QED  BY <1>2, <1>3, <1>4 DEF Dispatch!BenchNext

-----------------------------------------------------------------------------
\* The benches one by one: each of them leaves the others' state alone.

SuiteInv == /\ bench = "gpu_op_queue" => CopyInv
            /\ bench = "instruction_buffer" => BufferInv
            /\ bench = "dispatcher" => DispatchInv

LEMMA SuiteInitInv == SuiteInit => SuiteInv
<1> SUFFICES ASSUME SuiteInit PROVE SuiteInv
  OBVIOUS
<1>1. CASE SmallInit
  BY <1>1, BufferInit, DispatchInit DEF SmallInit, SuiteInv
<1>2. CASE bench = "gpu_op_queue" /\ BenchInit
  BY <1>2, BenchInitCopy DEF SuiteInv
<1>3. CASE bench \in {"red_pitaya_cpu_wrapper", "cpu_top"}
  BY <1>3 DEF SuiteInv
<1> QED  BY <1>1, <1>2, <1>3 DEF SuiteInit

LEMMA SuiteStepInv ==
  ASSUME RandomOps \in Nat, SuiteInv, [SuiteNext]_suiteVars
  PROVE  SuiteInv'
<1>1. CASE op_queue_bench
  BY <1>1, BenchStepCopy DEF op_queue_bench, SuiteInv
<1>2. CASE small_bench
  <2>1. bench' = bench /\ bench # "gpu_op_queue"  BY <1>2 DEF small_bench
  <2>2. bench = "instruction_buffer" => BufferInv'
    BY <1>2, BufferBenchStep DEF small_bench, SuiteInv
  <2>3. bench = "dispatcher" => DispatchInv'
    BY <1>2, DispatchStep DEF small_bench, SuiteInv
  <2> QED  BY <2>1, <2>2, <2>3 DEF SuiteInv
<1>3. CASE wrapper_bench \/ cpu_top_bench
  BY <1>3 DEF wrapper_bench, cpu_top_bench, SuiteInv
<1>4. CASE UNCHANGED suiteVars
  <2>1. bench' = bench /\ dut' = dut /\ board' = board /\ UNCHANGED <<test, at, ring>>
    BY <1>4 DEF suiteVars
  <2>2. CopyInv => CopyInv'
    <3>1. \A E : IInv(E) => IInv(E)'
      BY <2>1 DEF ring, IInv, RingTyped, RingConsistent, SlotOf
    <3>2. Contents' = Contents  BY <2>1 DEF ring, Contents, SlotOf
    <3> QED  BY <2>1, <3>1, <3>2 DEF CopyInv, RingSound, ring
  <2>3. BufferInv => BufferInv'
    BY <2>1 DEF BufferInv, InstBuf!Size, InstBuf!HoldsTheCopy
  <2>4. DispatchInv => DispatchInv'  BY <2>1 DEF DispatchInv, Dispatch!TakenOnce
  <2> QED  BY <2>1, <2>2, <2>3, <2>4 DEF SuiteInv
<1> QED  BY <1>1, <1>2, <1>3, <1>4 DEF SuiteNext

\* tb/gpu_op_queue_tb.py and tb/instruction_buffer_tb.py: after every step of every
\* test the ring holds the test's own copy of it, in order, for every depth of the
\* queue and every length of the random tests.
THEOREM CopiesAreHeld ==
  ASSUME RandomOps \in Nat
  PROVE  SuiteSpec => []HoldsTheCopy
<1>1. SuiteInit => SuiteInv
  BY SuiteInitInv
<1>2. SuiteInv /\ [SuiteNext]_suiteVars => SuiteInv'
  BY SuiteStepInv
<1>3. SuiteInv => HoldsTheCopy
  BY CopyIsHeld DEF SuiteInv, HoldsTheCopy, BufferInv
<1> QED
  BY <1>1, <1>2, <1>3, PTL DEF SuiteSpec

\* tb/dispatcher_tb.py: every instruction sent to a coprocessor that is ready, and not
\* stalled, is taken by it once, and nothing else is, however many the random stream has.
THEOREM InstructionsTakenOnce ==
  ASSUME RandomOps \in Nat
  PROVE  SuiteSpec => []TakenOnce
<1>1. SuiteInit => SuiteInv
  BY SuiteInitInv
<1>2. SuiteInv /\ [SuiteNext]_suiteVars => SuiteInv'
  BY SuiteStepInv
<1>3. SuiteInv => TakenOnce
  BY DEF SuiteInv, TakenOnce, DispatchInv
<1> QED
  BY <1>1, <1>2, <1>3, PTL DEF SuiteSpec

-----------------------------------------------------------------------------
\* The forwarding multiplexer and the bench's model of it.

Agree(read_reg, ex_rd, mem_rd, ex_writes, mem_writes, load) ==
  LET ex_end == Bypass!PipelineStage(ex_rd, ex_writes, FALSE)
      mem_end == Bypass!PipelineStage(mem_rd, mem_writes, load)
  IN Bypass!bypass_out(Bypass!Wires(read_reg, ex_end, mem_end)) =
       Bypass!determine_forwarding(read_reg, ex_end, mem_end)

LEMMA ForwardsTheNewest ==
  ASSUME NEW read_reg, NEW ex_rd, NEW mem_rd, NEW ex_writes \in BOOLEAN,
         NEW mem_writes \in BOOLEAN, NEW load \in BOOLEAN
  PROVE  Agree(read_reg, ex_rd, mem_rd, ex_writes, mem_writes, load)
<1> DEFINE ex_end == Bypass!PipelineStage(ex_rd, ex_writes, FALSE)
           mem_end == Bypass!PipelineStage(mem_rd, mem_writes, load)
<1> DEFINE wires == Bypass!Wires(read_reg, ex_end, mem_end)
           out == Bypass!bypass_out(wires)
           model == Bypass!determine_forwarding(read_reg, ex_end, mem_end)
           ex == ex_writes /\ ex_rd = read_reg /\ read_reg # 0
           mm == mem_writes /\ mem_rd = read_reg /\ read_reg # 0
<1>1. /\ wires.file_out = "REG_FILE" /\ wires.file_out_rs = read_reg
      /\ wires.ex_pro = "EX" /\ wires.ex_rd = ex_rd /\ wires.ex_wr_reg_en = ex_writes
      /\ wires.mm_rd = mem_rd /\ wires.mm_wr_reg_en = mem_writes
      /\ wires.mm_is_load = load
      /\ (IF load THEN wires.mm_mem ELSE wires.mm_pro) = "MEM"
  BY DEF Bypass!Wires, Bypass!PipelineStage
<1>2. /\ Bypass!writes_to_register(ex_end, read_reg) = ex
      /\ Bypass!writes_to_register(mem_end, read_reg) = mm
  BY DEF Bypass!writes_to_register, Bypass!PipelineStage
<1>3. model = IF ex THEN "EX" ELSE IF mm THEN "MEM" ELSE "REG_FILE"
  BY <1>2 DEF Bypass!determine_forwarding, Bypass!detect_hazard
<1> HIDE DEF wires
<1>4. out = IF ex THEN "EX" ELSE IF mm THEN "MEM" ELSE "REG_FILE"
  BY <1>1 DEF Bypass!bypass_out
<1> HIDE DEF out, model, ex, mm
<1>5. out = model  BY <1>3, <1>4
<1> QED  BY <1>5 DEF Agree, out, model, wires

\* tb/bypass_mux_tb.py: whatever the two stages write and whatever is read, the
\* design forwards the value the bench's model of it names.
THEOREM ForwardingAgrees == SuiteSpec => []AgreesOnEveryStage
<1>1. Bypass!AgreesOnEveryStage
  <2>1. \A read_reg \in 0..2, ex_rd, mem_rd \in 0..2, ex_writes, mem_writes, load \in BOOLEAN :
          Agree(read_reg, ex_rd, mem_rd, ex_writes, mem_writes, load)
    BY ForwardsTheNewest
  <2> QED  BY <2>1, Zenon DEF Bypass!AgreesOnEveryStage, Agree
<1>2. AgreesOnEveryStage
  BY <1>1 DEF AgreesOnEveryStage
<1> QED
  BY <1>2, PTL

-----------------------------------------------------------------------------
\* The formats of an immediate, for every number that they can carry.

\* The offsets of b bits and a sign.
Bound(b) == CASE b = 11 -> 2048 [] b = 12 -> 4096 [] b = 20 -> 1048576
Offsets(b) == {n \in Int : -Bound(b) <= n /\ n < Bound(b)}

LEMMA SignedBits ==
  ASSUME NEW b \in {11, 12, 20}, NEW n \in Offsets(b), NEW i \in b..30
  PROVE  n \in Int /\ ((n \div Power(i)) % 2 = 1 <=> n < 0)
<1>1. i \in 0..30 /\ Power(i) \in Nat \ {0} /\ Bound(b) <= Power(i)
  BY PowersOfTwo, SMT DEF Bound
<1>2. Bound(b) \in Nat \ {0} /\ n \in Int /\ -Bound(b) <= n /\ n < Bound(b)
  BY DEF Offsets, Bound
<1>3. -Power(i) <= n /\ n < Power(i)
  BY <1>1, <1>2
<1> QED  BY <1>1, <1>2, <1>3, SignBit

\* What an offset is as a word: its sign in the bits above it, and even if it is even.
LEMMA SignedWord ==
  ASSUME NEW b \in {11, 12, 20}, NEW n \in Offsets(b)
  PROVE  /\ \A i \in b..31 : i \in Branch!Int32(n) <=> 31 \in Branch!Int32(n)
         /\ n % 2 = 0 => 0 \notin Branch!Int32(n)
<1>1. \A i \in b..30 : (n \div 2^i) % 2 = 1 <=> n < 0
  BY SignedBits DEF Power
<1>2. 31 \in Branch!Int32(n) <=> n < 0
  BY DEF Branch!Int32, Branch!Bit
<1>3. \A i \in b..30 : i \in Branch!Int32(n) <=> n < 0
  BY <1>1 DEF Branch!Int32, Branch!Bit
<1>4. \A i \in b..31 : i \in b..30 \/ i = 31
  OBVIOUS
<1>5. n % 2 = 0 => 0 \notin Branch!Int32(n)
  <2>1. n \in Int
    BY DEF Offsets
  <2>2. 0 \in Branch!Int32(n) => (n \div 2^0) % 2 = 1
    BY DEF Branch!Int32
  <2>3. 2^0 = 1
    BY PowersOfTwo DEF Power
  <2> QED  BY <2>1, <2>2, <2>3
<1> QED  BY <1>2, <1>3, <1>4, <1>5

LEMMA BraRoundTrip ==
  ASSUME NEW imm \in SUBSET (0..31), NEW rest,
         0 \notin imm, \A i \in 12..31 : i \in imm <=> 31 \in imm
  PROVE  LET inst == Branch!encode(Branch!Encoded["bra"], imm, rest)
         IN Branch!bra_offset(inst) = imm /\ Branch!extract_b_immediate(inst) = imm
<1> DEFINE f == Branch!braPlaces
           inst == Branch!encode(f, imm, rest)
<1>1. DOMAIN f = 7..11 \cup 25..31
  BY DEF Branch!braPlaces
<1>2. /\ f[31] = 12 /\ \A p \in 25..30 : f[p] = p - 20
      /\ \A p \in 8..11 : f[p] = p - 7 /\ f[7] = 11
  BY DEF Branch!braPlaces
<1> HIDE DEF f
<1>3. \A p \in DOMAIN f : p \in inst <=> f[p] \in imm
  BY DEF Branch!encode
<1> HIDE DEF inst
<1>4. /\ 31 \in inst <=> 31 \in imm
      /\ \A i \in 5..10 : i + 20 \in inst <=> i \in imm
      /\ \A i \in 1..4 : i + 7 \in inst <=> i \in imm
      /\ 7 \in inst <=> 11 \in imm
  BY <1>1, <1>2, <1>3
<1>5. \A i \in 0..31 : i = 0 \/ i \in 1..4 \/ i \in 5..10 \/ i = 11 \/ i \in 12..31
  OBVIOUS
<1>6. Branch!bra_offset(inst) = imm
  BY <1>4, <1>5 DEF Branch!bra_offset
<1>7. Branch!extract_b_immediate(inst) = imm
  <2>1. Branch!extract_b_immediate(inst) \subseteq 0..31
    BY DEF Branch!extract_b_immediate, Branch!Bit
  <2>2. \A i \in 0..31 : i \in Branch!extract_b_immediate(inst) <=> i \in imm
    BY <1>4, <1>5 DEF Branch!extract_b_immediate, Branch!Bit
  <2> QED  BY <2>1, <2>2
<1> QED  BY <1>6, <1>7 DEF inst, f, Branch!Encoded

LEMMA JalRoundTrip ==
  ASSUME NEW imm \in SUBSET (0..31), NEW rest,
         0 \notin imm, \A i \in 20..31 : i \in imm <=> 31 \in imm
  PROVE  LET inst == Branch!encode(Branch!Encoded["jal"], imm, rest)
         IN Branch!jal_offset(inst) = imm /\ Branch!extract_j_immediate(inst) = imm
<1> DEFINE f == Branch!jalPlaces
           inst == Branch!encode(f, imm, rest)
<1>1. DOMAIN f = 12..31
  BY DEF Branch!jalPlaces
<1>2. /\ f[31] = 20 /\ \A p \in 21..30 : f[p] = p - 20
      /\ f[20] = 11 /\ \A p \in 12..19 : f[p] = p
  BY DEF Branch!jalPlaces
<1> HIDE DEF f
<1>3. \A p \in DOMAIN f : p \in inst <=> f[p] \in imm
  BY DEF Branch!encode
<1> HIDE DEF inst
<1>4. /\ 31 \in inst <=> 31 \in imm
      /\ \A i \in 1..10 : i + 20 \in inst <=> i \in imm
      /\ \A i \in 12..19 : i \in inst <=> i \in imm
      /\ 20 \in inst <=> 11 \in imm
  BY <1>1, <1>2, <1>3
<1>5. \A i \in 0..31 : i = 0 \/ i \in 1..10 \/ i = 11 \/ i \in 12..19 \/ i \in 20..31
  OBVIOUS
<1>6. Branch!jal_offset(inst) = imm
  BY <1>4, <1>5 DEF Branch!jal_offset
<1>7. Branch!extract_j_immediate(inst) = imm
  <2>1. Branch!extract_j_immediate(inst) \subseteq 0..31
    BY DEF Branch!extract_j_immediate, Branch!Bit
  <2>2. \A i \in 0..31 : i \in Branch!extract_j_immediate(inst) <=> i \in imm
    BY <1>4, <1>5 DEF Branch!extract_j_immediate, Branch!Bit
  <2> QED  BY <2>1, <2>2
<1> QED  BY <1>6, <1>7 DEF inst, f, Branch!Encoded

LEMMA JalrRoundTrip ==
  ASSUME NEW imm \in SUBSET (0..31), NEW rest, \A i \in 11..31 : i \in imm <=> 31 \in imm
  PROVE  LET inst == Branch!encode(Branch!Encoded["jalr"], imm, rest)
         IN Branch!jalr_offset(inst) = imm /\ Branch!extract_i_immediate(inst) = imm
<1> DEFINE f == Branch!jalrPlaces
           inst == Branch!encode(f, imm, rest)
<1>1. DOMAIN f = 20..31 /\ \A p \in 20..31 : f[p] = p - 20
  BY DEF Branch!jalrPlaces
<1> HIDE DEF f
<1>2. \A p \in DOMAIN f : p \in inst <=> f[p] \in imm
  BY DEF Branch!encode
<1> HIDE DEF inst
<1>3. \A i \in 0..11 : i + 20 \in inst <=> i \in imm
  BY <1>1, <1>2
<1>4. 31 \in inst <=> 31 \in imm
  BY <1>3
<1>5. \A i \in 0..31 : i \in 0..10 \/ i = 11 \/ i \in 12..31
  OBVIOUS
<1>6. Branch!jalr_offset(inst) = imm
  <2>1. Branch!jalr_offset(inst) \subseteq 0..31
    BY DEF Branch!jalr_offset, Branch!Bit
  <2>2. \A i \in 0..31 : i \in Branch!jalr_offset(inst) <=> i \in imm
    BY <1>3, <1>4, <1>5 DEF Branch!jalr_offset, Branch!Bit
  <2> QED  BY <2>1, <2>2
<1>7. Branch!extract_i_immediate(inst) = imm
  <2>1. Branch!extract_i_immediate(inst) \subseteq 0..31
    BY DEF Branch!extract_i_immediate, Branch!Bit
  <2>2. \A i \in 0..31 : i \in Branch!extract_i_immediate(inst) <=> i \in imm
    BY <1>3, <1>4, <1>5 DEF Branch!extract_i_immediate, Branch!Bit
  <2> QED  BY <2>1, <2>2
<1> QED  BY <1>6, <1>7 DEF inst, f, Branch!Encoded

\* The offsets that the ISA lets an instruction of a kind carry.
BranchOffsets ==
  [bra  |-> {n \in Offsets(12) : n % 2 = 0},
   jal  |-> {n \in Offsets(20) : n % 2 = 0},
   jalr |-> Offsets(11)]

\* branch_calc, tb/branch_calc_tb.py: for every kind of instruction, every base, every
\* offset that the ISA lets it carry and whatever else the instruction says, the address
\* is the base plus the offset, and the bench's calculation from the instruction agrees.
THEOREM BranchesReachTheirTargets ==
  ASSUME NEW kind \in {"bra", "jal", "jalr"}, NEW n \in BranchOffsets[kind], NEW base, NEW rest
  PROVE  LET inst == Branch!encode(Branch!Encoded[kind], Branch!Int32(n), rest)
         IN /\ Branch!Address(kind, base, inst, base) = Branch!Target(kind, base, n)
            /\ Branch!calculate_address(kind, base, inst, base) = Branch!Target(kind, base, n)
<1> DEFINE imm == Branch!Int32(n)
<1>1. imm \in SUBSET (0..31)
  BY DEF Branch!Int32, Branch!Bit
<1>2. CASE kind = "bra"
  <2>1. n \in Offsets(12) /\ n % 2 = 0
    BY <1>2 DEF BranchOffsets
  <2>2. 0 \notin imm /\ \A i \in 12..31 : i \in imm <=> 31 \in imm
    BY <2>1, SignedWord
  <2> HIDE DEF imm
  <2>3. LET inst == Branch!encode(Branch!Encoded["bra"], imm, rest)
        IN Branch!bra_offset(inst) = imm /\ Branch!extract_b_immediate(inst) = imm
    BY <1>1, <2>2, BraRoundTrip
  <2> QED
    BY <1>2, <2>3 DEF imm, Branch!Address, Branch!calculate_address, Branch!Target
<1>3. CASE kind = "jal"
  <2>1. n \in Offsets(20) /\ n % 2 = 0
    BY <1>3 DEF BranchOffsets
  <2>2. 0 \notin imm /\ \A i \in 20..31 : i \in imm <=> 31 \in imm
    BY <2>1, SignedWord
  <2> HIDE DEF imm
  <2>3. LET inst == Branch!encode(Branch!Encoded["jal"], imm, rest)
        IN Branch!jal_offset(inst) = imm /\ Branch!extract_j_immediate(inst) = imm
    BY <1>1, <2>2, JalRoundTrip
  <2> QED
    BY <1>3, <2>3 DEF imm, Branch!Address, Branch!calculate_address, Branch!Target
<1>4. CASE kind = "jalr"
  <2>1. n \in Offsets(11)
    BY <1>4 DEF BranchOffsets
  <2>2. \A i \in 11..31 : i \in imm <=> 31 \in imm
    BY <2>1, SignedWord
  <2> HIDE DEF imm
  <2>3. LET inst == Branch!encode(Branch!Encoded["jalr"], imm, rest)
        IN Branch!jalr_offset(inst) = imm /\ Branch!extract_i_immediate(inst) = imm
    BY <1>1, <2>2, JalrRoundTrip
  <2> QED
    BY <1>4, <2>3 DEF imm, Branch!Address, Branch!calculate_address, Branch!Target
<1> QED  BY <1>2, <1>3, <1>4

\* The cases of the bench's scripts: their offsets are the ISA's.
BranchCase ==
  {c \in [kind : {"bra", "jal", "jalr"}, imms : SUBSET Int, bases : SUBSET SUBSET Branch!Bit,
          rests : SUBSET SUBSET Branch!Bit, calculated : BOOLEAN] :
     c.imms \subseteq BranchOffsets[c.kind]}

LEMMA PowersFit ==
  /\ Branch!Powers(11) \subseteq BranchOffsets["bra"]
  /\ Branch!Powers(19) \subseteq BranchOffsets["jal"]
  /\ Branch!Powers(11) \cup {1, -1, 2047} \subseteq BranchOffsets["jalr"]
<1>1. \A m \in {11, 19} : Branch!Powers(m) =
         {0} \cup {Power(k) : k \in 1..(m - 1)} \cup {-Power(k) : k \in 1..m} \cup {Power(m) - 2}
  BY DEF Branch!Powers, Power
<1>2. ASSUME NEW m \in {11, 19}, NEW n \in Branch!Powers(m)
      PROVE  n \in Int /\ -Power(m) <= n /\ n < Power(m) /\ n % 2 = 0
  <2>1. Power(m) \in Int /\ 2 <= Power(m) /\ Power(m) % 2 = 0
    BY PowersOfTwo, SMT
  <2>2. ASSUME NEW k \in 1..m
        PROVE  /\ Power(k) \in Int /\ 2 <= Power(k) /\ Power(k) <= Power(m)
               /\ Power(k) % 2 = 0 /\ (-Power(k)) % 2 = 0
    <3>1. Power(k) \in Int /\ 2 <= Power(k) /\ Power(k) % 2 = 0 /\ Power(k) <= Power(m)
      BY PowersOfTwo, SMT
    <3> QED  BY <3>1
  <2>3. \A k \in 1..(m - 1) : Power(k) < Power(m)
    BY PowersOfTwo, SMT
  <2>4. \/ n = 0 \/ n = Power(m) - 2
        \/ \E k \in 1..(m - 1) : n = Power(k)
        \/ \E k \in 1..m : n = -Power(k)
    BY <1>1
  <2> QED  BY <2>1, <2>2, <2>3, <2>4
<1>3. \A n \in Branch!Powers(11) : n \in Int /\ -2048 <= n /\ n < 2048 /\ n % 2 = 0
  BY <1>2, PowersOfTwo, SMT
<1>4. \A n \in Branch!Powers(19) : n \in Int /\ -524288 <= n /\ n < 524288 /\ n % 2 = 0
  BY <1>2, PowersOfTwo, SMT
<1> QED  BY <1>3, <1>4, SMT DEF BranchOffsets, Offsets, Bound

LEMMA BranchScripts ==
  ASSUME NEW t \in DOMAIN Branch!Scripts
  PROVE  Branch!Scripts[t] \in Seq(BranchCase)
<1>1. \A hi, lo : Branch!Word(hi, lo) \subseteq Branch!Bit
  BY DEF Branch!Word
<1> DEFINE fits(kind) == BranchOffsets[kind]
<1>0. \A kind \in {"bra", "jal", "jalr"} : fits(kind) \subseteq Int
  BY DEF BranchOffsets, Offsets
<1> HIDE DEF fits
<1>2. ASSUME NEW kind \in {"bra", "jal", "jalr"}, NEW imms \in SUBSET BranchOffsets[kind],
             NEW bases \in SUBSET SUBSET Branch!Bit
      PROVE  Branch!AnyOf(kind, imms, bases) \in Seq(BranchCase)
  <2> DEFINE case == [kind |-> kind, imms |-> imms, bases |-> bases,
                      rests |-> {{}, Branch!Bit}, calculated |-> TRUE]
  <2>1. imms \in SUBSET Int
    BY <1>0 DEF fits
  <2>2. case \in BranchCase
    BY <2>1 DEF BranchCase
  <2>3. Branch!AnyOf(kind, imms, bases) = <<case>>
    BY DEF Branch!AnyOf
  <2> HIDE DEF case
  <2> QED  BY <2>2, <2>3
<1>3. ASSUME NEW kind \in {"bra", "jal", "jalr"}, NEW base \in SUBSET Branch!Bit,
             NEW imm \in BranchOffsets[kind]
      PROVE  Branch!Fixed(kind, base, imm) \in Seq(BranchCase)
  <2>1. imm \in Int
    BY DEF BranchOffsets, Offsets
  <2> QED  BY <2>1 DEF Branch!Fixed, BranchCase
<1>4. Branch!Bases \cup {Branch!Word(65535, 65535)} \in SUBSET SUBSET Branch!Bit
  BY <1>1 DEF Branch!Bases
<1>5. Branch!test_risc_v_branch_address_calculation \in Seq(BranchCase)
  <2>1. Branch!AnyOf("bra", Branch!Powers(11), Branch!Bases) \in Seq(BranchCase)
    BY <1>2, <1>4, PowersFit, SMT
  <2>2. Branch!AnyOf("jal", Branch!Powers(19), Branch!Bases) \in Seq(BranchCase)
    BY <1>2, <1>4, PowersFit, SMT
  <2>3. Branch!AnyOf("jalr", Branch!Powers(11) \cup {1, -1, 2047},
                     Branch!Bases \cup {Branch!Word(65535, 65535)}) \in Seq(BranchCase)
    BY <1>2, <1>4, PowersFit, SMT
  <2> QED  BY <2>1, <2>2, <2>3 DEF Branch!test_risc_v_branch_address_calculation
<1>6. Branch!test_specific_risc_v_cases \in Seq(BranchCase)
  <2>1. /\ {8, -12} \subseteq BranchOffsets["bra"]
        /\ {1024, -2048} \subseteq BranchOffsets["jal"]
        /\ {100, -500, 0} \subseteq BranchOffsets["jalr"]
    BY SMT DEF BranchOffsets, Offsets, Bound
  <2>2. /\ Branch!Fixed("bra", Branch!Word(0, 4096), 8) \in Seq(BranchCase)
        /\ Branch!Fixed("bra", Branch!Word(0, 8192), -12) \in Seq(BranchCase)
        /\ Branch!Fixed("jal", Branch!Word(0, 12288), 1024) \in Seq(BranchCase)
        /\ Branch!Fixed("jal", Branch!Word(0, 16384), -2048) \in Seq(BranchCase)
    BY <1>1, <1>3, <2>1, SMT
  <2>3. /\ Branch!Fixed("jalr", Branch!Word(4660, 22136), 100) \in Seq(BranchCase)
        /\ Branch!Fixed("jalr", Branch!Word(43981, 61184), -500) \in Seq(BranchCase)
        /\ Branch!Fixed("jalr", Branch!Word(4660, 22137), 0) \in Seq(BranchCase)
    BY <1>1, <1>3, <2>1, SMT
  <2> QED  BY <2>2, <2>3 DEF Branch!test_specific_risc_v_cases
<1>7. Branch!test_edge_cases \in Seq(BranchCase)
  <2>1. /\ {4094, -4096} \subseteq BranchOffsets["bra"]
        /\ {1048574, -1048576} \subseteq BranchOffsets["jal"]
    BY SMT DEF BranchOffsets, Offsets, Bound
  <2>2. /\ Branch!Fixed("bra", Branch!Word(0, 4096), 4094) \in Seq(BranchCase)
        /\ Branch!Fixed("bra", Branch!Word(0, 8192), -4096) \in Seq(BranchCase)
        /\ Branch!Fixed("jal", Branch!Word(0, 12288), 1048574) \in Seq(BranchCase)
        /\ Branch!Fixed("jal", Branch!Word(16, 0), -1048576) \in Seq(BranchCase)
    BY <1>1, <1>3, <2>1, SMT
  <2> QED  BY <2>2 DEF Branch!test_edge_cases
<1> QED  BY <1>5, <1>6, <1>7 DEF Branch!Scripts

BranchInv == board = TRUE /\ test \in DOMAIN Branch!Scripts /\ at \in Nat

LEMMA BranchStep ==
  ASSUME BranchInv, Branch!BenchNext
  PROVE  BranchInv'
<1>1. Branch!Script \in Seq(BranchCase)
  BY BranchScripts DEF BranchInv, Branch!Script
<1>2. at + 1 \in 1..Len(Branch!Script)
  BY <1>1 DEF BranchInv, Branch!BenchNext, Branch!drive, Branch!Done
<1>3. Branch!Now \in BranchCase
  BY <1>1, <1>2 DEF Branch!Now
<1>4. PICK n \in Branch!Now.imms, base \in Branch!Now.bases, rest \in Branch!Now.rests :
        LET inst == Branch!encode(Branch!Encoded[Branch!Now.kind], Branch!Int32(n), rest)
        IN board' = (Branch!Address(Branch!Now.kind, base, inst, base)
                       = Branch!Target(Branch!Now.kind, base, n))
  BY DEF Branch!BenchNext, Branch!drive
<1>5. Branch!Now.kind \in {"bra", "jal", "jalr"} /\ n \in BranchOffsets[Branch!Now.kind]
  BY <1>3 DEF BranchCase
<1>6. board' = TRUE
  BY <1>4, <1>5, BranchesReachTheirTargets
<1>7. test' = test /\ at' = at + 1
  BY DEF Branch!BenchNext, Branch!drive, Branch!Observe
<1> QED  BY <1>6, <1>7 DEF BranchInv

\* The generator of tb/uvm.  A field that was written is read back.
LEMMA FieldReadsBack ==
  ASSUME NEW inst, NEW imm, NEW low \in Int, NEW high \in Int, NEW place \in Int,
         \A p \in low..high : p \in inst <=> p + place - low \in imm
  PROVE  Uvm!Field(inst, low, high, place) = imm \cap (place..(place + high - low))
<1> DEFINE field == {j + place - low : j \in inst \cap (low..high)}
           part == imm \cap (place..(place + high - low))
<1>1. ASSUME NEW i \in field PROVE i \in part
  BY <1>1
<1>2. ASSUME NEW i \in part PROVE i \in field
  <2> DEFINE j == i + low - place
  <2>1. i \in Int /\ j \in low..high /\ j + place - low = i
    BY <1>2
  <2>2. j \in inst
    BY <1>2, <2>1
  <2> QED  BY <2>1, <2>2
<1> QED  BY <1>1, <1>2 DEF Uvm!Field

LEMMA ExtendsSign ==
  ASSUME NEW imm \in SUBSET (0..31), NEW bits \in 1..31, NEW value,
         value = imm \cap (0..(bits - 1)),
         \A i \in (bits - 1)..31 : i \in imm <=> 31 \in imm
  PROVE  Uvm!sign_extend(value, bits) = imm
<1>1. bits - 1 \in value <=> 31 \in imm
  OBVIOUS
<1>2. \A i \in 0..31 : i \in Uvm!sign_extend(value, bits) <=> i \in imm
  BY <1>1 DEF Uvm!sign_extend
<1>3. Uvm!sign_extend(value, bits) \subseteq 0..31
  BY DEF Uvm!sign_extend
<1> QED  BY <1>2, <1>3

LEMMA DecodesI ==
  ASSUME NEW imm \in SUBSET (0..31), \A i \in 11..31 : i \in imm <=> 31 \in imm
  PROVE  Uvm!decode("I", Uvm!encode_word("I", imm)) = imm
<1> DEFINE f == Uvm!I_Places
           inst == {p \in DOMAIN f : f[p] \in imm}
<1>1. DOMAIN f = 20..31 /\ \A p \in 20..31 : f[p] = p - 20
  BY DEF Uvm!I_Places
<1> HIDE DEF f
<1>2. \A p \in 20..31 : p \in inst <=> p + 0 - 20 \in imm
  BY <1>1
<1>3. Uvm!encode_word("I", imm) = inst
  BY DEF f, Uvm!encode_word, Uvm!encode
<1> HIDE DEF inst
<1>4. Uvm!Field(inst, 20, 31, 0) = imm \cap (0..11)
  BY <1>2, FieldReadsBack
<1>5. Uvm!sign_extend(imm \cap (0..11), 12) = imm
  BY ExtendsSign
<1> QED  BY <1>3, <1>4, <1>5 DEF Uvm!decode

LEMMA DecodesS ==
  ASSUME NEW imm \in SUBSET (0..31), \A i \in 11..31 : i \in imm <=> 31 \in imm
  PROVE  Uvm!decode("S", Uvm!encode_word("S", imm)) = imm
<1> DEFINE f == Uvm!S_Places
           inst == {p \in DOMAIN f : f[p] \in imm}
<1>1. /\ DOMAIN f = 7..11 \cup 25..31
      /\ \A p \in 25..31 : f[p] = p - 20 /\ \A q \in 7..11 : f[q] = q - 7
  BY DEF Uvm!S_Places
<1> HIDE DEF f
<1>2. /\ \A p \in 25..31 : p \in inst <=> p + 5 - 25 \in imm
      /\ \A p \in 7..11 : p \in inst <=> p + 0 - 7 \in imm
  BY <1>1
<1>3. Uvm!encode_word("S", imm) = inst
  BY DEF f, Uvm!encode_word, Uvm!encode
<1> HIDE DEF inst
<1>4. /\ Uvm!Field(inst, 25, 31, 5) = imm \cap (5..11)
      /\ Uvm!Field(inst, 7, 11, 0) = imm \cap (0..4)
  BY <1>2, FieldReadsBack
<1>5. (imm \cap (5..11)) \cup (imm \cap (0..4)) = imm \cap (0..11)
  OBVIOUS
<1>6. Uvm!sign_extend(imm \cap (0..11), 12) = imm
  BY ExtendsSign
<1> QED  BY <1>3, <1>4, <1>5, <1>6 DEF Uvm!decode

LEMMA DecodesB ==
  ASSUME NEW imm \in SUBSET (0..31), 0 \notin imm, \A i \in 12..31 : i \in imm <=> 31 \in imm
  PROVE  Uvm!decode("B", Uvm!encode_word("B", imm)) = imm
<1> DEFINE f == Uvm!B_Places
           inst == {p \in DOMAIN f : f[p] \in imm}
<1>1. /\ DOMAIN f = 7..11 \cup 25..31
      /\ f[31] = 12 /\ f[7] = 11
      /\ \A p \in 25..30 : f[p] = p - 20
      /\ \A p \in 8..11 : f[p] = p - 7
  BY DEF Uvm!B_Places
<1> HIDE DEF f
<1>2. /\ \A p \in 31..31 : p \in inst <=> p + 12 - 31 \in imm
      /\ \A p \in 7..7 : p \in inst <=> p + 11 - 7 \in imm
      /\ \A p \in 25..30 : p \in inst <=> p + 5 - 25 \in imm
      /\ \A p \in 8..11 : p \in inst <=> p + 1 - 8 \in imm
  BY <1>1
<1>3. Uvm!encode_word("B", imm) = inst
  BY DEF f, Uvm!encode_word, Uvm!encode
<1> HIDE DEF inst
<1>4. /\ Uvm!Field(inst, 31, 31, 12) = imm \cap (12..12)
      /\ Uvm!Field(inst, 7, 7, 11) = imm \cap (11..11)
  BY <1>2, FieldReadsBack
<1>5. /\ Uvm!Field(inst, 25, 30, 5) = imm \cap (5..10)
      /\ Uvm!Field(inst, 8, 11, 1) = imm \cap (1..4)
  BY <1>2, FieldReadsBack
<1>6. (imm \cap (12..12)) \cup (imm \cap (11..11)) \cup (imm \cap (5..10))
        \cup (imm \cap (1..4)) = imm \cap (0..12)
  OBVIOUS
<1>7. Uvm!sign_extend(imm \cap (0..12), 13) = imm
  BY ExtendsSign
<1> QED  BY <1>3, <1>4, <1>5, <1>6, <1>7 DEF Uvm!decode

LEMMA DecodesJ ==
  ASSUME NEW imm \in SUBSET (0..31), 0 \notin imm, \A i \in 20..31 : i \in imm <=> 31 \in imm
  PROVE  Uvm!decode("J", Uvm!encode_word("J", imm)) = imm
<1> DEFINE f == Uvm!J_Places
           inst == {p \in DOMAIN f : f[p] \in imm}
<1>1. /\ DOMAIN f = 12..31
      /\ f[31] = 20 /\ f[20] = 11
      /\ \A p \in 21..30 : f[p] = p - 20
      /\ \A p \in 12..19 : f[p] = p
  BY DEF Uvm!J_Places
<1> HIDE DEF f
<1>2. /\ \A p \in 31..31 : p \in inst <=> p + 20 - 31 \in imm
      /\ \A p \in 12..19 : p \in inst <=> p + 12 - 12 \in imm
      /\ \A p \in 20..20 : p \in inst <=> p + 11 - 20 \in imm
      /\ \A p \in 21..30 : p \in inst <=> p + 1 - 21 \in imm
  BY <1>1
<1>3. Uvm!encode_word("J", imm) = inst
  BY DEF f, Uvm!encode_word, Uvm!encode
<1> HIDE DEF inst
<1>4. /\ Uvm!Field(inst, 31, 31, 20) = imm \cap (20..20)
      /\ Uvm!Field(inst, 12, 19, 12) = imm \cap (12..19)
  BY <1>2, FieldReadsBack
<1>5. /\ Uvm!Field(inst, 20, 20, 11) = imm \cap (11..11)
      /\ Uvm!Field(inst, 21, 30, 1) = imm \cap (1..10)
  BY <1>2, FieldReadsBack
<1>6. (imm \cap (20..20)) \cup (imm \cap (12..19)) \cup (imm \cap (11..11))
        \cup (imm \cap (1..10)) = imm \cap (0..20)
  OBVIOUS
<1>7. Uvm!sign_extend(imm \cap (0..20), 21) = imm
  BY ExtendsSign
<1> QED  BY <1>3, <1>4, <1>5, <1>6, <1>7 DEF Uvm!decode

\* The numbers that each format of an instruction can carry; format R carries none.
FormatOffsets ==
  [I |-> Offsets(11), S |-> Offsets(11), R |-> {0},
   B |-> {n \in Offsets(12) : n % 2 = 0}, J |-> {n \in Offsets(20) : n % 2 = 0}]

LEMMA ZeroWord == Uvm!Int32(0) = {}
<1>1. \A i \in 0..30 : (0 \div Power(i)) % 2 = 0
  <2>1. \A i \in 0..30 : Power(i) \in Nat \ {0}
    BY PowersOfTwo
  <2>2. \A d \in Nat \ {0} : 0 \div d = 0
    OBVIOUS
  <2> QED  BY <2>1, <2>2
<1>2. Uvm!Int32(0) = {i \in 0..31 : IF i = 31 THEN 0 < 0 ELSE (0 \div Power(i)) % 2 = 1}
  BY DEF Uvm!Int32, Uvm!Bit, Power
<1> QED  BY <1>1, <1>2

\* tb/uvm: an instruction of any format decodes to the number that it was generated
\* with, for every number that the format can carry.
THEOREM InstructionsDecode ==
  ASSUME NEW type \in {"I", "S", "B", "J", "R"}, NEW n \in FormatOffsets[type]
  PROVE  Uvm!decode(type, Uvm!encode_word(type, Uvm!Int32(n))) = Uvm!Int32(n)
<1> DEFINE imm == Branch!Int32(n)
<1>1. imm \in SUBSET (0..31) /\ Uvm!Int32(n) = imm
  BY DEF Branch!Int32, Branch!Bit, Uvm!Int32, Uvm!Bit
<1>2. CASE type \in {"I", "S"}
  <2>1. n \in Offsets(11)
    BY <1>2 DEF FormatOffsets
  <2>2. \A i \in 11..31 : i \in imm <=> 31 \in imm
    BY <2>1, SignedWord
  <2> HIDE DEF imm
  <2> QED  BY <1>1, <1>2, <2>2, DecodesI, DecodesS
<1>3. CASE type = "B"
  <2>1. n \in Offsets(12) /\ n % 2 = 0
    BY <1>3 DEF FormatOffsets
  <2>2. 0 \notin imm /\ \A i \in 12..31 : i \in imm <=> 31 \in imm
    BY <2>1, SignedWord
  <2> HIDE DEF imm
  <2> QED  BY <1>1, <1>3, <2>2, DecodesB
<1>4. CASE type = "J"
  <2>1. n \in Offsets(20) /\ n % 2 = 0
    BY <1>4 DEF FormatOffsets
  <2>2. 0 \notin imm /\ \A i \in 20..31 : i \in imm <=> 31 \in imm
    BY <2>1, SignedWord
  <2> HIDE DEF imm
  <2> QED  BY <1>1, <1>4, <2>2, DecodesJ
<1>5. CASE type = "R"
  <2>1. n = 0
    BY <1>5 DEF FormatOffsets
  <2> QED  BY <1>5, <2>1, ZeroWord DEF Uvm!decode
<1> QED  BY <1>2, <1>3, <1>4, <1>5

LEMMA GeneratedFits ==
  ASSUME NEW category \in Uvm!All, NEW drawn \in Uvm!Generated(category)
  PROVE  /\ drawn[1] \in {"I", "S", "B", "J", "R"}
         /\ drawn[2] \in FormatOffsets[drawn[1]]
<1> DEFINE jumps == Uvm!Signed \cup {524286, -524288, 4096, -524286}
<1>1. /\ \A n \in Uvm!Signed : n \in Int /\ -2048 <= n /\ n <= 2047
      /\ \A n \in Uvm!Offset : n \in Int /\ -2048 <= n /\ n <= 2047
      /\ \A n \in jumps : n \in Int /\ -524288 <= n /\ n <= 524286
  BY SMT DEF Uvm!Signed, Uvm!Offset
<1>2. Uvm!Signed \subseteq Offsets(11) /\ Uvm!Offset \subseteq Offsets(11)
  BY <1>1, SMT DEF Offsets, Bound
<1> HIDE DEF jumps
<1>3. \A n \in Uvm!Even(Uvm!Signed) : n \in Offsets(12) /\ n % 2 = 0
  <2>1. ASSUME NEW m \in Uvm!Signed
        PROVE  2 * (m \div 2) \in Offsets(12) /\ (2 * (m \div 2)) % 2 = 0
    BY <1>1, SMT DEF Offsets, Bound
  <2> QED  BY <2>1 DEF Uvm!Even
<1>4. \A n \in Uvm!Even(jumps) : n \in Offsets(20) /\ n % 2 = 0
  <2>1. ASSUME NEW m \in jumps
        PROVE  2 * (m \div 2) \in Offsets(20) /\ (2 * (m \div 2)) % 2 = 0
    BY <1>1, SMT DEF Offsets, Bound
  <2> QED  BY <2>1 DEF Uvm!Even
<1>5. \/ drawn = <<"R", 0>>
      \/ drawn \in {"I"} \X Uvm!Signed
      \/ drawn \in {"I"} \X Uvm!Offset
      \/ drawn \in {"S"} \X Uvm!Offset
      \/ drawn \in {"B"} \X Uvm!Even(Uvm!Signed)
      \/ drawn \in {"J"} \X Uvm!Even(jumps)
  BY DEF Uvm!Generated, Uvm!All, jumps
<1> QED  BY <1>2, <1>3, <1>4, <1>5 DEF FormatOffsets

UvmStep ==
  [op : {"clock", "reset", "generate", "record", "pc_fell", "few_cycles"},
   categories : SUBSET Uvm!All]

LEMMA UvmScripts ==
  ASSUME NEW t \in DOMAIN Uvm!Scripts
  PROVE  Uvm!Scripts[t] \in Seq(UvmStep)
<1> DEFINE scripts == Seq(UvmStep)
<1>2. ASSUME NEW n \in Nat PROVE Uvm!Clocks(n) \in scripts
  <2>1. Uvm!Step("clock", {}) \in UvmStep
    BY DEF Uvm!Step, UvmStep
  <2>2. Uvm!Clocks(n) \in [1..n -> UvmStep]
    BY <2>1 DEF Uvm!Clocks
  <2> QED  BY <2>2, SeqDef
<1>3. ASSUME NEW n \in Nat, NEW c \in SUBSET Uvm!All PROVE Uvm!Generate(n, c) \in scripts
  <2>1. Uvm!Step("generate", c) \in UvmStep
    BY DEF Uvm!Step, UvmStep
  <2>2. Uvm!Generate(n, c) \in [1..n -> UvmStep]
    BY <2>1 DEF Uvm!Generate
  <2> QED  BY <2>2, SeqDef
<1>4. ASSUME NEW op \in {"reset", "record", "pc_fell", "few_cycles"} PROVE Uvm!Does(op) \in scripts
  <2>1. Uvm!Step(op, {}) \in UvmStep
    BY DEF Uvm!Step, UvmStep
  <2> QED  BY <2>1 DEF Uvm!Does
<1>5. \A u, v \in scripts : u \o v \in scripts
  OBVIOUS
<1> HIDE DEF scripts
<1>6. Uvm!Reset \in scripts /\ Uvm!start \in scripts
  BY <1>2, <1>4, <1>5 DEF Uvm!Reset, Uvm!start
<1>7. ASSUME NEW n \in Nat, NEW c \in SUBSET Uvm!All PROVE Uvm!run_test(n, c) \in scripts
  <2>1. Uvm!Generate(n, c) \in scripts /\ Uvm!Clocks(2 * n) \in scripts
    BY <1>2, <1>3
  <2> QED  BY <1>5, <2>1 DEF Uvm!run_test
<1>8. \A c \in {{"ALU"}, {"LOAD", "STORE", "ALU"}, {"BRANCH", "ALU"}, {"JUMP", "ALU"},
                {"MULTIPLY", "ALU"}, {"ATOMIC", "ALU"}, {"STORE"}, {"ALU", "STORE"}} :
        c \in SUBSET Uvm!All
  BY DEF Uvm!All
<1>9. /\ Uvm!cpu_sanity_test \in scripts
      /\ Uvm!cpu_load_store_test \in scripts
      /\ Uvm!cpu_branch_test \in scripts
      /\ Uvm!cpu_jump_test \in scripts
      /\ Uvm!cpu_multiply_test \in scripts
      /\ Uvm!cpu_atomic_test \in scripts
  BY <1>5, <1>6, <1>7, <1>8
     DEF Uvm!cpu_sanity_test, Uvm!cpu_load_store_test, Uvm!cpu_branch_test,
         Uvm!cpu_jump_test, Uvm!cpu_multiply_test, Uvm!cpu_atomic_test
<1>10. /\ Uvm!cpu_hazard_test \in scripts
       /\ Uvm!cpu_memory_alignment_test \in scripts
       /\ Uvm!cpu_corner_case_test \in scripts
  BY <1>2, <1>3, <1>5, <1>6, <1>8
     DEF Uvm!cpu_hazard_test, Uvm!cpu_memory_alignment_test, Uvm!cpu_corner_case_test
<1>11. /\ Uvm!cpu_pipeline_stress_test \in scripts
       /\ Uvm!cpu_full_regression_test \in scripts
       /\ Uvm!test_cpu_comprehensive_fixed \in scripts
  BY <1>5, <1>6, <1>7, <1>8
     DEF Uvm!cpu_pipeline_stress_test, Uvm!cpu_full_regression_test,
         Uvm!test_cpu_comprehensive_fixed
<1>12. Uvm!cpu_reset_test \in scripts
  <2>1. /\ Uvm!run_test(20, {"ALU"}) \in scripts /\ Uvm!Clocks(5) \in scripts
        /\ Uvm!Does("record") \in scripts /\ Uvm!Does("pc_fell") \in scripts
    BY <1>2, <1>4, <1>7, <1>8
  <2> QED  BY <1>5, <1>6, <2>1 DEF Uvm!cpu_reset_test
<1>13. Uvm!cpu_performance_test \in scripts
  <2>1. /\ Uvm!run_test(50, {"ALU"}) \in scripts /\ Uvm!Clocks(100) \in scripts
        /\ Uvm!Does("record") \in scripts /\ Uvm!Does("few_cycles") \in scripts
    BY <1>2, <1>4, <1>7, <1>8
  <2> QED  BY <1>5, <1>6, <2>1 DEF Uvm!cpu_performance_test
<1> QED  BY <1>9, <1>10, <1>11, <1>12, <1>13 DEF Uvm!Scripts, scripts

UvmInv ==
  /\ test \in DOMAIN Uvm!Scripts /\ at \in Nat
  /\ "faithful" \in DOMAIN board /\ board.faithful = TRUE

LEMMA UvmStepInv ==
  ASSUME UvmInv, Uvm!BenchNext
  PROVE  UvmInv'
<1>1. test' = test /\ at' = at + 1
  BY DEF Uvm!BenchNext, Uvm!clock, Uvm!reset, Uvm!generate, Uvm!record, Uvm!compare, Uvm!Observe
<1>2. CASE Uvm!generate
  <2>1. Uvm!Script \in Seq(UvmStep)
    BY UvmScripts DEF UvmInv, Uvm!Script
  <2>2. at + 1 \in 1..Len(Uvm!Script)
    BY <1>2, <2>1 DEF UvmInv, Uvm!generate, Uvm!Doing, Uvm!Done
  <2>3. Uvm!Now \in UvmStep
    BY <2>1, <2>2 DEF Uvm!Now
  <2>4. PICK category \in Uvm!Now.categories : \E drawn \in Uvm!Generated(category) :
          board' = [board EXCEPT !.instruction_queue = @ + 1,
                      !.faithful =
                        Uvm!decode(drawn[1], Uvm!encode_word(drawn[1], Uvm!Int32(drawn[2])))
                          = Uvm!Int32(drawn[2])]
    BY <1>2 DEF Uvm!generate
  <2>5. PICK drawn \in Uvm!Generated(category) :
          board' = [board EXCEPT !.instruction_queue = @ + 1,
                      !.faithful =
                        Uvm!decode(drawn[1], Uvm!encode_word(drawn[1], Uvm!Int32(drawn[2])))
                          = Uvm!Int32(drawn[2])]
    BY <2>4
  <2>6. category \in Uvm!All
    BY <2>3, <2>4 DEF UvmStep
  <2>7. Uvm!decode(drawn[1], Uvm!encode_word(drawn[1], Uvm!Int32(drawn[2]))) = Uvm!Int32(drawn[2])
    BY <2>5, <2>6, GeneratedFits, InstructionsDecode
  <2> DEFINE decoded == Uvm!decode(drawn[1], Uvm!encode_word(drawn[1], Uvm!Int32(drawn[2])))
             number == Uvm!Int32(drawn[2])
  <2> HIDE DEF decoded, number
  <2>8. board' = [board EXCEPT !.instruction_queue = @ + 1, !.faithful = decoded = number]
    BY <2>5 DEF decoded, number
  <2>9. "faithful" \in DOMAIN board' /\ board'.faithful = (decoded = number)
    BY <2>8 DEF UvmInv
  <2>10. decoded = number
    BY <2>7 DEF decoded, number
  <2>11. board'.faithful = TRUE
    BY <2>9, <2>10
  <2>12. test' \in DOMAIN Uvm!Scripts /\ at' \in Nat
    BY <1>1 DEF UvmInv
  <2> QED  BY <2>9, <2>11, <2>12 DEF UvmInv
<1>3. CASE Uvm!clock \/ Uvm!reset \/ Uvm!record \/ Uvm!compare
  <2>1. "faithful" \in DOMAIN board' /\ board'.faithful = board.faithful
    BY <1>3 DEF UvmInv, Uvm!clock, Uvm!reset, Uvm!record, Uvm!compare
  <2> QED  BY <1>1, <2>1 DEF UvmInv
<1> QED  BY <1>2, <1>3 DEF Uvm!BenchNext

\* The control unit, and what imme extracts for the type it asks for.
Opcodes == {"none", "LUI", "AUIPC", "JAL", "JALR", "BRANCH", "LOAD", "STORE", "OP_IMM", "OP",
            "SYSTEM"}
ControlCase ==
  {c \in [inst : [opcode : Opcodes, funct3 : 0..7], inst_valid : BOOLEAN,
          expected : {Control!get_expected_controls(o, f) : o \in Opcodes, f \in 0..7}
                     \cup {Control!Quiet, Control!Controls({"reg_write", "alu_src"}, 0)}] :
     c.inst_valid \/ c.inst.opcode = "none"}

LEMMA AsksForAnother ==
  ASSUME NEW inst, inst.opcode \in DOMAIN Control!Immediate
  PROVE  Control!Extracted(Control!control_unit(inst, TRUE).imm_type)
           # Control!Immediate[inst.opcode]
         <=> inst.opcode \in {"LUI", "AUIPC", "BRANCH", "JAL"}
<1> DEFINE type == Control!control_unit(inst, TRUE).imm_type
           opcode == inst.opcode
<1>1. opcode \in {"LUI", "AUIPC", "JAL", "JALR", "BRANCH", "LOAD", "STORE", "OP_IMM"}
  BY DEF Control!Immediate
<1>2. /\ opcode \in {"LUI", "AUIPC", "JAL"} => type = 3
      /\ opcode = "BRANCH" => type = 2
      /\ opcode = "STORE" => type = 1
      /\ opcode \in {"JALR", "LOAD", "OP_IMM"} => type = 0
  BY <1>1 DEF Control!control_unit, Control!Controls, Control!IMM
<1> HIDE DEF type
<1>3. /\ Control!Extracted(0) = "I" /\ Control!Extracted(1) = "S"
      /\ Control!Extracted(2) = "U" /\ Control!Extracted(3) = "B"
  BY DEF Control!Extracted, Control!imme
<1>4. Control!Extracted(type) # Control!Immediate[opcode]
         <=> opcode \in {"LUI", "AUIPC", "BRANCH", "JAL"}
  BY <1>1, <1>2, <1>3 DEF Control!Immediate
<1> QED  BY <1>4 DEF type

LEMMA ControlScripts ==
  ASSUME NEW t \in DOMAIN Control!Scripts
  PROVE  Control!Scripts[t] \in Seq(ControlCase)
<1> DEFINE scripts == Seq(ControlCase)
<1>1. ASSUME NEW opcode \in Opcodes \ {"none"}, NEW functs \in Seq(0..7)
      PROVE  Control!AsSpecified(opcode, functs) \in scripts
  <2> DEFINE case(f) == [inst |-> Control!Instruction(opcode, f), inst_valid |-> TRUE,
                         expected |-> Control!get_expected_controls(opcode, f)]
  <2>1. \A f \in 0..7 : case(f) \in ControlCase
    BY DEF ControlCase, Control!Instruction
  <2>2. Control!AsSpecified(opcode, functs) = [i \in DOMAIN functs |-> case(functs[i])]
    BY DEF Control!AsSpecified, Control!Expects
  <2> HIDE DEF case
  <2>3. /\ DOMAIN functs = 1..Len(functs) /\ Len(functs) \in Nat
        /\ \A i \in DOMAIN functs : functs[i] \in 0..7
    OBVIOUS
  <2>4. Control!AsSpecified(opcode, functs) \in [1..Len(functs) -> ControlCase]
    BY <2>1, <2>2, <2>3
  <2> QED  BY <2>3, <2>4, SeqDef
<1>2. \A u, v \in scripts : u \o v \in scripts
  OBVIOUS
<1>3. <<[inst |-> Control!Instruction("none", 0), inst_valid |-> FALSE,
         expected |-> Control!Quiet]>> \in scripts
  BY DEF ControlCase, Control!Instruction, Opcodes
<1>4. Control!test_nop_instruction \in scripts
  BY DEF Control!test_nop_instruction, Control!Expects, ControlCase, Control!Instruction, Opcodes,
         Control!IMM
<1>5. /\ <<0>> \in Seq(0..7) /\ <<0, 1, 4, 5, 6, 7>> \in Seq(0..7)
      /\ <<0, 1, 2, 3, 4, 5, 6>> \in Seq(0..7) /\ <<0, 1, 2, 3>> \in Seq(0..7)
      /\ <<0, 2, 3, 4, 6, 7, 1, 5>> \in Seq(0..7)
      /\ <<0, 0, 1, 2, 3, 4, 5, 5, 6, 7>> \in Seq(0..7) /\ <<0, 0, 1, 2, 3>> \in Seq(0..7)
  OBVIOUS
<1> HIDE DEF scripts
<1>6. /\ Control!AsSpecified("LUI", <<0>>) \in scripts
      /\ Control!AsSpecified("AUIPC", <<0>>) \in scripts
      /\ Control!AsSpecified("JAL", <<0>>) \in scripts
      /\ Control!AsSpecified("JALR", <<0>>) \in scripts
      /\ Control!AsSpecified("BRANCH", <<0, 1, 4, 5, 6, 7>>) \in scripts
      /\ Control!AsSpecified("LOAD", <<0, 1, 2, 3, 4, 5, 6>>) \in scripts
      /\ Control!AsSpecified("STORE", <<0, 1, 2, 3>>) \in scripts
      /\ Control!AsSpecified("OP_IMM", <<0, 2, 3, 4, 6, 7, 1, 5>>) \in scripts
      /\ Control!AsSpecified("OP", <<0, 0, 1, 2, 3, 4, 5, 5, 6, 7>>) \in scripts
      /\ Control!AsSpecified("SYSTEM", <<0, 0, 1, 2, 3>>) \in scripts
  BY <1>1, <1>5 DEF Opcodes
<1>7. Control!test_risc_v_control_unit_compliance \in scripts
  BY <1>2, <1>3, <1>6 DEF Control!test_risc_v_control_unit_compliance
<1> QED  BY <1>4, <1>7 DEF Control!Scripts, scripts

ControlInv == test \in DOMAIN Control!Scripts /\ at \in Nat /\ Control!WrongImmediates

LEMMA ControlStep ==
  ASSUME ControlInv, Control!BenchNext
  PROVE  ControlInv'
<1>1. Control!Script \in Seq(ControlCase)
  BY ControlScripts DEF ControlInv, Control!Script
<1>2. at + 1 \in 1..Len(Control!Script)
  BY <1>1 DEF ControlInv, Control!BenchNext, Control!decode, Control!Done
<1>3. Control!Now \in ControlCase
  BY <1>1, <1>2 DEF Control!Now
<1> DEFINE inst == Control!Now.inst
<1>4. /\ dut' = Control!control_unit(inst, Control!Now.inst_valid) /\ board' = inst.opcode
      /\ test' = test /\ at' = at + 1
  BY DEF Control!BenchNext, Control!decode, Control!Observe
<1>5. Control!Now.inst_valid = TRUE \/ inst.opcode = "none"
  BY <1>3 DEF ControlCase
<1> HIDE DEF inst
<1>6. Control!WrongImmediates'
  <2>1. CASE inst.opcode \in DOMAIN Control!Immediate
    <3>1. inst.opcode # "none"
      BY <2>1 DEF Control!Immediate
    <3>2. dut' = Control!control_unit(inst, TRUE)
      BY <1>4, <1>5, <3>1
    <3> QED  BY <1>4, <2>1, <3>2, AsksForAnother DEF Control!WrongImmediates
  <2>2. CASE inst.opcode \notin DOMAIN Control!Immediate
    BY <1>4, <2>2 DEF Control!WrongImmediates
  <2> QED  BY <2>1, <2>2
<1> QED  BY <1>4, <1>6 DEF ControlInv

ImmediateInv == /\ bench = "branch_calc" => BranchInv
                /\ bench = "uvm" => UvmInv
                /\ bench = "control_unit" => ControlInv

\* tb/branch_calc_tb.py, tb/uvm and tb/control_unit_tb.py: after every step of every test
\* the number that was encoded has come back, but for the formats that control_unit and
\* imme number differently.
THEOREM ImmediatesComeBack == SuiteSpec => []ImmediatesSurvive
<1>1. SuiteInit => ImmediateInv
  <2> SUFFICES ASSUME SuiteInit PROVE ImmediateInv
    OBVIOUS
  <2>1. CASE SmallInit
    <3>1. bench = "branch_calc" => BranchInv
      BY <2>1 DEF SmallInit, Branch!BenchInit, BranchInv, Branch!InitTest
    <3>2. bench = "uvm" => UvmInv
      BY <2>1 DEF SmallInit, Uvm!BenchInit, UvmInv, Uvm!InitTest
    <3>3. bench = "control_unit" => ControlInv
      BY <2>1 DEF SmallInit, Control!BenchInit, ControlInv, Control!InitTest,
                  Control!WrongImmediates, Control!Immediate
    <3> QED  BY <3>1, <3>2, <3>3 DEF ImmediateInv
  <2>2. CASE bench \in {"gpu_op_queue", "red_pitaya_cpu_wrapper", "cpu_top"}
    BY <2>2 DEF ImmediateInv
  <2> QED  BY <2>1, <2>2 DEF SuiteInit
<1>2. ImmediateInv /\ [SuiteNext]_suiteVars => ImmediateInv'
  <2> SUFFICES ASSUME ImmediateInv, [SuiteNext]_suiteVars PROVE ImmediateInv'
    OBVIOUS
  <2>1. CASE small_bench
    <3>1. bench' = bench
      BY <2>1 DEF small_bench
    <3>2. bench = "branch_calc" => BranchInv'
      BY <2>1, BranchStep DEF small_bench, ImmediateInv
    <3>3. bench = "uvm" => UvmInv'
      BY <2>1, UvmStepInv DEF small_bench, ImmediateInv
    <3>4. bench = "control_unit" => ControlInv'
      BY <2>1, ControlStep DEF small_bench, ImmediateInv
    <3> QED  BY <3>1, <3>2, <3>3, <3>4 DEF ImmediateInv
  <2>2. CASE op_queue_bench \/ wrapper_bench \/ cpu_top_bench
    BY <2>2 DEF op_queue_bench, wrapper_bench, cpu_top_bench, ImmediateInv
  <2>3. CASE UNCHANGED suiteVars
    <3>1. bench' = bench /\ dut' = dut /\ board' = board /\ test' = test /\ at' = at
      BY <2>3 DEF suiteVars
    <3> QED  BY <3>1 DEF ImmediateInv, BranchInv, UvmInv, ControlInv, Control!WrongImmediates
  <2> QED  BY <2>1, <2>2, <2>3 DEF SuiteNext
<1>3. ImmediateInv => ImmediatesSurvive
  BY DEF ImmediateInv, ImmediatesSurvive, BranchInv, Branch!GoesWhereEncoded,
         UvmInv, Uvm!DecodesWhatIsDrawn, ControlInv
<1> QED
  BY <1>1, <1>2, <1>3, PTL DEF SuiteSpec
-----------------------------------------------------------------------------
\* tb/coprocessor_system_tb.py: no case takes the product of another.  A case of a product
\* begins while the multiplier rests or still counts, and has patience for what it has to
\* count; before the first one of a test the multiplier comes to rest.

\* The first case of a product.
FirstProduct == [test_risc_v_coprocessor_system_compliance |-> 11,
                 test_risc_v_coprocessor_stall_behavior |-> 1,
                 test_risc_v_coprocessor_edge_cases |-> 9]
IsProduct(i) == i <= Len(Coproc!Script) /\ Coproc!Script[i].instr.class = "MULDIV"

CoprocRegisters(d) ==
  /\ d = [csr |-> d.csr, csr_result |-> d.csr_result, csr_valid |-> d.csr_valid,
          csr_exception |-> d.csr_exception, mul_state |-> d.mul_state,
          mul_cycle_count |-> d.mul_cycle_count, mul_valid |-> d.mul_valid,
          mul_busy |-> d.mul_busy, mul_result |-> d.mul_result,
          custom_result |-> d.custom_result, custom_valid |-> d.custom_valid]
  /\ d.mul_state \in {"MUL_IDLE", "MUL_EXECUTE", "MUL_COMPLETE"}
  /\ d.mul_cycle_count \in 0..4
  /\ d.mul_valid \in BOOLEAN /\ (d.mul_valid => d.mul_state = "MUL_IDLE")

\* The edges until the multiplier rests.
UntilRest(d) == CASE d.mul_state = "MUL_IDLE" -> 0
                  [] d.mul_state = "MUL_COMPLETE" -> 1
                  [] d.mul_state = "MUL_EXECUTE" -> d.mul_cycle_count + 2

\* The multiplier at the start of a case, in its polling loop and at its last edge.
StartsClean(d) ==
  /\ at = 0 => d.mul_state # "MUL_COMPLETE"
  /\ at < FirstProduct[test] => UntilRest(d) = 0 \/ UntilRest(d) + 2 * at <= 6
  /\ at >= FirstProduct[test] /\ IsProduct(at + 1) =>
       d.mul_state = "MUL_EXECUTE" /\ d.mul_cycle_count >= 1
Polls(d, b) ==
  /\ IsProduct(at + 1)
  /\ b.had = Coproc!Computed(b.wires)
  /\ d.mul_state = "MUL_IDLE" => d.mul_valid
  /\ d.mul_state = "MUL_COMPLETE" \/ d.mul_valid => d.mul_result = Coproc!Computed(b.wires)
  /\ b.timeout \in Nat /\ UntilRest(d) + 1 <= b.timeout
Leaves(d) ==
  /\ at + 1 < FirstProduct[test] => UntilRest(d) = 0 \/ UntilRest(d) + 2 * at <= 5
  /\ IsProduct(at + 1) => d.mul_state = "MUL_EXECUTE" /\ d.mul_cycle_count >= 2

CoprocInv ==
  /\ test \in DOMAIN Coproc!Scripts /\ at \in Nat
  /\ CoprocRegisters(dut)
  /\ board = [wires |-> board.wires, phase |-> board.phase, timeout |-> board.timeout,
              got |-> board.got, had |-> board.had]
  /\ board.phase \in {"apply", "poll", "leave"}
  /\ board.phase = "apply" => StartsClean(dut)
  /\ board.phase = "poll" => Polls(dut, board)
  /\ board.phase = "leave" => Leaves(dut)
  /\ board.phase # "apply" =>
       /\ at < Len(Coproc!Script)
       /\ board.wires = [instr |-> Coproc!Now.instr, rs1_data |-> board.wires.rs1_data,
                         rs2_data |-> board.wires.rs2_data,
                         irq_signal |-> board.wires.irq_signal]
  /\ Coproc!ResultIsOwn

LEMMA CoprocKinds ==
  /\ \A funct3, csr : Coproc!CsrCase(funct3, csr).instr.class = "SYSTEM"
  /\ \A bit : Coproc!TrapCase(bit).instr.class = "SYSTEM"
  /\ \A funct3 : LET c == Coproc!MulCase(funct3)
                 IN c.instr.class = "MULDIV" /\ c.patience = 20 /\ c.clears = FALSE
  /\ \A class, funct3 : Coproc!CustomCase(class, funct3).instr.class = class
  /\ Coproc!OtherCase.instr.class = "OTHER" /\ Coproc!IrqCase.instr.class = "OTHER"
BY DEF Coproc!CsrCase, Coproc!TrapCase, Coproc!MulCase, Coproc!CustomCase, Coproc!OtherCase,
       Coproc!IrqCase, Coproc!NoInstr, Coproc!Case, Coproc!Instr

\* The cases before the first product are of something else, from it on a product follows
\* a product; a product waits ten edges for its result and stays on the wires.
LEMMA CoprocCases ==
  ASSUME NEW t \in DOMAIN Coproc!Scripts, NEW i \in 1..Len(Coproc!Scripts[t])
  PROVE  LET c == Coproc!Scripts[t][i]
             product == c.instr.class = "MULDIV"
         IN /\ product => c.patience \in {10, 20} /\ c.clears = FALSE
            /\ i < FirstProduct[t] => ~product
            /\ i > FirstProduct[t] /\ product =>
                 Coproc!Scripts[t][i - 1].instr.class = "MULDIV"
            /\ FirstProduct[t] \in {1, 9, 11} /\ Len(Coproc!Scripts[t]) \in Nat
<1>1. CASE t = "test_risc_v_coprocessor_system_compliance"
  <2> DEFINE c == Coproc!Scripts[t][i]
  <2>1. Coproc!Scripts[t] = Coproc!test_risc_v_coprocessor_system_compliance
    BY <1>1 DEF Coproc!Scripts
  <2>2. Len(Coproc!Scripts[t]) = 23 /\ i \in 1..23 /\ FirstProduct[t] = 11
    BY <1>1, <2>1 DEF Coproc!test_risc_v_coprocessor_system_compliance, FirstProduct
  <2> USE DEF Coproc!test_risc_v_coprocessor_system_compliance
  <2>3. CASE i \in 1..10
    <3>1. c \in {Coproc!CsrCase(1, "MSTATUS"), Coproc!CsrCase(2, "MSTATUS"),
                 Coproc!CsrCase(3, "MSTATUS"), Coproc!CsrCase(1, "MEPC"),
                 Coproc!CsrCase(2, "MCAUSE"), Coproc!CsrCase(3, "MTVAL"),
                 Coproc!CsrCase(1, "CYCLE"), Coproc!CsrCase(2, "INSTRET"),
                 Coproc!TrapCase(0), Coproc!TrapCase(1)}
      BY <2>1, <2>3
    <3>2. c.instr.class = "SYSTEM"
      BY <3>1, CoprocKinds
    <3> QED  BY <2>2, <2>3, <3>2
  <2>4. CASE i \in 11..14
    <3> DEFINE products == {Coproc!MulCase(0), Coproc!MulCase(1), Coproc!MulCase(2),
                            Coproc!MulCase(3)}
    <3>1. c \in products /\ (i > 11 => Coproc!Scripts[t][i - 1] \in products)
      BY <2>1, <2>4
    <3> QED  BY <2>2, <2>4, <3>1, CoprocKinds
  <2>5. CASE i \in 15..23
    <3>1. c \in {Coproc!CustomCase("CUSTOM_0", 0), Coproc!CustomCase("CUSTOM_0", 1),
                 Coproc!CustomCase("CUSTOM_1", 0), Coproc!CustomCase("CUSTOM_1", 1),
                 Coproc!OtherCase, Coproc!IrqCase}
      BY <2>1, <2>5
    <3>2. c.instr.class \in {"CUSTOM_0", "CUSTOM_1", "OTHER"}
      BY <3>1, CoprocKinds
    <3> QED  BY <2>2, <2>5, <3>2
  <2>6. i \in 1..10 \/ i \in 11..14 \/ i \in 15..23
    BY <2>2
  <2> QED  BY <2>3, <2>4, <2>5, <2>6, Zenon
<1>2. CASE t = "test_risc_v_coprocessor_stall_behavior"
  <2>1. Coproc!Scripts[t] = <<Coproc!Case(Coproc!Instr("MULDIV", 0, "none"), 10, {}, FALSE)>>
    BY <1>2 DEF Coproc!Scripts, Coproc!test_risc_v_coprocessor_stall_behavior
  <2>2. i = 1 /\ Len(Coproc!Scripts[t]) = 1 /\ FirstProduct[t] = 1
    BY <1>2, <2>1 DEF FirstProduct
  <2>3. Coproc!Scripts[t][i].patience = 10 /\ Coproc!Scripts[t][i].clears = FALSE
    BY <2>1, <2>2 DEF Coproc!Case
  <2> QED  BY <2>2, <2>3
<1>3. CASE t = "test_risc_v_coprocessor_edge_cases"
  <2> DEFINE c == Coproc!Scripts[t][i]
             invalid == Coproc!Case(Coproc!Instr("SYSTEM", 1, "invalid"), 5, {}, FALSE)
             custom_and == Coproc!Case(Coproc!Instr("CUSTOM_0", 0, "none"), 5, {}, FALSE)
             by_zero(funct3) == Coproc!Case(Coproc!Instr("MULDIV", funct3, "none"), 10, {}, FALSE)
  <2>1. Coproc!Scripts[t] =
          <<invalid, invalid, invalid, invalid, custom_and, custom_and, custom_and,
            custom_and, by_zero(4), by_zero(5), by_zero(6), by_zero(7)>>
    BY <1>3 DEF Coproc!Scripts, Coproc!test_risc_v_coprocessor_edge_cases
  <2>2. /\ invalid.instr.class = "SYSTEM" /\ custom_and.instr.class = "CUSTOM_0"
        /\ \A f : /\ by_zero(f).instr.class = "MULDIV" /\ by_zero(f).patience = 10
                  /\ by_zero(f).clears = FALSE
    BY DEF Coproc!Case, Coproc!Instr
  <2> HIDE DEF invalid, custom_and, by_zero
  <2>3. Len(Coproc!Scripts[t]) = 12 /\ i \in 1..12 /\ FirstProduct[t] = 9
    BY <1>3, <2>1 DEF FirstProduct
  <2>4. CASE i \in 1..8
    <3>1. c \in {invalid, custom_and}
      BY <2>1, <2>4
    <3>2. c.instr.class \in {"SYSTEM", "CUSTOM_0"}
      BY <2>2, <3>1
    <3> QED  BY <2>3, <2>4, <3>2
  <2>5. CASE i \in 9..12
    <3> DEFINE products == {by_zero(4), by_zero(5), by_zero(6), by_zero(7)}
    <3>1. c \in products /\ (i > 9 => Coproc!Scripts[t][i - 1] \in products)
      BY <2>1, <2>5
    <3> QED  BY <2>2, <2>3, <2>5, <3>1
  <2>6. i \in 1..8 \/ i \in 9..12
    BY <2>3
  <2> QED  BY <2>4, <2>5, <2>6, Zenon
<1>4. DOMAIN Coproc!Scripts =
        {"test_risc_v_coprocessor_system_compliance",
         "test_risc_v_coprocessor_stall_behavior", "test_risc_v_coprocessor_edge_cases"}
  BY DEF Coproc!Scripts
<1> QED  BY <1>1, <1>2, <1>3, <1>4, Zenon

\* One edge, register by register: the class of the instruction on the wires decides.
StepsTo(d, wires, class, e) ==
  /\ CoprocRegisters(e)
  /\ e.csr_valid = (class = "SYSTEM")
  /\ e.custom_valid = (class \in {"CUSTOM_0", "CUSTOM_1"})
  /\ class = "SYSTEM" => e.csr_result = Coproc!Read(d, wires.instr.csr)
  /\ e.custom_valid => e.custom_result = Coproc!Computed(wires)
  /\ e.mul_valid = (d.mul_state = "MUL_COMPLETE")
  /\ d.mul_state = "MUL_IDLE" =>
       IF class = "MULDIV" THEN e.mul_state = "MUL_EXECUTE" /\ e.mul_cycle_count \in {2, 4}
                           ELSE e.mul_state = "MUL_IDLE"
  /\ d.mul_state = "MUL_EXECUTE" =>
       IF d.mul_cycle_count > 0
       THEN e.mul_state = "MUL_EXECUTE" /\ e.mul_cycle_count = d.mul_cycle_count - 1
       ELSE e.mul_state = "MUL_COMPLETE" /\ e.mul_result = Coproc!Computed(wires)
  /\ d.mul_state = "MUL_COMPLETE" =>
       e.mul_state = "MUL_IDLE" /\ e.mul_result = d.mul_result

LEMMA CoprocEdge ==
  ASSUME NEW d, CoprocRegisters(d), NEW i
  PROVE  StepsTo(d, i, i.instr.class, Coproc!After(d, i))
<1> DEFINE m == Coproc!MulAfter(d, i)
           e == Coproc!After(d, i)
<1>1. /\ d = [csr |-> d.csr, csr_result |-> d.csr_result, csr_valid |-> d.csr_valid,
              csr_exception |-> d.csr_exception, mul_state |-> d.mul_state,
              mul_cycle_count |-> d.mul_cycle_count, mul_valid |-> d.mul_valid,
              mul_busy |-> d.mul_busy, mul_result |-> d.mul_result,
              custom_result |-> d.custom_result, custom_valid |-> d.custom_valid]
      /\ d.mul_state \in {"MUL_IDLE", "MUL_EXECUTE", "MUL_COMPLETE"}
      /\ d.mul_cycle_count \in 0..4
      /\ d.mul_valid \in BOOLEAN /\ (d.mul_valid => d.mul_state = "MUL_IDLE")
  BY DEF CoprocRegisters
<1>2. /\ m = [csr |-> m.csr, csr_result |-> m.csr_result, csr_valid |-> m.csr_valid,
              csr_exception |-> m.csr_exception, mul_state |-> m.mul_state,
              mul_cycle_count |-> m.mul_cycle_count, mul_valid |-> m.mul_valid,
              mul_busy |-> m.mul_busy, mul_result |-> m.mul_result,
              custom_result |-> m.custom_result, custom_valid |-> m.custom_valid]
      /\ m.csr_result = d.csr_result /\ m.custom_result = d.custom_result
      /\ m.mul_state \in {"MUL_IDLE", "MUL_EXECUTE", "MUL_COMPLETE"}
      /\ m.mul_cycle_count \in 0..4
      /\ d.mul_state = "MUL_IDLE" =>
           IF i.instr.class = "MULDIV"
           THEN m.mul_state = "MUL_EXECUTE" /\ m.mul_cycle_count \in {2, 4}
           ELSE m.mul_state = "MUL_IDLE"
      /\ d.mul_state = "MUL_EXECUTE" =>
           IF d.mul_cycle_count > 0
           THEN m.mul_state = "MUL_EXECUTE" /\ m.mul_cycle_count = d.mul_cycle_count - 1
           ELSE m.mul_state = "MUL_COMPLETE" /\ m.mul_result = Coproc!Computed(i)
      /\ d.mul_state = "MUL_COMPLETE" =>
           m.mul_state = "MUL_IDLE" /\ m.mul_result = d.mul_result
  <2> HIDE DEF m
  <2>1. m = Coproc!MulAfter(d, i)
    BY DEF m
  <2>2. CASE d.mul_state = "MUL_IDLE" /\ i.instr.class = "MULDIV"
    <3> DEFINE starts == Coproc!cp_select(i) = "CP_MUL"
    <3>1. starts
      BY <2>2 DEF Coproc!cp_select
    <3>2. m = [d EXCEPT !.mul_state = IF starts THEN "MUL_EXECUTE" ELSE @,
                 !.mul_busy = @ \/ starts,
                 !.mul_cycle_count = IF starts THEN Coproc!CyclesOf(i.instr.funct3) ELSE @]
      BY <2>1, <2>2 DEF Coproc!MulAfter
    <3> DEFINE busy == d.mul_busy \/ starts
               cycles == Coproc!CyclesOf(i.instr.funct3)
    <3>3. cycles \in {2, 4}
      BY DEF Coproc!CyclesOf
    <3>4. m = [d EXCEPT !.mul_state = "MUL_EXECUTE", !.mul_busy = busy,
                        !.mul_cycle_count = cycles]
      BY <3>1, <3>2
    <3> HIDE DEF busy, cycles
    <3>5. m = [csr |-> d.csr, csr_result |-> d.csr_result, csr_valid |-> d.csr_valid,
               csr_exception |-> d.csr_exception, mul_state |-> "MUL_EXECUTE",
               mul_cycle_count |-> cycles, mul_valid |-> d.mul_valid,
               mul_busy |-> busy, mul_result |-> d.mul_result,
               custom_result |-> d.custom_result, custom_valid |-> d.custom_valid]
      BY <1>1, <3>4
    <3>6. m.mul_cycle_count \in {2, 4} /\ m.mul_cycle_count \in 0..4
      BY <3>3, <3>5
    <3> QED  BY <2>2, <3>5, <3>6
  <2>3. CASE d.mul_state = "MUL_IDLE" /\ i.instr.class # "MULDIV"
    BY <1>1, <2>1, <2>3 DEF Coproc!MulAfter, Coproc!cp_select
  <2>4. CASE d.mul_state = "MUL_EXECUTE" /\ d.mul_cycle_count > 0
    <3>1. m = [d EXCEPT !.mul_cycle_count = @ - 1]
      BY <2>1, <2>4 DEF Coproc!MulAfter
    <3> QED  BY <1>1, <2>4, <3>1
  <2>5. CASE d.mul_state = "MUL_EXECUTE" /\ ~(d.mul_cycle_count > 0)
    <3>1. m = [d EXCEPT !.mul_state = "MUL_COMPLETE", !.mul_result = Coproc!Computed(i)]
      BY <1>1, <2>1, <2>5 DEF Coproc!MulAfter
    <3> QED  BY <1>1, <2>5, <3>1
  <2>6. CASE d.mul_state = "MUL_COMPLETE"
    BY <1>1, <2>1, <2>6 DEF Coproc!MulAfter
  <2> QED  BY <1>1, <2>2, <2>3, <2>4, <2>5, <2>6
<1>3. Coproc!mul_valid(d) = (d.mul_state = "MUL_COMPLETE")
  BY <1>1 DEF Coproc!mul_valid
<1> HIDE DEF m
<1>4. e = [csr |-> Coproc!CsrAfter(d, i),
           csr_result |-> IF Coproc!cp_select(i) = "CP_CSR"
                          THEN Coproc!Read(d, i.instr.csr) ELSE m.csr_result,
           csr_valid |-> Coproc!cp_select(i) = "CP_CSR",
           csr_exception |-> Coproc!IsTrap(i),
           mul_state |-> m.mul_state, mul_cycle_count |-> m.mul_cycle_count,
           mul_valid |-> Coproc!mul_valid(d), mul_busy |-> m.mul_busy,
           mul_result |-> m.mul_result,
           custom_result |-> IF Coproc!cp_select(i) = "CP_CUSTOM"
                             THEN Coproc!Computed(i) ELSE m.custom_result,
           custom_valid |-> Coproc!cp_select(i) = "CP_CUSTOM"]
  <2> DEFINE csr == Coproc!CsrAfter(d, i)
             is_csr == Coproc!cp_select(i) = "CP_CSR"
             is_custom == Coproc!cp_select(i) = "CP_CUSTOM"
             trap == Coproc!IsTrap(i)
             valid == Coproc!mul_valid(d)
             csr_word == Coproc!Read(d, i.instr.csr)
             product == Coproc!Computed(i)
  <2>1. e = [m EXCEPT !.mul_valid = valid, !.csr = csr, !.csr_valid = is_csr,
                      !.csr_exception = trap,
                      !.csr_result = IF is_csr THEN csr_word ELSE @,
                      !.custom_valid = is_custom,
                      !.custom_result = IF is_custom THEN product ELSE @]
    BY DEF Coproc!After, m
  <2> HIDE DEF csr, is_csr, is_custom, trap, valid, csr_word, product, e
  <2>2. e = [csr |-> csr, csr_result |-> IF is_csr THEN csr_word ELSE m.csr_result,
             csr_valid |-> is_csr, csr_exception |-> trap,
             mul_state |-> m.mul_state, mul_cycle_count |-> m.mul_cycle_count,
             mul_valid |-> valid, mul_busy |-> m.mul_busy, mul_result |-> m.mul_result,
             custom_result |-> IF is_custom THEN product ELSE m.custom_result,
             custom_valid |-> is_custom]
    BY <1>2, <2>1
  <2> QED  BY <2>2 DEF csr, is_csr, is_custom, trap, valid, csr_word, product
<1> HIDE DEF e
<1>5. /\ (Coproc!cp_select(i) = "CP_CSR") = (i.instr.class = "SYSTEM")
      /\ (Coproc!cp_select(i) = "CP_CUSTOM") = (i.instr.class \in {"CUSTOM_0", "CUSTOM_1"})
  BY DEF Coproc!cp_select
<1>6. /\ e.mul_state = m.mul_state /\ e.mul_cycle_count = m.mul_cycle_count
      /\ e.mul_result = m.mul_result
  BY <1>4
<1>7. e.mul_valid = (d.mul_state = "MUL_COMPLETE")
  BY <1>3, <1>4
<1>8. e.csr_valid = (i.instr.class = "SYSTEM")
  BY <1>4, <1>5
<1>9. e.custom_valid = (i.instr.class \in {"CUSTOM_0", "CUSTOM_1"})
  BY <1>4, <1>5
<1>10. i.instr.class = "SYSTEM" => e.csr_result = Coproc!Read(d, i.instr.csr)
  BY <1>4, <1>5
<1>11. e.custom_valid => e.custom_result = Coproc!Computed(i)
  BY <1>4, <1>5, <1>9
<1>12. CoprocRegisters(e)
  BY <1>2, <1>4, <1>6, <1>7 DEF CoprocRegisters
<1> QED  BY <1>2, <1>6, <1>7, <1>8, <1>9, <1>10, <1>11, <1>12 DEF e, StepsTo

LEMMA CoprocApply ==
  ASSUME CoprocInv, Coproc!apply
  PROVE  CoprocInv'
<1>1. /\ test' = test /\ at' = at /\ board.phase = "apply"
      /\ test \in DOMAIN Coproc!Scripts /\ at \in Nat
      /\ CoprocRegisters(dut) /\ StartsClean(dut) /\ at < Len(Coproc!Script)
      /\ Len(Coproc!Script) \in Nat /\ at + 1 \in 1..Len(Coproc!Script)
  <2>1. at < Len(Coproc!Script)
    BY DEF CoprocInv, Coproc!apply, Coproc!Done
  <2>2. Len(Coproc!Script) \in Nat
    BY CoprocCases DEF CoprocInv, Coproc!Scripts, Coproc!Script
  <2> QED  BY <2>1, <2>2 DEF CoprocInv, Coproc!apply
<1> DEFINE applied(r) == [instr |-> Coproc!Now.instr, rs1_data |-> r, rs2_data |-> {},
                     irq_signal |-> Coproc!Now.irq]
           c == Coproc!Script[at + 1]
           product == c.instr.class = "MULDIV"
<1>2. PICK r : LET i == applied(r)
                   valid == Coproc!cp_result_valid(Coproc!After(dut, i), i)
               IN /\ dut' = Coproc!After(dut, i)
                  /\ board' = [wires |-> i, timeout |-> c.patience,
                               phase |-> IF Coproc!cp_detected(i) /\ ~valid /\ c.patience > 0
                                         THEN "poll" ELSE "leave",
                               got |-> IF valid THEN Coproc!cp_result(dut', i)
                                                ELSE Coproc!Nothing,
                               had |-> Coproc!Expected(dut, i)]
  BY DEF Coproc!apply, Coproc!Now
<1> DEFINE i == applied(r)
           valid == Coproc!cp_result_valid(Coproc!After(dut, i), i)
<1>3. /\ i = [instr |-> c.instr, rs1_data |-> i.rs1_data, rs2_data |-> i.rs2_data,
              irq_signal |-> i.irq_signal]
      /\ i.instr = c.instr
  BY DEF Coproc!Now
<1>4. /\ dut' = Coproc!After(dut, i)
      /\ board' = [wires |-> i, timeout |-> c.patience,
                   phase |-> IF Coproc!cp_detected(i) /\ ~valid /\ c.patience > 0
                             THEN "poll" ELSE "leave",
                   got |-> IF valid THEN Coproc!cp_result(dut', i) ELSE Coproc!Nothing,
                   had |-> Coproc!Expected(dut, i)]
  BY <1>2
<1> HIDE DEF applied, i, c
<1>5. /\ board'.wires = i /\ board'.timeout = c.patience
      /\ board'.got = IF valid THEN Coproc!cp_result(dut', i) ELSE Coproc!Nothing
      /\ board'.had = Coproc!Expected(dut, i)
      /\ board'.phase = IF Coproc!cp_detected(i) /\ ~valid /\ c.patience > 0
                        THEN "poll" ELSE "leave"
      /\ board' = [wires |-> board'.wires, phase |-> board'.phase, timeout |-> board'.timeout,
                   got |-> board'.got, had |-> board'.had]
  BY <1>4
<1>6. /\ Coproc!Script' = Coproc!Script /\ Coproc!Now' = c
      /\ \A k : IsProduct(k)' = IsProduct(k)
      /\ IsProduct(at + 1) = product
  BY <1>1 DEF Coproc!Script, Coproc!Now, IsProduct, c
<1>7. /\ product => c.patience \in {10, 20}
      /\ at + 1 < FirstProduct[test] => ~product
      /\ FirstProduct[test] \in {1, 9, 11}
  BY <1>1, CoprocCases, Zenon DEF Coproc!Script, c
<1> DEFINE e == Coproc!After(dut, i)
<1>8. StepsTo(dut, i, c.instr.class, e) /\ i.instr = c.instr
  BY <1>1, <1>3, CoprocEdge
<1>9. dut' = e
  BY <1>4
<1> HIDE DEF e
<1> USE DEF StepsTo
<1>10. /\ dut.mul_state \in {"MUL_IDLE", "MUL_EXECUTE", "MUL_COMPLETE"}
       /\ dut.mul_cycle_count \in 0..4
       /\ at = 0 => dut.mul_state # "MUL_COMPLETE"
       /\ at < FirstProduct[test] => UntilRest(dut) = 0 \/ UntilRest(dut) + 2 * at <= 6
       /\ at >= FirstProduct[test] /\ product =>
            dut.mul_state = "MUL_EXECUTE" /\ dut.mul_cycle_count >= 1
  BY <1>1, <1>6 DEF CoprocRegisters, StartsClean
<1>11. product => dut.mul_state # "MUL_COMPLETE"
  <2>1. CASE at = 0
    BY <1>10, <2>1
  <2>2. CASE at >= FirstProduct[test]
    BY <1>10, <2>2
  <2>3. CASE at > 0 /\ at + 1 = FirstProduct[test]
    <3>1. at \in {8, 10}
      BY <1>1, <1>7, <2>3
    <3>2. UntilRest(dut) = 0
      BY <1>10, <2>3, <3>1 DEF UntilRest
    <3> QED  BY <3>2 DEF UntilRest
  <2>4. CASE at + 1 < FirstProduct[test]
    BY <1>7, <2>4
  <2> QED  BY <1>1, <1>7, <2>1, <2>2, <2>3, <2>4
<1>12. product => /\ ~e.mul_valid /\ e.mul_state \in {"MUL_EXECUTE", "MUL_COMPLETE"}
                  /\ e.mul_state = "MUL_COMPLETE" => e.mul_result = Coproc!Computed(i)
                  /\ UntilRest(e) <= 6
  <2> SUFFICES ASSUME product
               PROVE  /\ ~e.mul_valid /\ e.mul_state \in {"MUL_EXECUTE", "MUL_COMPLETE"}
                      /\ e.mul_state = "MUL_COMPLETE" => e.mul_result = Coproc!Computed(i)
                      /\ UntilRest(e) <= 6
    OBVIOUS
  <2>1. ~e.mul_valid
    BY <1>8, <1>11
  <2>2. CASE dut.mul_state = "MUL_IDLE"
    BY <1>8, <2>1, <2>2 DEF UntilRest
  <2>3. CASE dut.mul_state = "MUL_EXECUTE" /\ dut.mul_cycle_count > 0
    <3>1. e.mul_state = "MUL_EXECUTE" /\ e.mul_cycle_count = dut.mul_cycle_count - 1
      BY <1>8, <2>3
    <3> QED  BY <1>10, <2>1, <3>1 DEF UntilRest
  <2>4. CASE dut.mul_state = "MUL_EXECUTE" /\ ~(dut.mul_cycle_count > 0)
    BY <1>8, <2>1, <2>4 DEF UntilRest
  <2> QED  BY <1>10, <1>11, <2>2, <2>3, <2>4
<1>13. product => board'.phase = "poll" /\ board'.had = Coproc!Computed(i)
  BY <1>3, <1>5, <1>7, <1>9, <1>12
     DEF Coproc!cp_result_valid, Coproc!cp_detected, Coproc!cp_select, Coproc!Expected,
         Coproc!Computed, e
<1>14. ~product => board'.phase = "leave"
  <2> SUFFICES ASSUME ~product PROVE board'.phase = "leave"
    OBVIOUS
  <2>1. ~Coproc!cp_detected(i) \/ valid
    BY <1>3, <1>8 DEF Coproc!cp_result_valid, Coproc!cp_detected, Coproc!cp_select, e
  <2> QED  BY <1>5, <2>1
<1>15. ~product => ~(board'.got # Coproc!Nothing) \/ board'.got = board'.had
  <2> SUFFICES ASSUME ~product, valid PROVE board'.got = board'.had
    BY <1>5
  <2>1. board'.got = Coproc!cp_result(e, i) /\ board'.had = Coproc!Expected(dut, i)
    BY <1>5, <1>9
  <2>2. CASE c.instr.class = "SYSTEM"
    BY <1>3, <1>8, <2>1, <2>2 DEF Coproc!cp_result, Coproc!cp_select, Coproc!Expected
  <2>3. CASE c.instr.class \in {"CUSTOM_0", "CUSTOM_1"}
    <3>1. Coproc!cp_result(e, i) = Coproc!Computed(i)
      BY <1>3, <1>8, <2>3 DEF Coproc!cp_result, Coproc!cp_select
    <3>2. Coproc!Expected(dut, i) = Coproc!Computed(i)
      BY <1>3, <2>3 DEF Coproc!Expected, Coproc!Computed
    <3> QED  BY <2>1, <3>1, <3>2
  <2>4. CASE c.instr.class \notin {"SYSTEM", "CUSTOM_0", "CUSTOM_1"}
    BY <1>3, <2>4 DEF Coproc!cp_result_valid, Coproc!cp_select
  <2> QED  BY <2>2, <2>3, <2>4
<1>16. at + 1 < FirstProduct[test] => UntilRest(e) = 0 \/ UntilRest(e) + 2 * at <= 5
  BY <1>1, <1>7, <1>8, <1>10 DEF UntilRest
<1>17. product => Polls(dut, board)'
  <2> SUFFICES ASSUME product PROVE Polls(dut, board)'
    OBVIOUS
  <2>1. IsProduct(at + 1)'
    BY <1>1, <1>6
  <2>2. board'.had = Coproc!Computed(board'.wires)
    BY <1>5, <1>13
  <2>3. /\ ~dut'.mul_valid /\ dut'.mul_state \in {"MUL_EXECUTE", "MUL_COMPLETE"}
        /\ dut'.mul_state = "MUL_COMPLETE" => dut'.mul_result = Coproc!Computed(board'.wires)
    BY <1>5, <1>9, <1>12
  <2>4. UntilRest(e) \in Nat
    BY <1>8 DEF CoprocRegisters, UntilRest
  <2>5. board'.timeout \in Nat /\ UntilRest(dut') + 1 <= board'.timeout
    BY <1>5, <1>7, <1>9, <1>12, <2>4
  <2> QED  BY <2>1, <2>2, <2>3, <2>5 DEF Polls, Coproc!Computed, UntilRest
<1>18. ~product => Leaves(dut)'
  BY <1>1, <1>6, <1>9, <1>16 DEF Leaves, UntilRest
<1>19. CoprocRegisters(dut)'
  BY <1>8, <1>9
<1>20. Coproc!ResultIsOwn'
  BY <1>13, <1>15 DEF Coproc!ResultIsOwn
<1>21. board'.phase \in {"poll", "leave"}
  BY <1>13, <1>14
<1>22. /\ at' < Len(Coproc!Script')
       /\ board'.wires = [instr |-> Coproc!Now'.instr, rs1_data |-> board'.wires.rs1_data,
                          rs2_data |-> board'.wires.rs2_data,
                          irq_signal |-> board'.wires.irq_signal]
  BY <1>1, <1>3, <1>5, <1>6
<1> QED  BY <1>1, <1>5, <1>13, <1>14, <1>17, <1>18, <1>19, <1>20, <1>21, <1>22 DEF CoprocInv

LEMMA CoprocPoll ==
  ASSUME CoprocInv, Coproc!poll
  PROVE  CoprocInv'
<1> DEFINE i == board.wires
           valid == Coproc!cp_result_valid(dut, i)
           e == Coproc!After(dut, i)
<1>1. /\ test' = test /\ at' = at /\ board.phase = "poll"
      /\ test \in DOMAIN Coproc!Scripts /\ at \in Nat
      /\ CoprocRegisters(dut) /\ Polls(dut, board) /\ at < Len(Coproc!Script)
      /\ board = [wires |-> board.wires, phase |-> board.phase, timeout |-> board.timeout,
                  got |-> board.got, had |-> board.had]
      /\ i = [instr |-> Coproc!Now.instr, rs1_data |-> i.rs1_data,
              rs2_data |-> i.rs2_data, irq_signal |-> i.irq_signal]
  BY DEF CoprocInv, Coproc!poll
<1>2. /\ dut' = e
      /\ board' = [board EXCEPT !.timeout = @ - 1,
                     !.phase = IF valid \/ board.timeout = 1 THEN "leave" ELSE "poll",
                     !.got = IF valid THEN Coproc!cp_result(dut, i) ELSE Coproc!Nothing]
  BY DEF Coproc!poll
<1>3. /\ Coproc!Script' = Coproc!Script /\ Coproc!Now' = Coproc!Now
      /\ \A k : IsProduct(k)' = IsProduct(k)
      /\ i.instr.class = "MULDIV" /\ IsProduct(at + 1)
  BY <1>1 DEF Coproc!Script, Coproc!Now, IsProduct, Polls
<1>4. /\ valid = dut.mul_valid /\ Coproc!cp_result(dut, i) = dut.mul_result
  BY <1>3 DEF Coproc!cp_result_valid, Coproc!cp_result, Coproc!cp_select
<1>5. StepsTo(dut, i, "MULDIV", e)
  BY <1>1, <1>3, CoprocEdge
<1> HIDE DEF e, valid
<1>6. /\ board'.wires = i /\ board'.timeout = board.timeout - 1
      /\ board'.phase = IF dut.mul_valid \/ board.timeout = 1 THEN "leave" ELSE "poll"
      /\ board'.got = IF dut.mul_valid THEN dut.mul_result ELSE Coproc!Nothing
      /\ board'.had = board.had
      /\ board' = [wires |-> board'.wires, phase |-> board'.phase, timeout |-> board'.timeout,
                   got |-> board'.got, had |-> board'.had]
  BY <1>1, <1>2, <1>4
<1>7. /\ board.had = Coproc!Computed(i)
      /\ dut.mul_state = "MUL_IDLE" => dut.mul_valid
      /\ dut.mul_state = "MUL_COMPLETE" \/ dut.mul_valid =>
           dut.mul_result = Coproc!Computed(i)
      /\ board.timeout \in Nat /\ UntilRest(dut) + 1 <= board.timeout
  BY <1>1 DEF Polls
<1>8. /\ dut.mul_state \in {"MUL_IDLE", "MUL_EXECUTE", "MUL_COMPLETE"}
      /\ dut.mul_cycle_count \in 0..4
      /\ dut.mul_valid => dut.mul_state = "MUL_IDLE"
  BY <1>1 DEF CoprocRegisters
<1>9. CASE dut.mul_valid
  <2>1. e.mul_state = "MUL_EXECUTE" /\ e.mul_cycle_count \in {2, 4}
    BY <1>5, <1>8, <1>9 DEF StepsTo
  <2>2. board'.phase = "leave"
    BY <1>6, <1>9
  <2>3. Leaves(dut)'
    <3>1. at + 1 \in 1..Len(Coproc!Scripts[test])
      BY <1>1, CoprocCases DEF Coproc!Script, Coproc!Scripts
    <3>2. ~(at + 1 < FirstProduct[test])
      BY <1>3, <3>1, CoprocCases, <1>1 DEF IsProduct, Coproc!Script
    <3> QED  BY <1>1, <1>2, <2>1, <3>2 DEF Leaves, UntilRest
  <2>4. board'.got = board'.had
    BY <1>6, <1>7, <1>9
  <2> QED  BY <1>1, <1>2, <1>3, <1>5, <1>6, <2>2, <2>3, <2>4
           DEF CoprocInv, Coproc!ResultIsOwn, StepsTo
<1>10. CASE ~dut.mul_valid
  <2>1. board.timeout > 1 /\ dut.mul_state # "MUL_IDLE"
    BY <1>7, <1>8, <1>10 DEF UntilRest
  <2>2. board'.phase = "poll" /\ board'.timeout \in Nat
    BY <1>6, <1>7, <1>10, <2>1
  <2>3. /\ e.mul_state = "MUL_IDLE" => e.mul_valid
        /\ e.mul_state = "MUL_COMPLETE" \/ e.mul_valid => e.mul_result = Coproc!Computed(i)
        /\ UntilRest(e) + 1 <= board.timeout - 1
    <3>1. CASE dut.mul_state = "MUL_COMPLETE"
      <4>1. e.mul_valid /\ e.mul_state = "MUL_IDLE" /\ e.mul_result = Coproc!Computed(i)
        BY <1>5, <1>7, <3>1 DEF StepsTo
      <4> QED  BY <1>7, <3>1, <4>1 DEF UntilRest
    <3>2. CASE dut.mul_state = "MUL_EXECUTE" /\ dut.mul_cycle_count > 0
      <4>1. /\ ~e.mul_valid /\ e.mul_state = "MUL_EXECUTE"
            /\ e.mul_cycle_count = dut.mul_cycle_count - 1
        BY <1>5, <3>2 DEF StepsTo
      <4> QED  BY <1>7, <1>8, <3>2, <4>1 DEF UntilRest
    <3>3. CASE dut.mul_state = "MUL_EXECUTE" /\ ~(dut.mul_cycle_count > 0)
      <4>1. ~e.mul_valid /\ e.mul_state = "MUL_COMPLETE" /\ e.mul_result = Coproc!Computed(i)
        BY <1>5, <3>3 DEF StepsTo
      <4> QED  BY <1>7, <1>8, <3>3, <4>1 DEF UntilRest
    <3> QED  BY <1>8, <2>1, <3>1, <3>2, <3>3
  <2>4. Polls(dut, board)'
    BY <1>1, <1>2, <1>3, <1>6, <1>7, <2>2, <2>3 DEF Polls, UntilRest, Coproc!Computed
  <2> QED  BY <1>1, <1>2, <1>3, <1>5, <1>6, <2>2, <2>4
           DEF CoprocInv, Coproc!ResultIsOwn, StepsTo
<1> QED  BY <1>9, <1>10

LEMMA CoprocLeave ==
  ASSUME CoprocInv, Coproc!leave
  PROVE  CoprocInv'
<1> DEFINE i == [board.wires EXCEPT !.irq_signal = FALSE,
                   !.instr = IF Coproc!Now.clears THEN Coproc!NoInstr ELSE @]
           c == Coproc!Script[at + 1]
           e == Coproc!After(dut, i)
<1>1. /\ test' = test /\ at' = at + 1 /\ board.phase = "leave"
      /\ test \in DOMAIN Coproc!Scripts /\ at \in Nat
      /\ CoprocRegisters(dut) /\ Leaves(dut) /\ at < Len(Coproc!Script)
      /\ board = [wires |-> board.wires, phase |-> board.phase, timeout |-> board.timeout,
                  got |-> board.got, had |-> board.had]
      /\ board.wires = [instr |-> c.instr, rs1_data |-> board.wires.rs1_data,
                        rs2_data |-> board.wires.rs2_data,
                        irq_signal |-> board.wires.irq_signal]
      /\ dut' = e /\ board' = [board EXCEPT !.wires = i, !.phase = "apply"]
  BY DEF CoprocInv, Coproc!leave, Coproc!Observe, Coproc!Now
<1>2. /\ Coproc!Script' = Coproc!Script /\ \A k : IsProduct(k)' = IsProduct(k)
      /\ Len(Coproc!Script) \in Nat /\ at + 1 \in 1..Len(Coproc!Scripts[test])
  <2>1. Len(Coproc!Script) \in Nat
    BY <1>1, CoprocCases DEF Coproc!Scripts, Coproc!Script
  <2> QED  BY <1>1, <2>1 DEF Coproc!Script, IsProduct
<1>3. /\ c.instr.class = "MULDIV" => c.clears = FALSE
      /\ at + 1 < FirstProduct[test] => c.instr.class # "MULDIV"
      /\ FirstProduct[test] \in {1, 9, 11}
  BY <1>1, <1>2, CoprocCases, Zenon DEF Coproc!Script
<1>4. ASSUME at + 1 < Len(Coproc!Script), at + 1 >= FirstProduct[test], IsProduct(at + 2)
      PROVE  c.instr.class = "MULDIV"
  <2>1. at + 2 \in 1..Len(Coproc!Scripts[test]) /\ (at + 2) - 1 = at + 1
        /\ at + 2 > FirstProduct[test]
    BY <1>1, <1>2, <1>3, <1>4 DEF Coproc!Script
  <2>2. Coproc!Scripts[test][at + 2].instr.class = "MULDIV"
    BY <1>4 DEF IsProduct, Coproc!Script
  <2>3. Coproc!Scripts[test][(at + 2) - 1].instr.class = "MULDIV"
    BY <1>1, <2>1, <2>2, CoprocCases, Zenon
  <2> QED  BY <2>1, <2>3 DEF Coproc!Script
<1>5. c.instr.class # "MULDIV" => i.instr.class # "MULDIV"
  BY <1>1 DEF Coproc!NoInstr, Coproc!Instr, Coproc!Now
<1>6. StepsTo(dut, i, i.instr.class, e)
  BY <1>1, CoprocEdge
<1> HIDE DEF i, e, c
<1>7. /\ board'.phase = "apply"
      /\ board' = [wires |-> board'.wires, phase |-> board'.phase, timeout |-> board'.timeout,
                   got |-> board'.got, had |-> board'.had]
  BY <1>1
<1>8. /\ dut.mul_state \in {"MUL_IDLE", "MUL_EXECUTE", "MUL_COMPLETE"}
      /\ dut.mul_cycle_count \in 0..4
  BY <1>1 DEF CoprocRegisters
<1>9. at + 1 < FirstProduct[test] => UntilRest(e) = 0 \/ UntilRest(e) + 2 * (at + 1) <= 6
  <2> SUFFICES ASSUME at + 1 < FirstProduct[test]
               PROVE  UntilRest(e) = 0 \/ UntilRest(e) + 2 * (at + 1) <= 6
    OBVIOUS
  <2>1. i.instr.class # "MULDIV" /\ (UntilRest(dut) = 0 \/ UntilRest(dut) + 2 * at <= 5)
    BY <1>1, <1>3, <1>5 DEF Leaves
  <2>2. UntilRest(e) = 0 \/ UntilRest(e) = UntilRest(dut) - 1
    BY <1>6, <1>8, <2>1 DEF UntilRest, StepsTo
  <2>3. UntilRest(dut) \in Nat
    BY <1>8 DEF UntilRest
  <2>4. CASE UntilRest(dut) = 0
    BY <1>6, <1>8, <2>1, <2>4 DEF UntilRest, StepsTo
  <2> QED  BY <1>1, <2>1, <2>2, <2>3, <2>4
<1>10. c.instr.class = "MULDIV" => e.mul_state = "MUL_EXECUTE" /\ e.mul_cycle_count >= 1
  <2> SUFFICES ASSUME c.instr.class = "MULDIV"
               PROVE  e.mul_state = "MUL_EXECUTE" /\ e.mul_cycle_count >= 1
    OBVIOUS
  <2>1. dut.mul_state = "MUL_EXECUTE" /\ dut.mul_cycle_count >= 2
    BY <1>1, <1>2 DEF Leaves, IsProduct, c
  <2> QED  BY <1>6, <1>8, <2>1 DEF StepsTo
<1>11. StartsClean(dut)'
  <2>1. at' # 0
    BY <1>1
  <2>2. at' < FirstProduct[test'] => UntilRest(dut') = 0 \/ UntilRest(dut') + 2 * at' <= 6
    BY <1>1, <1>9
  <2>3. ASSUME at' >= FirstProduct[test'], IsProduct(at + 1)'
        PROVE  dut'.mul_state = "MUL_EXECUTE" /\ dut'.mul_cycle_count >= 1
    <3>1. IsProduct(at' + 1)
      BY <1>1, <1>2, <2>3 DEF IsProduct
    <3>2. at + 1 < Len(Coproc!Script)
      BY <1>1, <1>2, <3>1 DEF IsProduct
    <3>3. IsProduct(at + 2)
      BY <1>1, <3>1
    <3> QED  BY <1>1, <1>4, <1>10, <2>3, <3>2, <3>3
  <2> QED  BY <2>1, <2>2, <2>3 DEF StartsClean, UntilRest, IsProduct
<1>12. test' \in DOMAIN Coproc!Scripts' /\ at' \in Nat
  BY <1>1 DEF Coproc!Scripts
<1> QED  BY <1>1, <1>6, <1>7, <1>11, <1>12 DEF CoprocInv, StepsTo, Coproc!ResultIsOwn

LEMMA CoprocReset ==
  /\ CoprocRegisters(Coproc!ResetState)
  /\ Coproc!ResetState.mul_state = "MUL_IDLE"
BY DEF CoprocRegisters, Coproc!ResetState

LEMMA CoprocNextTest ==
  ASSUME CoprocInv, Coproc!next_test
  PROVE  CoprocInv'
<1> DEFINE e == Coproc!After(Coproc!ResetState, board.wires)
<1>1. /\ board = [wires |-> board.wires, phase |-> board.phase, timeout |-> board.timeout,
                  got |-> board.got, had |-> board.had]
      /\ test' \in DOMAIN Coproc!Scripts /\ at' = 0
      /\ dut' = e /\ board' = [board EXCEPT !.got = Coproc!Nothing, !.phase = "apply"]
  <2>1. \A i \in 1..(Len(Coproc!Order) - 1) : Coproc!Order[i + 1] \in DOMAIN Coproc!Scripts
    BY DEF Coproc!Order, Coproc!Scripts
  <2> QED  BY <2>1 DEF CoprocInv, Coproc!next_test, Coproc!NextTest
<1>2. StepsTo(Coproc!ResetState, board.wires, board.wires.instr.class, e)
  BY CoprocReset, CoprocEdge
<1> HIDE DEF e
<1>3. /\ board'.phase = "apply"
      /\ board' = [wires |-> board'.wires, phase |-> board'.phase, timeout |-> board'.timeout,
                   got |-> board'.got, had |-> board'.had]
  BY <1>1
<1>4. /\ \/ e.mul_state = "MUL_IDLE"
         \/ e.mul_state = "MUL_EXECUTE" /\ e.mul_cycle_count \in {2, 4}
      /\ CoprocRegisters(e)
  <2>1. CoprocRegisters(e)
    BY <1>2 DEF StepsTo
  <2>2. IF board.wires.instr.class = "MULDIV"
        THEN e.mul_state = "MUL_EXECUTE" /\ e.mul_cycle_count \in {2, 4}
        ELSE e.mul_state = "MUL_IDLE"
    BY <1>2, CoprocReset, Zenon DEF StepsTo
  <2> QED  BY <2>1, <2>2
<1>5. StartsClean(dut)'
  <2>1. FirstProduct[test'] \in {1, 9, 11}
    BY <1>1 DEF FirstProduct, Coproc!Scripts
  <2> QED  BY <1>1, <1>4, <2>1 DEF StartsClean, UntilRest
<1> QED  BY <1>1, <1>3, <1>4, <1>5 DEF CoprocInv, Coproc!ResultIsOwn, Coproc!Scripts

LEMMA CoprocStart == Coproc!BenchInit => CoprocInv
<1> SUFFICES ASSUME Coproc!BenchInit PROVE CoprocInv
  OBVIOUS
<1>1. /\ test \in DOMAIN Coproc!Scripts /\ at = 0 /\ dut = Coproc!ResetState
      /\ board = [wires |-> Coproc!Idle, phase |-> "apply", timeout |-> 0,
                  got |-> Coproc!Nothing, had |-> Coproc!Nothing]
  BY DEF Coproc!BenchInit, Coproc!InitTest
<1>2. FirstProduct[test] \in {1, 9, 11}
  BY <1>1 DEF FirstProduct, Coproc!Scripts
<1>3. StartsClean(dut)
  BY <1>1, <1>2, CoprocReset DEF StartsClean, UntilRest
<1>4. /\ board.phase = "apply"
      /\ board = [wires |-> board.wires, phase |-> board.phase, timeout |-> board.timeout,
                  got |-> board.got, had |-> board.had]
  BY <1>1
<1> QED  BY <1>1, <1>3, <1>4, CoprocReset DEF CoprocInv, Coproc!ResultIsOwn

\* tb/coprocessor_system_tb.py: whatever the operands, a case that gets a result gets its
\* own, though the multiplier already runs when it starts and restarts when it has ended.
THEOREM ResultsAreTheCasesOwn == SuiteSpec => []ResultIsOwn
<1> DEFINE Inv == bench = "coprocessor_system" => CoprocInv
<1>1. SuiteInit => Inv
  <2> SUFFICES ASSUME SuiteInit PROVE Inv
    OBVIOUS
  <2>1. CASE SmallInit
    BY <2>1, CoprocStart DEF SmallInit
  <2>2. CASE bench \in {"gpu_op_queue", "red_pitaya_cpu_wrapper", "cpu_top"}
    BY <2>2
  <2> QED  BY <2>1, <2>2 DEF SuiteInit
<1>2. Inv /\ [SuiteNext]_suiteVars => Inv'
  <2> SUFFICES ASSUME Inv, [SuiteNext]_suiteVars PROVE Inv'
    OBVIOUS
  <2>1. CASE small_bench
    <3>1. bench' = bench
      BY <2>1 DEF small_bench
    <3>2. bench = "coprocessor_system" => Coproc!BenchNext
      BY <2>1 DEF small_bench
    <3> QED  BY <3>1, <3>2, CoprocApply, CoprocPoll, CoprocLeave, CoprocNextTest
             DEF Coproc!BenchNext
  <2>2. CASE op_queue_bench \/ wrapper_bench \/ cpu_top_bench
    BY <2>2 DEF op_queue_bench, wrapper_bench, cpu_top_bench
  <2>3. CASE UNCHANGED suiteVars
    <3>1. bench' = bench /\ dut' = dut /\ board' = board /\ test' = test /\ at' = at
      BY <2>3 DEF suiteVars
    <3> QED  BY <3>1 DEF CoprocInv, CoprocRegisters, StartsClean, Polls, Leaves, UntilRest,
                         IsProduct, Coproc!Script, Coproc!Now, Coproc!Computed,
                         Coproc!ResultIsOwn
  <2> QED  BY <2>1, <2>2, <2>3 DEF SuiteNext
<1>3. Inv => ResultIsOwn
  BY DEF CoprocInv, ResultIsOwn
<1> QED
  BY <1>1, <1>2, <1>3, PTL DEF SuiteSpec
-----------------------------------------------------------------------------
\* tb/mmu_tb.py: what the walker installs.  Every answer of the memory is followed by a
\* step that lowers ptw_ready and leaves ptw_data; and a test that raises a new address
\* does it while the walker rests, two tests excepted.

Lowers(step) == /\ step.op = "edge" /\ "ptw_ready" \in DOMAIN step.sets
                /\ step.sets.ptw_ready = FALSE /\ "ptw_data" \notin DOMAIN step.sets
Raises(step) == "ptw_ready" \in DOMAIN step.sets /\ step.sets.ptw_ready = TRUE

WalkStates == {"IDLE", "PTW_L1", "PTW_L0", "PTW_WAIT", "UPDATE_TLB", "FAULT"}
Pins == {"vaddr", "req_valid", "vm_enable", "ptw_data", "ptw_ready", "tlb_flush"}
OneUp == <<0, 1>>        \* the address that three tests request
Held(wires) == wires.vaddr = OneUp /\ wires.req_valid = TRUE /\ wires.vm_enable = TRUE

\* A walk is for the address on the wires.
Walks(d, b) == d.ptw_state # "IDLE" => b.walking = b.wires.vaddr

\* The wires carry no request, or still that of the test before.
NoneOrHeld(wires) == wires.vm_enable = FALSE \/ Held(wires)

\* test_permission_check up to the step that changes the address: its walk may have been
\* started one edge after the reset by the request of the test before.
FirstPage(n, d, b) ==
  LET wires == b.wires
      state == d.ptw_state IN
  /\ wires.tlb_flush = FALSE
  /\ n <= 3 => NoneOrHeld(wires)
  /\ n \in 4..14 => Held(wires)
  /\ n \in {6, 9} => wires.ptw_ready = TRUE
  /\ n \in 0..14 /\ n \notin {6, 9} => wires.ptw_ready = FALSE
  /\ n = 1 => state = "IDLE"
  /\ n = 2 => state = IF wires.vm_enable = TRUE THEN "PTW_L1" ELSE "IDLE"
  /\ n = 3 => state = IF wires.vm_enable = TRUE THEN "PTW_WAIT" ELSE "IDLE"
  /\ n = 4 => state \in {"PTW_L1", "PTW_WAIT"}
  /\ n \in {5, 7, 8} => state = "PTW_WAIT"
  /\ n = 6 => state = "PTW_L0"
  /\ n = 9 => state = "UPDATE_TLB"
  /\ n \in 10..14 => state = "IDLE"
  /\ n \in 2..5 /\ state # "IDLE" => d.ptw_level = 1
  /\ n \in 7..9 => d.ptw_level = 0
  /\ n \in 1..9 => d.tlb_replace_idx = 0 /\ \A i \in 0..3 : d.tlb[i].valid = FALSE
  /\ n \in 10..14 => d.tlb[0].valid = TRUE /\ d.tlb[0].vpn = OneUp

\* What each test keeps so that no address changes under a walk.
KeepsItsAddress(d, b) ==
  LET wires == b.wires IN
  /\ test \in {"test_reset", "test_direct_mapping"} =>
       d.ptw_state = "IDLE" /\ wires.vm_enable = FALSE /\ wires.tlb_flush = FALSE
  /\ test = "test_tlb_miss_ptw" =>
       /\ wires.tlb_flush = FALSE
       /\ IF at <= 3 THEN d.ptw_state = "IDLE" /\ wires.vm_enable = FALSE
                     ELSE Held(wires) /\ Walks(d, b)
  /\ test = "test_permission_check" => FirstPage(at, d, b) /\ (at >= 1 => Walks(d, b))
  /\ test \in {"test_tlb_flush", "test_page_fault"} =>
       /\ at \in 1..3 => d.ptw_state = "IDLE" /\ wires.req_valid = FALSE
       /\ at >= 4 => /\ wires.vaddr = IF test = "test_page_fault" THEN <<3, 3>> ELSE OneUp
                     /\ Walks(d, b)

AnswerStands ==
  /\ test \in DOMAIN MMU!Scripts /\ at \in Nat
  /\ board = [wires |-> board.wires, walking |-> board.walking]
  /\ Pins \subseteq DOMAIN board.wires
  /\ dut.ptw_state \in WalkStates
  /\ \A i \in 0..3 : "valid" \in DOMAIN dut.tlb[i]
  /\ board.wires.ptw_ready \in BOOLEAN
  /\ board.wires.ptw_ready = TRUE =>
       ~mismatch /\ at >= 1 /\ at < Len(MMU!Script) /\ Lowers(MMU!Now)
  /\ dut.ptw_state = "UPDATE_TLB" =>
       board.wires.ptw_ready = TRUE /\ dut.pte_data = board.wires.ptw_data

MmuInv == AnswerStands /\ KeepsItsAddress(dut, board)

-----------------------------------------------------------------------------
\* The scripts of the MMU's bench, put together from pieces.

IsSeq(u) == \E S : u \in Seq(S)

LEMMA Joined ==
  ASSUME NEW u, NEW v, IsSeq(u), IsSeq(v)
  PROVE  /\ IsSeq(u \o v) /\ Len(u) \in Nat /\ Len(v) \in Nat
         /\ Len(u \o v) = Len(u) + Len(v)
         /\ \A i \in 1..Len(u) : (u \o v)[i] = u[i]
         /\ \A i \in 1..Len(v) : (u \o v)[Len(u) + i] = v[i]
         /\ \A i \in 1..Len(u \o v) :
              i \in 1..Len(u) \/ (i - Len(u) \in 1..Len(v) /\ (u \o v)[i] = v[i - Len(u)])
<1>1. PICK S, T : u \in Seq(S) /\ v \in Seq(T)
  BY DEF IsSeq
<1> DEFINE both == Seq(S \cup T)
<1>2. u \in both /\ v \in both
  BY <1>1
<1>3. u \o v \in both
  BY <1>2
<1>4. IsSeq(u \o v)
  BY <1>3 DEF IsSeq
<1>5. /\ Len(u) \in Nat /\ Len(v) \in Nat /\ Len(u \o v) = Len(u) + Len(v)
      /\ \A i \in 1..(Len(u) + Len(v)) :
           (u \o v)[i] = IF i <= Len(u) THEN u[i] ELSE v[i - Len(u)]
  BY <1>2
<1> QED  BY <1>4, <1>5

LEMMA OneStep ==
  ASSUME NEW s
  PROVE  IsSeq(<<s>>) /\ Len(<<s>>) = 1 /\ <<s>>[1] = s
<1>1. <<s>> \in Seq({s})
  OBVIOUS
<1> QED  BY <1>1 DEF IsSeq

LEMMA EdgesAre ==
  ASSUME NEW n \in Nat \ {0}, NEW sets, NEW expect
  PROVE  LET u == MMU!Edges(n, sets, expect)
         IN /\ IsSeq(u) /\ Len(u) = n
            /\ \A i \in 1..n : /\ u[i].op = "edge"
                               /\ u[i].sets = IF i = 1 THEN sets ELSE MMU!Anything
                               /\ u[i].expect = IF i = n THEN expect ELSE MMU!Anything
<1> DEFINE f(i) == [op |-> "edge", sets |-> IF i = 1 THEN sets ELSE MMU!Anything,
                    expect |-> IF i = n THEN expect ELSE MMU!Anything]
           S == {f(i) : i \in 1..n}
           u == MMU!Edges(n, sets, expect)
<1>1. u = [i \in 1..n |-> f(i)]
  BY DEF MMU!Edges
<1>2. \A i \in 1..n : u[i] = f(i)
  BY <1>1
<1>3. u \in [1..n -> S]
  BY <1>1
<1> HIDE DEF S, u
<1>4. u \in Seq(S)
  BY <1>3, SeqDef
<1>5. Len(u) = n
  BY <1>3, <1>4
<1> QED  BY <1>2, <1>4, <1>5 DEF IsSeq, u

\* Every answer is followed by a step that lowers ptw_ready, but for one in the last step.
Answered(u, pending) ==
  /\ IsSeq(u)
  /\ \A i \in 1..Len(u) :
       /\ u[i].op \in {"edge", "reset"}
       /\ "ptw_ready" \in DOMAIN u[i].sets => u[i].sets.ptw_ready \in BOOLEAN
       /\ Raises(u[i]) => /\ u[i].expect = MMU!Anything
                          /\ i < Len(u) \/ pending = TRUE
                          /\ i < Len(u) => Lowers(u[i + 1])

LEMMA AnsweredJoin ==
  ASSUME NEW u, NEW v, NEW q, NEW p, Answered(u, q), Answered(v, p),
         q = FALSE \/ (Len(v) >= 1 /\ Lowers(v[1]))
  PROVE  Answered(u \o v, p)
<1> SUFFICES ASSUME NEW i \in 1..Len(u \o v)
             PROVE  LET s == (u \o v)[i] IN
                    /\ s.op \in {"edge", "reset"}
                    /\ "ptw_ready" \in DOMAIN s.sets => s.sets.ptw_ready \in BOOLEAN
                    /\ Raises(s) => /\ s.expect = MMU!Anything
                                    /\ i < Len(u \o v) \/ p = TRUE
                                    /\ i < Len(u \o v) => Lowers((u \o v)[i + 1])
  BY Joined DEF Answered
<1> DEFINE j == u \o v
<1>1. /\ Len(u) \in Nat /\ Len(v) \in Nat /\ Len(j) = Len(u) + Len(v)
      /\ \A k \in 1..Len(u) : j[k] = u[k]
      /\ \A k \in 1..Len(v) : j[Len(u) + k] = v[k]
      /\ i \in 1..Len(u) \/ (i - Len(u) \in 1..Len(v) /\ j[i] = v[i - Len(u)])
  BY Joined DEF Answered
<1> HIDE DEF j
<1>2. CASE i \in 1..Len(u)
  <2>1. j[i] = u[i]
    BY <1>1, <1>2
  <2>2. /\ u[i].op \in {"edge", "reset"}
        /\ "ptw_ready" \in DOMAIN u[i].sets => u[i].sets.ptw_ready \in BOOLEAN
        /\ Raises(u[i]) => /\ u[i].expect = MMU!Anything
                           /\ i < Len(u) \/ q = TRUE
                           /\ i < Len(u) => Lowers(u[i + 1])
    BY <1>2 DEF Answered
  <2>3. i < Len(u) => i < Len(j) /\ j[i + 1] = u[i + 1]
    BY <1>1, <1>2
  <2>4. i = Len(u) /\ q = TRUE => i < Len(j) /\ j[i + 1] = v[1] /\ Lowers(v[1])
    BY <1>1, <1>2
  <2> QED  BY <1>1, <1>2, <2>1, <2>2, <2>3, <2>4 DEF j
<1>3. CASE i - Len(u) \in 1..Len(v) /\ j[i] = v[i - Len(u)]
  <2> DEFINE k == i - Len(u)
  <2>1. /\ v[k].op \in {"edge", "reset"}
        /\ "ptw_ready" \in DOMAIN v[k].sets => v[k].sets.ptw_ready \in BOOLEAN
        /\ Raises(v[k]) => /\ v[k].expect = MMU!Anything
                           /\ k < Len(v) \/ p = TRUE
                           /\ k < Len(v) => Lowers(v[k + 1])
    BY <1>3 DEF Answered
  <2>2. (k < Len(v)) <=> (i < Len(j))
    BY <1>1, <1>3
  <2>3. k < Len(v) => j[i + 1] = v[k + 1]
    <3> SUFFICES ASSUME k < Len(v) PROVE j[i + 1] = v[k + 1]
      OBVIOUS
    <3>1. k + 1 \in 1..Len(v) /\ Len(u) + (k + 1) = i + 1
      BY <1>1, <1>3
    <3> QED  BY <1>1, <3>1
  <2> QED  BY <1>3, <2>1, <2>2, <2>3 DEF j
<1> QED  BY <1>1, <1>2, <1>3

LEMMA OneEdge ==
  ASSUME NEW sets, NEW expect
  PROVE  LET u == MMU!Edges(1, sets, expect)
         IN /\ IsSeq(u) /\ Len(u) = 1
            /\ u[1].op = "edge" /\ u[1].sets = sets /\ u[1].expect = expect
<1> DEFINE u == MMU!Edges(1, sets, expect)
<1>1. 1 \in Nat \ {0}
  OBVIOUS
<1>2. /\ IsSeq(u) /\ Len(u) = 1
      /\ \A i \in 1..1 : /\ u[i].op = "edge"
                         /\ u[i].sets = IF i = 1 THEN sets ELSE MMU!Anything
                         /\ u[i].expect = IF i = 1 THEN expect ELSE MMU!Anything
  <2>1. ASSUME NEW n \in Nat \ {0}
        PROVE  LET x == MMU!Edges(n, sets, expect)
               IN /\ IsSeq(x) /\ Len(x) = n
                  /\ \A i \in 1..n : /\ x[i].op = "edge"
                                     /\ x[i].sets = IF i = 1 THEN sets ELSE MMU!Anything
                                     /\ x[i].expect = IF i = n THEN expect ELSE MMU!Anything
    BY EdgesAre
  <2> QED  BY <1>1, <2>1, Zenon
<1> HIDE DEF u
<1>3. u[1].op = "edge" /\ u[1].sets = sets /\ u[1].expect = expect
  BY <1>2
<1> QED  BY <1>2, <1>3 DEF u

LEMMA OverAt ==
  ASSUME NEW sets, NEW wires
  PROVE  /\ DOMAIN MMU!Over(sets, wires) = DOMAIN sets \cup DOMAIN wires
         /\ \A pin : pin \in DOMAIN sets => MMU!Over(sets, wires)[pin] = sets[pin]
         /\ \A pin : pin \in DOMAIN wires /\ pin \notin DOMAIN sets =>
                      MMU!Over(sets, wires)[pin] = wires[pin]
BY DEF MMU!Over

\* The pieces.  The bench waits one, two, three or five edges.
Counts == {1, 2, 3, 5}

LEMMA CountsAre == Counts \subseteq Nat \ {0}
BY DEF Counts

LEMMA NothingSet == DOMAIN MMU!Anything = {}
BY DEF MMU!Anything

LEMMA EnabledPins ==
  ASSUME NEW vaddr, NEW store, NEW priv
  PROVE  LET sets == MMU!Enabled(MMU!Request(vaddr, store, priv))
         IN /\ DOMAIN sets = {"vaddr", "req_valid", "req_write", "req_priv", "vm_enable"}
            /\ sets.vaddr = vaddr /\ sets.req_valid = TRUE /\ sets.vm_enable = TRUE
<1> DEFINE on == [vm_enable |-> TRUE]
           request == MMU!Request(vaddr, store, priv)
<1>1. /\ DOMAIN on = {"vm_enable"} /\ on.vm_enable = TRUE
      /\ DOMAIN request = {"vaddr", "req_valid", "req_write", "req_priv"}
      /\ request.vaddr = vaddr /\ request.req_valid = TRUE
  BY DEF MMU!Request
<1> HIDE DEF on, request
<1>2. MMU!Enabled(request) = MMU!Over(on, request)
  BY DEF MMU!Enabled, on
<1>3. DOMAIN MMU!Over(on, request) =
        {"vaddr", "req_valid", "req_write", "req_priv", "vm_enable"}
  <2>1. DOMAIN MMU!Over(on, request) = DOMAIN on \cup DOMAIN request
    BY OverAt
  <2> QED  BY <1>1, <2>1
<1>4. /\ MMU!Over(on, request)["vaddr"] = vaddr
      /\ MMU!Over(on, request)["req_valid"] = TRUE
      /\ MMU!Over(on, request)["vm_enable"] = TRUE
  <2>1. /\ MMU!Over(on, request)["vaddr"] = request["vaddr"]
        /\ MMU!Over(on, request)["req_valid"] = request["req_valid"]
    BY <1>1 DEF MMU!Over
  <2>2. MMU!Over(on, request)["vm_enable"] = on["vm_enable"]
    BY <1>1 DEF MMU!Over
  <2> QED  BY <1>1, <2>1, <2>2
<1> QED  BY <1>2, <1>3, <1>4 DEF request

LEMMA ResetsAnswered ==
  ASSUME NEW sets
  PROVE  LET u == MMU!Resets(sets)
         IN /\ IsSeq(u) /\ Len(u) = 1 /\ u[1].op = "reset" /\ u[1].sets = sets
            /\ "ptw_ready" \notin DOMAIN sets \/ sets.ptw_ready = FALSE =>
                 Answered(u, FALSE)
<1> DEFINE s == [op |-> "reset", sets |-> sets, expect |-> MMU!Anything]
<1>1. s.op = "reset" /\ s.sets = sets
  OBVIOUS
<1>2. MMU!Resets(sets) = <<s>>
  BY DEF MMU!Resets
<1> HIDE DEF s
<1>3. IsSeq(<<s>>) /\ Len(<<s>>) = 1 /\ <<s>>[1] = s
  BY OneStep
<1>4. ASSUME "ptw_ready" \notin DOMAIN sets \/ sets.ptw_ready = FALSE
      PROVE  Answered(<<s>>, FALSE)
  <2>1. ASSUME NEW i \in 1..Len(<<s>>)
        PROVE  /\ <<s>>[i].op \in {"edge", "reset"} /\ <<s>>[i].sets = sets
    BY <1>1, <1>3
  <2>2. ~(TRUE = FALSE)
    OBVIOUS
  <2> QED  BY <1>3, <1>4, <2>1 DEF Answered, Raises
<1> QED  BY <1>1, <1>2, <1>3, <1>4

LEMMA EdgesAnswered ==
  ASSUME NEW n \in Counts, NEW sets, NEW expect, "ptw_ready" \notin DOMAIN sets
  PROVE  Answered(MMU!Edges(n, sets, expect), FALSE)
<1> DEFINE u == MMU!Edges(n, sets, expect)
<1>1. IsSeq(u) /\ Len(u) = n
  BY CountsAre, EdgesAre
<1>2. \A i \in 1..n : u[i].op = "edge" /\ "ptw_ready" \notin DOMAIN u[i].sets
  BY CountsAre, NothingSet, EdgesAre
<1> HIDE DEF u
<1>3. Answered(u, FALSE)
  BY <1>1, <1>2 DEF Answered, Raises
<1> QED  BY <1>3 DEF u

LEMMA RespondsPending ==
  ASSUME NEW pte
  PROVE  LET u == MMU!Responds(pte)
         IN /\ Answered(u, TRUE) /\ Len(u) = 1 /\ u[1].op = "edge"
            /\ u[1].sets = [ptw_data |-> pte, ptw_ready |-> TRUE]
<1> DEFINE sets == [ptw_data |-> pte, ptw_ready |-> TRUE]
           u == MMU!Edges(1, sets, MMU!Anything)
<1>1. /\ IsSeq(u) /\ Len(u) = 1 /\ u[1].op = "edge" /\ u[1].sets = sets
      /\ u[1].expect = MMU!Anything
  <2> HIDE DEF sets
  <2> QED  BY OneEdge
<1>2. sets.ptw_ready = TRUE
  OBVIOUS
<1>3. MMU!Responds(pte) = u
  BY DEF MMU!Responds
<1> HIDE DEF u, sets
<1>4. Answered(u, TRUE)
  <2>1. \A i \in 1..Len(u) : i = 1 /\ ~(i < Len(u))
    BY <1>1
  <2> QED  BY <1>1, <1>2, <2>1 DEF Answered
<1> QED  BY <1>1, <1>3, <1>4 DEF sets

LEMMA QuietAnswered ==
  ASSUME NEW n \in Counts, NEW expect
  PROVE  LET u == MMU!QuietThen(n, expect)
         IN /\ Answered(u, FALSE) /\ Len(u) = n /\ Len(u) >= 1 /\ Lowers(u[1])
            /\ \A i \in 1..n : /\ u[i].op = "edge"
                               /\ u[i].sets = IF i = 1 THEN [ptw_ready |-> FALSE]
                                                       ELSE MMU!Anything
<1> DEFINE sets == [ptw_ready |-> FALSE]
           u == MMU!Edges(n, sets, expect)
<1>1. /\ IsSeq(u) /\ Len(u) = n
      /\ \A i \in 1..n : u[i].op = "edge" /\ u[i].sets = IF i = 1 THEN sets ELSE MMU!Anything
  BY CountsAre, EdgesAre
<1>2. sets.ptw_ready = FALSE /\ DOMAIN sets = {"ptw_ready"}
  OBVIOUS
<1>3. MMU!QuietThen(n, expect) = u
  BY DEF MMU!QuietThen
<1> HIDE DEF u, sets
<1>4. \A i \in 1..n : "ptw_ready" \in DOMAIN u[i].sets => u[i].sets.ptw_ready = FALSE
  BY NothingSet, <1>1, <1>2
<1>5. Answered(u, FALSE)
  BY <1>1, <1>4 DEF Answered, Raises
<1>6. Lowers(u[1]) /\ Len(u) >= 1
  BY <1>1, <1>2, CountsAre DEF Lowers
<1> QED  BY <1>1, <1>3, <1>5, <1>6 DEF sets

LEMMA QuietIs == \A n : MMU!Quiet(n) = MMU!QuietThen(n, MMU!Anything)
BY DEF MMU!Quiet, MMU!QuietThen

LEMMA WalkPending ==
  ASSUME NEW gap \in Counts, NEW ppn, NEW flags
  PROVE  Answered(MMU!Walk(gap, ppn, flags), TRUE)
<1> DEFINE first == MMU!Responds(MMU!Pointer)
           quiet == MMU!Quiet(gap)
           second == MMU!Responds(MMU!Pte(ppn, flags))
<1>1. Answered(first, TRUE) /\ Answered(second, TRUE)
  BY RespondsPending
<1>2. Answered(quiet, FALSE) /\ Len(quiet) >= 1 /\ Lowers(quiet[1])
  BY QuietAnswered, QuietIs
<1>3. MMU!Walk(gap, ppn, flags) = (first \o quiet) \o second
  BY DEF MMU!Walk
<1> HIDE DEF first, quiet, second
<1>4. Answered(first \o quiet, FALSE)
  BY <1>1, <1>2, AnsweredJoin
<1>5. Answered((first \o quiet) \o second, TRUE)
  BY <1>1, <1>4, AnsweredJoin
<1> QED  BY <1>3, <1>5

LEMMA MmuScripts ==
  ASSUME NEW t \in DOMAIN MMU!Scripts
  PROVE  \/ t = "test_reset" /\ MMU!Scripts[t] = MMU!test_reset
         \/ t = "test_direct_mapping" /\ MMU!Scripts[t] = MMU!test_direct_mapping
         \/ t = "test_tlb_miss_ptw" /\ MMU!Scripts[t] = MMU!test_tlb_miss_ptw
         \/ t = "test_permission_check" /\ MMU!Scripts[t] = MMU!test_permission_check
         \/ t = "test_tlb_flush" /\ MMU!Scripts[t] = MMU!test_tlb_flush
         \/ t = "test_superpage" /\ MMU!Scripts[t] = MMU!test_superpage
         \/ t = "test_page_fault" /\ MMU!Scripts[t] = MMU!test_page_fault
         \/ t = "test_concurrent_requests" /\ MMU!Scripts[t] = MMU!test_concurrent_requests
BY DEF MMU!Scripts

\* In no test of the bench is an answer left standing.
LEMMA MmuAnswers ==
  ASSUME NEW t \in DOMAIN MMU!Scripts
  PROVE  Answered(MMU!Scripts[t], FALSE) /\ Len(MMU!Scripts[t]) \in Nat
<1>1. ASSUME NEW u, NEW v, Answered(u, FALSE), Answered(v, FALSE)
      PROVE  Answered(u \o v, FALSE)
  BY <1>1, AnsweredJoin
<1>2. ASSUME NEW u, Answered(u, FALSE), NEW n \in Counts, NEW pte, NEW expect
      PROVE  Answered((u \o MMU!Responds(pte)) \o MMU!QuietThen(n, expect), FALSE)
  <2> DEFINE answer == MMU!Responds(pte)
             quiet == MMU!QuietThen(n, expect)
  <2>1. Answered(answer, TRUE)
    BY RespondsPending
  <2>2. Answered(quiet, FALSE) /\ Len(quiet) >= 1 /\ Lowers(quiet[1])
    BY QuietAnswered
  <2> HIDE DEF answer, quiet
  <2>3. Answered(u \o answer, TRUE)
    BY <1>2, <2>1, AnsweredJoin
  <2>4. Answered((u \o answer) \o quiet, FALSE)
    BY <2>2, <2>3, AnsweredJoin
  <2> QED  BY <2>4 DEF answer, quiet
<1>3. ASSUME NEW u, Answered(u, FALSE), NEW gap \in Counts, NEW n \in Counts,
             NEW ppn, NEW flags
      PROVE  Answered((u \o MMU!Walk(gap, ppn, flags)) \o MMU!Quiet(n), FALSE)
  <2> DEFINE walk == MMU!Walk(gap, ppn, flags)
             quiet == MMU!Quiet(n)
  <2>1. Answered(walk, TRUE)
    BY WalkPending
  <2>2. Answered(quiet, FALSE) /\ Len(quiet) >= 1 /\ Lowers(quiet[1])
    BY QuietAnswered, QuietIs
  <2> HIDE DEF walk, quiet
  <2>3. Answered(u \o walk, TRUE)
    BY <1>3, <2>1, AnsweredJoin
  <2>4. Answered((u \o walk) \o quiet, FALSE)
    BY <2>2, <2>3, AnsweredJoin
  <2> QED  BY <2>4 DEF walk, quiet
<1>4. ASSUME NEW sets, "ptw_ready" \notin DOMAIN sets \/ sets.ptw_ready = FALSE
      PROVE  Answered(MMU!Resets(sets), FALSE)
  BY <1>4, ResetsAnswered
<1>5. ASSUME NEW n \in Counts, NEW sets, "ptw_ready" \notin DOMAIN sets, NEW expect
      PROVE  Answered(MMU!Edges(n, sets, expect), FALSE)
  BY <1>5, EdgesAnswered
<1>6. "ptw_ready" \notin DOMAIN MMU!Anything
  BY NothingSet
<1>7. ASSUME NEW vaddr, NEW store, NEW priv
      PROVE  /\ "ptw_ready" \notin DOMAIN MMU!Enabled(MMU!Request(vaddr, store, priv))
             /\ "ptw_ready" \notin DOMAIN MMU!Request(vaddr, store, priv)
  <2>1. DOMAIN MMU!Enabled(MMU!Request(vaddr, store, priv)) =
          {"vaddr", "req_valid", "req_write", "req_priv", "vm_enable"}
    BY EnabledPins
  <2> QED  BY <2>1 DEF MMU!Request
<1>8. ASSUME NEW n \in Counts, NEW expect, NEW vaddr, NEW store, NEW priv
      PROVE  Answered(MMU!Edges(n, MMU!Enabled(MMU!Request(vaddr, store, priv)), expect), FALSE)
  BY <1>5, <1>7
<1>9. ASSUME NEW n \in Counts, NEW expect
      PROVE  Answered(MMU!Edges(n, MMU!Anything, expect), FALSE)
  BY <1>5, <1>6
<1>10. Answered(MMU!Resets(MMU!Anything), FALSE)
  BY <1>4, <1>6
<1> DEFINE counted == 1 \in Counts /\ 2 \in Counts /\ 3 \in Counts /\ 5 \in Counts
<1>0. counted
  BY DEF Counts
<1>11. Answered(MMU!test_reset, FALSE)
  <2> DEFINE sets == [req_valid |-> FALSE, vm_enable |-> FALSE, tlb_flush |-> FALSE]
  <2>1. "ptw_ready" \notin DOMAIN sets
    OBVIOUS
  <2> HIDE DEF sets
  <2>2. Answered(MMU!Resets(sets), FALSE)
    BY <1>4, <2>1
  <2> QED  BY <1>0, <1>1, <1>9, <2>2, Zenon DEF MMU!test_reset, sets
<1>12. Answered(MMU!test_direct_mapping, FALSE)
  <2> DEFINE asks(vaddr) == MMU!Request(vaddr, FALSE, "M")
             maps(sets) == MMU!Edges(1, sets, [paddr |-> sets.vaddr, trans_valid |-> TRUE,
                                               page_fault |-> FALSE, access_fault |-> FALSE])
  <2>1. ASSUME NEW sets, "ptw_ready" \notin DOMAIN sets PROVE Answered(maps(sets), FALSE)
    BY <1>0, <1>5, <2>1, Zenon
  <2>2. \A vaddr : "ptw_ready" \notin DOMAIN asks(vaddr)
    BY <1>7, Zenon
  <2> HIDE DEF asks, maps
  <2>3. "ptw_ready" \notin DOMAIN MMU!Over([vm_enable |-> FALSE], asks(<<0, 0>>))
    <3>1. DOMAIN [vm_enable |-> FALSE] = {"vm_enable"}
      OBVIOUS
    <3> QED  BY <2>2, <3>1 DEF MMU!Over
  <2> QED  BY <1>0, <1>1, <1>9, <1>10, <2>1, <2>2, <2>3, Zenon
           DEF MMU!test_direct_mapping, asks, maps
<1>13. Answered(MMU!test_tlb_miss_ptw, FALSE)
  BY <1>0, <1>1, <1>3, <1>8, <1>9, <1>10, Zenon DEF MMU!test_tlb_miss_ptw
<1>14. Answered(MMU!test_permission_check, FALSE)
  <2> DEFINE sets == [vaddr |-> <<0, 2>>, req_write |-> TRUE]
  <2>1. "ptw_ready" \notin DOMAIN sets
    OBVIOUS
  <2> HIDE DEF sets
  <2>2. Answered(MMU!Edges(2, sets, MMU!Anything), FALSE)
    BY <1>0, <1>5, <2>1, Zenon
  <2> QED  BY <1>0, <1>1, <1>3, <1>8, <1>9, <1>10, <2>2, Zenon DEF MMU!test_permission_check, sets
<1>15. Answered(MMU!test_tlb_flush, FALSE)
  <2> DEFINE resets == [req_valid |-> FALSE, ptw_ready |-> FALSE]
             again == [vaddr |-> <<0, 1>>, req_valid |-> TRUE]
             low == [req_valid |-> FALSE]
             flush == [tlb_flush |-> TRUE, tlb_flush_vaddr |-> FALSE]
             done == [tlb_flush |-> FALSE]
  <2>1. /\ resets.ptw_ready = FALSE /\ "ptw_ready" \notin DOMAIN again
        /\ "ptw_ready" \notin DOMAIN low /\ "ptw_ready" \notin DOMAIN flush
        /\ "ptw_ready" \notin DOMAIN done
    OBVIOUS
  <2> HIDE DEF resets, again, low, flush, done
  <2>2. Answered(MMU!Resets(resets), FALSE)
    BY <1>4, <2>1
  <2>3. \A n \in Counts : \A expect :
          /\ Answered(MMU!Edges(n, again, expect), FALSE)
          /\ Answered(MMU!Edges(n, low, expect), FALSE)
          /\ Answered(MMU!Edges(n, flush, expect), FALSE)
          /\ Answered(MMU!Edges(n, done, expect), FALSE)
    BY <1>5, <2>1, Zenon
  <2> QED  BY <1>0, <1>1, <1>3, <1>8, <1>9, <2>2, <2>3, Zenon
           DEF MMU!test_tlb_flush, resets, again, low, flush, done
<1>16. Answered(MMU!test_superpage, FALSE)
  BY <1>0, <1>1, <1>2, <1>8, <1>9, <1>10, Zenon DEF MMU!test_superpage
<1>17. Answered(MMU!test_page_fault, FALSE)
  <2> DEFINE resets == [req_valid |-> FALSE, ptw_ready |-> FALSE]
  <2>1. resets.ptw_ready = FALSE
    OBVIOUS
  <2> HIDE DEF resets
  <2>2. Answered(MMU!Resets(resets), FALSE)
    BY <1>4, <2>1
  <2>3. MMU!Quiet(3) = MMU!QuietThen(3, MMU!Anything)
    BY QuietIs
  <2> QED  BY <1>0, <1>1, <1>2, <1>8, <1>9, <2>2, <2>3, Zenon DEF MMU!test_page_fault, resets
<1>18. Answered(MMU!test_concurrent_requests, FALSE)
  <2> DEFINE one(page) ==
        (MMU!Edges(2, MMU!Enabled(MMU!Request(<<0, page>>, FALSE, "U")), MMU!Anything)
         \o MMU!Walk(2, 10 + page, {"V", "R", "W", "U"})) \o MMU!Quiet(5)
  <2>1. ASSUME NEW page PROVE Answered(one(page), FALSE)
    BY <1>0, <1>3, <1>8, Zenon
  <2> HIDE DEF one
  <2> QED  BY <1>0, <1>1, <1>9, <1>10, <2>1, Zenon DEF MMU!test_concurrent_requests, one
<1>19. Answered(MMU!Scripts[t], FALSE)
  BY MmuScripts, <1>11, <1>12, <1>13, <1>14, <1>15, <1>16, <1>17, <1>18, Zenon
<1> QED  BY <1>19 DEF Answered, IsSeq

\* Neither test_reset nor test_direct_mapping turns translation on.
StaysOff(u) ==
  /\ IsSeq(u)
  /\ \A i \in 1..Len(u) :
       /\ "vm_enable" \in DOMAIN u[i].sets => u[i].sets.vm_enable = FALSE
       /\ "tlb_flush" \in DOMAIN u[i].sets => u[i].sets.tlb_flush = FALSE

LEMMA StaysOffJoin ==
  ASSUME NEW u, NEW v, StaysOff(u), StaysOff(v)
  PROVE  StaysOff(u \o v)
<1> DEFINE j == u \o v
<1>1. /\ IsSeq(j)
      /\ \A k \in 1..Len(u) : j[k] = u[k]
      /\ \A k \in 1..Len(j) :
           k \in 1..Len(u) \/ (k - Len(u) \in 1..Len(v) /\ j[k] = v[k - Len(u)])
  BY Joined DEF StaysOff
<1> HIDE DEF j
<1>2. StaysOff(j)
  <2> SUFFICES ASSUME NEW i \in 1..Len(j)
               PROVE  /\ "vm_enable" \in DOMAIN j[i].sets => j[i].sets.vm_enable = FALSE
                      /\ "tlb_flush" \in DOMAIN j[i].sets => j[i].sets.tlb_flush = FALSE
    BY <1>1 DEF StaysOff
  <2>1. CASE i \in 1..Len(u)
    BY <1>1, <2>1 DEF StaysOff
  <2>2. CASE i - Len(u) \in 1..Len(v) /\ j[i] = v[i - Len(u)]
    BY <2>2 DEF StaysOff
  <2> QED  BY <1>1, <2>1, <2>2
<1> QED  BY <1>2 DEF j

LEMMA EdgesStayOff ==
  ASSUME NEW n \in Counts, NEW sets, NEW expect,
         "vm_enable" \in DOMAIN sets => sets.vm_enable = FALSE,
         "tlb_flush" \in DOMAIN sets => sets.tlb_flush = FALSE
  PROVE  StaysOff(MMU!Edges(n, sets, expect)) /\ StaysOff(MMU!Resets(sets))
<1> DEFINE u == MMU!Edges(n, sets, expect)
           r == MMU!Resets(sets)
<1>1. IsSeq(u) /\ Len(u) = n
  BY CountsAre, EdgesAre
<1>2. \A i \in 1..n : u[i].sets = sets \/ u[i].sets = MMU!Anything
  BY CountsAre, EdgesAre
<1>3. IsSeq(r) /\ Len(r) = 1 /\ r[1].sets = sets
  BY ResetsAnswered
<1> HIDE DEF u, r
<1>4. StaysOff(u)
  <2>1. ASSUME NEW i \in 1..Len(u)
        PROVE  /\ "vm_enable" \in DOMAIN u[i].sets => u[i].sets.vm_enable = FALSE
               /\ "tlb_flush" \in DOMAIN u[i].sets => u[i].sets.tlb_flush = FALSE
    <3>1. CASE u[i].sets = sets
      BY <3>1
    <3>2. CASE u[i].sets = MMU!Anything
      BY <3>2, NothingSet
    <3> QED  BY <1>1, <1>2, <3>1, <3>2
  <2> QED  BY <1>1, <2>1 DEF StaysOff
<1>5. StaysOff(r)
  BY <1>3 DEF StaysOff
<1> QED  BY <1>4, <1>5 DEF u, r

LEMMA FirstTestsStayOff ==
  StaysOff(MMU!test_reset) /\ StaysOff(MMU!test_direct_mapping)
<1>1. ASSUME NEW u, NEW v, StaysOff(u), StaysOff(v)
      PROVE  StaysOff(u \o v)
  BY <1>1, StaysOffJoin
<1> DEFINE off(sets) == /\ "vm_enable" \in DOMAIN sets => sets.vm_enable = FALSE
                        /\ "tlb_flush" \in DOMAIN sets => sets.tlb_flush = FALSE
<1>2. ASSUME NEW n \in Counts, NEW sets, off(sets), NEW expect
      PROVE  StaysOff(MMU!Edges(n, sets, expect)) /\ StaysOff(MMU!Resets(sets))
  BY <1>2, EdgesStayOff
<1>3. 1 \in Counts /\ 2 \in Counts
  BY DEF Counts
<1>4. off(MMU!Anything)
  BY NothingSet
<1>5. ASSUME NEW vaddr PROVE off(MMU!Request(vaddr, FALSE, "M"))
  BY DEF MMU!Request
<1>6. off(MMU!Over([vm_enable |-> FALSE], MMU!Request(<<0, 0>>, FALSE, "M")))
  <2> DEFINE low == [vm_enable |-> FALSE]
  <2>1. DOMAIN low = {"vm_enable"} /\ low["vm_enable"] = FALSE
    OBVIOUS
  <2>2. "tlb_flush" \notin DOMAIN MMU!Request(<<0, 0>>, FALSE, "M")
    BY DEF MMU!Request
  <2> HIDE DEF low
  <2>3. off(MMU!Over(low, MMU!Request(<<0, 0>>, FALSE, "M")))
    BY <2>1, <2>2 DEF MMU!Over
  <2> QED  BY <2>3 DEF low
<1>7. StaysOff(MMU!test_reset)
  <2> DEFINE sets == [req_valid |-> FALSE, vm_enable |-> FALSE, tlb_flush |-> FALSE]
  <2>1. off(sets)
    OBVIOUS
  <2> HIDE DEF sets, off
  <2> QED  BY <1>1, <1>2, <1>3, <1>4, <2>1, Zenon DEF MMU!test_reset, sets
<1>8. StaysOff(MMU!test_direct_mapping)
  <2> HIDE DEF off
  <2> QED  BY <1>1, <1>2, <1>3, <1>4, <1>5, <1>6, Zenon DEF MMU!test_direct_mapping
<1> QED  BY <1>7, <1>8

\* Three tests raise one request after their reset and change neither its address nor
\* some more of the wires.
Plain(v, addr, pins) ==
  /\ IsSeq(v)
  /\ \A i \in 1..Len(v) : /\ v[i].op = "edge" /\ DOMAIN v[i].sets \cap pins = {}
                          /\ "vaddr" \in DOMAIN v[i].sets => v[i].sets.vaddr = addr
Opens(u, sets, addr, pins) ==
  /\ IsSeq(u) /\ Len(u) >= 4
  /\ \A i \in 1..Len(u) : u[i].op = IF i = 1 THEN "reset" ELSE "edge"
  /\ u[1].sets = sets /\ u[2].sets = MMU!Anything /\ u[3].sets = MMU!Anything
  /\ u[4].sets = MMU!Enabled(MMU!Request(addr, FALSE, "U"))
  /\ \A i \in 5..Len(u) : /\ DOMAIN u[i].sets \cap pins = {}
                          /\ "vaddr" \in DOMAIN u[i].sets => u[i].sets.vaddr = addr

LEMMA OpensJoin ==
  ASSUME NEW u, NEW v, NEW sets, NEW addr, NEW pins,
         Opens(u, sets, addr, pins), Plain(v, addr, pins)
  PROVE  Opens(u \o v, sets, addr, pins)
<1> DEFINE j == u \o v
<1>1. /\ IsSeq(j) /\ Len(u) \in Nat /\ Len(v) \in Nat /\ Len(j) = Len(u) + Len(v)
      /\ \A k \in 1..Len(u) : j[k] = u[k]
      /\ \A k \in 1..Len(j) :
           k \in 1..Len(u) \/ (k - Len(u) \in 1..Len(v) /\ j[k] = v[k - Len(u)])
  BY Joined DEF Opens, Plain
<1> HIDE DEF j
<1>2. Len(j) >= 4 /\ j[1] = u[1] /\ j[2] = u[2] /\ j[3] = u[3] /\ j[4] = u[4]
  BY <1>1 DEF Opens
<1>3. ASSUME NEW i \in 1..Len(j)
      PROVE  /\ j[i].op = IF i = 1 THEN "reset" ELSE "edge"
             /\ i >= 5 => /\ DOMAIN j[i].sets \cap pins = {}
                          /\ "vaddr" \in DOMAIN j[i].sets => j[i].sets.vaddr = addr
  <2>1. CASE i \in 1..Len(u)
    <3>1. i >= 5 => i \in 5..Len(u)
      BY <1>1, <2>1
    <3> QED  BY <1>1, <2>1, <3>1 DEF Opens
  <2>2. CASE i - Len(u) \in 1..Len(v) /\ j[i] = v[i - Len(u)]
    <3>1. i # 1
      BY <1>1, <2>2 DEF Opens
    <3> QED  BY <2>2, <3>1 DEF Plain
  <2> QED  BY <1>1, <2>1, <2>2
<1>4. \A i \in 5..Len(j) : i \in 1..Len(j) /\ i >= 5
  BY <1>1
<1>5. Opens(j, sets, addr, pins)
  BY <1>1, <1>2, <1>3, <1>4 DEF Opens
<1> QED  BY <1>5 DEF j

LEMMA PlainJoin ==
  ASSUME NEW u, NEW v, NEW addr, NEW pins, Plain(u, addr, pins), Plain(v, addr, pins)
  PROVE  Plain(u \o v, addr, pins)
<1> DEFINE j == u \o v
<1>1. /\ IsSeq(j)
      /\ \A k \in 1..Len(u) : j[k] = u[k]
      /\ \A k \in 1..Len(j) :
           k \in 1..Len(u) \/ (k - Len(u) \in 1..Len(v) /\ j[k] = v[k - Len(u)])
  BY Joined DEF Plain
<1> HIDE DEF j
<1>2. ASSUME NEW i \in 1..Len(j)
      PROVE  /\ j[i].op = "edge" /\ DOMAIN j[i].sets \cap pins = {}
             /\ "vaddr" \in DOMAIN j[i].sets => j[i].sets.vaddr = addr
  <2>1. CASE i \in 1..Len(u)
    BY <1>1, <2>1 DEF Plain
  <2>2. CASE i - Len(u) \in 1..Len(v) /\ j[i] = v[i - Len(u)]
    BY <2>2 DEF Plain
  <2> QED  BY <1>1, <2>1, <2>2
<1>3. Plain(j, addr, pins)
  BY <1>1, <1>2 DEF Plain
<1> QED  BY <1>3 DEF j

LEMMA EdgesPlain ==
  ASSUME NEW n \in Counts, NEW sets, NEW expect, NEW addr, NEW pins,
         DOMAIN sets \cap pins = {}, "vaddr" \in DOMAIN sets => sets.vaddr = addr
  PROVE  Plain(MMU!Edges(n, sets, expect), addr, pins)
<1> DEFINE u == MMU!Edges(n, sets, expect)
<1>1. IsSeq(u) /\ Len(u) = n
  BY CountsAre, EdgesAre
<1>2. \A i \in 1..n : u[i].op = "edge" /\ (u[i].sets = sets \/ u[i].sets = MMU!Anything)
  BY CountsAre, EdgesAre
<1> HIDE DEF u
<1>3. ASSUME NEW i \in 1..Len(u)
      PROVE  /\ u[i].op = "edge" /\ DOMAIN u[i].sets \cap pins = {}
             /\ "vaddr" \in DOMAIN u[i].sets => u[i].sets.vaddr = addr
  <2>1. CASE u[i].sets = sets
    BY <1>1, <1>2, <2>1
  <2>2. CASE u[i].sets = MMU!Anything
    BY <1>1, <1>2, <2>2, NothingSet
  <2> QED  BY <1>1, <1>2, <2>1, <2>2
<1>4. Plain(u, addr, pins)
  BY <1>1, <1>3 DEF Plain
<1> QED  BY <1>4 DEF u

\* Answers of the memory and the edges after them set two of the wires only.
LEMMA WalkPlain ==
  ASSUME NEW gap \in Counts, NEW n \in Counts, NEW ppn, NEW flags, NEW expect,
         NEW addr, NEW pins, pins \cap {"ptw_data", "ptw_ready"} = {}
  PROVE  /\ Plain(MMU!Responds(MMU!Pte(ppn, flags)), addr, pins)
         /\ Plain(MMU!QuietThen(n, expect), addr, pins)
         /\ Plain(MMU!Quiet(n), addr, pins)
         /\ Plain(MMU!Walk(gap, ppn, flags), addr, pins)
<1> DEFINE answer(pte) == [ptw_data |-> pte, ptw_ready |-> TRUE]
           low == [ptw_ready |-> FALSE]
<1>1. /\ DOMAIN low \cap pins = {} /\ "vaddr" \notin DOMAIN low
      /\ \A pte : DOMAIN answer(pte) \cap pins = {} /\ "vaddr" \notin DOMAIN answer(pte)
  OBVIOUS
<1>2. 1 \in Counts
  BY DEF Counts
<1> HIDE DEF answer, low
<1>3. ASSUME NEW pte PROVE Plain(MMU!Responds(pte), addr, pins)
  <2>1. Plain(MMU!Edges(1, answer(pte), MMU!Anything), addr, pins)
    BY <1>1, <1>2, EdgesPlain
  <2> QED  BY <2>1 DEF MMU!Responds, answer
<1>4. ASSUME NEW k \in Counts, NEW e PROVE Plain(MMU!QuietThen(k, e), addr, pins)
  <2>1. Plain(MMU!Edges(k, low, e), addr, pins)
    BY <1>1, EdgesPlain
  <2> QED  BY <2>1 DEF MMU!QuietThen, low
<1>5. \A k \in Counts : Plain(MMU!Quiet(k), addr, pins)
  BY <1>4, QuietIs, Zenon
<1>6. Plain(MMU!Walk(gap, ppn, flags), addr, pins)
  BY <1>3, <1>5, PlainJoin, Zenon DEF MMU!Walk
<1> QED  BY <1>3, <1>4, <1>5, <1>6

\* The opening of those tests.
LEMMA OpeningOf ==
  ASSUME NEW sets, NEW addr, NEW n \in Counts, n >= 2, NEW expect, NEW pins
  PROVE  Opens((MMU!Resets(sets) \o MMU!Edges(2, MMU!Anything, MMU!Anything))
                 \o MMU!Edges(n, MMU!Enabled(MMU!Request(addr, FALSE, "U")), expect),
               sets, addr, pins)
<1> DEFINE enabled == MMU!Enabled(MMU!Request(addr, FALSE, "U"))
           r == MMU!Resets(sets)
           u == MMU!Edges(2, MMU!Anything, MMU!Anything)
           v == MMU!Edges(n, enabled, expect)
           ru == r \o u
           j == ru \o v
<1> HIDE DEF enabled
<1>1. IsSeq(r) /\ Len(r) = 1 /\ r[1].op = "reset" /\ r[1].sets = sets
  BY ResetsAnswered
<1>2. 2 \in Counts /\ n \in Nat
  BY CountsAre DEF Counts
<1>3. /\ IsSeq(u) /\ Len(u) = 2
      /\ \A i \in 1..2 : u[i].op = "edge" /\ u[i].sets = MMU!Anything
  <2>1. ASSUME NEW k \in Counts
        PROVE  LET x == MMU!Edges(k, MMU!Anything, MMU!Anything)
               IN /\ IsSeq(x) /\ Len(x) = k
                  /\ \A i \in 1..k : x[i].op = "edge" /\ x[i].sets = MMU!Anything
    BY CountsAre, EdgesAre
  <2> QED  BY <1>2, <2>1, Zenon
<1>4. /\ IsSeq(v) /\ Len(v) = n
      /\ \A i \in 1..n : /\ v[i].op = "edge"
                         /\ v[i].sets = IF i = 1 THEN enabled ELSE MMU!Anything
  BY CountsAre, EdgesAre
<1> HIDE DEF r, u, v
<1>5. /\ IsSeq(ru) /\ Len(ru) = 3 /\ ru[1] = r[1]
      /\ \A i \in 2..3 : ru[i] = u[i - 1]
  <2>1. /\ IsSeq(ru) /\ Len(ru) = Len(r) + Len(u)
        /\ \A i \in 1..Len(r) : ru[i] = r[i]
        /\ \A i \in 1..Len(u) : ru[Len(r) + i] = u[i]
    <3>1. IsSeq(r) /\ IsSeq(u)
      BY <1>1, <1>3
    <3> QED  BY ONLY <3>1, Joined
  <2>2. ASSUME NEW i \in 2..3 PROVE i - 1 \in 1..2 /\ 1 + (i - 1) = i
    OBVIOUS
  <2> HIDE DEF ru
  <2> QED  BY <1>1, <1>3, <2>1, <2>2
<1> HIDE DEF ru
<1>6. /\ IsSeq(j) /\ Len(j) = 3 + n /\ \A i \in 1..3 : j[i] = ru[i]
      /\ \A i \in 4..(3 + n) : j[i] = v[i - 3]
  <2>1. /\ IsSeq(j) /\ Len(j) = Len(ru) + Len(v)
        /\ \A i \in 1..Len(ru) : j[i] = ru[i]
        /\ \A i \in 1..Len(v) : j[Len(ru) + i] = v[i]
    <3>1. IsSeq(ru) /\ IsSeq(v)
      BY <1>4, <1>5
    <3> QED  BY ONLY <3>1, Joined
  <2>2. ASSUME NEW i \in 4..(3 + n) PROVE i - 3 \in 1..n /\ 3 + (i - 3) = i
    BY <1>2
  <2> HIDE DEF j
  <2> QED  BY <1>4, <1>5, <2>1, <2>2
<1> HIDE DEF j
<1>7. /\ j[1].op = "reset" /\ j[1].sets = sets
      /\ \A i \in 2..3 : j[i].op = "edge" /\ j[i].sets = MMU!Anything
  BY <1>1, <1>3, <1>5, <1>6
<1>8. /\ \A i \in 4..(3 + n) : j[i].op = "edge"
      /\ j[4].sets = enabled /\ \A i \in 5..(3 + n) : j[i].sets = MMU!Anything
  BY <1>2, <1>4, <1>6
<1>9. Opens(j, sets, addr, pins)
  <2>1. \A i \in 1..Len(j) : j[i].op = IF i = 1 THEN "reset" ELSE "edge"
    <3>1. \A i \in 1..(3 + n) : i = 1 \/ i \in 2..3 \/ i \in 4..(3 + n)
      BY <1>2
    <3> QED  BY <1>6, <1>7, <1>8, <3>1
  <2>2. \A i \in 5..Len(j) : /\ DOMAIN j[i].sets \cap pins = {}
                             /\ "vaddr" \in DOMAIN j[i].sets => j[i].sets.vaddr = addr
    BY <1>6, <1>8, NothingSet
  <2>3. Len(j) >= 4
    BY <1>2, <1>6
  <2> QED  BY <1>6, <1>7, <1>8, <2>1, <2>2, <2>3 DEF Opens, enabled
<1> QED  BY <1>9 DEF j, ru, r, u, v, enabled

LEMMA RequestsOpen ==
  /\ Opens(MMU!test_tlb_miss_ptw, MMU!Anything, OneUp,
           {"vaddr", "req_valid", "vm_enable", "tlb_flush"})
  /\ Opens(MMU!test_tlb_flush, [req_valid |-> FALSE, ptw_ready |-> FALSE], OneUp, {})
  /\ Opens(MMU!test_page_fault, [req_valid |-> FALSE, ptw_ready |-> FALSE], <<3, 3>>, {})
<1> DEFINE pins == {"vaddr", "req_valid", "vm_enable", "tlb_flush"}
           low == [req_valid |-> FALSE, ptw_ready |-> FALSE]
<1>1. 1 \in Counts /\ 2 \in Counts /\ 3 \in Counts /\ 5 \in Counts
  BY DEF Counts
<1>2. /\ pins \cap {"ptw_data", "ptw_ready"} = {}
      /\ {} \cap {"ptw_data", "ptw_ready"} = {}
  OBVIOUS
<1> DEFINE counted(n) == n \in Counts /\ n >= 2
<1>3. counted(2) /\ counted(3)
  BY <1>1
<1>4. ASSUME NEW sets, NEW addr, NEW n, counted(n), NEW expect, NEW p
      PROVE  Opens((MMU!Resets(sets) \o MMU!Edges(2, MMU!Anything, MMU!Anything))
                     \o MMU!Edges(n, MMU!Enabled(MMU!Request(addr, FALSE, "U")), expect),
                   sets, addr, p)
  BY <1>4, OpeningOf
<1> HIDE DEF pins, low, counted
<1>5. Opens(MMU!test_tlb_miss_ptw, MMU!Anything, <<0, 1>>, pins)
  BY <1>1, <1>2, <1>3, <1>4, WalkPlain, OpensJoin, Zenon DEF MMU!test_tlb_miss_ptw
<1>6. Opens(MMU!test_page_fault, low, <<3, 3>>, {})
  <2>1. MMU!InvalidPte = MMU!Pte(0, {})
    BY DEF MMU!InvalidPte
  <2> QED
    BY <1>1, <1>2, <1>3, <1>4, <2>1, WalkPlain, OpensJoin, Zenon DEF MMU!test_page_fault, low
<1>7. Opens(MMU!test_tlb_flush, low, <<0, 1>>, {})
  <2> DEFINE again == [vaddr |-> <<0, 1>>, req_valid |-> TRUE]
             drop == [req_valid |-> FALSE]
             flush == [tlb_flush |-> TRUE, tlb_flush_vaddr |-> FALSE]
             over == [tlb_flush |-> FALSE]
             keeps(sets) == "vaddr" \in DOMAIN sets => sets.vaddr = <<0, 1>>
  <2>1. keeps(again) /\ keeps(drop) /\ keeps(flush) /\ keeps(over)
    OBVIOUS
  <2>2. ASSUME NEW n \in Counts, NEW sets, NEW expect, keeps(sets)
        PROVE  Plain(MMU!Edges(n, sets, expect), <<0, 1>>, {})
    <3>1. DOMAIN sets \cap {} = {}
      OBVIOUS
    <3> QED  BY <2>2, <3>1, EdgesPlain
  <2> HIDE DEF again, drop, flush, over, keeps
  <2> QED
    BY <1>1, <1>2, <1>3, <1>4, <2>1, <2>2, WalkPlain, OpensJoin, Zenon
    DEF MMU!test_tlb_flush, low, again, drop, flush, over
<1> QED  BY <1>5, <1>6, <1>7 DEF OneUp, pins, low

\* What test_permission_check sets at each of its steps.
AnswerWith(pte) == [ptw_data |-> pte, ptw_ready |-> TRUE]
PermissionSets(i) ==
  CASE i = 4 -> MMU!Enabled(MMU!Request(OneUp, FALSE, "U"))
    [] i \in {6, 17} -> AnswerWith(MMU!Pointer)
    [] i = 9 -> AnswerWith(MMU!Pte(3, {"V", "R", "U"}))
    [] i = 20 -> AnswerWith(MMU!Pte(4, {"V", "R"}))
    [] i \in {7, 10, 18, 21} -> [ptw_ready |-> FALSE]
    [] i = 15 -> [vaddr |-> <<0, 2>>, req_write |-> TRUE]
    [] OTHER -> MMU!Anything
PermissionStep(step, i) == /\ step.op = IF i = 1 THEN "reset" ELSE "edge"
                           /\ step.sets = PermissionSets(i)

\* The first n of these steps.
Permission(u, n) == IsSeq(u) /\ Len(u) = n /\ \A i \in 1..n : PermissionStep(u[i], i)

LEMMA PermissionGoesOn ==
  ASSUME NEW u, NEW v, NEW n \in Nat, NEW k \in Nat, Permission(u, n), IsSeq(v), Len(v) = k,
         \A i \in 1..k : PermissionStep(v[i], n + i)
  PROVE  Permission(u \o v, n + k)
<1> DEFINE j == u \o v
<1>1. IsSeq(u) /\ Len(u) = n
  BY DEF Permission
<1>2. /\ IsSeq(j) /\ Len(j) = Len(u) + Len(v)
      /\ \A i \in 1..Len(u) : j[i] = u[i]
      /\ \A i \in 1..Len(j) :
           i \in 1..Len(u) \/ (i - Len(u) \in 1..Len(v) /\ j[i] = v[i - Len(u)])
  BY <1>1, Joined
<1> HIDE DEF j
<1>3. ASSUME NEW i \in 1..(n + k) PROVE PermissionStep(j[i], i)
  <2>1. CASE i \in 1..n
    BY <1>1, <1>2, <2>1 DEF Permission
  <2>2. CASE i - n \in 1..k /\ j[i] = v[i - n]
    <3>1. n + (i - n) = i
      OBVIOUS
    <3>2. PermissionStep(v[i - n], n + (i - n))
      BY <2>2
    <3> QED  BY <2>2, <3>1, <3>2
  <2> QED  BY <1>1, <1>2, <2>1, <2>2
<1>4. Permission(j, n + k)
  BY <1>1, <1>2, <1>3 DEF Permission
<1> QED  BY <1>4 DEF j

LEMMA PermissionEdges ==
  ASSUME NEW u, NEW n \in Nat \ {0}, NEW k \in Counts, Permission(u, n), NEW sets, NEW expect,
         PermissionSets(n + 1) = sets,
         \A i \in 2..k : PermissionSets(n + i) = MMU!Anything
  PROVE  Permission(u \o MMU!Edges(k, sets, expect), n + k)
<1> DEFINE v == MMU!Edges(k, sets, expect)
<1>1. /\ IsSeq(v) /\ Len(v) = k
      /\ \A i \in 1..k : /\ v[i].op = "edge"
                         /\ v[i].sets = IF i = 1 THEN sets ELSE MMU!Anything
  BY ONLY k \in Counts, CountsAre, EdgesAre
<1>2. k \in Nat \ {0} /\ n \in Nat
  BY CountsAre
<1> HIDE DEF v
<1>3. ASSUME NEW i \in 1..k PROVE PermissionStep(v[i], n + i)
  <2>1. n + i # 1 /\ (i = 1 \/ i \in 2..k)
    BY <1>2
  <2> QED  BY <1>1, <2>1 DEF PermissionStep
<1>4. Permission(u \o v, n + k)
  BY <1>1, <1>2, <1>3, PermissionGoesOn
<1> QED  BY <1>4 DEF v

LEMMA WalkSteps ==
  ASSUME NEW ppn, NEW flags
  PROVE  LET v == MMU!Walk(2, ppn, flags)
         IN /\ IsSeq(v) /\ Len(v) = 4 /\ \A i \in 1..4 : v[i].op = "edge"
            /\ v[1].sets = AnswerWith(MMU!Pointer) /\ v[2].sets = [ptw_ready |-> FALSE]
            /\ v[3].sets = MMU!Anything /\ v[4].sets = AnswerWith(MMU!Pte(ppn, flags))
<1> DEFINE a == MMU!Responds(MMU!Pointer)
           b == MMU!Quiet(2)
           c == MMU!Responds(MMU!Pte(ppn, flags))
           ab == a \o b
           j == ab \o c
           low == [ptw_ready |-> FALSE]
<1>1. MMU!Walk(2, ppn, flags) = j
  BY DEF MMU!Walk
<1>2. /\ IsSeq(a) /\ Len(a) = 1 /\ a[1].op = "edge" /\ a[1].sets = AnswerWith(MMU!Pointer)
      /\ IsSeq(c) /\ Len(c) = 1 /\ c[1].op = "edge"
      /\ c[1].sets = AnswerWith(MMU!Pte(ppn, flags))
  BY RespondsPending DEF Answered, AnswerWith
<1>3. /\ IsSeq(b) /\ Len(b) = 2 /\ b[1].op = "edge" /\ b[1].sets = low
      /\ b[2].op = "edge" /\ b[2].sets = MMU!Anything
  <2>1. 2 \in Counts
    BY DEF Counts
  <2>2. ASSUME NEW n \in Counts
        PROVE  LET q == MMU!Quiet(n)
               IN /\ IsSeq(q) /\ Len(q) = n
                  /\ \A i \in 1..n : /\ q[i].op = "edge"
                                     /\ q[i].sets = IF i = 1 THEN low ELSE MMU!Anything
    BY QuietAnswered, QuietIs DEF Answered
  <2>3. /\ IsSeq(b) /\ Len(b) = 2
        /\ \A i \in 1..2 : /\ b[i].op = "edge"
                           /\ b[i].sets = IF i = 1 THEN low ELSE MMU!Anything
    BY <2>1, <2>2, Zenon
  <2> HIDE DEF b, low
  <2> QED  BY <2>3
<1> HIDE DEF a, b, c, low
<1>4. /\ IsSeq(ab) /\ Len(ab) = 3 /\ ab[1] = a[1] /\ ab[2] = b[1] /\ ab[3] = b[2]
  <2>1. /\ IsSeq(ab) /\ Len(ab) = Len(a) + Len(b)
        /\ \A i \in 1..Len(a) : ab[i] = a[i]
        /\ \A i \in 1..Len(b) : ab[Len(a) + i] = b[i]
    <3>1. IsSeq(a) /\ IsSeq(b)
      BY <1>2, <1>3
    <3> QED  BY ONLY <3>1, Joined
  <2> HIDE DEF ab
  <2>2. ab[1 + 1] = b[1] /\ ab[1 + 2] = b[2]
    BY <1>2, <1>3, <2>1
  <2> QED  BY <1>2, <1>3, <2>1, <2>2
<1> HIDE DEF ab
<1>5. /\ IsSeq(j) /\ Len(j) = 4 /\ j[1] = ab[1] /\ j[2] = ab[2] /\ j[3] = ab[3]
      /\ j[4] = c[1]
  <2>1. /\ IsSeq(j) /\ Len(j) = Len(ab) + Len(c)
        /\ \A i \in 1..Len(ab) : j[i] = ab[i]
        /\ \A i \in 1..Len(c) : j[Len(ab) + i] = c[i]
    <3>1. IsSeq(ab) /\ IsSeq(c)
      BY <1>2, <1>4
    <3> QED  BY ONLY <3>1, Joined
  <2> HIDE DEF j
  <2>2. j[3 + 1] = c[1]
    BY <1>2, <1>4, <2>1
  <2> QED  BY <1>2, <1>4, <2>1, <2>2
<1> HIDE DEF j
<1>6. \A i \in 1..4 : j[i].op = "edge"
  <2>1. \A i \in 1..4 : i = 1 \/ i = 2 \/ i = 3 \/ i = 4
    OBVIOUS
  <2> QED  BY <1>2, <1>3, <1>4, <1>5, <2>1
<1> QED  BY <1>1, <1>2, <1>3, <1>4, <1>5, <1>6 DEF low

LEMMA PermissionScript == Permission(MMU!test_permission_check, 25)
<1> DEFINE enabled == MMU!Enabled(MMU!Request(<<0, 1>>, FALSE, "U"))
           first == MMU!Pte(3, {"V", "R", "U"})
           second == MMU!Pte(4, {"V", "R"})
           changed == [vaddr |-> <<0, 2>>, req_write |-> TRUE]
           low == [ptw_ready |-> FALSE]
           any == MMU!Anything
<1>1. /\ PermissionSets(4) = enabled /\ PermissionSets(15) = changed
      /\ PermissionSets(6) = AnswerWith(MMU!Pointer)
      /\ PermissionSets(17) = AnswerWith(MMU!Pointer)
      /\ PermissionSets(9) = AnswerWith(first) /\ PermissionSets(20) = AnswerWith(second)
      /\ \A i \in {7, 10, 18, 21} : PermissionSets(i) = low
      /\ \A i \in {1, 2, 3, 5, 8, 11, 12, 13, 14, 16, 19, 22, 23, 24, 25} :
           PermissionSets(i) = any
  <2> HIDE DEF enabled, first, second, changed, low, any
  <2>1. \A i \in {1, 2, 3, 5, 8, 11, 12, 13, 14, 16, 19, 22, 23, 24, 25} :
          PermissionSets(i) = any
    <3>1. ASSUME NEW i, i # 4, i \notin {6, 17}, i # 9, i # 20, i \notin {7, 10, 18, 21},
                 i # 15
          PROVE  PermissionSets(i) = any
      BY <3>1, Zenon DEF PermissionSets, any
    <3>2. \A i \in {1, 2, 3, 5, 8, 11, 12, 13, 14, 16, 19, 22, 23, 24, 25} :
            /\ i # 4 /\ i \notin {6, 17} /\ i # 9 /\ i # 20 /\ i \notin {7, 10, 18, 21}
            /\ i # 15
      OBVIOUS
    <3> QED  BY <3>1, <3>2, Zenon
  <2>2. PermissionSets(4) = enabled /\ PermissionSets(15) = changed
    BY DEF PermissionSets, enabled, changed, OneUp
  <2>3. /\ PermissionSets(6) = AnswerWith(MMU!Pointer)
        /\ PermissionSets(17) = AnswerWith(MMU!Pointer)
        /\ PermissionSets(9) = AnswerWith(first) /\ PermissionSets(20) = AnswerWith(second)
    BY DEF PermissionSets, first, second
  <2>4. \A i \in {7, 10, 18, 21} : PermissionSets(i) = low
    BY DEF PermissionSets, low
  <2> QED  BY <2>1, <2>2, <2>3, <2>4
<1> HIDE DEF enabled, first, second, changed, low, any
<1>2. ASSUME NEW u, NEW n \in Nat \ {0}, Permission(u, n),
             NEW s, NEW e, PermissionSets(n + 1) = s
      PROVE  Permission(u \o MMU!Edges(1, s, e), n + 1)
  <2>1. 1 \in Counts /\ \A i \in 2..1 : PermissionSets(n + i) = MMU!Anything
    BY DEF Counts
  <2> QED  BY <1>2, <2>1, PermissionEdges
<1>3. ASSUME NEW u, NEW n \in Nat \ {0}, Permission(u, n),
             NEW s, NEW e, PermissionSets(n + 1) = s, PermissionSets(n + 2) = any
      PROVE  Permission(u \o MMU!Edges(2, s, e), n + 2)
  <2>1. 2 \in Counts /\ \A i \in 2..2 : PermissionSets(n + i) = MMU!Anything
    BY <1>3 DEF Counts, any
  <2> QED  BY <1>3, <2>1, PermissionEdges
<1>4. ASSUME NEW u, NEW n \in Nat \ {0}, Permission(u, n),
             NEW s, NEW e, PermissionSets(n + 1) = s, PermissionSets(n + 2) = any,
             PermissionSets(n + 3) = any, PermissionSets(n + 4) = any,
             PermissionSets(n + 5) = any
      PROVE  Permission(u \o MMU!Edges(5, s, e), n + 5)
  <2>1. 5 \in Counts /\ \A i \in 2..5 : PermissionSets(n + i) = MMU!Anything
    BY <1>4 DEF Counts, any
  <2> QED  BY <1>4, <2>1, PermissionEdges
<1>5. Permission(MMU!Resets(any), 1)
  <2> DEFINE r == MMU!Resets(any)
  <2>1. IsSeq(r) /\ Len(r) = 1 /\ r[1].op = "reset" /\ r[1].sets = any
    BY ResetsAnswered
  <2> HIDE DEF r
  <2>2. Permission(r, 1)
    BY <1>1, <2>1 DEF Permission, PermissionStep
  <2> QED  BY <2>2 DEF r
<1>6. ASSUME NEW u, NEW n \in Nat \ {0}, Permission(u, n), NEW ppn, NEW flags,
             PermissionSets(n + 1) = AnswerWith(MMU!Pointer), PermissionSets(n + 2) = low,
             PermissionSets(n + 3) = any,
             PermissionSets(n + 4) = AnswerWith(MMU!Pte(ppn, flags))
      PROVE  Permission(u \o MMU!Walk(2, ppn, flags), n + 4)
  <2> DEFINE v == MMU!Walk(2, ppn, flags)
  <2>1. /\ IsSeq(v) /\ Len(v) = 4 /\ \A i \in 1..4 : v[i].op = "edge"
        /\ v[1].sets = AnswerWith(MMU!Pointer) /\ v[2].sets = low
        /\ v[3].sets = any /\ v[4].sets = AnswerWith(MMU!Pte(ppn, flags))
    BY WalkSteps DEF low, any
  <2> HIDE DEF v
  <2>2. \A i \in 1..4 : PermissionStep(v[i], n + i)
    <3>1. \A i \in 1..4 : n + i # 1 /\ (i = 1 \/ i = 2 \/ i = 3 \/ i = 4)
      OBVIOUS
    <3>2. \A i \in 1..4 : v[i].sets = PermissionSets(n + i)
      BY <1>6, <2>1, <3>1
    <3> QED  BY <2>1, <3>1, <3>2 DEF PermissionStep
  <2>3. 4 \in Nat /\ n \in Nat
    OBVIOUS
  <2>4. Permission(u \o v, n + 4)
    BY ONLY <1>6, <2>1, <2>2, <2>3, PermissionGoesOn
  <2> QED  BY <2>4 DEF v
<1>7. MMU!Quiet(5) = MMU!Edges(5, low, any)
  BY DEF MMU!Quiet, low, any
<1> DEFINE p1 == MMU!Resets(any)
           p3 == p1 \o MMU!Edges(2, any, any)
           p5 == p3 \o MMU!Edges(2, enabled, any)
           p9 == p5 \o MMU!Walk(2, 3, {"V", "R", "U"})
           p14 == p9 \o MMU!Edges(5, low, any)
           p16 == p14 \o MMU!Edges(2, changed, any)
           p20 == p16 \o MMU!Walk(2, 4, {"V", "R"})
           p25 == p20 \o MMU!Edges(5, low, any)
<1>8. MMU!test_permission_check = p25
  BY <1>7, Zenon DEF MMU!test_permission_check, enabled, changed, any
<1>9. Permission(p1, 1)
  BY <1>5
<1>10. Permission(p3, 3)
  <2> HIDE DEF p1
  <2>1. 1 \in Nat \ {0} /\ PermissionSets(1 + 1) = any /\ PermissionSets(1 + 2) = any
    BY <1>1
  <2>2. Permission(p3, 1 + 2)
    BY <1>3, <1>9, <2>1
  <2> HIDE DEF p3
  <2> QED  BY <2>2
<1>11. Permission(p5, 5)
  <2> HIDE DEF p3
  <2>1. 3 \in Nat \ {0} /\ PermissionSets(3 + 1) = enabled /\ PermissionSets(3 + 2) = any
    BY <1>1
  <2>2. Permission(p5, 3 + 2)
    BY <1>3, <1>10, <2>1
  <2> HIDE DEF p5
  <2> QED  BY <2>2
<1>12. Permission(p9, 9)
  <2> HIDE DEF p5
  <2>1. /\ 5 \in Nat \ {0} /\ PermissionSets(5 + 1) = AnswerWith(MMU!Pointer)
        /\ PermissionSets(5 + 2) = low /\ PermissionSets(5 + 3) = any
        /\ PermissionSets(5 + 4) = AnswerWith(MMU!Pte(3, {"V", "R", "U"}))
    BY <1>1 DEF first
  <2>2. Permission(p9, 5 + 4)
    BY <1>6, <1>11, <2>1
  <2> HIDE DEF p9
  <2> QED  BY <2>2
<1>13. Permission(p14, 14)
  <2> HIDE DEF p9
  <2>1. /\ 9 \in Nat \ {0} /\ PermissionSets(9 + 1) = low
        /\ PermissionSets(9 + 2) = any /\ PermissionSets(9 + 3) = any
        /\ PermissionSets(9 + 4) = any /\ PermissionSets(9 + 5) = any
    BY <1>1
  <2>2. Permission(p14, 9 + 5)
    BY <1>4, <1>12, <2>1
  <2> HIDE DEF p14
  <2> QED  BY <2>2
<1>14. Permission(p16, 16)
  <2> HIDE DEF p14
  <2>1. /\ 14 \in Nat \ {0} /\ PermissionSets(14 + 1) = changed
        /\ PermissionSets(14 + 2) = any
    BY <1>1
  <2>2. Permission(p16, 14 + 2)
    BY <1>3, <1>13, <2>1
  <2> HIDE DEF p16
  <2> QED  BY <2>2
<1>15. Permission(p20, 20)
  <2> HIDE DEF p16
  <2>1. /\ 16 \in Nat \ {0} /\ PermissionSets(16 + 1) = AnswerWith(MMU!Pointer)
        /\ PermissionSets(16 + 2) = low /\ PermissionSets(16 + 3) = any
        /\ PermissionSets(16 + 4) = AnswerWith(MMU!Pte(4, {"V", "R"}))
    BY <1>1 DEF second
  <2>2. Permission(p20, 16 + 4)
    BY <1>6, <1>14, <2>1
  <2> HIDE DEF p20
  <2> QED  BY <2>2
<1>16. Permission(p25, 25)
  <2> HIDE DEF p20
  <2>1. /\ 20 \in Nat \ {0} /\ PermissionSets(20 + 1) = low
        /\ PermissionSets(20 + 2) = any /\ PermissionSets(20 + 3) = any
        /\ PermissionSets(20 + 4) = any /\ PermissionSets(20 + 5) = any
    BY <1>1
  <2>2. Permission(p25, 20 + 5)
    BY <1>4, <1>15, <2>1
  <2> HIDE DEF p25
  <2> QED  BY <2>2
<1> QED  BY <1>8, <1>16

\* What a step of a test does to the wires and the progress.
Moves(step, d, b) ==
  /\ ~mismatch /\ at \in Nat /\ at < Len(MMU!Script)
  /\ step = MMU!Script[at + 1] /\ step.op \in {"edge", "reset"}
  /\ test' = test /\ at' = at + 1
  /\ b = [wires |-> b.wires, walking |-> b.walking]
  /\ \A pin \in Pins : /\ pin \in DOMAIN b.wires
                       /\ pin \in DOMAIN step.sets => b.wires[pin] = step.sets[pin]
                       /\ pin \notin DOMAIN step.sets => b.wires[pin] = board.wires[pin]
  /\ step.expect = MMU!Anything => ~mismatch'
  /\ step.op = "edge" =>
       /\ d = MMU!After(dut, b.wires)
       /\ b.walking = IF dut.ptw_state = "IDLE" /\ MMU!Misses(dut, b.wires)
                      THEN b.wires.vaddr ELSE board.walking
  /\ step.op = "reset" => d = MMU!AfterReset(dut) /\ b.walking = board.walking

LEMMA MmuMoves ==
  ASSUME MmuInv, MMU!edge \/ MMU!reset
  PROVE  Moves(MMU!Now, dut', board')
<1> DEFINE step == MMU!Now
           next == MMU!Over(step.sets, board.wires)
<1>1. /\ board = [wires |-> board.wires, walking |-> board.walking]
      /\ Pins \subseteq DOMAIN board.wires /\ at \in Nat
      /\ test \in DOMAIN MMU!Scripts
  BY DEF MmuInv, AnswerStands
<1>2. Len(MMU!Script) \in Nat
  BY <1>1, MmuAnswers DEF MMU!Script
<1>3. ~MMU!Done(MMU!Script) /\ step.op \in {"edge", "reset"}
  BY DEF MMU!edge, MMU!reset, MMU!Doing
<1>4. ~mismatch /\ at < Len(MMU!Script)
  BY <1>1, <1>2, <1>3 DEF MMU!Done
<1>5. \A pin \in Pins : /\ pin \in DOMAIN next
                        /\ pin \in DOMAIN step.sets => next[pin] = step.sets[pin]
                        /\ pin \notin DOMAIN step.sets => next[pin] = board.wires[pin]
  BY <1>1 DEF MMU!Over
<1>6. CASE MMU!edge
  <2>1. /\ dut' = MMU!After(dut, next)
        /\ board' = [wires |-> next, walking |-> MMU!WalkingFor(dut, next)]
        /\ MMU!Observe(MMU!Agrees(step.expect, MMU!Seen(dut, next))) /\ step.op = "edge"
    BY <1>6 DEF MMU!edge, MMU!Doing
  <2>2. step.expect = MMU!Anything => ~mismatch'
    <3>1. MMU!Agrees(MMU!Anything, MMU!Seen(dut, next))
      BY NothingSet DEF MMU!Agrees
    <3>2. mismatch' = ~MMU!Agrees(step.expect, MMU!Seen(dut, next))
      BY <2>1 DEF MMU!Observe
    <3> QED  BY <3>1, <3>2
  <2>3. test' = test /\ at' = at + 1
    BY <2>1 DEF MMU!Observe
  <2>4. MMU!WalkingFor(dut, next) = IF dut.ptw_state = "IDLE" /\ MMU!Misses(dut, next)
                                    THEN next.vaddr ELSE board.walking
    BY DEF MMU!WalkingFor
  <2>5. step = MMU!Script[at + 1]
    BY DEF MMU!Now
  <2> HIDE DEF step, next
  <2>6. board'.wires = next /\ board'.walking = MMU!WalkingFor(dut, next)
    BY <2>1
  <2>7. board' = [wires |-> board'.wires, walking |-> board'.walking]
    BY <2>1, <2>6
  <2>8. step.op # "reset"
    BY <2>1
  <2> QED  BY <1>1, <1>3, <1>4, <1>5, <2>1, <2>2, <2>3, <2>4, <2>5, <2>6, <2>7, <2>8
           DEF Moves, step
<1>7. CASE MMU!reset
  <2>1. /\ dut' = MMU!AfterReset(dut)
        /\ board' = [board EXCEPT !.wires = next]
        /\ MMU!Observe(TRUE) /\ step.op = "reset"
    BY <1>7 DEF MMU!reset, MMU!Doing
  <2>2. test' = test /\ at' = at + 1 /\ ~mismatch'
    BY <2>1 DEF MMU!Observe
  <2>3. step = MMU!Script[at + 1]
    BY DEF MMU!Now
  <2> HIDE DEF step, next
  <2>4. board' = [wires |-> next, walking |-> board.walking]
    BY <1>1, <2>1
  <2>5. board'.wires = next /\ board'.walking = board.walking
    BY <2>4
  <2>6. board' = [wires |-> board'.wires, walking |-> board'.walking]
    BY <2>4, <2>5
  <2>7. step.op # "edge"
    BY <2>1
  <2> QED  BY <1>1, <1>3, <1>4, <1>5, <2>1, <2>2, <2>3, <2>5, <2>6, <2>7 DEF Moves, step
<1> QED  BY <1>6, <1>7

\* One edge of the walker.
LEMMA WalkerStep ==
  ASSUME NEW d, NEW wires, d.ptw_state \in WalkStates, wires.ptw_ready \in BOOLEAN
  PROVE  LET e == MMU!After(d, wires)
             leaf == MMU!IsLeaf(wires.ptw_data) IN
         /\ e.ptw_state \in WalkStates
         /\ e.ptw_state = "UPDATE_TLB" =>
              d.ptw_state = "PTW_WAIT" /\ wires.ptw_ready = TRUE /\ e.pte_data = wires.ptw_data
         /\ d.ptw_state = "IDLE" =>
              /\ MMU!Misses(d, wires) => e.ptw_state = "PTW_L1" /\ e.ptw_level = 1
              /\ ~MMU!Misses(d, wires) => e.ptw_state = "IDLE" /\ e.ptw_level = d.ptw_level
         /\ d.ptw_state \in {"PTW_L1", "PTW_L0"} => e.ptw_state = "PTW_WAIT"
         /\ d.ptw_state = "PTW_L1" => e.ptw_level = d.ptw_level
         /\ d.ptw_state = "PTW_L0" => e.ptw_level = 0
         /\ d.ptw_state = "PTW_WAIT" =>
              /\ e.ptw_level = d.ptw_level
              /\ wires.ptw_ready = FALSE => e.ptw_state = "PTW_WAIT"
              /\ wires.ptw_ready = TRUE /\ leaf => e.ptw_state = "UPDATE_TLB"
              /\ wires.ptw_ready = TRUE /\ ~leaf /\ d.ptw_level = 1 => e.ptw_state = "PTW_L0"
         /\ d.ptw_state \in {"UPDATE_TLB", "FAULT"} => e.ptw_state = "IDLE"
<1> DEFINE e == MMU!After(d, wires)
<1>1. /\ e.ptw_state = MMU!ptw_next_state(d, wires) /\ e.ptw_level = MMU!ptw_level(d, wires)
      /\ e.pte_data = IF d.ptw_state = "PTW_WAIT" /\ wires.ptw_ready
                      THEN wires.ptw_data ELSE d.pte_data
  BY DEF MMU!After
<1> HIDE DEF e
<1>2. CASE d.ptw_state = "IDLE"
  <2>1. /\ e.ptw_state = IF MMU!Misses(d, wires) THEN "PTW_L1" ELSE "IDLE"
        /\ e.ptw_level = IF MMU!Misses(d, wires) THEN 1 ELSE d.ptw_level
    BY <1>1, <1>2 DEF MMU!ptw_next_state, MMU!ptw_level
  <2> QED  BY <1>2, <2>1 DEF WalkStates, e
<1>3. CASE d.ptw_state \in {"PTW_L1", "PTW_L0"}
  <2>1. /\ e.ptw_state = "PTW_WAIT"
        /\ e.ptw_level = IF d.ptw_state = "PTW_L0" THEN 0 ELSE d.ptw_level
    BY <1>1, <1>3 DEF MMU!ptw_next_state, MMU!ptw_level
  <2> QED  BY <1>3, <2>1 DEF WalkStates, e
<1>4. CASE d.ptw_state = "PTW_WAIT"
  <2>1. e.ptw_level = d.ptw_level
    BY <1>1, <1>4 DEF MMU!ptw_level
  <2>2. wires.ptw_ready = FALSE => e.ptw_state = "PTW_WAIT"
    BY <1>1, <1>4 DEF MMU!ptw_next_state
  <2>3. wires.ptw_ready = TRUE /\ MMU!IsLeaf(wires.ptw_data) =>
          e.ptw_state = "UPDATE_TLB" /\ e.pte_data = wires.ptw_data
    BY <1>1, <1>4 DEF MMU!ptw_next_state
  <2>4. wires.ptw_ready = TRUE /\ ~MMU!IsLeaf(wires.ptw_data) =>
          e.ptw_state = IF d.ptw_level = 1 THEN "PTW_L0" ELSE "FAULT"
    BY <1>1, <1>4 DEF MMU!ptw_next_state
  <2>5. e.ptw_state \in WalkStates
    BY <2>2, <2>3, <2>4 DEF WalkStates
  <2>6. e.ptw_state = "UPDATE_TLB" => wires.ptw_ready = TRUE /\ e.pte_data = wires.ptw_data
    BY <2>2, <2>3, <2>4
  <2> QED  BY <1>4, <2>1, <2>2, <2>3, <2>4, <2>5, <2>6 DEF e
<1>5. CASE d.ptw_state \in {"UPDATE_TLB", "FAULT"}
  <2>1. e.ptw_state = "IDLE"
    BY <1>1, <1>5 DEF MMU!ptw_next_state
  <2> QED  BY <1>5, <2>1 DEF WalkStates, e
<1> QED  BY <1>2, <1>3, <1>4, <1>5 DEF WalkStates

\* One edge, and a reset, of the TLB.
LEMMA TlbStep ==
  ASSUME NEW d, NEW wires
  PROVE  LET e == MMU!After(d, wires) IN
         /\ \A i \in 0..3 : "valid" \in DOMAIN d.tlb[i] => "valid" \in DOMAIN e.tlb[i]
         /\ d.ptw_state # "UPDATE_TLB" /\ wires.tlb_flush = FALSE =>
              e.tlb_replace_idx = d.tlb_replace_idx /\ \A i \in 0..3 : e.tlb[i] = d.tlb[i]
         /\ d.ptw_state = "UPDATE_TLB" /\ d.tlb_replace_idx = 0 =>
              e.tlb[0].valid = TRUE /\ e.tlb[0].vpn = wires.vaddr
<1> DEFINE e == MMU!After(d, wires)
           flushed == MMU!TlbAfterFlush(d.tlb, wires)
           entry == MMU!Installed(d, wires)
<1>1. MMU!Index = 0..3
  BY DEF MMU!Index
<1>2. /\ e.tlb = IF d.ptw_state = "UPDATE_TLB"
                 THEN [flushed EXCEPT ![d.tlb_replace_idx] = entry] ELSE flushed
      /\ d.ptw_state # "UPDATE_TLB" => e.tlb_replace_idx = d.tlb_replace_idx
  BY DEF MMU!After, MMU!TlbAfter
<1>3. /\ DOMAIN flushed = 0..3
      /\ \A i \in 0..3 : \/ flushed[i] = d.tlb[i]
                         \/ flushed[i] = [d.tlb[i] EXCEPT !.valid = FALSE]
      /\ wires.tlb_flush = FALSE => \A i \in 0..3 : flushed[i] = d.tlb[i]
  BY <1>1 DEF MMU!TlbAfterFlush
<1>4. entry.valid = TRUE /\ entry.vpn = wires.vaddr /\ "valid" \in DOMAIN entry
  BY DEF MMU!Installed
<1> HIDE DEF e, flushed, entry
<1>5. ASSUME NEW i \in 0..3, "valid" \in DOMAIN d.tlb[i]
      PROVE  "valid" \in DOMAIN e.tlb[i]
  <2>1. "valid" \in DOMAIN flushed[i]
    BY <1>3, <1>5
  <2>2. e.tlb[i] = flushed[i] \/ e.tlb[i] = entry
    BY <1>2, <1>3
  <2> QED  BY <1>4, <2>1, <2>2
<1>6. d.ptw_state # "UPDATE_TLB" /\ wires.tlb_flush = FALSE =>
        e.tlb_replace_idx = d.tlb_replace_idx /\ \A i \in 0..3 : e.tlb[i] = d.tlb[i]
  BY <1>2, <1>3
<1>7. ASSUME d.ptw_state = "UPDATE_TLB", d.tlb_replace_idx = 0
      PROVE  e.tlb[0].valid = TRUE /\ e.tlb[0].vpn = wires.vaddr
  <2>1. e.tlb[0] = entry
    BY <1>2, <1>3, <1>7
  <2> QED  BY <1>4, <2>1
<1> QED  BY <1>5, <1>6, <1>7 DEF e

LEMMA TlbReset ==
  ASSUME NEW d, \A i \in 0..3 : "valid" \in DOMAIN d.tlb[i]
  PROVE  LET e == MMU!AfterReset(d) IN
         /\ e.ptw_state = "IDLE" /\ e.tlb_replace_idx = 0
         /\ \A i \in 0..3 : e.tlb[i].valid = FALSE /\ "valid" \in DOMAIN e.tlb[i]
<1> DEFINE e == MMU!AfterReset(d)
           cleared == [i \in MMU!Index |-> [d.tlb[i] EXCEPT !.valid = FALSE]]
<1>1. MMU!Index = 0..3
  BY DEF MMU!Index
<1>2. \A i \in 0..3 : cleared[i].valid = FALSE /\ "valid" \in DOMAIN cleared[i]
  BY <1>1
<1> HIDE DEF cleared
<1>3. e = [MMU!ResetState EXCEPT !.tlb = cleared]
  BY DEF MMU!AfterReset, cleared
<1> HIDE DEF e
<1>4. e.ptw_state = "IDLE" /\ e.tlb_replace_idx = 0 /\ e.tlb = cleared
  BY <1>3 DEF MMU!ResetState
<1> QED  BY <1>2, <1>4 DEF e

LEMMA MmuAnswerStands ==
  ASSUME MmuInv, MMU!edge \/ MMU!reset
  PROVE  AnswerStands'
<1> DEFINE step == MMU!Now
           next == board'.wires
<1>1. Moves(step, dut', board') /\ AnswerStands
  BY MmuMoves DEF MmuInv
<1>2. /\ test' = test /\ at' = at + 1 /\ at \in Nat /\ at < Len(MMU!Script)
      /\ MMU!Script' = MMU!Script /\ step = MMU!Script[at + 1]
      /\ test \in DOMAIN MMU!Scripts /\ "ptw_ready" \in Pins
  BY <1>1 DEF Moves, AnswerStands, MMU!Script, Pins
<1>3. Answered(MMU!Script, FALSE) /\ Len(MMU!Script) \in Nat
  BY <1>2, MmuAnswers DEF MMU!Script
<1>4. at + 1 \in 1..Len(MMU!Script)
  BY <1>2, <1>3
<1>5. /\ "ptw_ready" \in DOMAIN step.sets => step.sets.ptw_ready \in BOOLEAN
      /\ Raises(step) => /\ step.expect = MMU!Anything /\ at + 1 < Len(MMU!Script)
                         /\ Lowers(MMU!Script[(at + 1) + 1])
  BY <1>2, <1>3, <1>4 DEF Answered
<1> HIDE DEF step
<1>6. /\ "ptw_ready" \in DOMAIN step.sets => next.ptw_ready = step.sets.ptw_ready
      /\ "ptw_ready" \notin DOMAIN step.sets => next.ptw_ready = board.wires.ptw_ready
  BY <1>1, <1>2 DEF Moves
<1>7. board.wires.ptw_ready = TRUE => Lowers(step)
  BY <1>1 DEF AnswerStands, step
<1>8. next.ptw_ready \in BOOLEAN /\ (next.ptw_ready = TRUE => Raises(step))
  <2>1. board.wires.ptw_ready \in BOOLEAN
    BY <1>1 DEF AnswerStands
  <2> QED  BY <1>5, <1>6, <1>7, <2>1 DEF Lowers, Raises
<1>9. next.ptw_ready = TRUE =>
        ~mismatch' /\ at' >= 1 /\ at' < Len(MMU!Script)' /\ Lowers(MMU!Now)'
  <2> SUFFICES ASSUME next.ptw_ready = TRUE
               PROVE  ~mismatch' /\ at' >= 1 /\ at' < Len(MMU!Script)' /\ Lowers(MMU!Now)'
    OBVIOUS
  <2>1. /\ step.expect = MMU!Anything /\ at + 1 < Len(MMU!Script)
        /\ Lowers(MMU!Script[(at + 1) + 1])
    BY <1>5, <1>8
  <2>2. ~mismatch'
    BY <1>1, <2>1 DEF Moves
  <2>3. MMU!Now' = MMU!Script[(at + 1) + 1]
    BY <1>2 DEF MMU!Now
  <2>4. Lowers(MMU!Now)' <=> Lowers(MMU!Now')
    BY DEF Lowers
  <2> QED  BY <1>2, <1>4, <2>1, <2>2, <2>3, <2>4
<1>10. dut'.ptw_state \in WalkStates
       /\ (dut'.ptw_state = "UPDATE_TLB" => next.ptw_ready = TRUE /\ dut'.pte_data = next.ptw_data)
  <2>1. dut.ptw_state \in WalkStates /\ step.op \in {"edge", "reset"}
    BY <1>1 DEF AnswerStands, WalkStates, Moves
  <2>2. CASE step.op = "edge"
    <3>1. dut' = MMU!After(dut, next)
      BY <1>1, <2>2 DEF Moves
    <3> HIDE DEF next
    <3> QED  BY <1>8, <2>1, <3>1, WalkerStep
  <2>3. CASE step.op = "reset"
    <3>1. dut' = MMU!AfterReset(dut)
      BY <1>1, <2>3 DEF Moves
    <3>2. dut'.ptw_state = "IDLE"
      BY <3>1 DEF MMU!AfterReset, MMU!ResetState
    <3> QED  BY <3>2 DEF WalkStates
  <2> QED  BY <2>1, <2>2, <2>3
<1>11. /\ test' \in DOMAIN MMU!Scripts /\ at' \in Nat
       /\ board' = [wires |-> board'.wires, walking |-> board'.walking]
       /\ Pins \subseteq DOMAIN next
  BY <1>1, <1>2 DEF Moves
<1>12. ASSUME NEW i \in 0..3 PROVE "valid" \in DOMAIN dut'.tlb[i]
  <2>1. \A k \in 0..3 : "valid" \in DOMAIN dut.tlb[k]
    BY <1>1 DEF AnswerStands
  <2>2. CASE step.op = "edge"
    <3>1. dut' = MMU!After(dut, next)
      BY <1>1, <2>2 DEF Moves
    <3> HIDE DEF next
    <3> QED  BY <2>1, <3>1, TlbStep
  <2>3. CASE step.op = "reset"
    <3>1. dut' = MMU!AfterReset(dut)
      BY <1>1, <2>3 DEF Moves
    <3> QED  BY <2>1, <3>1, TlbReset
  <2> QED  BY <1>1, <2>2, <2>3 DEF Moves
<1> QED  BY <1>8, <1>9, <1>10, <1>11, <1>12 DEF AnswerStands

\* A walk stays for the address on the wires while the address stays.
LEMMA WalksOn ==
  ASSUME NEW step, NEW d, NEW b, Moves(step, d, b), step.op = "edge",
         dut.ptw_state \in WalkStates, b.wires.ptw_ready \in BOOLEAN,
         dut.ptw_state = "IDLE" \/ (Walks(dut, board) /\ b.wires.vaddr = board.wires.vaddr)
  PROVE  Walks(d, b)
<1>1. /\ d = MMU!After(dut, b.wires)
      /\ b.walking = IF dut.ptw_state = "IDLE" /\ MMU!Misses(dut, b.wires)
                     THEN b.wires.vaddr ELSE board.walking
  BY DEF Moves
<1> DEFINE wires == b.wires
<1> HIDE DEF wires
<1>2. dut.ptw_state = "IDLE" /\ ~MMU!Misses(dut, wires) =>
        MMU!After(dut, wires).ptw_state = "IDLE"
  BY WalkerStep DEF wires
<1>3. CASE dut.ptw_state = "IDLE"
  BY <1>1, <1>2, <1>3 DEF Walks, wires
<1>4. CASE dut.ptw_state # "IDLE"
  BY <1>1, <1>4 DEF Walks
<1> QED  BY <1>3, <1>4

\* The facts of a step that the lemmas below start from.
StepFacts(step, d, b) ==
  /\ Moves(step, d, b) /\ dut.ptw_state \in WalkStates /\ b.wires.ptw_ready \in BOOLEAN
  /\ \A i \in 0..3 : "valid" \in DOMAIN dut.tlb[i]
  /\ KeepsItsAddress(dut, board) /\ at + 1 \in 1..Len(MMU!Script)
  /\ Len(MMU!Script) \in Nat /\ MMU!Script = MMU!Scripts[test]

LEMMA MmuStepFacts ==
  ASSUME MmuInv, MMU!edge \/ MMU!reset
  PROVE  StepFacts(MMU!Now, dut', board')
<1>1. Moves(MMU!Now, dut', board') /\ AnswerStands' /\ AnswerStands
  BY MmuMoves, MmuAnswerStands DEF MmuInv
<1>2. Len(MMU!Scripts[test]) \in Nat
  BY <1>1, MmuAnswers DEF AnswerStands
<1> QED  BY <1>1, <1>2 DEF StepFacts, MmuInv, AnswerStands, WalkStates, Moves, MMU!Script

LEMMA KeepsOff ==
  ASSUME NEW step, NEW d, NEW b, StepFacts(step, d, b),
         test \in {"test_reset", "test_direct_mapping"}
  PROVE  d.ptw_state = "IDLE" /\ b.wires.vm_enable = FALSE /\ b.wires.tlb_flush = FALSE
<1>1. /\ dut.ptw_state = "IDLE" /\ board.wires.vm_enable = FALSE
      /\ board.wires.tlb_flush = FALSE
  BY DEF StepFacts, KeepsItsAddress
<1>2. StaysOff(MMU!Script)
  <2>1. StaysOff(MMU!Scripts[test])
    <3>1. /\ MMU!Scripts["test_reset"] = MMU!test_reset
          /\ MMU!Scripts["test_direct_mapping"] = MMU!test_direct_mapping
      BY DEF MMU!Scripts
    <3> QED  BY <3>1, FirstTestsStayOff
  <2> QED  BY <2>1 DEF StepFacts
<1>3. /\ "vm_enable" \in DOMAIN step.sets => step.sets.vm_enable = FALSE
      /\ "tlb_flush" \in DOMAIN step.sets => step.sets.tlb_flush = FALSE
  BY <1>2 DEF StaysOff, StepFacts, Moves
<1>4. b.wires.vm_enable = FALSE /\ b.wires.tlb_flush = FALSE
  BY <1>1, <1>3 DEF StepFacts, Moves, Pins
<1>5. CASE step.op = "edge"
  <2> DEFINE wires == b.wires
  <2>1. d = MMU!After(dut, wires) /\ wires.ptw_ready \in BOOLEAN
    BY <1>5 DEF StepFacts, Moves
  <2>2. ~MMU!Misses(dut, wires)
    BY <1>4 DEF MMU!Misses
  <2> HIDE DEF wires
  <2>3. d.ptw_state = "IDLE"
    BY <1>1, <2>1, <2>2, WalkerStep DEF StepFacts
  <2> QED  BY <1>4, <2>3
<1>6. CASE step.op = "reset"
  <2>1. d.ptw_state = "IDLE"
    BY <1>6 DEF StepFacts, Moves, MMU!AfterReset, MMU!ResetState
  <2> QED  BY <1>4, <2>1
<1> QED  BY <1>5, <1>6 DEF StepFacts, Moves

\* A test that raises one request after its reset.
LEMMA KeepsOneRequest ==
  ASSUME NEW step, NEW d, NEW b, StepFacts(step, d, b),
         NEW sets, NEW addr, NEW pins, Opens(MMU!Script, sets, addr, pins)
  PROVE  /\ at = 0 => step.op = "reset" /\ step.sets = sets /\ d.ptw_state = "IDLE"
         /\ at >= 1 => step.op = "edge"
         /\ at \in 1..2 => step.sets = MMU!Anything
         /\ at = 3 => /\ step.sets = MMU!Enabled(MMU!Request(addr, FALSE, "U"))
                      /\ b.wires.vaddr = addr /\ b.wires.req_valid = TRUE
                      /\ b.wires.vm_enable = TRUE
                      /\ dut.ptw_state = "IDLE" => Walks(d, b)
         /\ at >= 4 => /\ DOMAIN step.sets \cap pins = {}
                       /\ board.wires.vaddr = addr => b.wires.vaddr = addr
                       /\ board.wires.vaddr = addr /\ Walks(dut, board) => Walks(d, b)
<1>1. /\ step = MMU!Script[at + 1] /\ at \in Nat /\ at + 1 \in 1..Len(MMU!Script)
      /\ \A pin \in Pins : /\ pin \in DOMAIN step.sets => b.wires[pin] = step.sets[pin]
                           /\ pin \notin DOMAIN step.sets => b.wires[pin] = board.wires[pin]
  BY DEF StepFacts, Moves
<1>2. step.op = IF at = 0 THEN "reset" ELSE "edge"
  BY <1>1 DEF Opens
<1>3. at = 0 => step.op = "reset" /\ step.sets = sets /\ d.ptw_state = "IDLE"
  <2> SUFFICES ASSUME at = 0 PROVE step.op = "reset" /\ step.sets = sets /\ d.ptw_state = "IDLE"
    OBVIOUS
  <2>1. step.op = "reset" /\ step.sets = sets
    BY <1>1, <1>2 DEF Opens
  <2>2. d.ptw_state = "IDLE"
    BY <2>1 DEF StepFacts, Moves, MMU!AfterReset, MMU!ResetState
  <2> QED  BY <2>1, <2>2
<1>4. at \in 1..2 => step.sets = MMU!Anything
  <2>1. at = 1 => step = MMU!Script[2]
    BY <1>1
  <2>2. at = 2 => step = MMU!Script[3]
    BY <1>1
  <2> QED  BY <1>1, <2>1, <2>2 DEF Opens
<1>5. ASSUME step.op = "edge",
             \/ dut.ptw_state = "IDLE"
             \/ Walks(dut, board) /\ b.wires.vaddr = board.wires.vaddr
      PROVE  Walks(d, b)
  BY <1>5, WalksOn DEF StepFacts
<1>6. at = 3 => /\ step.sets = MMU!Enabled(MMU!Request(addr, FALSE, "U"))
                /\ b.wires.vaddr = addr /\ b.wires.req_valid = TRUE /\ b.wires.vm_enable = TRUE
                /\ dut.ptw_state = "IDLE" => Walks(d, b)
  <2> SUFFICES ASSUME at = 3
               PROVE  /\ step.sets = MMU!Enabled(MMU!Request(addr, FALSE, "U"))
                      /\ b.wires.vaddr = addr /\ b.wires.req_valid = TRUE
                      /\ b.wires.vm_enable = TRUE
                      /\ dut.ptw_state = "IDLE" => Walks(d, b)
    OBVIOUS
  <2>1. step.sets = MMU!Enabled(MMU!Request(addr, FALSE, "U"))
    <3>1. step = MMU!Script[4]
      BY <1>1
    <3> QED  BY <3>1 DEF Opens
  <2>2. b.wires.vaddr = addr /\ b.wires.req_valid = TRUE /\ b.wires.vm_enable = TRUE
    <3> DEFINE enabled == MMU!Enabled(MMU!Request(addr, FALSE, "U"))
    <3>1. /\ "vaddr" \in DOMAIN enabled /\ "req_valid" \in DOMAIN enabled
          /\ "vm_enable" \in DOMAIN enabled
          /\ enabled.vaddr = addr /\ enabled.req_valid = TRUE /\ enabled.vm_enable = TRUE
      BY EnabledPins
    <3> HIDE DEF enabled
    <3>2. step.sets = enabled
      BY <2>1 DEF enabled
    <3>3. "vaddr" \in Pins /\ "req_valid" \in Pins /\ "vm_enable" \in Pins
      BY DEF Pins
    <3> QED  BY <1>1, <3>1, <3>2, <3>3
  <2>3. dut.ptw_state = "IDLE" => Walks(d, b)
    BY <1>2, <1>5
  <2> QED  BY <2>1, <2>2, <2>3
<1>7. at >= 4 => /\ DOMAIN step.sets \cap pins = {}
                 /\ board.wires.vaddr = addr => b.wires.vaddr = addr
                 /\ board.wires.vaddr = addr /\ Walks(dut, board) => Walks(d, b)
  <2> SUFFICES ASSUME at >= 4
               PROVE  /\ DOMAIN step.sets \cap pins = {}
                      /\ board.wires.vaddr = addr => b.wires.vaddr = addr
                      /\ board.wires.vaddr = addr /\ Walks(dut, board) => Walks(d, b)
    OBVIOUS
  <2>1. at + 1 \in 5..Len(MMU!Script)
    BY <1>1 DEF StepFacts
  <2>2. /\ DOMAIN step.sets \cap pins = {}
        /\ "vaddr" \in DOMAIN step.sets => step.sets.vaddr = addr
    BY <1>1, <2>1 DEF Opens
  <2>3. board.wires.vaddr = addr => b.wires.vaddr = addr
    BY <1>1, <2>2 DEF Pins
  <2> QED  BY <1>1, <1>2, <1>5, <2>2, <2>3
<1>8. at >= 1 => step.op = "edge"
  BY <1>1, <1>2
<1> QED  BY <1>3, <1>4, <1>6, <1>7, <1>8

LEMMA KeepsTlbMiss ==
  ASSUME NEW step, NEW d, NEW b, StepFacts(step, d, b), test = "test_tlb_miss_ptw"
  PROVE  /\ b.wires.tlb_flush = FALSE
         /\ IF at + 1 <= 3 THEN d.ptw_state = "IDLE" /\ b.wires.vm_enable = FALSE
                           ELSE Held(b.wires) /\ Walks(d, b)
<1> DEFINE pins == {"vaddr", "req_valid", "vm_enable", "tlb_flush"}
           enabled == MMU!Enabled(MMU!Request(OneUp, FALSE, "U"))
<1>1. Opens(MMU!Script, MMU!Anything, OneUp, pins)
  <2>1. MMU!Script = MMU!test_tlb_miss_ptw
    BY DEF StepFacts, MMU!Scripts
  <2> QED  BY <2>1, RequestsOpen
<1> HIDE DEF pins
<1>2. /\ at = 0 => step.op = "reset" /\ step.sets = MMU!Anything /\ d.ptw_state = "IDLE"
      /\ at >= 1 => step.op = "edge"
      /\ at \in 1..2 => step.sets = MMU!Anything
      /\ at = 3 => /\ step.sets = enabled
                   /\ b.wires.vaddr = OneUp /\ b.wires.req_valid = TRUE
                   /\ b.wires.vm_enable = TRUE
                   /\ dut.ptw_state = "IDLE" => Walks(d, b)
      /\ at >= 4 => /\ DOMAIN step.sets \cap pins = {}
                    /\ board.wires.vaddr = OneUp => b.wires.vaddr = OneUp
                    /\ board.wires.vaddr = OneUp /\ Walks(dut, board) => Walks(d, b)
  BY <1>1, KeepsOneRequest
<1>3. /\ at \in Nat
      /\ \A pin \in Pins : pin \notin DOMAIN step.sets => b.wires[pin] = board.wires[pin]
      /\ board.wires.tlb_flush = FALSE
      /\ IF at <= 3 THEN dut.ptw_state = "IDLE" /\ board.wires.vm_enable = FALSE
                    ELSE Held(board.wires) /\ Walks(dut, board)
  BY DEF StepFacts, Moves, KeepsItsAddress
<1>4. DOMAIN enabled = {"vaddr", "req_valid", "req_write", "req_priv", "vm_enable"}
  BY EnabledPins
<1> HIDE DEF enabled
<1>5. "tlb_flush" \notin DOMAIN step.sets
  BY <1>2, <1>3, <1>4, NothingSet DEF pins
<1>6. b.wires.tlb_flush = FALSE
  BY <1>3, <1>5 DEF Pins
<1>7. CASE at \in 0..2
  <2>1. step.sets = MMU!Anything /\ dut.ptw_state = "IDLE" /\ board.wires.vm_enable = FALSE
    BY <1>2, <1>3, <1>7
  <2>2. b.wires.vm_enable = FALSE
    BY <1>3, <2>1, NothingSet DEF Pins
  <2>3. d.ptw_state = "IDLE"
    <3>1. CASE at = 0
      BY <1>2, <3>1
    <3>2. CASE at # 0
      <4> DEFINE wires == b.wires
      <4>1. d = MMU!After(dut, wires) /\ wires.ptw_ready \in BOOLEAN
        BY <1>2, <1>3, <3>2 DEF StepFacts, Moves
      <4>2. ~MMU!Misses(dut, wires)
        BY <2>2 DEF MMU!Misses
      <4> HIDE DEF wires
      <4> QED  BY <2>1, <4>1, <4>2, WalkerStep DEF StepFacts
    <3> QED  BY <3>1, <3>2
  <2> QED  BY <1>6, <1>7, <2>2, <2>3
<1>8. CASE at = 3
  BY <1>2, <1>3, <1>6, <1>8 DEF Held
<1>9. CASE at >= 4
  <2>1. Held(board.wires) /\ Walks(dut, board)
    BY <1>3, <1>9
  <2>2. "req_valid" \notin DOMAIN step.sets /\ "vm_enable" \notin DOMAIN step.sets
    BY <1>2, <1>9 DEF pins
  <2>3. b.wires.req_valid = TRUE /\ b.wires.vm_enable = TRUE
    BY <1>3, <2>1, <2>2 DEF Pins, Held
  <2>4. b.wires.vaddr = OneUp /\ Walks(d, b)
    BY <1>2, <1>9, <2>1 DEF Held
  <2> QED  BY <1>3, <1>6, <1>9, <2>3, <2>4 DEF Held
<1>10. at \in 0..2 \/ at = 3 \/ at >= 4
  BY <1>3
<1> QED  BY <1>7, <1>8, <1>9, <1>10

LEMMA KeepsLowered ==
  ASSUME NEW step, NEW d, NEW b, StepFacts(step, d, b),
         test \in {"test_tlb_flush", "test_page_fault"}
  PROVE  /\ at + 1 \in 1..3 => d.ptw_state = "IDLE" /\ b.wires.req_valid = FALSE
         /\ at + 1 >= 4 =>
              /\ b.wires.vaddr = IF test = "test_page_fault" THEN <<3, 3>> ELSE OneUp
              /\ Walks(d, b)
<1> DEFINE addr == IF test = "test_page_fault" THEN <<3, 3>> ELSE OneUp
           low == [req_valid |-> FALSE, ptw_ready |-> FALSE]
           none == {}
<1>1. Opens(MMU!Script, low, addr, none)
  <2>1. CASE test = "test_page_fault"
    <3>1. MMU!Script = MMU!test_page_fault
      BY <2>1 DEF StepFacts, MMU!Scripts
    <3> QED  BY <2>1, <3>1, RequestsOpen
  <2>2. CASE test = "test_tlb_flush"
    <3>1. MMU!Script = MMU!test_tlb_flush
      BY <2>2 DEF StepFacts, MMU!Scripts
    <3> QED  BY <2>2, <3>1, RequestsOpen
  <2> QED  BY <2>1, <2>2
<1>2. "req_valid" \in DOMAIN low /\ low.req_valid = FALSE
  OBVIOUS
<1> HIDE DEF low, addr, none
<1>3. /\ at = 0 => step.op = "reset" /\ step.sets = low /\ d.ptw_state = "IDLE"
      /\ at >= 1 => step.op = "edge"
      /\ at \in 1..2 => step.sets = MMU!Anything
      /\ at = 3 => b.wires.vaddr = addr /\ (dut.ptw_state = "IDLE" => Walks(d, b))
      /\ at >= 4 => /\ board.wires.vaddr = addr => b.wires.vaddr = addr
                    /\ board.wires.vaddr = addr /\ Walks(dut, board) => Walks(d, b)
  <2>1. ASSUME NEW resets, NEW request, NEW pins, Opens(MMU!Script, resets, request, pins)
        PROVE  /\ at = 0 => step.op = "reset" /\ step.sets = resets /\ d.ptw_state = "IDLE"
               /\ at >= 1 => step.op = "edge"
               /\ at \in 1..2 => step.sets = MMU!Anything
               /\ at = 3 => /\ step.sets = MMU!Enabled(MMU!Request(request, FALSE, "U"))
                            /\ b.wires.vaddr = request /\ b.wires.req_valid = TRUE
                            /\ b.wires.vm_enable = TRUE
                            /\ dut.ptw_state = "IDLE" => Walks(d, b)
               /\ at >= 4 => /\ DOMAIN step.sets \cap pins = {}
                             /\ board.wires.vaddr = request => b.wires.vaddr = request
                             /\ board.wires.vaddr = request /\ Walks(dut, board) =>
                                  Walks(d, b)
    BY ONLY StepFacts(step, d, b), <2>1, KeepsOneRequest
  <2> QED  BY <1>1, <2>1
<1>4. /\ at \in Nat
      /\ \A pin \in Pins : /\ pin \in DOMAIN step.sets => b.wires[pin] = step.sets[pin]
                           /\ pin \notin DOMAIN step.sets => b.wires[pin] = board.wires[pin]
      /\ at \in 1..3 => dut.ptw_state = "IDLE" /\ board.wires.req_valid = FALSE
      /\ at >= 4 => board.wires.vaddr = addr /\ Walks(dut, board)
  BY DEF StepFacts, Moves, KeepsItsAddress, addr
<1>5. CASE at = 0
  BY <1>2, <1>3, <1>4, <1>5 DEF Pins
<1>6. CASE at \in 1..2
  <2>1. b.wires.req_valid = FALSE /\ dut.ptw_state = "IDLE"
    BY <1>3, <1>4, <1>6, NothingSet DEF Pins
  <2> DEFINE wires == b.wires
  <2>2. d = MMU!After(dut, wires) /\ wires.ptw_ready \in BOOLEAN
    BY <1>3, <1>6 DEF StepFacts, Moves
  <2>3. ~MMU!Misses(dut, wires)
    BY <2>1 DEF MMU!Misses
  <2> HIDE DEF wires
  <2>4. d.ptw_state = "IDLE"
    BY <2>1, <2>2, <2>3, WalkerStep DEF StepFacts
  <2> QED  BY <1>6, <2>1, <2>4
<1>7. CASE at = 3
  BY <1>3, <1>4, <1>7 DEF addr
<1>8. CASE at >= 4
  BY <1>3, <1>4, <1>8 DEF addr
<1>9. at = 0 \/ at \in 1..2 \/ at = 3 \/ at >= 4
  BY <1>4
<1> QED  BY <1>5, <1>6, <1>7, <1>8, <1>9

\* test_permission_check.
LEMMA PermissionPins ==
  ASSUME NEW i \in 1..25
  PROVE  LET sets == PermissionSets(i) IN
         /\ "tlb_flush" \notin DOMAIN sets
         /\ i = 4 => /\ {"vaddr", "req_valid", "vm_enable"} \subseteq DOMAIN sets
                     /\ sets.vaddr = OneUp /\ sets.req_valid = TRUE /\ sets.vm_enable = TRUE
         /\ i # 4 /\ i # 15 =>
              /\ "vaddr" \notin DOMAIN sets /\ "req_valid" \notin DOMAIN sets
              /\ "vm_enable" \notin DOMAIN sets
         /\ i \in {6, 9} => /\ {"ptw_ready", "ptw_data"} \subseteq DOMAIN sets
                            /\ sets.ptw_ready = TRUE
                            /\ sets.ptw_data = IF i = 6 THEN MMU!Pointer
                                                        ELSE MMU!Pte(3, {"V", "R", "U"})
         /\ i \in {7, 10} => "ptw_ready" \in DOMAIN sets /\ sets.ptw_ready = FALSE
         /\ i \in {1, 2, 3, 4, 5, 8, 11, 12, 13, 14} => "ptw_ready" \notin DOMAIN sets
<1> DEFINE sets == PermissionSets(i)
           enabled == MMU!Enabled(MMU!Request(OneUp, FALSE, "U"))
           low == [ptw_ready |-> FALSE]
           changed == [vaddr |-> <<0, 2>>, req_write |-> TRUE]
<1>1. /\ DOMAIN enabled = {"vaddr", "req_valid", "req_write", "req_priv", "vm_enable"}
      /\ enabled.vaddr = OneUp /\ enabled.req_valid = TRUE /\ enabled.vm_enable = TRUE
  BY EnabledPins
<1>2. /\ DOMAIN low = {"ptw_ready"} /\ low.ptw_ready = FALSE
      /\ DOMAIN changed = {"vaddr", "req_write"} /\ DOMAIN MMU!Anything = {}
  BY NothingSet
<1>3. ASSUME NEW pte
      PROVE  /\ DOMAIN AnswerWith(pte) = {"ptw_data", "ptw_ready"}
             /\ AnswerWith(pte).ptw_ready = TRUE /\ AnswerWith(pte).ptw_data = pte
  BY DEF AnswerWith
<1> HIDE DEF enabled, low, changed
<1>4. CASE i = 4
  <2>1. sets = enabled
    BY <1>4 DEF PermissionSets, enabled
  <2> HIDE DEF sets
  <2>2. /\ {"vaddr", "req_valid", "vm_enable"} \subseteq DOMAIN sets
        /\ sets.vaddr = OneUp /\ sets.req_valid = TRUE /\ sets.vm_enable = TRUE
        /\ "tlb_flush" \notin DOMAIN sets /\ "ptw_ready" \notin DOMAIN sets
    BY <1>1, <2>1
  <2>3. i # 6 /\ i # 9 /\ i \notin {6, 9} /\ i \notin {7, 10}
    BY <1>4
  <2> QED  BY ONLY <1>4, <2>2, <2>3 DEF sets
<1>5. CASE i = 15
  <2>1. sets = changed
    BY <1>5 DEF PermissionSets, changed
  <2> HIDE DEF sets
  <2> QED  BY <1>2, <1>5, <2>1 DEF sets
<1>6. CASE i \in {7, 10, 18, 21}
  <2>1. sets = low
    BY <1>6 DEF PermissionSets, low
  <2> HIDE DEF sets
  <2> QED  BY <1>2, <1>6, <2>1 DEF sets
<1>7. CASE i \in {6, 17}
  <2>1. sets = AnswerWith(MMU!Pointer)
    BY <1>7 DEF PermissionSets
  <2> HIDE DEF sets
  <2>2. /\ DOMAIN sets = {"ptw_data", "ptw_ready"}
        /\ sets.ptw_ready = TRUE /\ sets.ptw_data = MMU!Pointer
    BY <1>3, <2>1
  <2> QED  BY <1>7, <2>2 DEF sets
<1>8. CASE i = 9
  <2> DEFINE pte == MMU!Pte(3, {"V", "R", "U"})
  <2>1. sets = AnswerWith(pte)
    BY <1>8 DEF PermissionSets
  <2> HIDE DEF sets, pte
  <2>2. /\ DOMAIN sets = {"ptw_data", "ptw_ready"}
        /\ sets.ptw_ready = TRUE /\ sets.ptw_data = pte
    BY <1>3, <2>1
  <2> QED  BY <1>8, <2>2 DEF sets, pte
<1>9. CASE i = 20
  <2> DEFINE pte == MMU!Pte(4, {"V", "R"})
  <2>1. sets = AnswerWith(pte)
    BY <1>9 DEF PermissionSets
  <2> HIDE DEF sets, pte
  <2>2. DOMAIN sets = {"ptw_data", "ptw_ready"}
    BY <1>3, <2>1
  <2> QED  BY <1>9, <2>2 DEF sets
<1>10. CASE i # 4 /\ i \notin {6, 17} /\ i # 9 /\ i # 20 /\ i \notin {7, 10, 18, 21} /\ i # 15
  <2>1. sets = MMU!Anything
    BY <1>10, Zenon DEF PermissionSets
  <2> HIDE DEF sets
  <2>2. DOMAIN sets = {}
    BY <1>2, <2>1
  <2> QED  BY <1>10, <2>2 DEF sets
<1> QED  BY ONLY <1>4, <1>5, <1>6, <1>7, <1>8, <1>9, <1>10

\* What makes an address a miss, and what a hit.
LEMMA MissOrHit ==
  ASSUME NEW d, NEW wires
  PROVE  /\ (\A i \in 0..3 : d.tlb[i].valid = FALSE) /\ Held(wires) => MMU!Misses(d, wires)
         /\ wires.vm_enable = FALSE => ~MMU!Misses(d, wires)
         /\ d.tlb[0].valid = TRUE /\ d.tlb[0].vpn = wires.vaddr => ~MMU!Misses(d, wires)
<1>1. MMU!Index = 0..3
  BY DEF MMU!Index
<1>2. (\A i \in 0..3 : d.tlb[i].valid = FALSE) => ~MMU!tlb_hit(d, wires)
  BY <1>1 DEF MMU!tlb_hit, MMU!Hits
<1>3. d.tlb[0].valid = TRUE /\ d.tlb[0].vpn = wires.vaddr => MMU!tlb_hit(d, wires)
  BY <1>1 DEF MMU!tlb_hit, MMU!Hits, MMU!vpn_match
<1> QED  BY <1>2, <1>3 DEF MMU!Misses, Held

\* The wires up to the step that changes the address.
LEMMA FirstPageWires ==
  ASSUME NEW step, NEW d, NEW b, StepFacts(step, d, b), test = "test_permission_check"
  PROVE  /\ FirstPage(at, dut, board) /\ (at >= 1 => Walks(dut, board))
         /\ at \in 0..24 /\ b.wires.tlb_flush = FALSE
         /\ at = 0 => d = MMU!AfterReset(dut)
         /\ at >= 1 => d = MMU!After(dut, b.wires) /\ step.op = "edge"
         /\ at + 1 <= 3 => NoneOrHeld(b.wires)
         /\ at + 1 \in 4..14 => Held(b.wires)
         /\ at \in 1..2 => b.wires.vm_enable = board.wires.vm_enable
         /\ at + 1 \in {6, 9} => b.wires.ptw_ready = TRUE
         /\ at + 1 \in 1..14 /\ at + 1 \notin {6, 9} => b.wires.ptw_ready = FALSE
         /\ at + 1 = 6 => b.wires.ptw_data = MMU!Pointer
         /\ at + 1 = 9 => b.wires.ptw_data = MMU!Pte(3, {"V", "R", "U"})
         /\ at \notin {3, 14} => b.wires.vaddr = board.wires.vaddr
<1> DEFINE wires == board.wires
           sets == PermissionSets(at + 1)
<1>1. MMU!Script = MMU!test_permission_check
  BY DEF StepFacts, MMU!Scripts
<1>2. /\ at \in Nat /\ step = MMU!Script[at + 1] /\ at + 1 \in 1..25
      /\ step.op = IF at + 1 = 1 THEN "reset" ELSE "edge"
      /\ step.sets = sets
  <2>1. Permission(MMU!Script, 25)
    BY <1>1, PermissionScript
  <2>2. Len(MMU!Script) = 25 /\ \A i \in 1..25 : PermissionStep(MMU!Script[i], i)
    BY <2>1 DEF Permission
  <2>3. at \in Nat /\ step = MMU!Script[at + 1] /\ at + 1 \in 1..25
    BY <2>2 DEF StepFacts, Moves
  <2> QED  BY <2>2, <2>3 DEF PermissionStep
<1>3. /\ FirstPage(at, dut, board) /\ (at >= 1 => Walks(dut, board))
      /\ \A pin \in Pins : /\ pin \in DOMAIN step.sets => b.wires[pin] = step.sets[pin]
                           /\ pin \notin DOMAIN step.sets => b.wires[pin] = wires[pin]
  BY DEF StepFacts, Moves, KeepsItsAddress
<1>4. /\ wires.tlb_flush = FALSE /\ (at <= 3 => NoneOrHeld(wires))
      /\ at \in 4..14 => Held(wires)
      /\ at \in 0..14 /\ at \notin {6, 9} => wires.ptw_ready = FALSE
  BY <1>3 DEF FirstPage
<1> DEFINE i == at + 1
<1>5. /\ "tlb_flush" \notin DOMAIN sets
      /\ i = 4 => /\ {"vaddr", "req_valid", "vm_enable"} \subseteq DOMAIN sets
                  /\ sets.vaddr = OneUp /\ sets.req_valid = TRUE /\ sets.vm_enable = TRUE
      /\ i # 4 /\ i # 15 =>
           /\ "vaddr" \notin DOMAIN sets /\ "req_valid" \notin DOMAIN sets
           /\ "vm_enable" \notin DOMAIN sets
      /\ i \in {6, 9} => /\ {"ptw_ready", "ptw_data"} \subseteq DOMAIN sets
                         /\ sets.ptw_ready = TRUE
                         /\ sets.ptw_data = IF i = 6 THEN MMU!Pointer
                                                     ELSE MMU!Pte(3, {"V", "R", "U"})
      /\ i \in {7, 10} => "ptw_ready" \in DOMAIN sets /\ sets.ptw_ready = FALSE
      /\ i \in {1, 2, 3, 4, 5, 8, 11, 12, 13, 14} => "ptw_ready" \notin DOMAIN sets
  BY <1>2, PermissionPins
<1> HIDE DEF sets, i, wires
<1>6. b.wires.tlb_flush = FALSE
  BY <1>2, <1>3, <1>4, <1>5 DEF Pins
<1>7. i # 4 /\ i # 15 => /\ b.wires.vaddr = wires.vaddr
                         /\ b.wires.req_valid = wires.req_valid
                         /\ b.wires.vm_enable = wires.vm_enable
  BY <1>2, <1>3, <1>5 DEF Pins
<1>8. i = 4 => Held(b.wires)
  BY <1>2, <1>3, <1>5 DEF Pins, Held
<1>9. i <= 3 => NoneOrHeld(b.wires)
  <2> SUFFICES ASSUME i <= 3 PROVE NoneOrHeld(b.wires)
    OBVIOUS
  <2>1. NoneOrHeld(wires) /\ i # 4 /\ i # 15
    BY <1>2, <1>4 DEF i
  <2> QED  BY <1>7, <2>1 DEF NoneOrHeld, Held
<1>10. i \in 5..14 => Held(b.wires)
  <2> SUFFICES ASSUME i \in 5..14 PROVE Held(b.wires)
    OBVIOUS
  <2>1. Held(wires) /\ i # 4 /\ i # 15
    BY <1>2, <1>4 DEF i
  <2> QED  BY <1>7, <2>1 DEF Held
<1>11. i \in {6, 9} => /\ b.wires.ptw_ready = TRUE
                       /\ b.wires.ptw_data = IF i = 6 THEN MMU!Pointer
                                                      ELSE MMU!Pte(3, {"V", "R", "U"})
  BY <1>2, <1>3, <1>5 DEF Pins
<1>12. i \in {7, 10} => b.wires.ptw_ready = FALSE
  BY <1>2, <1>3, <1>5 DEF Pins
<1>13. i \in {1, 2, 3, 4, 5, 8, 11, 12, 13, 14} => b.wires.ptw_ready = FALSE
  <2> SUFFICES ASSUME i \in {1, 2, 3, 4, 5, 8, 11, 12, 13, 14} PROVE b.wires.ptw_ready = FALSE
    OBVIOUS
  <2>1. b.wires.ptw_ready = wires.ptw_ready
    BY <1>2, <1>3, <1>5 DEF Pins
  <2>2. at \in 0..14 /\ at \notin {6, 9}
    BY <1>2 DEF i
  <2> QED  BY <1>4, <2>1, <2>2
<1>14. i \in 1..14 /\ i \notin {6, 9} => b.wires.ptw_ready = FALSE
  <2>1. i \in 1..14 =>
          i \in {6, 9} \/ i \in {7, 10} \/ i \in {1, 2, 3, 4, 5, 8, 11, 12, 13, 14}
    OBVIOUS
  <2> QED  BY <1>12, <1>13, <2>1
<1>15. at = 0 => d = MMU!AfterReset(dut)
  BY <1>2 DEF StepFacts, Moves
<1>16. at >= 1 => d = MMU!After(dut, b.wires) /\ step.op = "edge"
  BY <1>2 DEF StepFacts, Moves
<1>17. /\ at \in 1..2 => b.wires.vm_enable = wires.vm_enable
       /\ at \notin {3, 14} => b.wires.vaddr = wires.vaddr
  <2>1. (at \in 1..2 \/ at \notin {3, 14}) => i # 4 /\ i # 15
    BY <1>2 DEF i
  <2> QED  BY <1>7, <2>1
<1>18. /\ i \in 4..14 => Held(b.wires)
       /\ i \in {6, 9} => b.wires.ptw_ready = TRUE
       /\ i = 6 => b.wires.ptw_data = MMU!Pointer
       /\ i = 9 => b.wires.ptw_data = MMU!Pte(3, {"V", "R", "U"})
  <2>1. i \in 4..14 => i = 4 \/ i \in 5..14
    BY <1>2 DEF i
  <2> QED  BY <1>8, <1>10, <1>11, <2>1
<1>19. at \in 0..24
  BY <1>2
<1> QED  BY <1>3, <1>6, <1>9, <1>14, <1>15, <1>16, <1>17, <1>18, <1>19 DEF i, wires

LEMMA FirstPageWalk ==
  ASSUME NEW step, NEW d, NEW b, StepFacts(step, d, b), test = "test_permission_check"
  PROVE  FirstPage(at + 1, d, b) /\ Walks(d, b)
<1> DEFINE next == b.wires
           empty(e) == e.tlb_replace_idx = 0 /\ \A i \in 0..3 : e.tlb[i].valid = FALSE
           filled(e) == e.tlb[0].valid = TRUE /\ e.tlb[0].vpn = OneUp
           leaf == MMU!IsLeaf(next.ptw_data)
<1>1. /\ FirstPage(at, dut, board) /\ (at >= 1 => Walks(dut, board))
      /\ at \in 0..24 /\ next.tlb_flush = FALSE
      /\ at = 0 => d = MMU!AfterReset(dut)
      /\ at >= 1 => d = MMU!After(dut, next) /\ step.op = "edge"
      /\ at + 1 <= 3 => NoneOrHeld(next)
      /\ at + 1 \in 4..14 => Held(next)
      /\ at \in 1..2 => next.vm_enable = board.wires.vm_enable
      /\ at + 1 \in {6, 9} => next.ptw_ready = TRUE
      /\ at + 1 \in 1..14 /\ at + 1 \notin {6, 9} => next.ptw_ready = FALSE
      /\ at + 1 = 6 => next.ptw_data = MMU!Pointer
      /\ at + 1 = 9 => next.ptw_data = MMU!Pte(3, {"V", "R", "U"})
      /\ at \notin {3, 14} => next.vaddr = board.wires.vaddr
  BY FirstPageWires
<1>2. /\ Moves(step, d, b) /\ dut.ptw_state \in WalkStates /\ next.ptw_ready \in BOOLEAN
      /\ \A i \in 0..3 : "valid" \in DOMAIN dut.tlb[i]
  BY DEF StepFacts
<1> HIDE DEF next
<1>3. /\ at \in 1..9 => empty(dut)
      /\ at \in 10..14 => filled(dut)
      /\ at <= 3 => NoneOrHeld(board.wires)
      /\ at = 1 => dut.ptw_state = "IDLE"
      /\ at = 2 => dut.ptw_state = IF board.wires.vm_enable = TRUE THEN "PTW_L1" ELSE "IDLE"
      /\ at = 3 => dut.ptw_state = IF board.wires.vm_enable = TRUE THEN "PTW_WAIT" ELSE "IDLE"
      /\ at = 4 => dut.ptw_state \in {"PTW_L1", "PTW_WAIT"}
      /\ at \in {5, 7, 8} => dut.ptw_state = "PTW_WAIT"
      /\ at = 6 => dut.ptw_state = "PTW_L0"
      /\ at = 9 => dut.ptw_state = "UPDATE_TLB"
      /\ at \in 10..14 => dut.ptw_state = "IDLE"
      /\ at \in 2..5 /\ dut.ptw_state # "IDLE" => dut.ptw_level = 1
      /\ at \in 7..9 => dut.ptw_level = 0
  BY <1>1 DEF FirstPage
<1>4. LET e == MMU!After(dut, next) IN
      /\ dut.ptw_state = "IDLE" =>
           /\ MMU!Misses(dut, next) => e.ptw_state = "PTW_L1" /\ e.ptw_level = 1
           /\ ~MMU!Misses(dut, next) => e.ptw_state = "IDLE"
      /\ dut.ptw_state \in {"PTW_L1", "PTW_L0"} => e.ptw_state = "PTW_WAIT"
      /\ dut.ptw_state = "PTW_L1" => e.ptw_level = dut.ptw_level
      /\ dut.ptw_state = "PTW_L0" => e.ptw_level = 0
      /\ dut.ptw_state = "PTW_WAIT" =>
           /\ e.ptw_level = dut.ptw_level
           /\ next.ptw_ready = FALSE => e.ptw_state = "PTW_WAIT"
           /\ next.ptw_ready = TRUE /\ leaf => e.ptw_state = "UPDATE_TLB"
           /\ next.ptw_ready = TRUE /\ ~leaf /\ dut.ptw_level = 1 => e.ptw_state = "PTW_L0"
      /\ dut.ptw_state \in {"UPDATE_TLB", "FAULT"} => e.ptw_state = "IDLE"
  BY <1>2, WalkerStep
<1>5. LET e == MMU!After(dut, next) IN
      /\ dut.ptw_state # "UPDATE_TLB" =>
           e.tlb_replace_idx = dut.tlb_replace_idx /\ \A i \in 0..3 : e.tlb[i] = dut.tlb[i]
      /\ dut.ptw_state = "UPDATE_TLB" /\ dut.tlb_replace_idx = 0 =>
           e.tlb[0].valid = TRUE /\ e.tlb[0].vpn = next.vaddr
  BY <1>1, TlbStep
<1>6. /\ at + 1 = 6 => ~leaf
      /\ at + 1 = 9 => leaf
  BY <1>1 DEF MMU!IsLeaf, MMU!Pointer, MMU!Pte
<1>7. /\ (\A i \in 0..3 : dut.tlb[i].valid = FALSE) /\ Held(next) => MMU!Misses(dut, next)
      /\ next.vm_enable = FALSE => ~MMU!Misses(dut, next)
      /\ dut.tlb[0].valid = TRUE /\ dut.tlb[0].vpn = next.vaddr => ~MMU!Misses(dut, next)
  BY MissOrHit
<1>8. Walks(d, b)
  <2>1. CASE at = 0
    <3>1. d.ptw_state = "IDLE"
      BY <1>1, <1>2, <2>1, TlbReset
    <3> QED  BY <3>1 DEF Walks
  <2>2. CASE at >= 1
    <3>1. dut.ptw_state = "IDLE" \/ next.vaddr = board.wires.vaddr
      <4>1. CASE at \notin {3, 14}
        BY <1>1, <4>1
      <4>2. CASE at = 14
        BY <1>3, <4>2
      <4>3. CASE at = 3
        <5>1. Held(next) /\ NoneOrHeld(board.wires)
          BY <1>1, <1>3, <4>3
        <5>2. board.wires.vm_enable = TRUE => next.vaddr = board.wires.vaddr
          BY <5>1 DEF NoneOrHeld, Held
        <5> QED  BY <1>3, <4>3, <5>2
      <4> QED  BY <4>1, <4>2, <4>3
    <3> QED  BY <1>1, <1>2, <2>2, <3>1, WalksOn DEF next
  <2> QED  BY <1>1, <2>1, <2>2
<1> DEFINE walk(n, state, level) ==
      /\ n = 1 => state = "IDLE"
      /\ n = 2 => state = IF next.vm_enable = TRUE THEN "PTW_L1" ELSE "IDLE"
      /\ n = 3 => state = IF next.vm_enable = TRUE THEN "PTW_WAIT" ELSE "IDLE"
      /\ n = 4 => state \in {"PTW_L1", "PTW_WAIT"}
      /\ n \in {5, 7, 8} => state = "PTW_WAIT"
      /\ n = 6 => state = "PTW_L0"
      /\ n = 9 => state = "UPDATE_TLB"
      /\ n \in 10..14 => state = "IDLE"
      /\ n \in 2..5 /\ state # "IDLE" => level = 1
      /\ n \in 7..9 => level = 0
<1>9. /\ walk(at + 1, d.ptw_state, d.ptw_level)
      /\ at + 1 \in 1..9 => empty(d)
      /\ at + 1 \in 10..14 => filled(d)
  <2>0. CASE at = 0
    <3>1. d.ptw_state = "IDLE" /\ empty(d)
      <4>1. d = MMU!AfterReset(dut) /\ \A i \in 0..3 : "valid" \in DOMAIN dut.tlb[i]
        BY <1>1, <1>2, <2>0
      <4> QED  BY ONLY <4>1, TlbReset
    <3> HIDE DEF empty, filled
    <3>2. walk(1, d.ptw_state, d.ptw_level)
      BY <3>1
    <3>3. at + 1 = 1
      BY <2>0
    <3> HIDE DEF walk
    <3> QED  BY <3>1, <3>2, <3>3
  <2>1. CASE at \in 1..8
    <3>1. d = MMU!After(dut, next) /\ empty(dut)
      BY <1>1, <1>3, <2>1
    <3>2. dut.ptw_state # "UPDATE_TLB"
      BY <1>3, <2>1
    <3>3. empty(d)
      BY <1>5, <3>1, <3>2
    <3>4. dut.ptw_state = "IDLE" /\ Held(next) => d.ptw_state = "PTW_L1" /\ d.ptw_level = 1
      BY <1>4, <1>7, <3>1
    <3>5. dut.ptw_state = "IDLE" /\ next.vm_enable = FALSE => d.ptw_state = "IDLE"
      BY <1>4, <1>7, <3>1
    <3> HIDE DEF empty, filled
    <3>6. CASE at = 1
      <4>1. next.vm_enable = FALSE \/ (next.vm_enable = TRUE /\ Held(next))
        BY <1>1, <3>6 DEF NoneOrHeld, Held
      <4> QED  BY <1>3, <3>3, <3>4, <3>5, <3>6, <4>1
    <3>7. CASE at = 2
      <4>1. next.vm_enable = FALSE \/ next.vm_enable = TRUE
        BY <1>1, <3>7 DEF NoneOrHeld, Held
      <4> QED  BY <1>1, <1>3, <1>4, <3>1, <3>3, <3>5, <3>7, <4>1
    <3>8. CASE at = 3
      <4>1. Held(next) /\ next.ptw_ready = FALSE
        BY <1>1, <3>8
      <4>2. dut.ptw_state = "IDLE" \/ (dut.ptw_state = "PTW_WAIT" /\ dut.ptw_level = 1)
        BY <1>3, <3>8
      <4> QED  BY <1>4, <3>1, <3>3, <3>4, <3>8, <4>1, <4>2
    <3>9. CASE at = 4
      <4>1. next.ptw_ready = FALSE /\ dut.ptw_level = 1
        BY <1>1, <1>3, <3>9
      <4> QED  BY <1>3, <1>4, <3>1, <3>3, <3>9, <4>1
    <3>10. CASE at = 5
      <4>1. next.ptw_ready = TRUE /\ dut.ptw_level = 1 /\ ~leaf /\ dut.ptw_state = "PTW_WAIT"
        BY <1>1, <1>3, <1>6, <3>10
      <4>2. d.ptw_state = "PTW_L0"
        BY <1>4, <3>1, <4>1
      <4> QED  BY <3>3, <3>10, <4>2
    <3>11. CASE at = 6
      <4>1. d.ptw_state = "PTW_WAIT" /\ d.ptw_level = 0
        BY <1>3, <1>4, <3>1, <3>11
      <4> QED  BY <3>3, <3>11, <4>1
    <3>12. CASE at = 7
      <4>1. next.ptw_ready = FALSE /\ dut.ptw_level = 0 /\ dut.ptw_state = "PTW_WAIT"
        BY <1>1, <1>3, <3>12
      <4>2. d.ptw_state = "PTW_WAIT" /\ d.ptw_level = 0
        BY <1>4, <3>1, <4>1
      <4> QED  BY <3>3, <3>12, <4>2
    <3>13. CASE at = 8
      <4>1. next.ptw_ready = TRUE /\ dut.ptw_level = 0 /\ leaf /\ dut.ptw_state = "PTW_WAIT"
        BY <1>1, <1>3, <1>6, <3>13
      <4>2. d.ptw_state = "UPDATE_TLB" /\ d.ptw_level = 0
        BY <1>4, <3>1, <4>1
      <4> QED  BY <3>3, <3>13, <4>2
    <3>14. \/ at = 1 \/ at = 2 \/ at = 3 \/ at = 4 \/ at = 5 \/ at = 6 \/ at = 7 \/ at = 8
      BY <2>1
    <3> HIDE DEF walk
    <3> QED  BY ONLY <3>6, <3>7, <3>8, <3>9, <3>10, <3>11, <3>12, <3>13, <3>14
  <2>2. CASE at = 9
    <3>1. d = MMU!After(dut, next) /\ empty(dut) /\ dut.ptw_state = "UPDATE_TLB" /\ Held(next)
      BY <1>1, <1>3, <2>2
    <3>2. d.ptw_state = "IDLE" /\ filled(d)
      BY <1>4, <1>5, <3>1 DEF Held
    <3> HIDE DEF empty, filled
    <3> QED  BY <2>2, <3>2
  <2>3. CASE at \in 10..13
    <3>1. /\ d = MMU!After(dut, next) /\ filled(dut) /\ dut.ptw_state = "IDLE" /\ Held(next)
      BY <1>1, <1>3, <2>3
    <3>2. ~MMU!Misses(dut, next)
      BY <1>7, <3>1 DEF Held
    <3>3. d.ptw_state = "IDLE"
      BY <1>4, <3>1, <3>2
    <3>4. filled(d)
      BY <1>5, <3>1
    <3> HIDE DEF empty, filled
    <3> QED  BY <2>3, <3>3, <3>4
  <2>4. CASE at >= 14
    <3> HIDE DEF empty, filled
    <3>1. ASSUME NEW n \in 15..25, NEW state, NEW level PROVE walk(n, state, level)
      OBVIOUS
    <3>2. at + 1 \in 15..25 /\ at + 1 \notin 1..9 /\ at + 1 \notin 10..14
      BY <1>1, <2>4
    <3> HIDE DEF walk
    <3> QED  BY <3>1, <3>2
  <2> HIDE DEF walk, empty, filled
  <2>5. at = 0 \/ at \in 1..8 \/ at = 9 \/ at \in 10..13 \/ at >= 14
    BY <1>1
  <2> QED  BY <2>0, <2>1, <2>2, <2>3, <2>4, <2>5
<1>10. FirstPage(at + 1, d, b)
  <2> DEFINE i == at + 1
  <2>1. /\ next.tlb_flush = FALSE
        /\ i <= 3 => NoneOrHeld(next)
        /\ i \in 4..14 => Held(next)
        /\ i \in {6, 9} => next.ptw_ready = TRUE
        /\ i \in 0..14 /\ i \notin {6, 9} => next.ptw_ready = FALSE
    <3>1. i \in 0..14 => i \in 1..14
      BY <1>1
    <3> QED  BY <1>1, <3>1
  <2>2. walk(i, d.ptw_state, d.ptw_level) /\ (i \in 1..9 => empty(d))
        /\ (i \in 10..14 => filled(d))
    BY <1>9
  <2> HIDE DEF i
  <2> QED  BY <2>1, <2>2 DEF FirstPage, i, next
<1> QED  BY <1>8, <1>10

LEMMA MmuStep ==
  ASSUME MmuInv, MMU!edge \/ MMU!reset
  PROVE  MmuInv'
<1> DEFINE step == MMU!Now
           d == dut'
           b == board'
<1>1. StepFacts(step, d, b) /\ AnswerStands' /\ test' = test /\ at' = at + 1 /\ at \in Nat
  BY MmuStepFacts, MmuAnswerStands DEF StepFacts, Moves
<1> HIDE DEF step
<1>2. test \in {"test_reset", "test_direct_mapping"} =>
        d.ptw_state = "IDLE" /\ b.wires.vm_enable = FALSE /\ b.wires.tlb_flush = FALSE
  <2> HIDE DEF d, b
  <2> QED  BY <1>1, KeepsOff
<1>3. test = "test_tlb_miss_ptw" =>
        /\ b.wires.tlb_flush = FALSE
        /\ IF at + 1 <= 3 THEN d.ptw_state = "IDLE" /\ b.wires.vm_enable = FALSE
                          ELSE Held(b.wires) /\ Walks(d, b)
  <2> HIDE DEF d, b
  <2> QED  BY <1>1, KeepsTlbMiss
<1>4. test = "test_permission_check" => FirstPage(at + 1, d, b) /\ Walks(d, b)
  <2> HIDE DEF d, b
  <2> QED  BY <1>1, FirstPageWalk
<1>5. test \in {"test_tlb_flush", "test_page_fault"} =>
        /\ at + 1 \in 1..3 => d.ptw_state = "IDLE" /\ b.wires.req_valid = FALSE
        /\ at + 1 >= 4 =>
             /\ b.wires.vaddr = IF test = "test_page_fault" THEN <<3, 3>> ELSE OneUp
             /\ Walks(d, b)
  <2> HIDE DEF d, b
  <2> QED  BY <1>1, KeepsLowered
<1>6. KeepsItsAddress(dut, board)'
  BY <1>1, <1>2, <1>3, <1>4, <1>5 DEF KeepsItsAddress, FirstPage, Walks
<1> QED  BY <1>1, <1>6 DEF MmuInv

LEMMA MmuNextTest ==
  ASSUME MmuInv, MMU!next_test
  PROVE  MmuInv'
<1>1. /\ MMU!Done(MMU!Script) /\ at' = 0 /\ ~mismatch' /\ dut' = dut /\ board' = board
      /\ \E i \in 1..(Len(MMU!Order) - 1) : MMU!Order[i] = test /\ test' = MMU!Order[i + 1]
      /\ AnswerStands /\ KeepsItsAddress(dut, board)
  BY DEF MmuInv, MMU!next_test, MMU!NextTest
<1>2. /\ test' \in DOMAIN MMU!Scripts
      /\ test' = "test_direct_mapping" => test = "test_reset"
      /\ test' = "test_tlb_miss_ptw" => test = "test_direct_mapping"
      /\ test' = "test_permission_check" => test = "test_tlb_miss_ptw"
      /\ test' # "test_reset"
  <2>1. PICK i \in 1..(Len(MMU!Order) - 1) : MMU!Order[i] = test /\ test' = MMU!Order[i + 1]
    BY <1>1
  <2>2. i \in 1..7
    BY <2>1 DEF MMU!Order
  <2>3. /\ i = 1 => test = "test_reset" /\ test' = "test_direct_mapping"
        /\ i = 2 => test = "test_direct_mapping" /\ test' = "test_tlb_miss_ptw"
        /\ i = 3 => test = "test_tlb_miss_ptw" /\ test' = "test_permission_check"
        /\ i = 4 => test' = "test_tlb_flush"
        /\ i = 5 => test' = "test_superpage"
        /\ i = 6 => test' = "test_page_fault"
        /\ i = 7 => test' = "test_concurrent_requests"
    BY <2>1 DEF MMU!Order
  <2> QED  BY <2>2, <2>3 DEF MMU!Scripts
<1>3. board.wires.ptw_ready = FALSE /\ dut.ptw_state # "UPDATE_TLB"
  <2>1. Len(MMU!Script) \in Nat /\ at \in Nat
    <3>1. test \in DOMAIN MMU!Scripts /\ at \in Nat
      BY <1>1 DEF AnswerStands
    <3> QED  BY <3>1, MmuAnswers DEF MMU!Script
  <2>2. mismatch \/ at >= Len(MMU!Script)
    BY <1>1 DEF MMU!Done
  <2>3. ~(board.wires.ptw_ready = TRUE)
    BY <1>1, <2>1, <2>2 DEF AnswerStands
  <2> QED  BY <1>1, <2>3 DEF AnswerStands
<1>4. AnswerStands'
  <2>1. /\ board = [wires |-> board.wires, walking |-> board.walking]
        /\ Pins \subseteq DOMAIN board.wires /\ dut.ptw_state \in WalkStates
        /\ \A i \in 0..3 : "valid" \in DOMAIN dut.tlb[i]
    BY <1>1 DEF AnswerStands
  <2> QED  BY <1>1, <1>2, <1>3, <2>1 DEF AnswerStands
<1>5. test \in {"test_reset", "test_direct_mapping"} =>
        /\ dut.ptw_state = "IDLE" /\ board.wires.vm_enable = FALSE
        /\ board.wires.tlb_flush = FALSE
  BY <1>1 DEF KeepsItsAddress
<1>6. test = "test_tlb_miss_ptw" => board.wires.tlb_flush = FALSE /\ NoneOrHeld(board.wires)
  BY <1>1 DEF KeepsItsAddress, NoneOrHeld
<1>7. test' = "test_permission_check" => FirstPage(0, dut, board)
  BY <1>2, <1>3, <1>6 DEF FirstPage
<1>8. KeepsItsAddress(dut, board)'
  BY <1>1, <1>2, <1>5, <1>7 DEF KeepsItsAddress, FirstPage
<1> QED  BY <1>4, <1>8 DEF MmuInv

LEMMA MmuStart == MMU!BenchInit => MmuInv
<1> SUFFICES ASSUME MMU!BenchInit PROVE MmuInv
  OBVIOUS
<1>1. /\ test \in DOMAIN MMU!Scripts /\ at = 0 /\ dut = MMU!ResetState
      /\ board = [wires |-> MMU!Low, walking |-> <<0, 0>>]
  BY DEF MMU!BenchInit, MMU!InitTest
<1>2. /\ Pins \subseteq DOMAIN MMU!Low /\ MMU!Low.ptw_ready = FALSE
      /\ MMU!Low.vm_enable = FALSE /\ MMU!Low.tlb_flush = FALSE
  BY DEF MMU!Low, Pins
<1>3. dut.ptw_state = "IDLE" /\ \A i \in 0..3 : "valid" \in DOMAIN dut.tlb[i]
  <2>1. MMU!Index = 0..3
    BY DEF MMU!Index
  <2> QED  BY <1>1, <2>1 DEF MMU!ResetState, MMU!FreeEntry
<1>4. board.wires = MMU!Low /\ board = [wires |-> board.wires, walking |-> board.walking]
  BY <1>1
<1>5. AnswerStands
  BY <1>1, <1>2, <1>3, <1>4 DEF AnswerStands, WalkStates
<1>6. FirstPage(0, dut, board)
  BY <1>2, <1>4 DEF FirstPage, NoneOrHeld
<1>7. KeepsItsAddress(dut, board)
  BY <1>1, <1>2, <1>3, <1>4, <1>6 DEF KeepsItsAddress
<1> QED  BY <1>5, <1>7 DEF MmuInv

LEMMA MmuFills == MmuInv => MMU!InstallsTheAnswer /\ MMU!WalkedForIt
<1> SUFFICES ASSUME MmuInv PROVE MMU!InstallsTheAnswer /\ MMU!WalkedForIt
  OBVIOUS
<1>1. AnswerStands /\ KeepsItsAddress(dut, board)
  BY DEF MmuInv
<1>2. MMU!InstallsTheAnswer
  <2> SUFFICES ASSUME dut.ptw_state = "UPDATE_TLB"
               PROVE  MMU!Over(MMU!Now.sets, board.wires).ptw_data = dut.pte_data
    BY DEF MMU!InstallsTheAnswer
  <2>1. /\ Lowers(MMU!Now) /\ dut.pte_data = board.wires.ptw_data
        /\ "ptw_data" \in DOMAIN board.wires
    BY <1>1 DEF AnswerStands, Pins
  <2> DEFINE sets == MMU!Now.sets
  <2>2. "ptw_data" \notin DOMAIN sets
    BY <2>1 DEF Lowers
  <2> HIDE DEF sets
  <2>3. MMU!Over(sets, board.wires)["ptw_data"] = board.wires["ptw_data"]
    BY <2>1, <2>2 DEF MMU!Over
  <2> QED  BY <2>1, <2>3 DEF sets
<1>3. MMU!WalkedForIt
  <2> SUFFICES ASSUME dut.ptw_state = "UPDATE_TLB", board.wires.vaddr # board.walking
               PROVE  test \in {"test_superpage", "test_concurrent_requests"}
    BY DEF MMU!WalkedForIt
  <2>1. ~Walks(dut, board) /\ dut.ptw_state # "IDLE" /\ at \in Nat /\ at >= 1
    BY <1>1 DEF Walks, AnswerStands
  <2>2. test \notin {"test_reset", "test_direct_mapping"}
    BY <1>1, <2>1 DEF KeepsItsAddress
  <2>3. test # "test_tlb_miss_ptw"
    BY <1>1, <2>1 DEF KeepsItsAddress
  <2>4. test # "test_permission_check"
    BY <1>1, <2>1 DEF KeepsItsAddress
  <2>5. test \notin {"test_tlb_flush", "test_page_fault"}
    BY <1>1, <2>1 DEF KeepsItsAddress
  <2>6. test \in DOMAIN MMU!Scripts
    BY <1>1 DEF AnswerStands
  <2> QED  BY <2>2, <2>3, <2>4, <2>5, <2>6 DEF MMU!Scripts
<1> QED  BY <1>2, <1>3

\* tb/mmu_tb.py: no test takes the memory's answer off the wires before the MMU has
\* installed it, and but in two tests it is installed for the address its walk was started
\* for, though the tests raise new addresses over the request of the one before.
THEOREM WalksFillWhatTheyWereStartedFor == SuiteSpec => []FillsFromTheWalk
<1> DEFINE Inv == bench = "mmu" => MmuInv
<1>1. SuiteInit => Inv
  <2> SUFFICES ASSUME SuiteInit PROVE Inv
    OBVIOUS
  <2>1. CASE SmallInit
    BY <2>1, MmuStart DEF SmallInit
  <2>2. CASE bench \in {"gpu_op_queue", "red_pitaya_cpu_wrapper", "cpu_top"}
    BY <2>2
  <2> QED  BY <2>1, <2>2 DEF SuiteInit
<1>2. Inv /\ [SuiteNext]_suiteVars => Inv'
  <2> SUFFICES ASSUME Inv, [SuiteNext]_suiteVars PROVE Inv'
    OBVIOUS
  <2>1. CASE small_bench
    <3>1. bench' = bench
      BY <2>1 DEF small_bench
    <3>2. bench = "mmu" => MMU!BenchNext
      BY <2>1 DEF small_bench
    <3> QED  BY <3>1, <3>2, MmuStep, MmuNextTest DEF MMU!BenchNext
  <2>2. CASE op_queue_bench \/ wrapper_bench \/ cpu_top_bench
    BY <2>2 DEF op_queue_bench, wrapper_bench, cpu_top_bench
  <2>3. CASE UNCHANGED suiteVars
    <3>1. /\ bench' = bench /\ dut' = dut /\ board' = board /\ test' = test /\ at' = at
          /\ mismatch' = mismatch
      BY <2>3 DEF suiteVars
    <3> QED  BY <3>1 DEF MmuInv, AnswerStands, KeepsItsAddress, FirstPage, Walks,
                         Lowers, MMU!Script, MMU!Now
  <2> QED  BY <2>1, <2>2, <2>3 DEF SuiteNext
<1>3. Inv => FillsFromTheWalk
  BY MmuFills DEF FillsFromTheWalk
<1> QED
  BY <1>1, <1>2, <1>3, PTL DEF SuiteSpec
=============================================================================
