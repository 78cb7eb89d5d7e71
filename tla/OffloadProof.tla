---------------------------- MODULE OffloadProof ----------------------------
(***************************************************************************)
(* Proofs about the offload manager, for any number of coprocessors, table *)
(* entries and registers and any time limit: types and entries in every    *)
(* environment, marks and operands with coprocessors that answer what they *)
(* were given, in whatever order.                                          *)
(***************************************************************************)
EXTENDS Offload, RingFacts, TLAPS

LEMMA EntriesAreNumbers ==
  /\ Entry \subseteq Nat /\ TABLE_ENTRIES \in Nat \ {0} /\ 0 \in Entry
  /\ \A e \in Entry : e < TABLE_ENTRIES
<1>1. TABLE_ENTRIES \in Nat \ {0}
  BY TableAssumption
<1> QED
  BY <1>1 DEF Entry

LEMMA CoprocessorsAreNumbers == 0 \in Cp /\ CP_NUM \notin Cp /\ Cp \subseteq Nat
  BY CpAssumption DEF Cp

\* The completion counter stays in the table: it wraps at the end.
LEMMA CounterWraps ==
  ASSUME NEW e \in Entry
  PROVE  /\ (e + 1) % TABLE_ENTRIES \in Entry
         /\ (e + 1) % TABLE_ENTRIES = IF e + 1 = TABLE_ENTRIES THEN 0 ELSE e + 1
<1>1. TABLE_ENTRIES \in Nat \ {0} /\ e \in 0..(TABLE_ENTRIES - 1)
  BY EntriesAreNumbers DEF Entry
<1> QED
  BY <1>1 DEF Entry

\* The entry that is allocated is a free one, the least.
LEMMA LeastFree ==
  ASSUME Free # {}
  PROVE  next_free_entry \in Free /\ \A f \in Free : next_free_entry <= f
<1>1. Free \subseteq Nat
  BY EntriesAreNumbers DEF Free
<1>2. \E n \in Free : \A f \in Free : n <= f
  BY <1>1, LeastNumber
<1> QED
  BY <1>2 DEF next_free_entry

-----------------------------------------------------------------------------
LEMMA InitTypeOK == Init => TypeOK
<1> SUFFICES ASSUME Init PROVE TypeOK
  OBVIOUS
<1>1. id \in Instr \cup {Bubble} /\ cp_result_valid_prev \subseteq Cp
  BY DEF Init
<1>2. dest_table \in [Entry -> [valid : BOOLEAN, completed : BOOLEAN, cp_select : Cp]]
  BY CoprocessorsAreNumbers DEF Init
<1>3. completion_entry_counter \in Entry
  BY EntriesAreNumbers DEF Init
<1>4. pending_rd \in [Cp -> Reg]
  BY RegAssumption DEF Init
<1>5. timeout_counter \in 0..(STALL_TIMEOUT - 1) /\ stall_timeout_flag \in BOOLEAN
  <2>1. 0 \in 0..(STALL_TIMEOUT - 1)
    BY TimeoutAssumption
  <2> QED
    BY <2>1 DEF Init
<1>6. /\ running \subseteq [cp : Cp, rd : Reg]
      /\ fate \in {"none", "held", "due", "lost"} /\ unmarked \in BOOLEAN
  BY DEF Init
<1> QED
  BY <1>1, <1>2, <1>3, <1>4, <1>5, <1>6 DEF TypeOK

LEMMA ResetKeepsTypes == Reset => TypeOK'
<1> SUFFICES ASSUME Reset PROVE TypeOK'
  OBVIOUS
<1>1. id' \in Instr \cup {Bubble} /\ cp_result_valid_prev' \subseteq Cp
  BY DEF Reset
<1>2. dest_table' \in [Entry -> [valid : BOOLEAN, completed : BOOLEAN, cp_select : Cp]]
  BY CoprocessorsAreNumbers DEF Reset
<1>3. completion_entry_counter' \in Entry
  BY EntriesAreNumbers DEF Reset
<1>4. pending_rd' \in [Cp -> Reg]
  BY RegAssumption DEF Reset
<1>5. timeout_counter' \in 0..(STALL_TIMEOUT - 1) /\ stall_timeout_flag' \in BOOLEAN
  <2>1. 0 \in 0..(STALL_TIMEOUT - 1)
    BY TimeoutAssumption
  <2> QED
    BY <2>1 DEF Reset
<1>6. /\ running' \subseteq [cp : Cp, rd : Reg]
      /\ fate' \in {"none", "held", "due", "lost"} /\ unmarked' \in BOOLEAN
  BY DEF Reset
<1> QED
  BY <1>1, <1>2, <1>3, <1>4, <1>5, <1>6 DEF TypeOK

\* What is taken is an instruction for a coprocessor, and there is a free entry.
LEMMA TakenIsInstr ==
  ASSUME TypeOK, NEW in, NEW stalls, alloc_success(in, stalls)
  PROVE  /\ id \in Instr /\ id.cp \in Cp /\ ~stalls /\ id.cp \in in.available
         /\ Free # {} /\ ~hazard(in, stalls)
  BY CoprocessorsAreNumbers
  DEF TypeOK, alloc_success, offload_request, offload_stall, dispatcher_detected,
      alloc_full, Bubble

\* What an edge does, for the value at which global_stall settles.
LEMMA TickParts ==
  ASSUME NEW in, NEW offers, Tick(in, offers)
  PROVE  \E stalls \in BOOLEAN :
           /\ stalls = global_stall(in, stalls)
           /\ dest_table' = TableAfter(in, alloc_success(in, stalls))
           /\ pending_rd' = PendingAfter(in, alloc_success(in, stalls))
           /\ running' = RunningAfter(in, alloc_success(in, stalls))
           /\ completion_entry_counter' = Counted(in)
           /\ cp_result_valid_prev' = in.results
           /\ timeout_counter' = IF ~stalls THEN 0
                                 ELSE IF TimesOut THEN timeout_counter
                                 ELSE timeout_counter + 1
           /\ stall_timeout_flag' = (stalls /\ TimesOut)
           /\ fate' = FateAfter(in, stalls)
           /\ unmarked' = (0 \notin in.results /\ Working0
                             /\ (unmarked \/ in.exception))
           /\ id' \in IF id_stall(in, stalls) THEN {id} ELSE offers
  BY Zenon DEF Tick

LEMMA TickKeepsTypes ==
  ASSUME TypeOK, NEW in \in Inputs, Tick(in, Offers)
  PROVE  TypeOK'
<1>1. PICK stalls \in BOOLEAN :
        /\ dest_table' = TableAfter(in, alloc_success(in, stalls))
        /\ pending_rd' = PendingAfter(in, alloc_success(in, stalls))
        /\ running' = RunningAfter(in, alloc_success(in, stalls))
        /\ completion_entry_counter' = Counted(in)
        /\ cp_result_valid_prev' = in.results
        /\ timeout_counter' = IF ~stalls THEN 0
                              ELSE IF TimesOut THEN timeout_counter
                              ELSE timeout_counter + 1
        /\ stall_timeout_flag' = (stalls /\ TimesOut)
        /\ fate' = FateAfter(in, stalls)
        /\ unmarked' = (0 \notin in.results /\ Working0 /\ (unmarked \/ in.exception))
        /\ id' \in IF id_stall(in, stalls) THEN {id} ELSE Offers
  BY TickParts, Zenon
<1> DEFINE takes == alloc_success(in, stalls)
<1>2. takes \in BOOLEAN
  BY DEF alloc_success, offload_request, dispatcher_detected
<1>3. takes => /\ id \in Instr /\ id.cp \in Cp /\ id.rd \in Reg
               /\ next_free_entry \in Entry
  BY TakenIsInstr, LeastFree DEF Instr, Free
<1>4. dest_table' = TableAfter(in, takes) /\ pending_rd' = PendingAfter(in, takes)
      /\ running' = RunningAfter(in, takes)
  BY <1>1
<1> HIDE DEF takes
<1>5. id' \in Instr \cup {Bubble}
  BY <1>1 DEF TypeOK, Offers
<1>6. dest_table' \in [Entry -> [valid : BOOLEAN, completed : BOOLEAN, cp_select : Cp]]
  BY <1>2, <1>3, <1>4 DEF TypeOK, TableAfter
<1>7. completion_entry_counter' \in Entry
  BY <1>1, CounterWraps DEF TypeOK, Counted
<1>8. cp_result_valid_prev' \subseteq Cp
  BY <1>1 DEF Inputs
<1>9. pending_rd' \in [Cp -> Reg]
  BY <1>2, <1>3, <1>4, RegAssumption DEF TypeOK, PendingAfter
<1>10. timeout_counter' \in 0..(STALL_TIMEOUT - 1) /\ stall_timeout_flag' \in BOOLEAN
  BY <1>1, TimeoutAssumption DEF TypeOK, TimesOut
<1>11. running' \subseteq [cp : Cp, rd : Reg]
  BY <1>2, <1>3, <1>4 DEF TypeOK, RunningAfter
<1>12. /\ fate' \in {"none", "held", "due", "lost"}
       /\ unmarked' \in BOOLEAN
  BY <1>1 DEF FateAfter, Working0
<1> QED
  BY <1>5, <1>6, <1>7, <1>8, <1>9, <1>10, <1>11, <1>12 DEF TypeOK

LEMMA UnchangedKeepsTypes == TypeOK /\ UNCHANGED vars => TypeOK'
  BY DEF TypeOK, vars

\* Whatever pipeline and coprocessors do, every register stays in its range.
THEOREM TypeCorrect == Spec => []TypeOK
<1>1. Init => TypeOK
  BY InitTypeOK
<1>2. TypeOK /\ [Next]_vars => TypeOK'
  <2> SUFFICES ASSUME TypeOK, [Next]_vars PROVE TypeOK'
    OBVIOUS
  <2>1. CASE Reset
    BY <2>1, ResetKeepsTypes
  <2>2. CASE \E in \in Inputs : Tick(in, Offers)
    BY <2>2, TickKeepsTypes
  <2>3. CASE UNCHANGED vars
    BY <2>3, UnchangedKeepsTypes
  <2> QED
    BY <2>1, <2>2, <2>3 DEF Next
<1> QED
  BY <1>1, <1>2, PTL DEF Spec

-----------------------------------------------------------------------------
\* An entry becomes valid at an edge just when it is the one taken.
LEMMA TakenEntry ==
  ASSUME TypeOK, NEW in, NEW takes \in BOOLEAN, takes => Free # {},
         dest_table' = TableAfter(in, takes)
  PROVE  Taken = IF takes THEN {next_free_entry} ELSE {}
<1>1. ASSUME NEW e \in Entry
      PROVE  dest_table'[e].valid
               = ((takes /\ e = next_free_entry)
                    \/ (/\ dest_table[e].valid
                        /\ ~(in.flush = Cp \/ (/\ dest_table[e].valid
                                               /\ dest_table[e].cp_select \in in.flush))))
  BY DEF TableAfter
<1>2. CASE takes
  <2>1. next_free_entry \in Entry /\ ~dest_table[next_free_entry].valid
    BY <1>2, LeastFree DEF Free
  <2> QED
    BY <1>1, <1>2, <2>1 DEF Taken
<1>3. CASE ~takes
  BY <1>1, <1>3 DEF Taken
<1> QED
  BY <1>2, <1>3

\* An instruction is due an entry just when the table takes one for it: what the stall
\* handler lets out of ID and what the manager allocates for are decided by different
\* expressions.
LEMMA DueIsTaken ==
  ASSUME NEW in, NEW stalls \in BOOLEAN, stalls = global_stall(in, stalls),
         fate' = FateAfter(in, stalls)
  PROVE  fate' = "due" <=> alloc_success(in, stalls)
<1>1. fate' = "due" <=> /\ id.cp \in Cp /\ ~id_stall(in, stalls)
                        /\ id.cp \in in.available /\ ~alloc_full
  BY DEF FateAfter
<1>2. ASSUME id.cp \in Cp, ~id_stall(in, stalls), id.cp \in in.available, ~alloc_full
      PROVE  alloc_success(in, stalls)
  <2>1. ~stalls /\ ~hazard(in, stalls)
    BY <1>2 DEF id_stall
  <2>2. ~stall_timeout_flag /\ ~in.exception /\ ~in.requests
    BY <2>1 DEF global_stall
  <2> QED
    BY <1>2, <2>1, <2>2 DEF alloc_success, offload_request, offload_stall, dispatcher_detected
<1>3. ASSUME alloc_success(in, stalls)
      PROVE  id.cp \in Cp /\ ~id_stall(in, stalls) /\ id.cp \in in.available /\ ~alloc_full
  BY <1>3
  DEF alloc_success, offload_request, offload_stall, dispatcher_detected, id_stall
<1> QED
  BY <1>1, <1>2, <1>3

OneEach == IF fate' = "due" THEN \E e \in Entry : Taken = {e} ELSE Taken = {}

\* Whatever pipeline and coprocessors do, one entry is taken at the edge at which an
\* instruction due one leaves ID, and none at any other.
THEOREM EntryForEach == Spec => OfferedOnce
<1>1. ASSUME TypeOK, [Next]_vars PROVE [OneEach]_vars
  <2>1. CASE Reset
    <3>1. fate' = "none" /\ \A e \in Entry : ~dest_table'[e].valid
      BY <2>1 DEF Reset
    <3> QED
      BY <3>1 DEF OneEach, Taken
  <2>2. ASSUME NEW in \in Inputs, Tick(in, Offers) PROVE OneEach
    <3>1. PICK stalls \in BOOLEAN :
            /\ stalls = global_stall(in, stalls)
            /\ dest_table' = TableAfter(in, alloc_success(in, stalls))
            /\ fate' = FateAfter(in, stalls)
      BY <2>2, TickParts, Zenon
    <3>2. alloc_success(in, stalls) \in BOOLEAN
      BY DEF alloc_success, offload_request, dispatcher_detected
    <3>3. alloc_success(in, stalls) => Free # {} /\ next_free_entry \in Entry
      BY <1>1, TakenIsInstr, LeastFree DEF Free
    <3>4. Taken = IF alloc_success(in, stalls) THEN {next_free_entry} ELSE {}
      BY <1>1, <3>1, <3>2, <3>3, TakenEntry
    <3>5. fate' = "due" <=> alloc_success(in, stalls)
      BY <3>1, DueIsTaken
    <3> QED
      BY <3>3, <3>4, <3>5 DEF OneEach
  <2> QED
    BY <1>1, <2>1, <2>2 DEF Next
<1>2. OfferedOnce <=> [][OneEach]_vars
  BY DEF OfferedOnce, OneEach
<1> QED
  BY <1>1, <1>2, TypeCorrect, PTL DEF Spec

-----------------------------------------------------------------------------
LEMMA WorksIsNext == WorkingNext => Next
  BY DEF WorkingNext, Next

LEMMA WorkingTypes == WorkingSpec => []TypeOK
<1>1. WorkingSpec => Spec
  BY WorksIsNext, PTL DEF WorkingSpec, Spec
<1> QED
  BY <1>1, TypeCorrect, PTL

\* What is taken goes to a coprocessor at rest, and at no exception.
LEMMA TakenAtRest ==
  ASSUME NEW in \in Inputs, Works(in), NEW stalls \in BOOLEAN, alloc_success(in, stalls)
  PROVE  /\ id.cp \notin Busy /\ id.cp \notin in.results /\ ~in.exception
         /\ ~raw_hazard(in) /\ ~waw_hazard(in)
  BY DEF Works, alloc_success, offload_stall, hazard

LEMMA TickKeepsTracked ==
  ASSUME TypeOK, Tracked, NEW in \in Inputs, Works(in), Tick(in, Offers)
  PROVE  Tracked'
<1>1. PICK stalls \in BOOLEAN :
        /\ pending_rd' = PendingAfter(in, alloc_success(in, stalls))
        /\ running' = RunningAfter(in, alloc_success(in, stalls))
        /\ unmarked' = (0 \notin in.results /\ Working0 /\ (unmarked \/ in.exception))
  BY TickParts, Zenon
<1> DEFINE takes == alloc_success(in, stalls)
           new == [cp |-> id.cp, rd |-> id.rd]
<1>2. takes \in BOOLEAN
  BY DEF alloc_success, offload_request, dispatcher_detected
<1>3. takes => /\ id.cp \in Cp /\ id.cp \notin Busy /\ id.cp \notin in.results
               /\ ~in.exception
  BY TakenIsInstr, TakenAtRest
<1>4. running' = {op \in running : op.cp \notin in.results}
                   \cup (IF takes THEN {new} ELSE {})
  BY <1>1 DEF RunningAfter
<1>5. \A c \in Cp : pending_rd'[c] = IF c \in in.results \/ (c = 0 /\ in.exception) THEN 0
                                    ELSE IF takes /\ c = id.cp THEN id.rd
                                    ELSE pending_rd[c]
  BY <1>1 DEF PendingAfter
<1> HIDE DEF takes
<1>6. \A op \in running : op.cp \in Busy /\ op.cp \in Cp
  BY DEF Busy, TypeOK
<1>7. \A p, q \in running' : p.cp = q.cp => p = q
  BY <1>3, <1>4, <1>6 DEF Tracked
<1>8. \A op \in running' : pending_rd'[op.cp] = op.rd \/ (op.cp = 0 /\ unmarked')
  <2> SUFFICES ASSUME NEW op \in running'
               PROVE  pending_rd'[op.cp] = op.rd \/ (op.cp = 0 /\ unmarked')
    OBVIOUS
  <2>1. CASE takes /\ op = new
    BY <1>3, <1>5, <2>1
  <2>2. CASE op \in running /\ op.cp \notin in.results
    <3>1. pending_rd[op.cp] = op.rd \/ (op.cp = 0 /\ unmarked)
      BY <2>2 DEF Tracked
    <3>2. op.cp \in Cp /\ (takes => op.cp # id.cp)
      BY <1>3, <1>6, <2>2
    <3>3. op.cp = 0 => Working0 /\ 0 \notin in.results
      BY <2>2 DEF Working0
    <3> QED
      BY <1>1, <1>5, <2>2, <3>1, <3>2, <3>3
  <2> QED
    BY <1>4, <2>1, <2>2
<1>9. \A c \in Cp : pending_rd'[c] # 0 => \E op \in running' : op.cp = c
  <2> SUFFICES ASSUME NEW c \in Cp, pending_rd'[c] # 0
               PROVE  \E op \in running' : op.cp = c
    OBVIOUS
  <2>1. c \notin in.results
    BY <1>5
  <2>2. CASE takes /\ c = id.cp
    <3>1. new \in running' /\ new.cp = c
      BY <1>4, <2>2
    <3> QED
      BY <3>1
  <2>3. CASE pending_rd[c] # 0
    BY <1>4, <2>1, <2>3 DEF Tracked
  <2> QED
    BY <1>5, <2>2, <2>3
<1> QED
  BY <1>7, <1>8, <1>9 DEF Tracked

\* With coprocessors that answer what they were given, in any order and any number at
\* an edge, the marks are the destinations of the operations under way.
THEOREM TracksWhatRuns == WorkingSpec => []Tracked
<1>1. Init => Tracked
  BY DEF Init, Tracked
<1>2. ASSUME TypeOK, Tracked, [WorkingNext]_vars PROVE Tracked'
  <2>1. CASE Reset
    <3>1. running' = {} /\ \A c \in Cp : pending_rd'[c] = 0
      BY <2>1 DEF Reset
    <3> QED
      BY <3>1 DEF Tracked
  <2>2. ASSUME NEW in \in Inputs, Works(in), Tick(in, Offers) PROVE Tracked'
    BY <1>2, <2>2, TickKeepsTracked
  <2>3. CASE UNCHANGED vars
    BY <1>2, <2>3 DEF Tracked, vars
  <2> QED
    BY <1>2, <2>1, <2>2, <2>3 DEF WorkingNext
<1> QED
  BY <1>1, <1>2, WorkingTypes, PTL DEF WorkingSpec

-----------------------------------------------------------------------------
WithOperands == Taken # {} =>
                  \A op \in running : \/ op.rd \notin {id.rs1, id.rs2, id.rd} \ {0}
                                      \/ op.cp = 0 /\ unmarked

LEMMA TickTakesWithOperands ==
  ASSUME TypeOK, Tracked, NEW in \in Inputs, Works(in), Tick(in, Offers)
  PROVE  WithOperands
<1> SUFFICES ASSUME Taken # {}, NEW op \in running, op.rd \in {id.rs1, id.rs2, id.rd} \ {0},
                    ~(op.cp = 0 /\ unmarked)
             PROVE  FALSE
  BY DEF WithOperands
<1>1. PICK stalls \in BOOLEAN : dest_table' = TableAfter(in, alloc_success(in, stalls))
  BY TickParts, Zenon
<1>2. alloc_success(in, stalls) \in BOOLEAN
  BY DEF alloc_success, offload_request, dispatcher_detected
<1>3. alloc_success(in, stalls) => Free # {}
  BY TakenIsInstr
<1>4. alloc_success(in, stalls)
  BY <1>1, <1>2, <1>3, TakenEntry
<1>5. ~raw_hazard(in) /\ ~waw_hazard(in)
  BY <1>4, TakenAtRest
<1>6. op.cp \in Cp /\ pending_rd[op.cp] = op.rd
  BY DEF Tracked, TypeOK
<1>7. op.rd \in Written(in)
  BY <1>6 DEF Written
<1> QED
  BY <1>5, <1>7 DEF raw_hazard, waw_hazard

\* With coprocessors that answer what they were given, in whatever order, no operation
\* is taken while one under way writes a register it reads or writes.
THEOREM TakenWithOperands == WorkingSpec => OperandsReady
<1>1. ASSUME TypeOK, Tracked, [WorkingNext]_vars PROVE [WithOperands]_vars
  <2>1. CASE Reset
    <3>1. \A e \in Entry : ~dest_table'[e].valid
      BY <2>1 DEF Reset
    <3> QED
      BY <3>1 DEF WithOperands, Taken
  <2>2. ASSUME NEW in \in Inputs, Works(in), Tick(in, Offers) PROVE WithOperands
    BY <1>1, <2>2, TickTakesWithOperands
  <2> QED
    BY <1>1, <2>1, <2>2 DEF WorkingNext
<1>2. OperandsReady <=> [][WithOperands]_vars
  BY DEF OperandsReady, WithOperands
<1> QED
  BY <1>1, <1>2, WorkingTypes, TracksWhatRuns, PTL DEF WorkingSpec
=============================================================================
