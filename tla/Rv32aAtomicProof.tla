-------------------------- MODULE Rv32aAtomicProof --------------------------
(***************************************************************************)
(* Proofs about Rv32aAtomic for every set of words, values and operations, *)
(* with and without other masters.                                         *)
(***************************************************************************)
EXTENDS Rv32aAtomic, TLAPS

LEMMA ResetInSets == ResetAddr \in Addr /\ ResetValue \in Value /\ ResetOp \in AmoOp
  BY ResetValues DEF ResetAddr, ResetValue, ResetOp

LEMMA InitIInv == Init => IInv
<1> SUFFICES ASSUME Init PROVE IInv
  OBVIOUS
<1>1. TypeOK
  BY ResetInSets DEF Init, TypeOK, Op
<1>2. Progress /\ StoresOwnResult /\ ReservationSound /\ Atomic
  BY DEF Init, Progress, StoresOwnResult, ReservationSound, Atomic, stall_req_o
<1> QED
  BY <1>1, <1>2 DEF IInv

LEMMA ResetIInv == IInv /\ Reset => IInv'
<1> SUFFICES ASSUME IInv, Reset PROVE IInv'
  OBVIOUS
<1>1. TypeOK'
  BY ResetInSets DEF IInv, Reset, TypeOK, Op
<1>2. (Progress /\ StoresOwnResult /\ ReservationSound /\ Atomic)'
  BY DEF Reset, Progress, StoresOwnResult, ReservationSound, Atomic, stall_req_o
<1> QED
  BY <1>1, <1>2 DEF IInv

\* The part of an edge every state shares: memory, reservation and history keep
\* their types, and a reservation that survives is on an untouched word.
LEMMA EdgeShared ==
  ASSUME IInv, NEW in \in EnvInput, NEW next, Edge(in, next)
  PROVE  /\ mem' \in [Addr -> Value]
         /\ reservation_valid' \in BOOLEAN /\ reservation_addr' \in Addr
         /\ touched' \subseteq Addr
         /\ ReservationSound'
<1>1. in.foreign # << >> => in.foreign[1] \in Addr /\ in.foreign[2] \in Value
  BY DEF EnvInput
<1>2. mem' \in [Addr -> Value]
  BY <1>1 DEF IInv, TypeOK, Edge, MemAfter
<1>3. reservation_valid' \in BOOLEAN /\ reservation_addr' \in Addr
  BY DEF IInv, TypeOK, Edge, ReservationAfter, EnvInput
<1>4. touched' \subseteq Addr
  BY DEF IInv, TypeOK, Edge, TouchedAfter
<1>5. ReservationSound'
  BY DEF IInv, ReservationSound, Edge, ReservationAfter, TouchedAfter
<1> QED
  BY <1>2, <1>3, <1>4, <1>5

-----------------------------------------------------------------------------
\* One lemma per state of the FSM.  In each the registers of the operation keep
\* their types and the state reached fits what the operation has done.

LEMMA IdleIInv ==
  ASSUME IInv, NEW in \in EnvInput, Idle(in) PROVE IInv'
<1>1. TypeOK' /\ ReservationSound'
  BY EdgeShared DEF IInv, TypeOK, Idle, Edge
<1>2. Progress' /\ StoresOwnResult' /\ Atomic'
  BY DEF IInv, Progress, StoresOwnResult, Atomic, Idle, Edge, stall_req_o
<1> QED
  BY <1>1, <1>2 DEF IInv

LEMMA AcceptIInv ==
  ASSUME IInv, NEW in \in EnvInput, NEW op \in Op, NEW addr \in Addr, NEW rs2 \in Value,
         Accept(in, op, addr, rs2)
  PROVE  IInv'
<1>1. TypeOK' /\ ReservationSound'
  <2> DEFINE next == IF op = "SC" THEN "SC_CHECK" ELSE "LOAD"
  <2>1. Edge(in, next)
    BY DEF Accept
  <2>2. state' \in {"IDLE", "LOAD", "SC_CHECK"}
    BY <2>1 DEF Edge
  <2>3. /\ mem' \in [Addr -> Value]
        /\ reservation_valid' \in BOOLEAN /\ reservation_addr' \in Addr
        /\ touched' \subseteq Addr /\ ReservationSound'
    BY <2>1, EdgeShared
  <2> QED
    BY <2>2, <2>3 DEF IInv, TypeOK, Accept
<1>2. Progress' /\ StoresOwnResult' /\ Atomic'
  BY DEF Progress, StoresOwnResult, Atomic, Accept, Edge, stall_req_o
<1> QED
  BY <1>1, <1>2 DEF IInv

\* The word of the operation is left alone by an edge at which the unit writes
\* nothing and no other master writes that word.
LEMMA EdgeMemory ==
  ASSUME IInv, NEW in \in EnvInput, NEW next, Edge(in, next), ~mem_we_o,
         ~Snoops(in, addr_reg)
  PROVE  mem'[addr_reg] = mem[addr_reg]
  BY DEF IInv, TypeOK, Edge, MemAfter, Snoops

\* Under the lock no other master writes at all.
LEMMA Locked ==
  ASSUME NEW in \in EnvInput, NEW next, Edge(in, next), mem_lock_o
  PROVE  in.foreign = << >> /\ \A w \in Addr : ~Snoops(in, w)
  BY DEF Edge, EnvAllowed, Snoops

LEMMA LoadIInv ==
  ASSUME IInv, NEW in \in EnvInput, Load(in) PROVE IInv'
<1> DEFINE next == CASE ~in.mem_ready -> "LOAD"
                     [] in.mem_ready /\ op_reg = "LR" -> "COMPLETE"
                     [] OTHER -> "COMPUTE"
<1>1. Edge(in, next)
  BY DEF Load
<1>2. TypeOK' /\ ReservationSound'
  <2>1. mem[addr_reg] \in Value
    BY DEF IInv, TypeOK
  <2>2. state' \in {"IDLE", "LOAD", "COMPLETE", "COMPUTE"}
    BY <1>1 DEF Edge, EnvInput
  <2> QED
    BY <1>1, <2>1, <2>2, EdgeShared DEF IInv, TypeOK, Load
<1>3. Progress' /\ StoresOwnResult'
  BY <1>1 DEF IInv, TypeOK, Op, Progress, StoresOwnResult, Load, Edge, EnvInput, stall_req_o
<1>4. Atomic'
  <2> SUFFICES ASSUME state' = "COMPUTE" PROVE mem'[addr_reg] = load_data'
    BY <1>1 DEF Atomic, Load, Edge
  <2>1. in.mem_ready
    BY <1>1 DEF Edge, EnvInput
  <2>2. ~Snoops(in, addr_reg) /\ ~mem_we_o
    BY <1>1, Locked DEF IInv, TypeOK, Progress, Load, mem_lock_o, mem_we_o
  <2> QED
    BY <1>1, <2>1, <2>2, EdgeMemory DEF Load
<1> QED
  BY <1>2, <1>3, <1>4 DEF IInv

LEMMA ComputeIInv ==
  ASSUME IInv, NEW in \in EnvInput, Compute(in) PROVE IInv'
<1>1. op_reg \in AmoOp
  BY DEF IInv, Progress, Compute
<1>2. TypeOK' /\ ReservationSound'
  <2>1. Amo(op_reg, load_data, rs2_reg) \in Value
    BY <1>1, AmoAssumption DEF IInv, TypeOK
  <2> QED
    BY <2>1, EdgeShared DEF IInv, TypeOK, Compute, Edge, Snoops
<1>3. Progress' /\ StoresOwnResult'
  BY <1>1, AmoOpAssumption DEF IInv, Progress, StoresOwnResult, Compute, Edge, stall_req_o
<1>4. Atomic'
  <2> SUFFICES ASSUME ~Snoops(in, addr_reg) PROVE mem'[addr_reg] = load_data'
    BY <1>1, AmoOpAssumption DEF Atomic, Compute, Edge
  <2>1. mem[addr_reg] = load_data
    BY DEF IInv, Atomic, Compute
  <2> QED
    BY <2>1, EdgeMemory DEF Compute, mem_we_o
<1> QED
  BY <1>2, <1>3, <1>4 DEF IInv

LEMMA StoreIInv ==
  ASSUME IInv, NEW in \in EnvInput, Store(in) PROVE IInv'
<1>1. writes = 0
  BY DEF IInv, Progress, Store, stall_req_o
<1>2. TypeOK' /\ ReservationSound'
  <2>1. Edge(in, IF in.mem_ready THEN "COMPLETE" ELSE "STORE")
    BY DEF Store
  <2>2. state' \in {"IDLE", "COMPLETE", "STORE"}
    BY <2>1 DEF Edge
  <2>3. writes' \in Nat
    BY <1>1 DEF Store
  <2> QED
    BY <2>1, <2>2, <2>3, EdgeShared DEF IInv, TypeOK, Store
<1>3. Progress' /\ StoresOwnResult'
  BY <1>1 DEF IInv, TypeOK, Progress, StoresOwnResult, Store, Edge, EnvInput, stall_req_o
<1>4. Atomic'
  <2> SUFFICES ASSUME state' = "STORE", ~overtaken'
               PROVE  IF op_reg = "SC" THEN addr_reg \notin touched'
                                      ELSE mem'[addr_reg] = load_data'
    BY <1>1 DEF Atomic, Store, Edge
  <2>1. ~in.mem_ready /\ in.foreign = << >>
    BY Locked DEF Store, Edge, EnvInput, mem_lock_o
  <2>2. mem' = mem /\ touched' = touched
    BY <2>1 DEF Store, Edge, MemAfter, TouchedAfter, LrLoads, Snoops
  <2> QED
    BY <2>2 DEF IInv, Atomic, Store
<1> QED
  BY <1>2, <1>3, <1>4 DEF IInv

LEMMA ScCheckIInv ==
  ASSUME IInv, NEW in \in EnvInput, ScCheck(in) PROVE IInv'
<1>1. op_reg = "SC" /\ writes = 0 /\ Reserved \in BOOLEAN
  BY DEF IInv, TypeOK, Progress, ScCheck, Reserved, stall_req_o
<1>2. TypeOK' /\ ReservationSound'
  <2>1. Edge(in, IF Reserved THEN "STORE" ELSE "COMPLETE")
    BY DEF ScCheck
  <2>2. state' \in {"IDLE", "COMPLETE", "STORE"}
    BY <2>1 DEF Edge
  <2> QED
    BY <1>1, <2>1, <2>2, EdgeShared DEF IInv, TypeOK, ScCheck, Snoops
<1>3. Progress' /\ StoresOwnResult'
  BY <1>1 DEF Progress, StoresOwnResult, ScCheck, Edge, stall_req_o
<1>4. Atomic'
  <2> SUFFICES ASSUME state' = "STORE", ~overtaken' PROVE addr_reg \notin touched'
    BY <1>1 DEF Atomic, ScCheck, Edge
  <2>1. Reserved /\ ~Snoops(in, addr_reg)
    BY DEF ScCheck, Edge
  <2>2. addr_reg \notin touched
    BY <2>1 DEF IInv, ReservationSound, Reserved
  <2> QED
    BY <2>1, <2>2 DEF ScCheck, Edge, TouchedAfter, LrLoads
<1> QED
  BY <1>2, <1>3, <1>4 DEF IInv

LEMMA CompleteIInv ==
  ASSUME IInv, NEW in \in EnvInput, Complete(in) PROVE IInv'
<1>1. TypeOK' /\ ReservationSound'
  BY EdgeShared DEF IInv, TypeOK, Complete, Edge
<1>2. Progress' /\ StoresOwnResult' /\ Atomic'
  BY DEF IInv, Progress, StoresOwnResult, Atomic, Complete, Edge, stall_req_o
<1> QED
  BY <1>1, <1>2 DEF IInv

-----------------------------------------------------------------------------
LEMMA NextIInv == IInv /\ [Next]_vars => IInv'
<1> SUFFICES ASSUME IInv, [Next]_vars PROVE IInv'
  OBVIOUS
<1>1. CASE Reset
  BY <1>1, ResetIInv
<1>2. ASSUME NEW in \in EnvInput, Tick(in) PROVE IInv'
  BY <1>2, IdleIInv, AcceptIInv, LoadIInv, ComputeIInv, StoreIInv, ScCheckIInv,
     CompleteIInv DEF Tick, Advance
<1>3. CASE UNCHANGED vars
  BY <1>3 DEF vars, unitVars, IInv, TypeOK, Progress, StoresOwnResult,
     ReservationSound, Atomic, stall_req_o
<1> QED
  BY <1>1, <1>2, <1>3 DEF Next

LEMMA IInvReports == IInv => WritesAsReported
  BY DEF IInv, TypeOK, Progress, WritesAsReported, valid_o, result_o

\* The inductive invariant holds in every state the unit reaches.
THEOREM IInvHolds == Spec => []IInv
<1>1. Init => IInv
  BY InitIInv
<1>2. IInv /\ [Next]_vars => IInv'
  BY NextIInv
<1> QED
  BY <1>1, <1>2, PTL DEF Spec

\* Every register of the unit keeps its type.
THEOREM TypeCorrect == Spec => []TypeOK
  BY IInvHolds, PTL DEF IInv

\* An operation writes memory as often as its result says, for all words, values
\* and AMO operations, whatever the memory's delays, flushes and other masters.
THEOREM WritesMatchResult == Spec => []WritesAsReported
  BY IInvHolds, IInvReports, PTL

\* What is stored is computed from what was loaded and returned.
THEOREM StoresMatchResult == Spec => []StoresOwnResult
  BY IInvHolds, PTL DEF IInv

\* No reservation outlives a write of its word by another master.
THEOREM ReservationsSound == Spec => []ReservationSound
  BY IInvHolds, PTL DEF IInv

\* No store of the unit overwrites another master's write it has not seen,
\* except one made in the cycle without lock just before the store.
THEOREM StoresAreAtomic == Spec => []Atomic
  BY IInvHolds, PTL DEF IInv
=============================================================================
