---------------------------- MODULE Rv32aAtomic ----------------------------
(***************************************************************************)
(* rv32a_atomic: the unit that executes LR.W, SC.W and the AMO operations  *)
(* as a sequence of memory accesses, with one reservation.  One action is  *)
(* one rising clock edge in one state of the FSM.  The memory it talks to  *)
(* and the other masters of that memory are the environment: in a cycle    *)
(* the memory may be ready or not, and another master may write a word     *)
(* unless this unit holds the lock; such a write is snooped in its cycle.  *)
(* flush_i and exception_i act alike and are one input.  The acquire and   *)
(* release bits are latched but change nothing and are left out; an        *)
(* address is a word address, its two low bits are never looked at.        *)
(***************************************************************************)
EXTENDS AtomicParameters

Op == AmoOp \cup {"LR", "SC"}

VARIABLES state, reservation_valid, reservation_addr,
          op_reg, addr_reg, rs2_reg, load_data, store_data, sc_success,
          mem,      \* the memory behind the port
          writes,   \* history: memory writes of the operation last accepted
          touched,  \* history: words written by others since the last LR
          overtaken \* history: another master wrote the operation's word in the
                    \* cycle without lock just before its store

unitVars == <<state, reservation_valid, reservation_addr, op_reg, addr_reg,
              rs2_reg, load_data, store_data, sc_success>>
vars == <<unitVars, mem, writes, touched, overtaken>>

\* Zero, which reset writes to every register, is some word, some value and, as
\* an operation code, some AMO; none of them is read before it is set.
ResetAddr  == CHOOSE w \in Addr : TRUE
ResetValue == CHOOSE v \in Value : TRUE
ResetOp    == CHOOSE op \in AmoOp : TRUE

Init == /\ state = "IDLE"
        /\ reservation_valid = FALSE /\ reservation_addr = ResetAddr
        /\ op_reg = ResetOp /\ addr_reg = ResetAddr /\ rs2_reg = ResetValue
        /\ load_data = ResetValue /\ store_data = ResetValue
        /\ sc_success = FALSE
        /\ mem \in [Addr -> Value]
        /\ writes = 0
        /\ touched = {}
        /\ overtaken = FALSE

Reset == /\ state' = "IDLE"
         /\ reservation_valid' = FALSE /\ reservation_addr' = ResetAddr
         /\ op_reg' = ResetOp /\ addr_reg' = ResetAddr /\ rs2_reg' = ResetValue
         /\ load_data' = ResetValue /\ store_data' = ResetValue
         /\ sc_success' = FALSE
         /\ writes' = 0 /\ overtaken' = FALSE
         /\ UNCHANGED <<mem, touched>>

ready_o == state = "IDLE"
valid_o == state = "COMPLETE"
stall_req_o == state \notin {"IDLE", "COMPLETE"}
mem_req_o == state \in {"LOAD", "STORE"}
mem_we_o == state = "STORE"
\* In LOAD the condition in the code comes down to op_reg # SC, and an SC never
\* loads.
LockLate == state = "STORE"        \* variant: the load is made without the lock
mem_lock_o == state = "STORE" \/ (state = "LOAD" /\ op_reg # "SC")
result_o == CASE op_reg = "SC" -> (IF sc_success THEN 0 ELSE 1)
              [] op_reg = "LR" \/ (valid_o /\ op_reg # "SC") -> load_data
              [] OTHER -> 0

-----------------------------------------------------------------------------
\* One cycle of the environment: flush, mem_ready, and the words other masters
\* write (at most one).
EnvInput == [flush : BOOLEAN, mem_ready : BOOLEAN,
             foreign : {<< >>} \cup (IF ForeignMasters THEN Addr \X Value ELSE {})]
EnvAllowed(in) == in.foreign # << >> => ~mem_lock_o
Snoops(in, w) == in.foreign # << >> /\ in.foreign[1] = w

MemAfter(in) ==
  IF mem_we_o /\ in.mem_ready THEN [mem EXCEPT ![addr_reg] = store_data]
  ELSE IF in.foreign # << >> THEN [mem EXCEPT ![in.foreign[1]] = in.foreign[2]]
  ELSE mem

LrLoads(in) == state = "LOAD" /\ op_reg = "LR" /\ in.mem_ready

\* variant: a foreign write leaves the reservation in place
ReservationIgnoresSnoop(in) ==
  /\ reservation_valid' = IF in.flush THEN FALSE ELSE LrLoads(in) \/ reservation_valid
  /\ reservation_addr' = IF ~in.flush /\ LrLoads(in) THEN addr_reg ELSE reservation_addr

\* Flush first, then LR, then the SC clause, then the snoop.
ReservationAfter(in) ==
  /\ reservation_valid' =
       CASE in.flush -> FALSE
         [] ~in.flush /\ LrLoads(in) -> TRUE
         [] ~in.flush /\ state = "SC_CHECK" /\ sc_success -> FALSE
         [] OTHER -> reservation_valid /\ ~Snoops(in, reservation_addr)
  /\ reservation_addr' = IF ~in.flush /\ LrLoads(in) THEN addr_reg ELSE reservation_addr

TouchedAfter(in) ==
  IF LrLoads(in) THEN {} ELSE touched \cup {w \in Addr : Snoops(in, w)}

\* What every edge does: the next state unless flushed, the reservation, memory.
Edge(in, next) == /\ EnvAllowed(in)
                  /\ state' = IF in.flush THEN "IDLE" ELSE next
                  /\ ReservationAfter(in)
                  /\ mem' = MemAfter(in)
                  /\ touched' = TouchedAfter(in)

Idle(in) == /\ state = "IDLE"
            /\ Edge(in, "IDLE")
            /\ UNCHANGED <<op_reg, addr_reg, rs2_reg, load_data, store_data,
                           sc_success, writes, overtaken>>

\* valid_i in IDLE; the operands are latched even when the edge is flushed.
Accept(in, op, addr, rs2) ==
  /\ state = "IDLE"
  /\ Edge(in, IF op = "SC" THEN "SC_CHECK" ELSE "LOAD")
  /\ op_reg' = op /\ addr_reg' = addr /\ rs2_reg' = rs2
  /\ sc_success' = FALSE
  /\ writes' = 0 /\ overtaken' = FALSE
  /\ UNCHANGED <<load_data, store_data>>

Load(in) ==
  /\ state = "LOAD"
  /\ Edge(in, CASE ~in.mem_ready -> "LOAD"
                [] in.mem_ready /\ op_reg = "LR" -> "COMPLETE"
                [] OTHER -> "COMPUTE")
  /\ load_data' = IF in.mem_ready THEN mem[addr_reg] ELSE load_data
  /\ UNCHANGED <<op_reg, addr_reg, rs2_reg, store_data, sc_success, writes, overtaken>>

Compute(in) ==
  /\ state = "COMPUTE"
  /\ Edge(in, "STORE")
  /\ store_data' = Amo(op_reg, load_data, rs2_reg)
  /\ overtaken' = Snoops(in, addr_reg)
  /\ UNCHANGED <<op_reg, addr_reg, rs2_reg, load_data, sc_success, writes>>

StoreNoWait(in) ==      \* variant: the memory's answer is not awaited
  /\ state = "STORE"
  /\ Edge(in, "COMPLETE")
  /\ writes' = IF in.mem_ready THEN writes + 1 ELSE writes
  /\ UNCHANGED <<op_reg, addr_reg, rs2_reg, load_data, store_data, sc_success,
                 overtaken>>
StoreStuck(in) ==       \* variant: the memory's answer is not noticed
  /\ state = "STORE"
  /\ Edge(in, "STORE")
  /\ writes' = IF in.mem_ready /\ writes = 0 THEN 1 ELSE writes
  /\ UNCHANGED <<op_reg, addr_reg, rs2_reg, load_data, store_data, sc_success,
                 overtaken>>

\* The write is taken in the cycle the memory is ready, flushed or not.
Store(in) ==
  /\ state = "STORE"
  /\ Edge(in, IF in.mem_ready THEN "COMPLETE" ELSE "STORE")
  /\ writes' = IF in.mem_ready THEN writes + 1 ELSE writes
  /\ UNCHANGED <<op_reg, addr_reg, rs2_reg, load_data, store_data, sc_success,
                 overtaken>>

Reserved == reservation_valid /\ reservation_addr = addr_reg

\* variant: the store data of an SC is left from the operation before
ScCheckKeepsData(in) ==
  /\ state = "SC_CHECK"
  /\ Edge(in, IF Reserved THEN "STORE" ELSE "COMPLETE")
  /\ sc_success' = Reserved
  /\ overtaken' = Snoops(in, addr_reg)
  /\ UNCHANGED <<op_reg, addr_reg, rs2_reg, load_data, store_data, writes>>

ScCheck(in) ==
  /\ state = "SC_CHECK"
  /\ Edge(in, IF Reserved THEN "STORE" ELSE "COMPLETE")
  /\ sc_success' = Reserved
  /\ overtaken' = Snoops(in, addr_reg)
  /\ store_data' = IF Reserved THEN rs2_reg ELSE store_data
  /\ UNCHANGED <<op_reg, addr_reg, rs2_reg, load_data, writes>>

\* One cycle in which the result is valid; valid_i is not looked at.
Complete(in) ==
  /\ state = "COMPLETE"
  /\ Edge(in, "IDLE")
  /\ UNCHANGED <<op_reg, addr_reg, rs2_reg, load_data, store_data, sc_success,
                 writes, overtaken>>

\* One cycle of an operation under way, and of the unit.
Advance(in) == Load(in) \/ Compute(in) \/ Store(in) \/ ScCheck(in) \/ Complete(in)
Tick(in) == \/ Idle(in)
            \/ \E op \in Op, addr \in Addr, rs2 \in Value : Accept(in, op, addr, rs2)
            \/ Advance(in)

\* mem_ready is looked at only while memory is asked.
Next == Reset \/ \E in \in EnvInput : (in.mem_ready => mem_req_o) /\ Tick(in)

Spec == Init /\ [][Next]_vars

\* The clock never stops and the memory is ready again and again.  No flush is
\* counted on: what a flush ends, the unit must also end by itself.
MemoryResponds == WF_vars(\E in \in EnvInput : in.mem_ready /\ ~in.flush /\ Advance(in))
FairSpec == Spec /\ MemoryResponds

-----------------------------------------------------------------------------
TypeOK == /\ state \in {"IDLE", "LOAD", "COMPUTE", "STORE", "COMPLETE", "SC_CHECK"}
          /\ reservation_valid \in BOOLEAN /\ sc_success \in BOOLEAN
          /\ reservation_addr \in Addr /\ addr_reg \in Addr
          /\ op_reg \in Op
          /\ rs2_reg \in Value /\ load_data \in Value /\ store_data \in Value
          /\ mem \in [Addr -> Value]
          /\ writes \in Nat
          /\ touched \subseteq Addr
          /\ overtaken \in BOOLEAN

\* When the unit reports its result the operation has written memory once if it
\* is an AMO, never if it is an LR, and for an SC once exactly when the result
\* is 0; at no time has it written twice.
WritesAsReported ==
  /\ writes <= 1
  /\ valid_o => writes = CASE op_reg = "LR" -> 0
                           [] op_reg = "SC" -> 1 - result_o
                           [] OTHER -> 1

\* What is on the write port is the operation's own: the AMO of the value it
\* loaded and returns, or the operand of the SC.
StoresOwnResult ==
  state = "STORE" =>
    store_data = IF op_reg = "SC" THEN rs2_reg ELSE Amo(op_reg, load_data, rs2_reg)

\* A reservation that stands is on a word no other master has written since the
\* LR that made it, whatever the interleaving of loads, snoops and flushes.
ReservationSound == reservation_valid => reservation_addr \notin touched

\* No store of the unit overwrites a write it has not seen: while an AMO is
\* between its load and its store, memory still holds what it read, and the word
\* an SC is about to store has not been written by another master since the LR.
\* The one way out is a write in the cycle without lock just before the store
\* (COMPUTE, SC_CHECK); a write at any other time is kept out by the lock or
\* fails the SC.
Atomic ==
  /\ state = "COMPUTE" => mem[addr_reg] = load_data
  /\ state = "STORE" /\ ~overtaken =>
       IF op_reg = "SC" THEN addr_reg \notin touched ELSE mem[addr_reg] = load_data

\* The stall the unit asks for ends: no operation holds the pipeline for ever.
StallEnds == stall_req_o ~> ~stall_req_o

\* How far the operation is, in terms of what it has done: the part of the
\* invariant that ties the FSM's state to the operation, the SC's verdict and
\* the writes made.
Progress ==
  /\ state = "LOAD" => op_reg # "SC"
  /\ state = "COMPUTE" => op_reg \in AmoOp
  /\ state = "SC_CHECK" => op_reg = "SC"
  /\ state = "STORE" => op_reg # "LR" /\ (op_reg = "SC" => sc_success)
  /\ stall_req_o => writes = 0
  /\ state = "COMPLETE" => writes = CASE op_reg = "LR" -> 0
                                      [] op_reg = "SC" -> (IF sc_success THEN 1 ELSE 0)
                                      [] OTHER -> 1
  /\ writes \in 0..1
IInv == TypeOK /\ Progress /\ StoresOwnResult /\ ReservationSound /\ Atomic

-----------------------------------------------------------------------------
\* rv32a_atomic.sv:95 "Clear on successful SC": an SC that succeeded leaves no
\* reservation behind.
ScSpendsReservation ==
  valid_o /\ op_reg = "SC" /\ sc_success => ~reservation_valid
=============================================================================
