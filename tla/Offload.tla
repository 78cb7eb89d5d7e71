------------------------------ MODULE Offload ------------------------------
(***************************************************************************)
(* offload_manager with its destination table and its stall handler: it    *)
(* hands instructions in ID to coprocessors, keeps an entry for each until *)
(* its result comes, and stalls the pipeline.  One Tick is one rising      *)
(* clock edge; the input wires are the record in.  Left out is what        *)
(* nothing reads: instruction, PC, tag, result and statistics of an entry. *)
(***************************************************************************)
EXTENDS Integers, FiniteSets

CONSTANTS CP_NUM, TABLE_ENTRIES, STALL_TIMEOUT,
          Reg           \* register numbers; x0 is 0

Cp == 0..(CP_NUM - 1)
Entry == 0..(TABLE_ENTRIES - 1)

\* With 2, software without instructions for coprocessor 2.
ASSUME CpAssumption == CP_NUM \in 2..4
\* completion_entry_counter wraps by overflow of $clog2(TABLE_ENTRIES) bits.
ASSUME TableAssumption == /\ TABLE_ENTRIES \in Nat
                          /\ \E k \in 1..TABLE_ENTRIES : TABLE_ENTRIES = 2^k
ASSUME TimeoutAssumption == STALL_TIMEOUT \in Nat \ {0}
ASSUME RegAssumption == 0 \in Reg

VARIABLES
  id,                        \* the instruction in ID: [cp, rs1, rs2, rd]
  dest_table,                \* the entries: [valid, completed, cp_select]
  completion_entry_counter, cp_result_valid_prev,
  pending_rd,                \* per coprocessor: the register it will write, 0 for none
  timeout_counter, stall_timeout_flag,
  running,                   \* the operations in the coprocessors: [cp, rd]
  fate,                      \* history: what became of the instruction ID held last
  unmarked                   \* history: an exception came while coprocessor 0 worked

vars == <<id, dest_table, completion_entry_counter, cp_result_valid_prev, pending_rd,
          timeout_counter, stall_timeout_flag, running, fate, unmarked>>

\* An instruction for coprocessor CP_NUM is one that is not offloaded.
Instr == [cp : Cp, rs1 : Reg, rs2 : Reg, rd : Reg]
Bubble == [cp |-> CP_NUM, rs1 |-> 0, rs2 |-> 0, rd |-> 0]

\* ex_rd, mm_rd: what older instructions write, 0 for nothing; memory: mem_busy or
\* mem_conflict; requests: some cp_stall_request; results: the coprocessors whose
\* cp_result_valid is up; flush: the coprocessors whose entries are flushed.
\* flush_all is a flush of all of them.
Inputs == [ex_rd : Reg, mm_rd : Reg, memory : BOOLEAN, available : SUBSET Cp,
           busy : SUBSET Cp, requests : BOOLEAN, results : SUBSET Cp,
           exception : BOOLEAN, flush : {{}, Cp} \cup {{c} : c \in Cp}]

-----------------------------------------------------------------------------
\* Combinational signals; stalls is the value of global_stall.
Free == {e \in Entry : ~dest_table[e].valid}
alloc_full == Free = {}
next_free_entry == CHOOSE e \in Free : \A f \in Free : e <= f
entries_pending == {e \in Entry : dest_table[e].valid /\ ~dest_table[e].completed}

dispatcher_detected(stalls) == id.cp \in Cp /\ ~stalls
offload_request(in, stalls) ==
  dispatcher_detected(stalls) /\ id.cp \in in.available /\ ~alloc_full

\* Registers that somebody before the instruction in ID will write.
Written(in) == ({pending_rd[c] : c \in Cp} \cup {in.ex_rd, in.mm_rd}) \ {0}
raw_hazardRs1(in) == id.rs1 \in Written(in)              \* variant
raw_hazard(in) == {id.rs1, id.rs2} \cap Written(in) # {}
waw_hazard(in) == id.rd \in Written(in)
hazardNotBusy(in, stalls) ==                             \* variant
  offload_request(in, stalls) /\ (raw_hazard(in) \/ waw_hazard(in) \/ in.memory)
hazard(in, stalls) ==
  /\ offload_request(in, stalls)
  /\ raw_hazard(in) \/ waw_hazard(in) \/ id.cp \in in.busy \/ in.memory

\* The process that drives global_stall leaves it as it was in the branches of a
\* hazard, and a hazard depends on global_stall: a value that it keeps is one the
\* signals may settle at.  Both are where a request meets a hazard.
global_stall(in, stalls) ==
  IF stall_timeout_flag \/ in.exception THEN TRUE
  ELSE IF hazard(in, stalls) THEN stalls
  ELSE in.requests
offload_stall(in, stalls) ==
  stall_timeout_flag \/ in.exception \/ hazard(in, stalls) \/ in.requests
id_stallGlobal(in, stalls) == stalls                     \* variant
id_stall(in, stalls) == stalls \/ hazard(in, stalls)
alloc_success(in, stalls) == offload_request(in, stalls) /\ ~offload_stall(in, stalls)

-----------------------------------------------------------------------------
Init == /\ id = Bubble
        /\ dest_table = [e \in Entry |-> [valid |-> FALSE, completed |-> FALSE,
                                          cp_select |-> 0]]
        /\ completion_entry_counter = 0 /\ cp_result_valid_prev = {}
        /\ pending_rd = [c \in Cp |-> 0]
        /\ timeout_counter = 0 /\ stall_timeout_flag = FALSE
        /\ running = {} /\ fate = "none" /\ unmarked = FALSE

Reset == /\ id' = Bubble
         /\ dest_table' = [e \in Entry |-> [valid |-> FALSE, completed |-> FALSE,
                                            cp_select |-> 0]]
         /\ completion_entry_counter' = 0 /\ cp_result_valid_prev' = {}
         /\ pending_rd' = [c \in Cp |-> 0]
         /\ timeout_counter' = 0 /\ stall_timeout_flag' = FALSE
         /\ running' = {} /\ fate' = "none" /\ unmarked' = FALSE

\* Flush, allocation and completion in this order; a completion looks at the entry
\* as it was.
TableAfter(in, takes) ==
  [e \in Entry |->
     LET old == dest_table[e]
         flushed == in.flush = Cp \/ (old.valid /\ old.cp_select \in in.flush)
         taken == takes /\ e = next_free_entry
         done == /\ in.results # {} /\ e = completion_entry_counter
                 /\ old.valid /\ ~old.completed
     IN [valid |-> taken \/ (old.valid /\ ~flushed),
         completed |-> done \/ (old.completed /\ ~flushed /\ ~taken),
         cp_select |-> IF taken THEN id.cp ELSE old.cp_select]]

\* However many results rise at one edge, they count once.
Counted(in) ==
  IF in.results \subseteq cp_result_valid_prev THEN completion_entry_counter
  ELSE (completion_entry_counter + 1) % TABLE_ENTRIES

\* cp_exception is one wire, which reaches the mark of coprocessor 0 only.
PendingForgotten(in, takes) ==                           \* variant: a result clears nothing
  [c \in Cp |-> IF takes /\ c = id.cp THEN id.rd ELSE pending_rd[c]]
PendingAfter(in, takes) ==
  [c \in Cp |-> IF c \in in.results \/ (c = 0 /\ in.exception) THEN 0
                ELSE IF takes /\ c = id.cp THEN id.rd
                ELSE pending_rd[c]]

\* Once the flag is up it keeps global_stall up, and global_stall keeps it up.
TimesOut == timeout_counter >= STALL_TIMEOUT - 1

\* The coprocessors: an operation that is taken runs until its result.
RunningAfter(in, takes) ==
  {op \in running : op.cp \notin in.results}
    \cup (IF takes THEN {[cp |-> id.cp, rd |-> id.rd]} ELSE {})

\* An instruction for a coprocessor is held in ID or leaves it; one that leaves is due
\* an entry unless its coprocessor is not available or the table is full: then nothing
\* holds it, for the request to (:159) is connected to nothing, and it is lost.
FateAfter(in, stalls) ==
  CASE id.cp \notin Cp -> "none"
    [] id.cp \in Cp /\ id_stall(in, stalls) -> "held"
    [] id.cp \in Cp \ in.available /\ ~id_stall(in, stalls) -> "lost"
    [] OTHER -> IF alloc_full THEN "lost" ELSE "due"
Working0 == \E op \in running : op.cp = 0

\* The pipeline moves on to an instruction of offers unless ID is stalled.
Tick(in, offers) ==
  \E stalls \in BOOLEAN :
    /\ stalls = global_stall(in, stalls)
    /\ \E takes \in {alloc_success(in, stalls)} :
         /\ dest_table' = TableAfter(in, takes)
         /\ pending_rd' = PendingAfter(in, takes)
         /\ running' = RunningAfter(in, takes)
    /\ completion_entry_counter' = Counted(in)
    /\ cp_result_valid_prev' = in.results
    /\ timeout_counter' = IF ~stalls THEN 0
                          ELSE IF TimesOut THEN timeout_counter ELSE timeout_counter + 1
    /\ stall_timeout_flag' = (stalls /\ TimesOut)
    /\ fate' = FateAfter(in, stalls)
    /\ unmarked' = (0 \notin in.results /\ Working0 /\ (unmarked \/ in.exception))
    /\ id' \in IF id_stall(in, stalls) THEN {id} ELSE offers

Offers == Instr \cup {Bubble}
Next == Reset \/ \E in \in Inputs : Tick(in, Offers)
Spec == Init /\ [][Next]_vars

\* With coprocessors that are busy as long as they work and answer only what they
\* were given, in any order and at any time, several at one edge too.
Busy == {op.cp : op \in running}
Works(in) == in.busy = Busy /\ in.results \subseteq Busy
WorkingNext == Reset \/ \E in \in Inputs : Works(in) /\ Tick(in, Offers)
WorkingSpec == Init /\ [][WorkingNext]_vars

-----------------------------------------------------------------------------
\* Registers in range, whatever the environment does.
TypeOK ==
  /\ id \in Instr \cup {Bubble}
  /\ dest_table \in [Entry -> [valid : BOOLEAN, completed : BOOLEAN, cp_select : Cp]]
  /\ completion_entry_counter \in Entry /\ cp_result_valid_prev \subseteq Cp
  /\ pending_rd \in [Cp -> Reg]
  /\ timeout_counter \in 0..(STALL_TIMEOUT - 1) /\ stall_timeout_flag \in BOOLEAN
  /\ running \subseteq [cp : Cp, rd : Reg]
  /\ fate \in {"none", "held", "due", "lost"} /\ unmarked \in BOOLEAN

\* The stall handler marks just the registers that the operations under way will
\* write, in whatever order they end, through flushes and stalls that time out; only
\* coprocessor 0, whose mark the one exception wire clears, may work unmarked.
Tracked ==
  /\ \A p, q \in running : p.cp = q.cp => p = q
  /\ \A op \in running : pending_rd[op.cp] = op.rd \/ (op.cp = 0 /\ unmarked)
  /\ \A c \in Cp : pending_rd[c] # 0 => \E op \in running : op.cp = c

\* At each edge one entry is taken if an instruction due an entry leaves ID, and none
\* otherwise: no instruction takes two while it is held, none leaves without, but for
\* the two ways to lose it.
Taken == {e \in Entry : ~dest_table[e].valid /\ dest_table'[e].valid}
OfferedOnce ==
  [][ IF fate' = "due" THEN \E e \in Entry : Taken = {e} ELSE Taken = {} ]_vars

\* An operation is taken only when no operation under way, even one whose result
\* comes at this edge, writes a register it reads or writes; coprocessor 0's is known
\* to be under way unless an exception came since it began.
OperandsReady ==
  [][ Taken # {} =>
        \A op \in running : \/ op.rd \notin {id.rs1, id.rs2, id.rd} \ {0}
                            \/ op.cp = 0 /\ unmarked ]_vars

\* An instruction held in ID leaves it, or the stall has timed out.
StallsEnd == fate = "held" ~> (fate # "held" \/ stall_timeout_flag)

-----------------------------------------------------------------------------
\* docs/README.md:34 "Out-of-order completion for coprocessors": in whatever order
\* they answer, the open entries are those of the coprocessors still at work.
CompletesOutOfOrder == {dest_table[e].cp_select : e \in entries_pending} = Busy

\* docs/README.md:36 "Timeout protection for hung operations": a stall that has timed
\* out ends.
TimeoutProtects == stall_timeout_flag ~> ~stall_timeout_flag
=============================================================================
