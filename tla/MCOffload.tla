----------------------------- MODULE MCOffload -----------------------------
(***************************************************************************)
(* Offload with every behaviour of pipeline and coprocessors that its      *)
(* signals tell apart, and two environments for what the documentation     *)
(* says of it.                                                             *)
(***************************************************************************)
EXTENDS Offload

\* An instruction names register 1 once, to read or to write it.
Seldom == {i \in Instr : Cardinality({f \in {"rs1", "rs2", "rd"} : i[f] = 1}) = 1}
            \cup {Bubble}

\* Of EX and MM only the hazard is seen, which memory raises as well; of the
\* coprocessors available only the one that ID names is looked at; an exception and a
\* stall that has timed out stall whatever else happens.
Seen == {in \in [ex_rd : {0}, mm_rd : {0}, memory : BOOLEAN, available : {{}, Cp},
                 busy : {Busy}, requests : BOOLEAN, results : SUBSET Busy,
                 exception : BOOLEAN, flush : {{}, {0}, Cp}] :
           /\ in.exception \/ stall_timeout_flag \/ id = Bubble
                => ~in.memory /\ in.available = Cp
           /\ in.exception \/ stall_timeout_flag \/ in.flush # {} => ~in.requests
           /\ in.flush # {} => ~in.exception /\ ~in.memory}
SeenTick == \E in \in Seen : Tick(in, Seldom)

\* The operations answer, and the older instructions leave EX, MM and the memory.
Calm(results) == [ex_rd |-> 0, mm_rd |-> 0, memory |-> FALSE, available |-> Cp,
                  busy |-> Busy, requests |-> FALSE, results |-> results,
                  exception |-> FALSE, flush |-> {}]
Helpful == Tick(Calm(Busy), Seldom)
SeenSpec == Init /\ [][Reset \/ SeenTick]_vars /\ WF_vars(Helpful)

\* Nothing is flushed, nothing fails, and results come one at a time.
OneByOne == \E c \in Busy : Tick(Calm({c}), Seldom)
CalmSpec == Init /\ [][OneByOne \/ Tick(Calm({}), Seldom)]_vars

\* A coprocessor asks for a stall, and sooner or later no longer.
Asks == Tick([Calm({}) EXCEPT !.requests = TRUE], Seldom)
HungSpec == Init /\ [][Asks \/ Helpful]_vars /\ WF_vars(Helpful)
=============================================================================
