------------------------- MODULE ScheduledPrograms -------------------------
(***************************************************************************)
(* What cpu_top needs of its compiler to execute a program as it is        *)
(* written.  Each clause is a limit of the code, at the lines it names.    *)
(***************************************************************************)
EXTENDS CpuPipeline

Uses(i, r) == r # 0 /\ r \in {i.rs1, i.rs2}
\* A load that names r without reading it.
WaitsFor(i, r) == i.kind = "LOAD" /\ i.rs2 = r /\ i.rs1 # r
Unit(i) == i.kind \in {"MUL", "AMO"}

\* Two instructions that follow each other.
Adjacent(i, next) ==
  \* The load is dropped (cpu_top.sv:528), the AMO's word not forwarded (:314).
  /\ i.kind \in {"LOAD", "AMO"} => ~Uses(next, i.rd)
  \* A unit takes the next instruction out of ID while the AMO stalls it (:170, :190),
  \* and a jump ends the AMO (:159).
  /\ i.kind = "AMO" => ~Unit(next) /\ ~GoesTo(next)
  \* The product is written only if an instruction that names it waits (:695).
  /\ i.kind = "MUL" => i.rd # 0 /\ WaitsFor(next, i.rd)
  \* No link is computed (:388).
  /\ i.kind \in {"JUMP", "JALR"} => i.rd = 0
  \* dmem_read_data is the word asked for an edge before (:586): a load is repeated.
  /\ next.kind = "LOAD" /\ next.rd # 0 =>
       i.kind = "LOAD" /\ i.rs1 = next.rs1 /\ i.rs2 = next.rs2
  \* The units are handed the operands of the instruction before (:171, :196).
  /\ Unit(next) => /\ i.rs1 = next.rs1 /\ i.rs2 = next.rs2
                   /\ WritesRd(i) => ~Uses(next, i.rd)

\* Three: the word of an AMO is asked for by a load from its address, and the operands of
\* the one that waits for a product (:497) are older than the product.
Spread(i, m, next) ==
  /\ next.kind = "AMO" => /\ i.kind = "LOAD" /\ i.rs1 = next.rs1 /\ i.rs2 = 0
                          /\ m.kind \notin {"LOAD", "STORE"}
  /\ i.kind = "MUL" => ~Unit(next)

\* Compares and jalr read the register file alone (:382).
Undisturbed(i, later) ==
  WritesRd(i) /\ later.kind \in {"BRANCH", "JALR"} => ~Uses(later, i.rd)

\* Of what follows by its place: the three instructions behind a jump are executed (:231),
\* and a stall loses the one two behind ID and executes the next twice (:252).
Shadows(code, k) ==
  /\ GoesTo(code[k]) => /\ \A d \in 1..3 : Placed(code, k + d) = Nop
                        /\ k + 4 <= N
  /\ Unit(code[k]) => \A d \in 3..4 : Placed(code, k + d) = Nop

\* The instruction at the reset address is executed twice.
Scheduled(code) ==
  /\ Placed(code, 1) = Nop
  /\ \A k \in 1..N :
       LET i == Placed(code, k)
       IN /\ Shadows(code, k)
          /\ \A m1 \in Successors(code, k) :
               /\ Adjacent(i, Placed(code, m1)) /\ Undisturbed(i, Placed(code, m1))
               /\ \A m2 \in Successors(code, m1) :
                    /\ Spread(i, Placed(code, m1), Placed(code, m2))
                    /\ Undisturbed(i, Placed(code, m2))
                    /\ \A m3 \in Successors(code, m2) : Undisturbed(i, Placed(code, m3))

\* And a coprocessor never stalls: neither top level of the repository has one that does.
Suits(s) == Scheduled(s.code) /\ ~s.coprocessor
=============================================================================
