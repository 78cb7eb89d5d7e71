--------------------------- MODULE MCCpuPipeline ---------------------------
(***************************************************************************)
(* Programs over x0 and one register for CpuPipeline: enough for the       *)
(* matching of register numbers.  They are put together from instructions  *)
(* and from what ScheduledPrograms makes of a load, a multiply, an AMO and *)
(* a jump.                                                                 *)
(***************************************************************************)
EXTENDS ScheduledPrograms, Sequences

I(kind, rd, rs1, rs2) ==
  [kind |-> kind, rd |-> rd, rs1 |-> rs1, rs2 |-> rs2, taken |-> FALSE]
Await == I("LOAD", 0, 0, 1)    \* names x1 without reading it
Branch(taken) == [I("BRANCH", 0, 1, 0) EXCEPT !.taken = taken]

\* One instruction, or a load that is repeated.
Simple == {<<I("ALU", rd, rs1, 0)>> : rd, rs1 \in Reg}
     \cup {<<I("STORE", 0, 0, 1)>>, <<Await>>, <<Branch(FALSE)>>}
     \cup {<<I("LOAD", 0, rs1, 0), I("LOAD", 1, rs1, 0)>> : rs1 \in Reg}
\* A unit's instruction, what precedes it, the next two, and two NOPs.
Product(x) == <<I("ALU", 0, 1, 0), I("MUL", 1, 1, 0), Await>> \o x \o <<Nop, Nop>>
AtomicOp(rd, rs1, x, y) ==
  <<I("LOAD", 0, rs1, 0), I("ALU", 0, rs1, 0), I("AMO", rd, rs1, 0)>>
    \o x \o y \o <<Nop, Nop>>
One == {s \in Simple : Len(s) = 1}
Units == {Product(x) : x \in One}
           \cup {AtomicOp(rd, rs1, x, y) : rd, rs1 \in Reg, x, y \in One}
\* A jump over one instruction.
Jumps == {<<i, Nop, Nop, Nop, I("ALU", 1, 0, 0)>> :
            i \in {I("JUMP", 0, 0, 0), I("JALR", 0, 1, 0), Branch(TRUE)}}

\* The first instruction is a NOP; NOPs fill the program up.
Laid(s) == [k \in 1..N |-> IF k \in 2..(Len(s) + 1) THEN s[k - 1] ELSE Nop]
Texts == {a \o b \o c \o d : a, b, c, d \in Simple}
    \cup {a \o u \o b : a, b \in Simple, u \in Units}
    \cup {a \o j \o b \o c : a, b, c \in Simple, j \in Jumps}
MCSetups == {s \in [code : {Laid(t) : t \in Texts}, coprocessor : {FALSE}] : Suits(s)}

\* Loads and additions without any care for their order.
AnyLoads == [code : [1..N -> {I("ALU", rd, rs1, 0) : rd, rs1 \in Reg}
                             \cup {I("LOAD", 1, rs1, 0) : rs1 \in Reg} \cup {Await}],
             coprocessor : {FALSE}]
=============================================================================
