--------------------------- MODULE SequentialCore ---------------------------
(***************************************************************************)
(* What a program of the core means: its instructions execute one at a     *)
(* time and completely, and a jump takes place at once.  Its distance      *)
(* counts from the place behind it, as the core adds it to the address     *)
(* there.  The value of a register is the place of its last writer.  The   *)
(* pipeline of CpuPipeline implements this machine.                        *)
(***************************************************************************)
EXTENDS Integers

CONSTANTS Programs,   \* each a function from places 1..N to instructions
          N, Reg,
          JUMP_DIST

VARIABLES program,
          pc,         \* the place of the next instruction
          regs

sequentialVars == <<program, pc, regs>>

\* Nothing follows the last place but NOPs, all of them at N + 1.
Clip(a) == IF a > N + 1 THEN N + 1 ELSE a
JumpsFrom(at) == /\ at \in 1..N
                 /\ \/ program[at].kind \in {"JUMP", "JALR"}
                    \/ program[at].kind = "BRANCH" /\ program[at].taken
WritesFrom(at) == at \in 1..N /\ program[at].kind \notin {"STORE", "BRANCH"}
                              /\ program[at].rd # 0

Start == pc = 1 /\ regs = [r \in Reg |-> 0]
Init == program \in Programs /\ Start

Execute ==
  /\ pc' = IF JumpsFrom(pc) THEN Clip(pc + 1 + JUMP_DIST) ELSE Clip(pc + 1)
  /\ regs' = IF WritesFrom(pc) THEN [regs EXCEPT ![program[pc].rd] = pc] ELSE regs
  /\ UNCHANGED program

Reset == Start' /\ UNCHANGED program

Next == Execute \/ Reset
Spec == Init /\ [][Next]_sequentialVars
=============================================================================
