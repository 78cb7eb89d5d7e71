-------------------------------- MODULE Bench --------------------------------
(***************************************************************************)
(* What the cocotb benches under tb/ have in common.  A test is a script: a *)
(* sequence of steps, each of them what the test or its driver does to the  *)
(* wires and the clock until it looks at the design, and what it then       *)
(* expects to see.  A bench module gives the steps their meaning.           *)
(*                                                                         *)
(* A coroutine woken by RisingEdge reads the registers as they were before  *)
(* that edge, and what it writes is sampled by the next one.  A test that   *)
(* also waits Timer(1 ns) reads the settled values.                         *)
(***************************************************************************)
EXTENDS Naturals, Sequences

VARIABLES test,       \* the test function that runs
          at,         \* the steps of it that are done
          mismatch    \* the test saw something it did not expect

progress == <<test, at, mismatch>>

\* expected gives some of the pins a value.
Agrees(expected, seen) == \A pin \in DOMAIN expected : seen[pin] = expected[pin]
Anything == [pin \in {} |-> 0]

Done(script) == mismatch \/ at >= Len(script)

\* A step is done; an expectation that fails ends the test.
Observe(ok) == at' = at + 1 /\ mismatch' = ~ok /\ UNCHANGED test

InitTest(tests) == test \in tests /\ at = 0 /\ mismatch = FALSE

\* cocotb runs the tests of a bench one after the other on the same design: the
\* next one finds the wires as the last one left them.
NextTest(order, script) ==
  /\ Done(script)
  /\ \E i \in 1..(Len(order) - 1) : order[i] = test /\ test' = order[i + 1]
  /\ at' = 0 /\ mismatch' = FALSE
=============================================================================
