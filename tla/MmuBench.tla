------------------------------- MODULE MmuBench -------------------------------
(***************************************************************************)
(* tb/mmu_tb.py.  The tests set wires and count edges; they answer the page *)
(* table walk after a fixed number of edges, whatever it asks for, and none *)
(* of them but three lowers req_valid before it resets the design, so a     *)
(* walk for the last test's address starts before the new address is set.   *)
(***************************************************************************)
EXTENDS Mmu, Bench

VARIABLES dut,       \* the registers of the MMU
          board      \* the wires; history: the page the running walk was started for

benchVars == <<progress, dut, board>>

\* The wires before the first test.
Low == [vaddr |-> <<0, 0>>, req_valid |-> FALSE, req_write |-> FALSE, req_priv |-> "U",
        vm_enable |-> FALSE, ptw_data |-> InvalidPte, ptw_ready |-> FALSE,
        tlb_flush |-> FALSE, tlb_flush_vaddr |-> FALSE, tlb_flush_addr |-> <<0, 0>>]

\* The wires when some of the pins are set.
Over(sets, wires) == [pin \in DOMAIN sets \cup DOMAIN wires |->
                        IF pin \in DOMAIN sets THEN sets[pin] ELSE wires[pin]]

-----------------------------------------------------------------------------
\* The first of n edges comes with new values on some wires, after the last the
\* test looks at the outputs.
Edges(n, sets, expect) ==
  [i \in 1..n |-> [op |-> "edge", sets |-> IF i = 1 THEN sets ELSE Anything,
                   expect |-> IF i = n THEN expect ELSE Anything]]
Resets(sets) == <<[op |-> "reset", sets |-> sets, expect |-> Anything]>>
Responds(pte) == Edges(1, [ptw_data |-> pte, ptw_ready |-> TRUE], Anything)
QuietDrops(n) ==                        \* variant: the data is taken away with ready
  Edges(n, [ptw_ready |-> FALSE, ptw_data |-> InvalidPte], Anything)
Quiet(n) == Edges(n, [ptw_ready |-> FALSE], Anything)
QuietThen(n, expect) == Edges(n, [ptw_ready |-> FALSE], expect)

Request(vaddr, write, priv) ==
  [vaddr |-> vaddr, req_valid |-> TRUE, req_write |-> write, req_priv |-> priv]
Enabled(request) == Over([vm_enable |-> TRUE], request)
Pointer == Pte(2, {"V"})
Walk(gap, ppn, flags) == Responds(Pointer) \o Quiet(gap) \o Responds(Pte(ppn, flags))

test_reset ==
  Resets([req_valid |-> FALSE, vm_enable |-> FALSE, tlb_flush |-> FALSE])
  \o Edges(2, Anything, [trans_valid |-> FALSE, page_fault |-> FALSE,
                         access_fault |-> FALSE, ptw_req |-> FALSE])

test_direct_mapping ==
  LET asks(vaddr) == Request(vaddr, FALSE, "M")
      maps(sets) == Edges(1, sets, [paddr |-> sets.vaddr, trans_valid |-> TRUE,
                                    page_fault |-> FALSE, access_fault |-> FALSE])
  IN Resets(Anything) \o Edges(2, Anything, Anything)
     \o maps(Over([vm_enable |-> FALSE], asks(<<0, 0>>)))
     \o maps(asks(<<1, 1>>)) \o maps(asks(<<3, 2>>))

test_tlb_miss_ptw ==
  Resets(Anything) \o Edges(2, Anything, Anything)
  \o Edges(2, Enabled(Request(<<0, 1>>, FALSE, "U")), [ptw_req |-> TRUE])
  \o Walk(3, 3, {"V", "R", "W", "U"}) \o Quiet(3)

test_permission_check ==
  Resets(Anything) \o Edges(2, Anything, Anything)
  \o Edges(2, Enabled(Request(<<0, 1>>, FALSE, "U")), Anything)
  \o Walk(2, 3, {"V", "R", "U"}) \o Quiet(5)
  \o Edges(2, [vaddr |-> <<0, 2>>, req_write |-> TRUE], Anything)
  \o Walk(2, 4, {"V", "R"}) \o Quiet(5)

test_tlb_flush ==
  Resets([req_valid |-> FALSE, ptw_ready |-> FALSE]) \o Edges(2, Anything, Anything)
  \o Edges(3, Enabled(Request(<<0, 1>>, FALSE, "U")), Anything)
  \o Walk(3, 3, {"V", "R", "W", "U"}) \o Quiet(5)
  \o Edges(2, [vaddr |-> <<0, 1>>, req_valid |-> TRUE], [ptw_req |-> FALSE])
  \o Edges(2, [req_valid |-> FALSE], Anything)
  \o Edges(1, [tlb_flush |-> TRUE, tlb_flush_vaddr |-> FALSE], Anything)
  \o Edges(2, [tlb_flush |-> FALSE], Anything)
  \o Edges(3, [vaddr |-> <<0, 1>>, req_valid |-> TRUE], [ptw_req |-> TRUE])

test_superpage ==
  Resets(Anything) \o Edges(2, Anything, Anything)
  \o Edges(2, Enabled(Request(<<1, 0>>, FALSE, "S")), Anything)
  \o Responds(Pte(5, {"V", "R", "W", "X"})) \o QuietThen(5, [trans_valid |-> TRUE])

test_page_fault ==
  Resets([req_valid |-> FALSE, ptw_ready |-> FALSE]) \o Edges(2, Anything, Anything)
  \o Edges(3, Enabled(Request(<<3, 3>>, FALSE, "U")), Anything)
  \o Responds(InvalidPte) \o Quiet(3) \o Responds(InvalidPte)
  \o QuietThen(2, [page_fault |-> TRUE])

test_concurrent_requests ==
  LET one(page) == Edges(2, Enabled(Request(<<0, page>>, FALSE, "U")), Anything)
                   \o Walk(2, 10 + page, {"V", "R", "W", "U"}) \o Quiet(5)
  IN Resets(Anything) \o Edges(2, Anything, Anything)
     \o one(1) \o one(2) \o one(3) \o one(4)

Order == <<"test_reset", "test_direct_mapping", "test_tlb_miss_ptw", "test_permission_check",
           "test_tlb_flush", "test_superpage", "test_page_fault", "test_concurrent_requests">>
Scripts == [test_reset |-> test_reset, test_direct_mapping |-> test_direct_mapping,
            test_tlb_miss_ptw |-> test_tlb_miss_ptw,
            test_permission_check |-> test_permission_check,
            test_tlb_flush |-> test_tlb_flush, test_superpage |-> test_superpage,
            test_page_fault |-> test_page_fault,
            test_concurrent_requests |-> test_concurrent_requests]
Script == Scripts[test]
Now == Script[at + 1]
Doing(op) == ~Done(Script) /\ Now.op = op

-----------------------------------------------------------------------------
\* The bench can be run from any of its tests on.
BenchInit == /\ InitTest(DOMAIN Scripts) /\ dut = ResetState
             /\ board = [wires |-> Low, walking |-> <<0, 0>>]

Seen(d, w) == Over([ptw_req |-> ptw_req(d)], Translation(d, w))
WalkingFor(d, w) == IF d.ptw_state = "IDLE" /\ Misses(d, w) THEN w.vaddr ELSE board.walking

edge == /\ Doing("edge")
        /\ LET w == Over(Now.sets, board.wires) IN
           /\ dut' = After(dut, w)
           /\ board' = [wires |-> w, walking |-> WalkingFor(dut, w)]
           /\ Observe(Agrees(Now.expect, Seen(dut, w)))
reset == /\ Doing("reset") /\ dut' = AfterReset(dut)
         /\ board' = [board EXCEPT !.wires = Over(Now.sets, @)] /\ Observe(TRUE)
next_test == NextTest(Order, Script) /\ UNCHANGED <<dut, board>>

BenchNext == edge \/ reset \/ next_test
BenchSpec == BenchInit /\ [][BenchNext]_benchVars

-----------------------------------------------------------------------------
\* The MMU installs what stands on the memory's data wires one edge after the answer,
\* not the copy it took of the answer: the two are the same only because every test
\* leaves the wires as they were when it lowers ptw_ready.
InstallsTheAnswer == Doing("edge") /\ dut.ptw_state = "UPDATE_TLB"
                       => Over(Now.sets, board.wires).ptw_data = dut.pte_data

\* An entry is installed for the address its walk was started for, but in the two
\* tests that change the address under a request the last test left raised: there
\* one page's walk fills the entry of another, and neither test notices.
WalkedForIt == dut.ptw_state = "UPDATE_TLB" /\ board.wires.vaddr # board.walking
                 => test \in {"test_superpage", "test_concurrent_requests"}
=============================================================================
