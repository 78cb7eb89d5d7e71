--------------------------------- MODULE Mmu ---------------------------------
(***************************************************************************)
(* mmu: the TLB, its permission check and the state machine that walks the  *)
(* two levels of the page table.  An address is its pair of page numbers    *)
(* (the offset passes through); a page table entry has the flags V, R, W,   *)
(* X, U and a page.  One step is one rising edge with the wires w.          *)
(***************************************************************************)
EXTENDS Integers, FiniteSetsExt

CONSTANT TLB_ENTRIES

Flags == {"V", "R", "W", "X", "U"}
Pte(ppn, flags) == [ppn |-> ppn, flags |-> flags]
InvalidPte == Pte(0, {})
Index == 0..(TLB_ENTRIES - 1)
FreeEntry == [valid |-> FALSE, vpn |-> <<0, 0>>, ppn |-> 0, flags |-> {}, level |-> 0]

ResetState == [ptw_state |-> "IDLE", ptw_level |-> 0, pte_data |-> InvalidPte,
               ptw_addr |-> <<"none">>, tlb_replace_idx |-> 0,
               tlb |-> [i \in Index |-> FreeEntry]]

-----------------------------------------------------------------------------
\* A superpage entry, of level 1, matches on the upper page number only.
vpn_match(entry, vaddr) == entry.vpn[1] = vaddr[1] /\ (entry.level = 1 \/ entry.vpn = vaddr)
Hits(d, vaddr) == {i \in Index : d.tlb[i].valid /\ vpn_match(d.tlb[i], vaddr)}
tlb_hit(d, w) == Hits(d, w.vaddr) # {}
HitEntry(d, w) == d.tlb[Min(Hits(d, w.vaddr))]

priv_ok(entry, w) == CASE w.req_priv = "M" -> TRUE
                       [] w.req_priv = "S" -> "U" \notin entry.flags
                       [] w.req_priv = "U" -> "U" \in entry.flags
perm_ok(entry, w) == (IF w.req_write THEN "W" ELSE "R") \in entry.flags
perm_valid(entry, w) == priv_ok(entry, w) /\ perm_ok(entry, w)

IsLeaf(pte) == "V" \in pte.flags /\ pte.flags \cap {"R", "W", "X"} # {}
MissesUnrequested(d, w) == ~tlb_hit(d, w) /\ w.vm_enable           \* variant
Misses(d, w) == ~tlb_hit(d, w) /\ w.req_valid /\ w.vm_enable

\* An entry that is invalid at level 1 is taken for a pointer, as one that is valid.
ptw_next_state(d, w) ==
  CASE d.ptw_state = "IDLE" -> IF Misses(d, w) THEN "PTW_L1" ELSE "IDLE"
    [] d.ptw_state \in {"PTW_L1", "PTW_L0"} -> "PTW_WAIT"
    [] d.ptw_state = "PTW_WAIT" -> (CASE ~w.ptw_ready -> "PTW_WAIT"
                                      [] w.ptw_ready /\ IsLeaf(w.ptw_data) -> "UPDATE_TLB"
                                      [] OTHER -> IF d.ptw_level = 1 THEN "PTW_L0" ELSE "FAULT")
    [] d.ptw_state \in {"UPDATE_TLB", "FAULT"} -> "IDLE"

ptw_level(d, w) == CASE d.ptw_state = "IDLE" /\ Misses(d, w) -> 1
                     [] d.ptw_state = "PTW_L0" -> 0
                     [] OTHER -> d.ptw_level

\* The walk takes the address from the port at every step, and the entry to install
\* from the memory's data wires, not from the copy it took when they were valid.
Requested(d, w) == CASE d.ptw_state = "PTW_L1" -> <<"L1", w.vaddr[1]>>
                     [] d.ptw_state = "PTW_L0" -> <<"L0", w.ptw_data.ppn, w.vaddr[2]>>
                     [] OTHER -> d.ptw_addr
Installed(d, w) == [valid |-> TRUE, vpn |-> w.vaddr, ppn |-> w.ptw_data.ppn,
                    flags |-> w.ptw_data.flags, level |-> d.ptw_level]
TlbAfterFlush(tlb, w) ==
  [i \in Index |-> IF w.tlb_flush /\ (~w.tlb_flush_vaddr \/ tlb[i].vpn = w.tlb_flush_addr)
                   THEN [tlb[i] EXCEPT !.valid = FALSE] ELSE tlb[i]]
TlbAfter(d, w) == IF d.ptw_state = "UPDATE_TLB"
                  THEN [TlbAfterFlush(d.tlb, w) EXCEPT ![d.tlb_replace_idx] = Installed(d, w)]
                  ELSE TlbAfterFlush(d.tlb, w)

After(d, w) ==
  [ptw_state |-> ptw_next_state(d, w), ptw_level |-> ptw_level(d, w),
   pte_data |-> IF d.ptw_state = "PTW_WAIT" /\ w.ptw_ready THEN w.ptw_data ELSE d.pte_data,
   ptw_addr |-> Requested(d, w), tlb |-> TlbAfter(d, w),
   tlb_replace_idx |-> IF d.ptw_state = "UPDATE_TLB"
                       THEN (d.tlb_replace_idx + 1) % TLB_ENTRIES ELSE d.tlb_replace_idx]
\* Reset leaves the entries' contents, only their valid bits are cleared.
AfterReset(d) == [ResetState EXCEPT !.tlb = [i \in Index |-> [d.tlb[i] EXCEPT !.valid = FALSE]]]

-----------------------------------------------------------------------------
\* The physical page: for a superpage the upper half of it, with the address' own
\* lower page number.
Page(ppn, level, vaddr) == IF level = 1 THEN <<ppn, vaddr[2]>> ELSE <<ppn>>
Answer(paddr, trans_valid, page_fault, access_fault) ==
  [paddr |-> paddr, trans_valid |-> trans_valid, page_fault |-> page_fault,
   access_fault |-> access_fault]
Translation(d, w) ==
  CASE ~w.vm_enable -> Answer(w.vaddr, w.req_valid, FALSE, FALSE)
    [] w.vm_enable /\ tlb_hit(d, w) ->
         LET entry == HitEntry(d, w) IN
         Answer(Page(entry.ppn, entry.level, w.vaddr), perm_valid(entry, w), FALSE,
                ~perm_valid(entry, w))
    [] w.vm_enable /\ ~tlb_hit(d, w) /\ d.ptw_state = "UPDATE_TLB" ->
         Answer(Page(w.ptw_data.ppn, d.ptw_level, w.vaddr), TRUE, FALSE, FALSE)
    [] OTHER -> Answer(<<0>>, FALSE, d.ptw_state = "FAULT", FALSE)
ptw_req(d) == d.ptw_state \in {"PTW_L1", "PTW_L0"}
=============================================================================
