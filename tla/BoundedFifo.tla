---------------------------- MODULE BoundedFifo ----------------------------
(***************************************************************************)
(* What the ring buffers of the GPU side promise to their two clients: a   *)
(* first-in first-out queue of at most Capacity items with one producer    *)
(* and one consumer port, both served in the same clock cycle, and two     *)
(* sticky error flags.  GpuOpQueue and GpuResultWb implement it.           *)
(***************************************************************************)
EXTENDS Naturals, Sequences

CONSTANTS Item,      \* what the producer hands over
          Capacity   \* items held at most

VARIABLES items,     \* accepted and not yet taken, oldest first
          overflow,  \* a put was refused since the last reset
          underrun   \* a get found nothing since the last reset

fifoVars == <<items, overflow, underrun>>

Init == /\ items = << >>
        /\ overflow = FALSE
        /\ underrun = FALSE

\* One cycle.  Room is judged before the get: a put into a full queue is
\* refused even when an item leaves in the same cycle.
Cycle(put, item, get) ==
  LET taken  == get /\ items # << >>
      stored == put /\ Len(items) < Capacity
      left   == IF taken THEN Tail(items) ELSE items
  IN /\ items' = IF stored THEN Append(left, item) ELSE left
     /\ overflow' = (overflow \/ (put /\ ~stored))
     /\ underrun' = (underrun \/ (get /\ ~taken))

Reset == /\ items' = << >>
         /\ overflow' = FALSE
         /\ underrun' = FALSE

Next == \/ Reset
        \/ \E put, get \in BOOLEAN, item \in Item : Cycle(put, item, get)

Spec == Init /\ [][Next]_fifoVars
=============================================================================
