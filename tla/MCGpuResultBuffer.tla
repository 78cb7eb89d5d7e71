------------------------- MODULE MCGpuResultBuffer -------------------------
(***************************************************************************)
(* GpuResultBuffer, and with it GpuResultWb, with two registers and two    *)
(* tags.  Of a result that goes to memory neither register nor tag is      *)
(* looked at, so one stands for all.                                       *)
(***************************************************************************)
EXTENDS GpuResultBuffer
MCResult == [dest_reg : Reg, tag : Tag, write_mem : {FALSE}] \cup
            {[dest_reg |-> CHOOSE r \in Reg : TRUE, tag |-> InitTag, write_mem |-> TRUE]}
=============================================================================
