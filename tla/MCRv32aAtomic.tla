--------------------------- MODULE MCRv32aAtomic ---------------------------
(* Rv32aAtomic over words of WIDTH bits with the AMO results of WordAlu. *)
EXTENDS Rv32aAtomic, WordAlu
=============================================================================
