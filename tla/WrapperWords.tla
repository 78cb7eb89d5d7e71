---------------------------- MODULE WrapperWords ----------------------------
(* The words that a master writes to the registers of red_pitaya_cpu_wrapper, *)
(* for the modules that model it or compose it.                               *)
EXTENDS Integers

CONSTANT AxiWord
ASSUME WordAssumption == AxiWord \subseteq Nat /\ 0 \in AxiWord
=============================================================================
