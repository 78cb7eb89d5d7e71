-------------------------- MODULE AtomicParameters --------------------------
(* What rv32a_atomic is about, for the modules that model it or compose it.  *)
EXTENDS Integers

CONSTANTS Addr,          \* word addresses
          Value,         \* contents of a word
          AmoOp,         \* operations besides LR and SC
          Amo(_, _, _),  \* Amo(op, loaded, rs2): the value an AMO stores
          ForeignMasters \* whether another master writes the memory

ASSUME AmoAssumption == \A op \in AmoOp, a, b \in Value : Amo(op, a, b) \in Value
ASSUME AmoOpAssumption == "LR" \notin AmoOp /\ "SC" \notin AmoOp
ASSUME ResetValues == Addr # {} /\ Value # {} /\ AmoOp # {}
ASSUME ForeignAssumption == ForeignMasters \in BOOLEAN
=============================================================================
