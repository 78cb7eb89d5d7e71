------------------------------ MODULE WordWidth ------------------------------
(* The width of the core's words, for the modules that compute with them.    *)
EXTENDS Integers

CONSTANT WIDTH   \* a power of two: a shift amount is the low bits of a word
ASSUME WidthAssumption == WIDTH \in {1, 2, 4, 8, 16, 32}
=============================================================================
