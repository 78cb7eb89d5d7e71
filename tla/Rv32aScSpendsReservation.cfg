CONSTANTS
  WIDTH = 1
  Addr = {w1, w2}
  Value <- Words
  AmoOp = {"SWAP", "ADD", "MIN"}
  Amo <- AmoResult
  ForeignMasters = TRUE
SPECIFICATION Spec
INVARIANT ScSpendsReservation
