CONSTANTS
  WIDTH = 2
  Word <- MulWords
  MulOp = {"MUL", "MULHU"}
  DivOp = {"DIV", "REMU"}
  MulDiv <- MulResult
  MUL_LAT = 1
  DIV_LAT = 3
  Addr = {w1, w2}
  Value <- BitWords
  AmoOp = {"ADD"}
  Amo <- BitAmo
  ForeignMasters = TRUE
  AxiWord = {0, 3}
SPECIFICATION CompSpec
INVARIANTS WritesAsReported StoresOwnResult ReservationSound Atomic
  ResultOfOperands LatencyExact FlushAborts AluCorrect MulDivExact
  LandsOnce ReadsLastWritten TakenReadServed
PROPERTIES StallEnds ReadyAgain ResetInTime AccessesEnd
