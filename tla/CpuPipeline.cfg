CONSTANTS
  N = 12
  Reg = {0, 1}
  Setups <- MCSetups
  JUMP_DIST = 4
  MUL_LAT = 2
SPECIFICATION FairSpec
INVARIANTS StagesInOrder OperandsFresh NothingLost PortNotShared
PROPERTIES ImplementsSequential StallEnds
