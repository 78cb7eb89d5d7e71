CONSTANTS
  QUEUE_DEPTH = 32
  COUNT_BITS = 5
  Entry = {0}
  RandomOps = 4
  BufferOps = 8
  StreamLength = 8
  RandomInstr = {1, 2}
SPECIFICATION FairSpec
INVARIANTS OnlyKnownFailures HoldsTheCopy TakenOnce ResultIsOwn FillsFromTheWalk
  RetiresTheProgram ImmediatesSurvive AgreesOnEveryStage
PROPERTY TestsEnd
CHECK_DEADLOCK FALSE
