CONSTANTS
  BUFFER_DEPTH = 4
  Reg = {r1, r2}
  Tag = {t1, t2}
  Result <- MCResult
SPECIFICATION Spec
INVARIANTS BlocksAgree ScoreboardSound HazardIsReal SomethingReady
PROPERTY ImplementsFifo
