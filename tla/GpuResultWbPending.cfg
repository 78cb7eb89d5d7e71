CONSTANTS
  BUFFER_DEPTH = 2
  Reg = {r1, r2}
  Tag = {t1, t2}
  Result <- MCResult
SPECIFICATION Spec
INVARIANT ScoreboardTracksPending
