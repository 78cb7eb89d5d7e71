CONSTANTS
  N = 3
  Reg = {0, 1}
  Setups <- AnyLoads
  JUMP_DIST = 4
  MUL_LAT = 2
SPECIFICATION Spec
PROPERTY LoadGoesOn
