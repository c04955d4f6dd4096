CONSTANTS
  SockUnits = 4
  Rows = 5
  MaxFrames = 1
SPECIFICATION Spec
INVARIANTS PsGraphShowsPower
