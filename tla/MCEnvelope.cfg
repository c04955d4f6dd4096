CONSTANTS
  Half = 2
  Peak = 3
SPECIFICATION Spec
INVARIANTS TypeOK PeaksHeld RestartOnlyForgets
