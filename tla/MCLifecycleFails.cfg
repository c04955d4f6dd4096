CONSTANTS
  PipeFrames = 1
  MaxInt = 0
  Faults = {"calls"}
SPECIFICATION Spec
PROPERTIES TerminateAllEnds
CHECK_DEADLOCK FALSE
