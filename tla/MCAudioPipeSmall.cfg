CONSTANTS
  Hop = 2
  SkipUnits = 3
  PipeUnits = 6
  MaxUnits = 14
SPECIFICATION Spec
INVARIANTS AnalysesNextFrame
