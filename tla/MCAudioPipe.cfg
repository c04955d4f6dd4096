CONSTANTS
  Hop = 2
  SkipUnits = 3
  PipeUnits = 16
  MaxUnits = 14
SPECIFICATION Spec
INVARIANTS TypeOK AnalysesNextFrame NoShortRead DisplayInStep FrameFollowsSound OverhangBounded
PROPERTIES SongEnds ImplementsChannel
