CONSTANTS
  Hop = 1
  SkipUnits = 0
  PipeUnits = 4
  MaxUnits = 9
  SockUnits = 1
  Rows = 1
  MaxFrames = 10
SPECIFICATION Spec
INVARIANTS ScreenFollowsSound
PROPERTIES ImplementsAudio ImplementsDisplays
