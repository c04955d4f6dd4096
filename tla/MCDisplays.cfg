CONSTANTS
  SockUnits = 4
  Rows = 5
  MaxFrames = 2
SPECIFICATION Spec
INVARIANTS TypeOK GraphsShowOneFrame WaterfallIsHistory
PROPERTIES FramesGetOut GuiNotices EndIsShown ImplementsScreen
