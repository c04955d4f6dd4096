CONSTANTS
  PipeFrames = 2
  MaxInt = 2
  Faults = {"display", "argb", "calls", "audio", "file", "gui"}
SPECIFICATION Spec
INVARIANTS TypeOK SlotIsMine SpectrogramReachable EnvelopeConnected StdinSpared OnlyMainEndsInOrder DeviceOpenWhilePlaying ReleasedOnce
PROPERTIES StartupSettles InterruptEnds
CHECK_DEADLOCK FALSE
