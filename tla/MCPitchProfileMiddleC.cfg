SPECIFICATION Spec
CONSTANTS
  StartBin = 37
  StopBin = 52
  Size = 4096
  Spectra <- Tone
  Thresholds = {0, 1}
INVARIANT MiddleCIs60
