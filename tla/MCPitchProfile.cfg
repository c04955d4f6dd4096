SPECIFICATION Spec
CONSTANTS
  StartBin = 37
  StopBin = 44
  Size = 80
  Spectra <- SmallSpectra
  Thresholds = {0, 1}
INVARIANTS
  TypeOK
  ReportsStrongest
  FrequencyMatchesNote
