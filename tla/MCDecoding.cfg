CONSTANTS
  MaxChunks = 4
  MaxOut = 5
  PcmSize = 4
  Capacity = 14
  Skip = 3
  Hop = 2
SPECIFICATION Spec
INVARIANTS TypeOK StoresWhatWasDecoded LongestSong
