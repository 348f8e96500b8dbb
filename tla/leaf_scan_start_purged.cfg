\* A range's start record may be purged while the scan runs: the key
\* search that restores a yielded cursor then lands before the range.
SPECIFICATION Spec
CONSTANTS
  p1 = p1
  p2 = p2
  p3 = p3
  NoEnd = NoEnd
  INF = INF
  SUP = SUP
  FIL_NULL = FIL_NULL
  MaxMods = 5
  StartsPurgeable = TRUE
  ReadLevels = {0, 1}
  Cap = 2
  Keys <- MC_Keys
  Pages <- MC_Pages
  InitChain <- MC_InitChain
  InitRecs <- MC_InitRecs
  InitLow <- MC_InitLow
  Starts <- MC_Starts
PROPERTY
  RangeScanRefined
