\* Two contexts over adjacent ranges of a two-page level, read at the
\* leaves or at level one, while other transactions insert, delete-mark,
\* re-insert, purge (or remove node pointers), split and merge.
SPECIFICATION Spec
CONSTANTS
  p1 = p1
  p2 = p2
  p3 = p3
  NoEnd = NoEnd
  INF = INF
  SUP = SUP
  FIL_NULL = FIL_NULL
  MaxMods = 6
  StartsPurgeable = FALSE
  ReadLevels = {0, 1}
  Cap = 2
  Keys <- MC_Keys
  Pages <- MC_Pages
  InitChain <- MC_InitChain
  InitRecs <- MC_InitRecs
  InitLow <- MC_InitLow
  Starts <- MC_Starts
INVARIANT
  TypeOK
PROPERTY
  RangeScanRefined
  Termination
