\* add_scan() of a range whose start key lies between two leaves of one
\* subtree: the ranges created must still cover the whole range.
CONSTANTS
  Null = Null
  MinRec = 0
  TreeKeys <- MC_TreeKeys
  LeafCap = 2
  NodeCap = 3
  MaxHeight = 3
  Trees <- MC_Trees
  ScanRanges <- MC_GapStarts
  ThreadCounts = {1, 2}
  ReadLevels = {0, 1}
SPECIFICATION Spec
INVARIANT RangesCover
