\* add_scan() of a full or end-bounded range over every small B-tree, then
\* purges and Ctx::split() of the contexts create_contexts() marked.
CONSTANTS
  Null = Null
  MinRec = 0
  TreeKeys <- MC_TreeKeys
  LeafCap = 2
  NodeCap = 3
  MaxHeight = 3
  Trees <- MC_Trees
  ScanRanges <- MC_OpenStarts
  ThreadCounts = {1, 2}
  ReadLevels = {0, 1}
SPECIFICATION Spec
INVARIANT TypeOK
INVARIANT RangesCover
