\* A spatial index search, in each search mode and locating a record, with up to three page
\* splits and merges (at most one merge) by other transactions.
CONSTANTS
  NoPage = NoPage
  NodeCap = 4
  MaxSMOs = 3
  MaxMerges = 1
  Trees <- MC_Trees
  Queries <- MC_Queries
  Targets <- MC_Targets
  Modes <- MC_Modes
  InsertMBRs <- MC_InsertMBRs
SPECIFICATION FairSpec
INVARIANT TypeOK
INVARIANT InsertChoiceLeastIncrease
INVARIANT RestoreFindsRecord

PROPERTY SpatialScanRefined
PROPERTY SearchEnds
