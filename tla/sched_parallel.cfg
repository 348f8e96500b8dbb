\* run(0) (synchronous) or run(2) with up to three initial ranges, splits
\* of up to two and every handled failure; and run(3) around one split
\* context, with the completion test loading m_n_completed first.
SPECIFICATION Spec
CONSTANTS
  Scenarios <- MC_ScenariosParallel
  CompareOrders <- MC_OrderLeftFirst
INVARIANTS
  TypeOK
  ScanExactlyOnce
  ContextErrorRecorded
PROPERTIES
  WorkerExitAssert
  Termination
