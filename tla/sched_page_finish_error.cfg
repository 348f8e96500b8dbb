\* The page finish callback after the record loop fails.
SPECIFICATION Spec
CONSTANTS
  Scenarios <- MC_ScenariosPageFinish
  CompareOrders <- MC_OrderLeftFirst
INVARIANT
  ContextErrorRecorded
