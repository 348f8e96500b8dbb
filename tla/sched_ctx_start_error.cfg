\* A context start callback fails; nothing else fails.
SPECIFICATION Spec
CONSTANTS
  Scenarios <- MC_ScenariosCtxStart
  CompareOrders <- MC_OrderLeftFirst
INVARIANT
  ScanExactlyOnce
