\* A context finish callback fails; nothing else fails.
SPECIFICATION Spec
CONSTANTS
  Scenarios <- MC_ScenariosCtxFinish
  CompareOrders <- MC_OrderLeftFirst
PROPERTY
  WorkerExitAssert
