\* Nothing fails; three workers, one initial context that is split (tree
\* depth 3 >= SPLIT_THRESHOLD); the two loads of the completion test
\* "m_n_completed == m_ctx_id" may come in either order.
SPECIFICATION Spec
CONSTANTS
  Scenarios <- MC_ScenariosRace
  CompareOrders <- MC_OrderAny
PROPERTY
  WorkerExitAssert
