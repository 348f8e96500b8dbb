\* The thread budget and the index S latch, side by side.
SPECIFICATION Spec
CONSTANTS
  r1 = r1
  r2 = r2
  t1 = t1
  t2 = t2
SYMMETRY Symmetry
INVARIANT
  TypeOK
  BudgetAccounted
  CapRespected
  LatchBalanced
