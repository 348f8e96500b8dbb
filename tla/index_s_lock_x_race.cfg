\* Three workers, one lock/unlock pair each, one structure modification.
SPECIFICATION Spec
CONSTANTS
  t1 = t1
  t2 = t2
  t3 = t3
  MaxCycles = 1
  MaxSMOs = 1
  Threads <- MC_Threads
SYMMETRY MC_Symmetry
INVARIANT
  NoReadUnderX
