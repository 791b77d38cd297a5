CONSTANTS
  p1 = p1
  p2 = p2
  p3 = p3
  p4 = p4
  Count = 2
  MaxRef = 4
  Procs = {p1, p2, p3, p4}
  ThreadHandle = FALSE
  MaxKills = 1
  FStack = FStack
  NoOne = NoOne
SPECIFICATION Spec
SYMMETRY ProcSymmetry
INVARIANTS TypeOK FreeMatches HeldInUse RefCovers NoLeak ScanComplete
