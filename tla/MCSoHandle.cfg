CONSTANTS
  p1 = p1
  p2 = p2
  p3 = p3
  p4 = p4
  Count = 2
  MaxRef = 2
  Procs = {p1, p2}
  ThreadHandle = TRUE
  MaxKills = 1
  FStack = FStack
  NoOne = NoOne
SPECIFICATION FairSpec
INVARIANTS FreeMatches HeldInUse
PROPERTIES AttachReturns ExitCompletes
