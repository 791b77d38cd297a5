CONSTANTS
  p1 = p1
  p2 = p2
  p3 = p3
  p4 = p4
  Count = 2
  MaxRef = 3
  Procs = {p1, p2}
  ThreadHandle = TRUE
  MaxKills = 0
  FStack = FStack
  NoOne = NoOne
SPECIFICATION Spec
INVARIANT LoopUntilChildForkDone
