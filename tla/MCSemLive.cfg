CONSTANTS
  t1 = t1
  t2 = t2
  p1 = p1
  p2 = p2
  NCtx = 1
  Procs = {p1, p2}
  Threads = {t1, t2}
  CtxOf <- ForkedCtx
  ProcOf <- ForkedProc
  CallSet <- ForkedCalls
  PollingMode = FALSE
  MaxDisturb = 1
  FStack = FStack
  NoOne = NoOne
SPECIFICATION FairSpec
PROPERTIES CallCompletes AlarmWakes
