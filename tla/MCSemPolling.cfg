CONSTANTS
  t1 = t1
  t2 = t2
  p1 = p1
  p2 = p2
  NCtx = 1
  Procs = {p1}
  Threads = {t1, t2}
  CtxOf <- PipelineCtx
  ProcOf <- PipelineProc
  CallSet <- PollingCalls
  PollingMode = TRUE
  MaxDisturb = 1
  FStack = FStack
  NoOne = NoOne
SPECIFICATION FairSpec
PROPERTIES CallCompletes ImplementsRpc
