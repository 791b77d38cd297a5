CONSTANTS
  t1 = t1
  t2 = t2
  p1 = p1
  p2 = p2
  NCtx = 1
  Procs = {p1}
  Threads = {t1, t2}
  CtxOf <- PipelineCtx
  ProcOf <- PipelineProc
  CallSet <- PipelineCalls
  PollingMode = FALSE
  MaxDisturb = 2
  FStack = FStack
  NoOne = NoOne
SPECIFICATION Spec
INVARIANTS TypeOK SingleOwner HandlerHasOwner NoLostWakeup TokensBounded AlarmHasSleeper ChangesOnce
PROPERTIES OwnReply ImplementsRpc
