CONSTANTS
  RingSize = 4
  ObjsMax = 2
  CallSet <- RingCalls
  MaxCuts = 3
  MaxAlarms = 2
SPECIFICATION FairSpec
INVARIANTS TypeOK WaitIsServed ExclusiveUntilDisturbed StaleBounded
PROPERTIES OwnReplyUntilDisturbed SyscallReturns
CHECK_DEADLOCK FALSE
