CONSTANTS
  RingSize = 4
  ObjsMax = 2
  CallSet <- RingCalls
  MaxCuts = 1
  MaxAlarms = 0
SPECIFICATION FairSpec
PROPERTY EpollPollReturns
