CONSTANTS
  p1 = p1
  p2 = p2
  f1 = f1
  Daemon = daemon
  Primo = primo
  Pool = {p1, p2}
  DefaultNum = 1
  Fds = {f1}
  Timeouts = {0, 1}
  MaxStep = 1
  MaxLate = 1
  NULL = NULL
SPECIFICATION FairSpec
INVARIANTS TypeOK OneList JoinWaitsForAll SlotsMatchWaits
PROPERTIES RunnableRuns TimeoutWakes
