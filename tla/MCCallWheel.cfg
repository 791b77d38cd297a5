CONSTANTS
  c1 = c1
  c2 = c2
  c3 = c3
  Callouts = {c1, c2, c3}
  Direct = {c3}
  ToTicks <- SomeTicks
  TickMod = 8
  WheelSize = 2
  MaxLag = 2
  NULL = NULL
SPECIFICATION FairSpec
INVARIANTS TypeOK WalkStaysOnWheel NothingMissed
PROPERTIES ImplementsTimers DueFires
