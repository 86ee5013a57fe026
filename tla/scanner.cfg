SPECIFICATION FairSpec
CONSTANTS
  NoSession = NoSession
  NoFrame = NoFrame
  s1 = s1
  s2 = s2
  w1 = w1
  w2 = w2
  Workers <- Pool
  Sessions <- Both
  Monochrome = {s2}
  Settings <- MCSettings
  Frames <- MCFrames
  MaxFailures = 0
INVARIANTS TypeOK  LocksItsWindow
PROPERTIES WorkersReturn
CHECK_DEADLOCK FALSE
