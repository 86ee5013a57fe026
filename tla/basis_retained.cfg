SPECIFICATION Spec
CONSTANTS
  NoSession = NoSession
  NoFile = NoFile
  NoFrame = NoFrame
  s1 = s1
  s2 = s2
  Sessions = {s1}
  MaxIndex = 3
  Tokens <- TransferTokens
  Frames <- PlanesAlone
  EndToken <- PlanesEnd
  MaxWindow = 128
  MaxFailures = 0
  MaxCrashes = 1
  LosesPref = FALSE
INVARIANTS BasisRetained
CHECK_DEADLOCK FALSE
