SPECIFICATION FairSpec
CONSTANTS
  NoSession = NoSession
  NoFile = NoFile
  NoFrame = NoFrame
  s1 = s1
  s2 = s2
  Sessions = {s1, s2}
  MaxIndex = 2
  Tokens <- TwoTokens
  Frames <- TwoFrames
  EndToken <- TwoEnd
  MaxWindow = 128
  MaxFailures = 1
  MaxCrashes = 2
  LosesPref = TRUE
INVARIANTS RetainedAsSent CompleteMeansAll
PROPERTIES AcceptReturns NeverOverwritten AbstractSpec
CHECK_DEADLOCK FALSE
