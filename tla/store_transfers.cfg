SPECIFICATION OneSenderSpec
CONSTANTS
  NoSession = NoSession
  NoFile = NoFile
  NoFrame = NoFrame
  s1 = s1
  s2 = s2
  Sessions = {s1, s2}
  MaxIndex = 4
  Tokens <- TransferTokens
  Frames <- TransferFrames
  EndToken <- TransferEnd
  MaxWindow = 128
  MaxFailures = 1
  MaxCrashes = 1
  LosesPref = FALSE
INVARIANTS TypeOK RetainedAsSent CompleteMeansAll MissingExact TotalExact EquationsSettled
CHECK_DEADLOCK FALSE
