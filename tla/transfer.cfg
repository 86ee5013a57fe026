SPECIFICATION FairTransfer
CONSTANTS
  Configs <- TwoConfigs
  Lengths = {6}
  NoFailure = NoFailure
  Failures = {5}
  Entries = {}
  MaxPauses = 1
  ComparesWindow = TRUE
  MaxRelaunches = 1
INVARIANTS TransferTypeOK NothingLost DoneMeansAll
PROPERTIES Ends
CHECK_DEADLOCK FALSE
