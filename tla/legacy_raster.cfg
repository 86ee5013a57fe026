SPECIFICATION RasterSpec
CONSTANTS
  Configs <- DrawnConfigs
  Lengths = {5, 12}
  NoFailure = NoFailure
  Failures = {}
  Entries <- TypedRanges
  MaxPauses = 1
  QrMask = 5
  Invert = 0
  Payloads <- DrawnPayloads
INVARIANTS TypeOK OneLossSolvable PageShows NeverRefused
CHECK_DEADLOCK FALSE
