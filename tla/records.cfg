SPECIFICATION Spec
CONSTANTS
  Trees <- Disks
  Manifest = "DOSFER"
  Selections <- Chosen
  DiskBuffer = 2
  Piece = 3
  WindowFrames = 4
  Word = 8
  Existing <- AtRoot
  r1 = r1
  r2 = r2
  Readers <- ReaderPair
  MaxChanges = 1
  MaxLost = 0
  MaxMishaps = 1
SYMMETRY ReaderSymmetry
INVARIANTS FinalIsWhole ValidMeansAll OnlyStorageFails
CHECK_DEADLOCK FALSE
