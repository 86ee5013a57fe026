SPECIFICATION FairSpec
CONSTANTS
  Transfers <- MCTransfers
  SlotCount = 8
  ReadsMayFail = TRUE
INVARIANTS TypeOK Legible AllInOrder GroupsInWindow SlotsOwned GivesUpForAReason
PROPERTIES Ends
CHECK_DEADLOCK FALSE
