SPECIFICATION Spec
CONSTANT Transfers <- MCTransfers
INVARIANTS FixedLength
CHECK_DEADLOCK FALSE
