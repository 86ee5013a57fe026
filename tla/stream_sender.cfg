SPECIFICATION Spec
CONSTANT Transfers <- MCTransfers
INVARIANTS TypeOK HeldWhole AllInOrder StopsForAReason
CHECK_DEADLOCK FALSE
