SPECIFICATION Spec
CONSTANTS
    Entries <- MCEntries
    Setups <- MCLocked
    MaxFaults = 0
INVARIANT
    RestoredIsClean
CHECK_DEADLOCK FALSE
