SPECIFICATION FairSpec
CONSTANTS
    Readers = {r1, r2}
    Separators = {2}
    MaxBytes = 3
    MaxCalls = 3
INVARIANTS BytesInOrder
PROPERTIES EndEndsCall
CHECK_DEADLOCK FALSE
