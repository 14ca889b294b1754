SPECIFICATION Spec
CONSTANTS
    Sizes <- FourRecords
    Handshake = 2
    MaxQueue = 2
INVARIANTS RecordsWhole NothingHeldBack
CHECK_DEADLOCK FALSE
