SPECIFICATION Spec
CONSTANTS
    Sizes <- FourRecords
    Handshake = 2
    MaxQueue = 2
PROPERTY ExactlyOneRecord
CHECK_DEADLOCK FALSE
