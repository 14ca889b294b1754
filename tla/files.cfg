SPECIFICATION BoundedSpec
CONSTANTS
    t1 = t1
    t2 = t2
    Tokens <- TwoTokens
    Entries = 2
    MaxCalls = 5
    MaxTimeouts = 1
    MaxSize = 2
INVARIANTS AckedWritten ReadBack ResultTrue
PROPERTIES CallsAnswered
CHECK_DEADLOCK FALSE
