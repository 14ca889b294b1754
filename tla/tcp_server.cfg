SPECIFICATION BoundedSpec
CONSTANTS
    s = s
    c1 = c1
    c2 = c2
    Tokens <- ServerTokens
    Server = s
    MaxPeer = 2
    MaxApp = 2
INVARIANTS EntryOwned CalledOnce EndAnnounced
PROPERTIES StreamsInOrder ConnectionReleased
CHECK_DEADLOCK FALSE
