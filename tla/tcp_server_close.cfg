SPECIFICATION Spec
CONSTANTS
    s = s
    c1 = c1
    c2 = c2
    Tokens <- OneConnection
    Server = s
    MaxPeer = 0
    MaxApp = 0
INVARIANT AllConnectionsClosed
CHECK_DEADLOCK FALSE
