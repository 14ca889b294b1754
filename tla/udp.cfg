SPECIFICATION FairSpec
CONSTANTS
    t1 = t1
    Tokens <- OneToken
    MaxPeer = 2
    MaxApp = 2
    MaxError = 1
PROPERTIES DatagramsInOrder ServerReleased ErrorPassedOver
CHECK_DEADLOCK FALSE
