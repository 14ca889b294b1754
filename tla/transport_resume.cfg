SPECIFICATION FairSpec
CONSTANTS
    MaxPeer = 3
    MaxApp = 0
    PauseIds = {p1}
PROPERTY ResumeDelivers
CHECK_DEADLOCK FALSE
