SPECIFICATION FairSpec
CONSTANTS
    MaxPeer = 3
    MaxApp = 2
    PauseIds = {p1, p2}
INVARIANTS FlushedBeforeLost
PROPERTIES PauseHolds DeliveredInOrder CloseCompletes ResumeAfterPause
CHECK_DEADLOCK FALSE
