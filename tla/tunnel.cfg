SPECIFICATION BoundedSpec
CONSTANTS
    t1 = t1
    Tokens <- OneToken
    MaxPeer = 2
    MaxApp = 2
INVARIANTS TypeOK SocketOwned DataNotEarly OkIsLast OpenMeansConnected
PROPERTIES StreamsInOrder EofReachesApp AgentReleases AbandonedTornDown OutboundProgress
CHECK_DEADLOCK FALSE
