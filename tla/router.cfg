SPECIFICATION BoundedSpec
CONSTANTS
    a1 = a1
    a2 = a2
    a3 = a3
    o1 = o1
    o2 = o2
    Agents = {a1, a2, a3}
    Ops = {o1, o2}
    ReverseOps = {o2}
    MinSlots = 4
    MaxCmd = 2
    MaxReply = 2
INVARIANTS AgentsMirror OperatorKept ReplyRoutable
PROPERTIES ListingTrue DepartureNoticed StreamsInOrder ReplyArrives
CHECK_DEADLOCK FALSE
