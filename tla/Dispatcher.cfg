SPECIFICATION FairSpec
CHECK_DEADLOCK FALSE
CONSTANTS
    a1 = a1
    a2 = a2
    a3 = a3
    a4 = a4
    a5 = a5
    topic = topic
    user = user
    Actions = {a1, a2, a3, a4, a5}
    Keys = {topic, user}
    KeyOf <- MCKeyOf
    Workers = {w1, w2, w3}
    Capacity = 2
    NoAction = NoAction
INVARIANTS
    IInv
PROPERTIES
    ImplementsSerialLanes
    AcceptedRuns
    ShutdownEnds
