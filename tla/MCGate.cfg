SPECIFICATION FairSpec
CONSTANTS
    c1 = c1
    c2 = c2
    u = u
    password = password
    events = events
    other = other
    delivered = delivered
    None = None
    Handler = {c1, c2}
    Client = {c1, c2}
    Action = {"connect", "1", "2"}
    User = {u}
    Key <- MCKey
    TTL = 1
    Timeout = 1
    Horizon = 5
    Name <- MCName
    Password <- MCPassword
    Group = {"g"}
    Packet <- MCPacket
    KafkaTopic = {events, delivered, other}
    OnEvent <- MCOnEvent
    DeliverMap <- MCDeliverMap
    BridgeWait = 1
    MaxPackets <- MCMaxPackets
INVARIANT EventsInOrder
PROPERTIES   WorkerFreed
CHECK_DEADLOCK FALSE
