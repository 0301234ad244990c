SPECIFICATION FairSpec
CONSTANTS
    Connections = {c1, c2, c3}
    AddressOf <- MCAddressOf
    MaxConnections = 1
    ConnectionTimeout = 2
    Packets <- MCPackets
    MaxReplies = 2
    ReplyTimeout = 1
    SharedKeys <- MCSharedKeys
    None = None
    c1 = c1
    c2 = c2
    c3 = c3
    home = home
    away = away
    d = d
INVARIANTS
    RestListsAgree
PROPERTIES
    WaitingIsNotIdle
    RequestsAnswered
CHECK_DEADLOCK FALSE
