SPECIFICATION FairSpec
CONSTANTS
    Clients <- MCClients
    TransportOf <- MCTransportOf
    MaxCommands = 3
    SendersOf <- MCSendersOf
    RequestsOf <- MCRequestsOf
    Transactions = {t}
    Addresses = {a1, a2}
    None = None
    tcp = tcp
    web = web
    class = class
    device = device
    t = t
INVARIANTS
    AnsweredRight
PROPERTIES
    CommandsAnswered
CHECK_DEADLOCK FALSE
