\* Order in which persisted offsets reach the broker.
CONSTANTS
    c1 = c1
    c2 = c2
    Clients <- MCClients
    MaxOffset = 3
    MaxChan = 2
    MaxMoves = 1
    Absent = Absent
SPECIFICATION Spec
PROPERTY BrokerOffsetNeverDecreases
