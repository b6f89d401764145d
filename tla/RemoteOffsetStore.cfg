\* Handoff of a queue between two consumers: the broker ends up with the end offset.
CONSTANTS
    c1 = c1
    c2 = c2
    Clients <- MCClients
    MaxOffset = 3
    MaxChan = 2
    MaxMoves = 1
    Absent = Absent
SPECIFICATION Spec
INVARIANT TypeOK
PROPERTY EventuallyPersisted
