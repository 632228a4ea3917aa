CONSTANTS
    Orgs = {o1, o2}
    Publishers = {p1, p2}
    Subscribers = {s1, s2}
    Buffer = 2
    MaxEvents = 3
    NoOrg = NoOrg
    Clients = {c1}
    Handlers = {h1, h2}
    Cost = 2
    Burst = 2
    IdleAfter = 6
    MaxStall = 1
    MaxTime = 8
    NoClient = NoClient
SYMMETRY Symmetry
SPECIFICATION Spec
INVARIANTS
    BusInv
    FeedIsFaithful
    NeverStalls
    RateInv
CHECK_DEADLOCK FALSE
