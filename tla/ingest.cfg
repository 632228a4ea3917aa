CONSTANTS
    e1 = e1
    p1 = p1
    Orgs = {o1, o2}
    Events = {e1}
    Phones = {p1}
    NoPhone = NoPhone
    BadPhone = BadPhone
    Sends <- Merchants
    Posts = {n1, n2}
    Builders = {b1, b2}
    Designs <- Drafts
    FlowIds = {f1, f2}
    NoFlow = NoFlow
    NoKey = NoKey
    MaxToggles = 1
    MaxFaults = 1
SYMMETRY Symmetry
SPECIFICATION Spec
INVARIANTS
    IngestInv
    CalledAtMostOnce
    EventIsCalledFor
CHECK_DEADLOCK FALSE
