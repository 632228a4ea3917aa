CONSTANTS
    Orgs = {o1}
    MaxEvents = 2
    Kinds = {k1, k2}
    Urls = {u1, u2}
    Malformed = {u2}
    Dispatchers = {d1, d2}
    Deployments = {{d1}, {d1, d2}}
    DrainLimit = 1
    DueLimit = 1
    maxAttempts = 2
    MaxChanges = 2
    MaxFaults = 1
    PairEvents = 1
    PairChanges = 2
SPECIFICATION MCSpec
INVARIANTS
    WebhooksInv
    DuplicatesAreExplained
PROPERTIES
    EventResolves
