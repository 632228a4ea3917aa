CONSTANTS
    o1 = o1
    o2 = o2
    p1 = p1
    p2 = p2
    Orgs = {o1, o2}
    Payments = {p1, p2}
    OrgOf <- TwoOrgs
    Handlers = {h1, h2}
    Configs <- Deployments
    Requests = {0, 3}
    DefaultTopUp = 1
    MaxTopUp = 2
    SignupGrant = 1
    MaxBalance = 2
    MaxCallbacks = 2
    MaxFaults = 1
    MaxDevCredits = 1
    NoPayment = NoPayment
SYMMETRY Symmetry
SPECIFICATION Spec
INVARIANTS
    PaidIsCredited
CHECK_DEADLOCK FALSE
