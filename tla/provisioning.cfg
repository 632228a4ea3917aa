CONSTANTS
    Orgs = {o1, o2, o3}
    Users = {u1, u2}
    Handlers = {h1, h2}
    SignupGrant = 2
    MaxBalance = 4
    MaxFaults = 1
    NoUser = NoUser
    NoOrg = NoOrg
SPECIFICATION FairSpec
INVARIANTS
    ProvisioningInv
PROPERTIES
    EventuallySeeded
