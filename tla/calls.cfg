CONSTANTS
    Orgs = {o1}
    Jobs = {j1, j2}
    JobOrg <- OneOrg
    Workers = {w1, w2}
    Testers = {t1}
    Orchestrators = {"local", "hatchet"}
    MaxDeliveries = 2
    Policies <- Windows
    Default <- Morning
    DayHours = 2
    Zone <- Offsets
    Threshold = 1
    SignupGrant = 2
    MaxBalance = 3
    Emailable = {o1}
    MaxGrants = 1
    MaxTests = 1
    MaxFaults = 1
    NoJob = NoJob
    NoOrg = NoOrg
    Merchants = {m1, m2}
    Recordings = {r1, r2}
    Transcribers = {h1, h2}
    RetentionWindow = 1
    MaxCalls = 2
    MaxRequests = 2
    MaxTime = 3
    MaxSweepFaults = 1
    None = None
SYMMETRY Symmetry
SPECIFICATION MCSpec
INVARIANTS
    CallsInv
    PaidBeforeDialed
    CalledInsideWindow
    EveryCrossingWarned
    RecordsInv
PROPERTIES
    KeptForWindow
