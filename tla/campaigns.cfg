CONSTANTS
    p1 = p1
    p2 = p2
    r1 = r1
    r1b = r1b
    r2 = r2
    junk = junk
    broken = broken
    Campaigns = {c1, c2}
    Phones = {p1, p2}
    Rows = {r1, r1b, r2, junk, broken}
    NormalizeBD <- Normalize
    Files <- Uploads
    Starters = {s1}
    Scheduler = scheduler
    Importers = {i1}
    LastMinute = 1
    ListLimit = 2
    MaxRequests = 1
    MaxToggles = 1
    MaxFaults = 1
SPECIFICATION FairSpec
INVARIANTS
    CampaignsInv
    DndHonoured
    CalledOnce
PROPERTIES
    ScheduledIsRun
CHECK_DEADLOCK FALSE
