CONSTANTS
    Users = {u1}
    Visitors = {v1}
    MaxThreads = 2
    Handlers = {h1}
    Agents = {a1}
    MaxInbound = 2
    MaxMoves = 0
    MaxReplies = 1
    MaxFaults = 0
    Nobody = Nobody
    Summarizers = {}
    Words = {{"human"}}
    MaxTurns = 0
    MaxRuns = 0
    NoInsight = NoInsight
    Merchants = {m1}
    Heads = {x1}
    Tails = {t1}
    Clients = {}
    Display = {title}
    Texts = {hello}
    Blank = Blank
    Default = Default
    MaxMints = 0
    MaxSaves = 0
    MaxVisits = 0
    MaxKeyFaults = 0
    Nothing = Nothing
SPECIFICATION MCSpec
INVARIANT TakeoverIsHonoured
CHECK_DEADLOCK FALSE
