CONSTANTS
    Users = {u1}
    Visitors = {v1}
    MaxThreads = 2
    Handlers = {h1, h2}
    Agents = {a1}
    MaxInbound = 3
    MaxMoves = 1
    MaxReplies = 1
    MaxFaults = 1
    Nobody = Nobody
    Summarizers = {s1, s2}
    Words = {{"human"}, {"sale", "positive"}, {"negative", "resolved"}}
    MaxTurns = 2
    MaxRuns = 2
    NoInsight = NoInsight
    Merchants = {m1, m2}
    Heads = {x1}
    Tails = {t1, t2}
    Clients = {c1, c2}
    Display = {title}
    Texts = {hello}
    Blank = Blank
    Default = Default
    MaxMints = 2
    MaxSaves = 1
    MaxVisits = 2
    MaxKeyFaults = 1
    Nothing = Nothing
SPECIFICATION MCSpec
SYMMETRY Symmetry
INVARIANTS
    ChatInv
    RepliesAreStored
    InsightsInv
    KeysInv
CHECK_DEADLOCK FALSE
