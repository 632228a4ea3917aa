CONSTANTS
    Nodes = {n1, n2}
    Missing = Missing
    Digits = {"1"}
    Results = {"confirmed"}
    Flows <- AnyFlows
    Workers = {w1, w2}
    Requests = {r1, r2}
    Scheduler = {s1}
    Cap = 2
    MaxJobs = 4
    NoJob = NoJob
SPECIFICATION MCSpec
INVARIANTS
    FlowEngineInv
    SimAgrees
    LocalInv
PROPERTIES
    AcyclicSessionEnds
    AcceptedIsRun
    NobodyBlocks
    ImplementsQueue
CHECK_DEADLOCK FALSE
