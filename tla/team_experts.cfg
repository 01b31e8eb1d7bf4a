SPECIFICATION TeamFairSpec
CONSTANTS
    Analyses = {a1, a2}
    Clients <- MCClients
    MaxToolCalls = 6
    None = nil
INVARIANTS
    TeamTypeOK
    FallbackTold
    BlockAnswered
PROPERTY AnalysesEnd
CHECK_DEADLOCK FALSE
