SPECIFICATION OutboundSpec
CONSTANTS
    Calls = {c1, c2}
    Quick = {q1}
    Later = c2
    Workers = {w1, w2}
    Limit = 1
    MaxFaults = 1
INVARIANTS
    TypeOK
    LegsWithinLimit
    DialledOnce
    OutcomesAreRecorded
PROPERTIES
    CampaignEnds
CHECK_DEADLOCK FALSE
