SPECIFICATION KnowledgeSpec
CONSTANTS
    Agents = {A, B}
    Doomed = A
    User = User
    None = None
    MaxJobs = 2
    MaxAttempts = 2
    MaxTasks = 3
    MaxFaults = 2
INVARIANTS
    TypeOK
    ActiveIsServed
    GoneIsFenced
PROPERTIES
    AgentDeletionEnds
CHECK_DEADLOCK FALSE
