\* Requests and the scheduler on two values, with errors and crashes.
SPECIFICATION FairSpec
CONSTANTS
    honesty = honesty
    logic = logic
    request = request
    scheduler = scheduler
    Values <- MCValues
    MaxWeight = 2
    Callers <- MCCallers
    Calls <- MCCalls
    Ideals <- MCIdeals
    DefaultIdeal <- MCDefaultIdeal
    Backup <- MCBackup
    Seed <- MCSeed
    Shared = Shared
    None = None
    Faults = {"raise", "crash"}
CHECK_DEADLOCK FALSE
INVARIANTS
    CopyAgrees
PROPERTIES
    GradientApproaches
    WeightsConverge
