\* Requests and the scheduler on two values, without errors or crashes.
SPECIFICATION Spec
CONSTANTS
    honesty = honesty
    logic = logic
    request = request
    scheduler = scheduler
    Values <- MCValues
    MaxWeight = 2
    Callers <- MCCallers
    Calls <- MCCalls
    Ideals <- MCIdeals
    DefaultIdeal <- MCDefaultIdeal
    Backup <- MCBackup
    Seed <- MCSeed
    Shared = Shared
    None = None
    Faults = {}
CHECK_DEADLOCK FALSE
PROPERTIES
    LearnedIsApplied
