\* Two turns of one session, on every route, with errors and clients that leave.
SPECIFICATION FairSpec
CONSTANTS
    Turns = {t1, t2}
    MaxChunks = 2
    MaxTools = 3
    Faults = {"error", "leave"}
CHECK_DEADLOCK FALSE
INVARIANTS
    OneFinal
    AnswerAsSent
    Remembered
PROPERTIES
    TurnsEnd
