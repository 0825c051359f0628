\* The mail loop, day after day, with nobody asking.
SPECIFICATION RoundsSpec
CONSTANTS
    Askers = {}
    Hour = 2
    Hours = 4
    Interval = 1
    Delay = 1
    SendHour = 2
    Longest = 1
    Late = 1
    MaxRestarts = 1
PROPERTY
    BriefIsMailed
