SPECIFICATION ServicesSpec
CONSTANTS
    \* RequestFront: one client, an internal address outside the networks, a filtered one
    client = client
    proxy = proxy
    banned = banned
    Requests = {"r1", "r2"}
    Addresses <- MCAddresses
    Filtered = {banned}
    Internal = {proxy}
    Foreign = {proxy}
    Token = 2
    Full <- MCFull
    Rate <- MCRate
    MaxIdle = 2
    MaxFailures = 2
    Lockout = 2
    None = None
    \* MemoryArchive
    Archivers = {"req"}
    Scheduler = "scheduler"
    Tables <- MCTables
    Dated = {"emotion_history"}
    PerTable <- MCPerTable
    MaxErrors = 1
    MaxRuns = 1
    \* UserMemories
    Tellers = {"t1", "t2"}
    Texts = {"likes", "lives"}
    Extracts <- MCExtracts
    Sure = 7
    PromptLength = 2
    MaxMemories = 3
    MaxLost = 1
    MaxTold = 3
    MaxCleared = 1
    \* Migrations
    Starter = "start"
    Runners = {"m1", "m2"}
    Latest = 4
    MaxBroken = 2
    MaxRequested = 2
    \* DailyRounds
    Askers = {"a"}
    Hour = 2
    Hours = 4
    Interval = 1
    Delay = 1
    SendHour = 2
    Longest = 1
    Late = 1
    MaxRestarts = 1
    \* ModelCalls
    Generators = {"g"}
    Streams = {"s"}
    PerMinute = 2
    Minute = 2
    Chunks = 1
    MaxCalls = 2
    \* Companions
    Peers = {"peer"}
    Self = "cocoro-main"
    Topics = {"d"}
    People = {"u"}
    Timeout = 1
    MaxOpinions = 2
    MaxSent = 1
    MaxRegistered = 2
    MaxSessions = 3
    \* OrgChart
    Registrars = {"g1"}
    Agents = {1, 2, 3}
    Directors = {2}
    MaxAborted = 1
    \* Profiles
    ProfileIds = {"p", "q"}
    Births <- MCBirths
    Answers <- MCAnswers
    Lessons <- MCLessons
    GivenVectors <- MCGiven
    MaxLessons = 2
    MaxAnswered = 1
CHECK_DEADLOCK FALSE
INVARIANTS
    ServicesTypeOK
    UnlockedBelowThreshold
    ArchivedOnce
    PromptSaysOnce
    ReturnedIsKept
    RecordIsTrue
    OncePerDay
    UnderLimit
    ChartIsMeant
    RecordsAccount
    LevelsAsMeant
PROPERTIES
    LimitsAsBucket
    OldRowsLeave
    LoopsReturn
    CallsEnd
    ClosedStaysClosed
