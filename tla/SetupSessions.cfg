\* A session of each kind with two questions, two requests at a time, an error.
SPECIFICATION FairSpec
\* At rest the server waits for a request, and no more come than the bound.
CHECK_DEADLOCK FALSE
CONSTANTS
    Wizards = {wizard}
    Samplings = {sampling}
    Benches = {bench}
    Calls = {c1, c2}
    Length = 2
    ValueRows <- MCValueRows
    Analyses <- MCAnalyses
    MaxFaults = 1
    MaxAsked = 3
    MaxStarted = 2
    None = None
INVARIANTS
    CompleteIsAnswered
    InsertedOnce
    ValuesOfOneSource
PROPERTIES
    ResultCloses
