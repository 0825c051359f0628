\* One caller that stops calling.
SPECIFICATION FairSpec
CONSTANTS
    Callers = {c1}
    Objects = {o1, o2}
    MaxLevel = 3
    Neutral = 1
    Strengths <- MCStrengths
    Faults = {}
    None = None
CHECK_DEADLOCK FALSE
PROPERTY DecaysAtRest
