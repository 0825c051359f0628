\* Two callers, errors, crashes and resets.
SPECIFICATION Spec
CONSTANTS
    Callers = {c1, c2}
    Objects = {o1, o2, o3}
    MaxLevel = 3
    Neutral = 1
    Strengths <- MCStrengths
    Faults = {"error", "crash", "reset"}
    None = None
CHECK_DEADLOCK FALSE
SYMMETRY Symmetry
INVARIANTS
    CacheAgreesWithRow
PROPERTY SavesApplyOnce
