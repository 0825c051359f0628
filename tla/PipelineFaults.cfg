\* Two tasks and every kind of fault, three of them in one behaviour.
SPECIFICATION Spec
CONSTANTS
    Tasks = {1, 2}
    Workers = {w1, w2}
    Callers = {c1}
    Streams = {c1}
    Agents <- MCAgents
    Registered = {"dev"}
    Urgent = {2}
    AgentOf <- MCAgentOf
    Operations = {"submit", "direct"}
    Faults = {"db", "redis", "crash", "shutdown", "evict", "listener"}
    MaxFaults = 3
    NoTask = NoTask
    NoAgent = NoAgent
CHECK_DEADLOCK FALSE
SYMMETRY WorkerSymmetry
INVARIANTS
    StrandedHasCause
    CreditBacked
PROPERTIES
    PollVerdictFinal
    DeliversAtMostOnce
