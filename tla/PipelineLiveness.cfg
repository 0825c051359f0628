\* At most one fault of any kind.
SPECIFICATION FairSpec
CONSTANTS
    Tasks = {1, 2}
    Workers = {w1, w2}
    Callers = {c1}
    Streams = {c1}
    Agents <- MCAgents
    Registered = {"dev"}
    Urgent = {2}
    AgentOf <- MCAgentOf
    Operations = {"submit", "direct", "reset"}
    Faults = {"db", "redis", "crash", "shutdown", "evict", "listener"}
    MaxFaults = 1
    NoTask = NoTask
    NoAgent = NoAgent
CHECK_DEADLOCK FALSE
PROPERTIES
    AcceptedFinishes
    VerdictsCredited
