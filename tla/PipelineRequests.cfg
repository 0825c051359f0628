\* Every request but direct execution, delegations and resets at any moment.
SPECIFICATION Spec
CONSTANTS
    Tasks = {1, 2}
    Workers = {w1, w2}
    Callers = {}
    Streams = {}
    Agents <- MCAgents
    Registered = {"dev"}
    Urgent = {2}
    AgentOf <- MCAgentOf
    Operations = {"submit", "create", "delegate", "reset"}
    Faults = {"db"}
    MaxFaults = 1
    NoTask = NoTask
    NoAgent = NoAgent
CHECK_DEADLOCK FALSE
SYMMETRY WorkerSymmetry
INVARIANTS
    RecordBeforeJob
    ResultAgreesWithRow
