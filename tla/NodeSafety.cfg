\* One node, two addresses, two requests, a forwarded chat and the monitor.
SPECIFICATION FairSpec
CONSTANTS
    Nodes = {n1}
    Addresses = {a1, a2}
    Requests = {r1, r2}
    Chats = {c1}
    Serving = {n1}
    NoAddress = NoAddress
    NoCheck = NoCheck
CHECK_DEADLOCK FALSE
INVARIANTS
    StatusAboutAddress
PROPERTIES
    NoResurrection
    MonitorConverges
