----------------------------- MODULE NodeRegistry -----------------------------
(***************************************************************************)
(* The registry of nodes: the table cocoro_nodes, the requests that        *)
(* register, check and remove a node, the monitor that pings every node in *)
(* rounds, and the chat requests that are forwarded to the node of a role. *)
(*                                                                         *)
(* A check reads an address, pings it for up to three seconds, and writes  *)
(* what it found to whatever row then bears the node's id.  A forwarded    *)
(* chat is a check as well: when its connection is refused it marks the    *)
(* node offline.                                                           *)
(***************************************************************************)
EXTENDS Naturals, FiniteSets

CONSTANTS
    Nodes,      \* node ids; a node id also names the monitor's ping of the node
    Addresses,  \* ip and port
    Requests,   \* requests that register or check nodes
    Chats,      \* chat requests with a role
    Serving,    \* the nodes whose roles contain the role of the chats
    NoAddress, NoCheck

Checkers == Nodes \cup Requests \cup Chats

ASSUME RegistryAssumption ==
    /\ Serving \subseteq Nodes
    /\ Nodes \cap Requests = {} /\ Nodes \cap Chats = {} /\ Requests \cap Chats = {}
    /\ NoAddress \notin Addresses

Check == [node : Nodes, addr : Addresses, found : {"asked", "online", "offline"}]

ASSUME NoCheckAssumption == NoCheck \notin Check

VARIABLES
    addr,       \* ip and port of a node's row, or NoAddress when it has none
    status,     \* the row's status
    seen,       \* the nodes whose last_seen is not NULL
    check,      \* the check a request, a chat or the monitor has under way
    alive,      \* the addresses that answer a ping in time
    basis,      \* history: the address whose ping gave a node its status
    overtaken   \* history: the nodes registered anew while a check of them was under way

vars == <<addr, status, seen, check, alive, basis, overtaken>>

Registered == {n \in Nodes : addr[n] # NoAddress}

TypeOK ==
    /\ addr \in [Nodes -> Addresses \cup {NoAddress}]
    /\ status \in [Nodes -> {"online", "offline", "unknown"}]
    /\ seen \subseteq Registered
    /\ check \in [Checkers -> Check \cup {NoCheck}]
    /\ alive \subseteq Addresses
    /\ basis \in [Nodes -> Addresses \cup {NoAddress}]
    /\ overtaken \subseteq Nodes

Init ==
    /\ addr = [n \in Nodes |-> NoAddress]
    /\ status = [n \in Nodes |-> "unknown"]
    /\ seen = {}
    /\ check = [k \in Checkers |-> NoCheck]
    /\ alive \in SUBSET Addresses
    /\ basis = [n \in Nodes |-> NoAddress]
    /\ overtaken = {}

-----------------------------------------------------------------------------
(* Requests *)

Idle(k) == check[k] = NoCheck

Ask(n, a) == [node |-> n, addr |-> a, found |-> "asked"]

\* A check of n that pings another address than a.
Stale(k, n, a) == ~Idle(k) /\ check[k].node = n /\ check[k].addr # a

KeepStatus(r, n, a) ==            \* mutant: the upsert leaves the status alone
    /\ Idle(r)
    /\ addr' = [addr EXCEPT ![n] = a]
    /\ overtaken' = IF \E k \in Checkers : Stale(k, n, a)
                    THEN overtaken \cup {n} ELSE overtaken \ {n}
    /\ check' = [check EXCEPT ![r] = Ask(n, a)]
    /\ UNCHANGED <<status, seen, alive, basis>>

\* POST /nodes/register: the upsert sets the status to 'unknown' and leaves
\* last_seen alone; the request goes on to ping the address it was given.
Register(r, n, a) ==
    /\ Idle(r)
    /\ addr' = [addr EXCEPT ![n] = a]
    /\ status' = [status EXCEPT ![n] = "unknown"]
    /\ overtaken' = IF \E k \in Checkers : Stale(k, n, a)
                    THEN overtaken \cup {n} ELSE overtaken \ {n}
    /\ check' = [check EXCEPT ![r] = Ask(n, a)]
    /\ UNCHANGED <<seen, alive, basis>>

\* GET /nodes/{id}/health reads the row and pings; GET /nodes?live_check=true
\* does so for every row at once.
CheckHealth(r, n) ==
    /\ Idle(r) /\ n \in Registered
    /\ check' = [check EXCEPT ![r] = Ask(n, addr[n])]
    /\ UNCHANGED <<addr, status, seen, alive, basis, overtaken>>

\* DELETE /nodes/{id}.
Unregister(n) ==
    /\ n \in Registered
    /\ addr' = [addr EXCEPT ![n] = NoAddress]
    /\ status' = [status EXCEPT ![n] = "unknown"]
    /\ seen' = seen \ {n}
    /\ UNCHANGED <<check, alive, basis, overtaken>>

\* find_node_for_role: a node of the role that is not offline, one that has
\* been seen before one that has not.
Candidates == {n \in Serving \cap Registered : status[n] # "offline"}

Forward(c, n) ==
    /\ Idle(c) /\ n \in Candidates
    /\ n \in seen \/ Candidates \cap seen = {}
    /\ check' = [check EXCEPT ![c] = Ask(n, addr[n])]
    /\ UNCHANGED <<addr, status, seen, alive, basis, overtaken>>

-----------------------------------------------------------------------------
(* The monitor *)

\* A round reads all rows and pings them side by side; the next round begins
\* after the last of them.
StartRound ==
    /\ \A n \in Nodes : Idle(n)
    /\ Registered # {}
    /\ check' = [k \in Checkers |->
                    IF k \in Registered THEN Ask(k, addr[k]) ELSE check[k]]
    /\ UNCHANGED <<addr, status, seen, alive, basis, overtaken>>

-----------------------------------------------------------------------------
(* The steps of a check *)

\* _ping_node: True for an answer in time, False for anything else.
Ping(k) ==
    /\ k \notin Chats /\ ~Idle(k) /\ check[k].found = "asked"
    /\ check' = [check EXCEPT ![k].found =
                    IF check[k].addr \in alive THEN "online" ELSE "offline"]
    /\ UNCHANGED <<addr, status, seen, alive, basis, overtaken>>

\* The node takes the forwarded chat, or fails in a way that says nothing about
\* its status.
Connect(c) ==
    /\ ~Idle(c) /\ check[c].found = "asked"
    /\ check' = [check EXCEPT ![c] = NoCheck]
    /\ UNCHANGED <<addr, status, seen, alive, basis, overtaken>>

\* The connection to the agent's port is refused, whether or not the node's core
\* would answer a ping.
Refuse(c) ==
    /\ ~Idle(c) /\ check[c].found = "asked"
    /\ check' = [check EXCEPT ![c].found = "offline"]
    /\ UNCHANGED <<addr, status, seen, alive, basis, overtaken>>

WriteOffline(k) ==                \* mutant: only an offline node's row is updated
    LET n == check[k].node
    IN  /\ ~Idle(k) /\ check[k].found # "asked"
        /\ IF n \in Registered /\ check[k].found = "offline"
           THEN /\ status' = [status EXCEPT ![n] = "offline"]
                /\ seen' = seen \ {n}
                /\ basis' = [basis EXCEPT ![n] = check[k].addr]
           ELSE UNCHANGED <<status, seen, basis>>
        /\ check' = [check EXCEPT ![k] = NoCheck]
        /\ UNCHANGED <<addr, alive, overtaken>>

WriteUpsert(k) ==                 \* mutant: the row is inserted when it is gone
    LET n == check[k].node
    IN  /\ ~Idle(k) /\ check[k].found # "asked"
        /\ addr' = [addr EXCEPT ![n] = IF @ = NoAddress THEN check[k].addr ELSE @]
        /\ status' = [status EXCEPT ![n] = check[k].found]
        /\ seen' = IF check[k].found = "online" THEN seen \cup {n} ELSE seen \ {n}
        /\ basis' = [basis EXCEPT ![n] = check[k].addr]
        /\ check' = [check EXCEPT ![k] = NoCheck]
        /\ UNCHANGED <<alive, overtaken>>

\* _update_status: an UPDATE by node id, with last_seen now or NULL.
Write(k) ==
    LET n == check[k].node
    IN  /\ ~Idle(k) /\ check[k].found # "asked"
        /\ IF n \in Registered
           THEN /\ status' = [status EXCEPT ![n] = check[k].found]
                /\ seen' = IF check[k].found = "online" THEN seen \cup {n} ELSE seen \ {n}
                /\ basis' = [basis EXCEPT ![n] = check[k].addr]
           ELSE UNCHANGED <<status, seen, basis>>
        /\ check' = [check EXCEPT ![k] = NoCheck]
        /\ UNCHANGED <<addr, alive, overtaken>>

\* The UPDATE raises before its commit: the request fails, or the monitor's
\* gather notes the exception and the round goes on.
WriteRaises(k) ==
    /\ ~Idle(k) /\ check[k].found # "asked"
    /\ check' = [check EXCEPT ![k] = NoCheck]
    /\ UNCHANGED <<addr, status, seen, alive, basis, overtaken>>

-----------------------------------------------------------------------------
\* A node goes down or comes back.
Toggle(a) ==
    /\ alive' = IF a \in alive THEN alive \ {a} ELSE alive \cup {a}
    /\ UNCHANGED <<addr, status, seen, check, basis, overtaken>>

Next ==
    \/ \E r \in Requests, n \in Nodes :
          (\E a \in Addresses : Register(r, n, a)) \/ CheckHealth(r, n)
    \/ \E n \in Nodes : Unregister(n)
    \/ \E c \in Chats : (\E n \in Nodes : Forward(c, n)) \/ Connect(c) \/ Refuse(c)
    \/ StartRound
    \/ \E k \in Checkers : Ping(k) \/ Write(k) \/ WriteRaises(k)
    \/ \E a \in Addresses : Toggle(a)

Spec == Init /\ [][Next]_vars

\* The monitor goes on with its rounds, a ping ends after three seconds at the
\* latest, and an UPDATE tried again and again does not raise for ever.
Fairness ==
    /\ WF_vars(StartRound)
    /\ \A k \in Checkers : WF_vars(Ping(k)) /\ SF_vars(Write(k))
    /\ \A c \in Chats : WF_vars(Connect(c) \/ Refuse(c))

FairSpec == Spec /\ Fairness

-----------------------------------------------------------------------------
(* Properties *)

\* A status other than 'unknown' comes from a ping of the address the row has
\* now.  The one exception is a node that was registered at another address
\* while a check of the old one was under way: register_node resets the status,
\* and the old check may write its answer over it.
StatusAboutAddress ==
    \A n \in Registered :
        status[n] # "unknown" => basis[n] = addr[n] \/ n \in overtaken

\* last_seen is set for an online node and NULL for an offline one.
SeenAgreesWithStatus ==
    \A n \in Registered : /\ status[n] = "online" => n \in seen
                          /\ status[n] = "offline" => n \notin seen

\* Only a registration creates a row: the answer of a ping that outlives its
\* node's removal does not bring the node back.
NoResurrection ==
    [][\A n \in Nodes : addr[n] = NoAddress /\ addr'[n] # NoAddress
          => \E r \in Requests, a \in Addresses : Register(r, n, a)]_vars

\* While a node stays where it is and answers, the monitor keeps finding it
\* online, whatever late answers and refused chats have written in between;
\* while it does not answer, the monitor keeps finding it offline.
MonitorConverges ==
    \A n \in Nodes, a \in Addresses :
        /\ <>[](addr[n] = a /\ a \in alive) => []<>(status[n] = "online")
        /\ <>[](addr[n] = a /\ a \notin alive) => []<>(status[n] = "offline")

=============================================================================
