------------------------------- MODULE OrgChart -------------------------------
(***************************************************************************)
(* The organisation: agents are registered by an INSERT, and an UPDATE that *)
(* gives them their place; the chart is built from the rows by a search that *)
(* follows the parents down from the head, and does not enter an agent twice. *)
(* Where the query for the rows fails, another that asks for no places answers. *)
(*                                                                         *)
(* Agents are numbered in the order of their names.                         *)
(***************************************************************************)
EXTENDS Integers, Sequences, FiniteSets, Functions

CONSTANTS
    Registrars,     \* requests that register an agent
    Agents,         \* numbers of agents
    Directors,      \* the agents of init.sql, which version 7 puts at level 1
    MaxAborted      \* bound: registrations that end between their statements

Levels == 0..3      \* CEO, director, manager, worker
Above == 0          \* no parent, and the node that stands for a CEO nobody registered

ASSUME ChartAssumption ==
    /\ Agents \subseteq Nat \ {0} /\ Directors \subseteq Agents /\ IsFiniteSet(Directors)
    /\ MaxAborted \in Nat

VARIABLES
    registry,       \* agent_registry: level and parent of each agent
    registrars,     \* what each request has to write, and where it is
    readable,       \* whether the query of the chart for the places succeeds
    aborted,        \* history: agents whose registration ended before its UPDATE
    meant           \* history: agents that were registered for level 0

orgVars == <<registry, registrars, readable, aborted, meant>>

NoAgent == [at |-> "idle", agent |-> Above, level |-> 0, parent |-> Above]
NoPlace == [level |-> 0, parent |-> Above]

ChartTypeOK ==
    /\ DOMAIN registry \subseteq Agents
    /\ \A a \in DOMAIN registry :
        registry[a].level \in Levels /\ registry[a].parent \in Agents \cup {Above}
    /\ registrars \in [Registrars -> [at : {"idle", "insert", "update"}, agent : Agents \cup {Above},
                                      level : Levels, parent : Agents \cup {Above}]]
    /\ readable \in BOOLEAN
    /\ aborted \subseteq Agents /\ Cardinality(aborted) <= MaxAborted
    /\ meant \subseteq Agents

ChartInit ==
    /\ registry = [a \in Directors |-> [level |-> 1, parent |-> Above]]
    /\ registrars = [r \in Registrars |-> NoAgent]
    /\ readable = TRUE
    /\ aborted = {} /\ meant = {}

-----------------------------------------------------------------------------
(* Registration *)

AskRegister(r, a, level, parent) ==
    /\ registrars[r] = NoAgent
    /\ registrars' = [registrars EXCEPT ![r] =
          [at |-> "insert", agent |-> a, level |-> level, parent |-> parent]]
    /\ UNCHANGED <<registry, readable, aborted, meant>>

\* The columns of the place have their defaults: level 0, no parent.
InsertAgent(r) ==
    /\ registrars[r].at = "insert" /\ registrars[r].agent \notin DOMAIN registry
    /\ registry' = [a \in DOMAIN registry \cup {registrars[r].agent} |->
          IF a = registrars[r].agent THEN NoPlace ELSE registry[a]]
    /\ registrars' = [registrars EXCEPT ![r].at = "update"]
    /\ UNCHANGED <<readable, aborted, meant>>

\* The name is taken: the INSERT raises, and the UPDATE is not reached.
RefuseAgent(r) ==
    /\ registrars[r].at = "insert" /\ registrars[r].agent \in DOMAIN registry
    /\ registrars' = [registrars EXCEPT ![r] = NoAgent]
    /\ UNCHANGED <<registry, readable, aborted, meant>>

PlaceLost(r) == registry           \* mutant: the UPDATE is left out

Placed(r) == [registry EXCEPT ![registrars[r].agent] =
                 [level |-> registrars[r].level, parent |-> registrars[r].parent]]

PlaceAgent(r) ==
    /\ registrars[r].at = "update"
    /\ registry' = Placed(r)
    /\ meant' = IF registrars[r].level = 0 THEN meant \cup {registrars[r].agent} ELSE meant
    /\ registrars' = [registrars EXCEPT ![r] = NoAgent]
    /\ UNCHANGED <<readable, aborted>>

\* The UPDATE raises, or the server ends: the row stays where its defaults put it, and
\* its name is taken for good.
AbortRegister(r) ==
    /\ registrars[r].at = "update" /\ Cardinality(aborted) < MaxAborted
    /\ aborted' = aborted \cup {registrars[r].agent}
    /\ registrars' = [registrars EXCEPT ![r] = NoAgent]
    /\ UNCHANGED <<registry, readable, meant>>

-----------------------------------------------------------------------------
(* The chart *)

\* From here on the query for the places raises, whether a column is missing or the
\* connection broke; or it is answered again.
SelectBreaks ==
    /\ readable /\ readable' = FALSE
    /\ UNCHANGED <<registry, registrars, aborted, meant>>

SelectWorks ==
    /\ ~readable /\ readable' = TRUE
    /\ UNCHANGED <<registry, registrars, aborted, meant>>

\* What the chart is built from: the second query has everyone at level 0 and under nobody.
Rows == IF readable THEN registry ELSE [a \in DOMAIN registry |-> NoPlace]

Children(a) == {b \in DOMAIN registry : Rows[b].parent = a}

Before(a, b) ==
    \/ Rows[a].level < Rows[b].level
    \/ Rows[a].level = Rows[b].level /\ a < b

\* Each agent is at the place that the number of those before him gives him.
InOrder(as) ==
    [i \in 1..Cardinality(as) |->
        CHOOSE a \in as : Cardinality({b \in as : Before(b, a)}) = i - 1]

ChildlessManagers(a) == Rows[a].level > 1     \* mutant: managers show nobody

Childless(a) == Rows[a].level > 2

\* A worker has no list of agents below him.
Reports(a) == IF Childless(a) THEN <<>> ELSE InOrder(Children(a))

\* _build_node: the calls that are still to be made, those for the reports of an agent
\* before those that wait for him to return; the agents in the order they are entered; and
\* how many of the nodes are empty.
Walks == [todo : Seq(DOMAIN registry), chart : Seq(DOMAIN registry), empty : Nat]

\* One call of it: for who was entered it returns an empty node.
Enter(w) ==
    LET a == Head(w.todo)
    IN  IF a \in Range(w.chart)
        THEN [todo |-> Tail(w.todo), chart |-> w.chart, empty |-> w.empty + 1]
        ELSE [todo |-> Reports(a) \o Tail(w.todo), chart |-> Append(w.chart, a),
              empty |-> w.empty]

Entered[w \in Walks] == IF w.todo = <<>> THEN w ELSE Entered[Enter(w)]

BuildNode(a) == Entered[[todo |-> <<a>>, chart |-> <<>>, empty |-> 0]]

Heads == {a \in DOMAIN registry : Rows[a].level = 0}

ChartHead == IF Heads = {} THEN Above ELSE CHOOSE a \in Heads : \A b \in Heads : a <= b

\* The trees of the chart: the head's, or one for each director.
Charts ==
    IF Heads # {} THEN {BuildNode(ChartHead)}
    ELSE {BuildNode(a) : a \in {d \in DOMAIN registry : Rows[d].level = 1}}

-----------------------------------------------------------------------------
ChartNext ==
    \/ \E r \in Registrars :
          \/ \E a \in Agents, level \in Levels, parent \in Agents \cup {Above} :
                AskRegister(r, a, level, parent)
          \/ InsertAgent(r) \/ RefuseAgent(r) \/ PlaceAgent(r) \/ AbortRegister(r)
    \/ SelectBreaks \/ SelectWorks

ChartSpec == ChartInit /\ [][ChartNext]_orgVars

-----------------------------------------------------------------------------
(* Properties *)

\* What is below a: the least set that has a and whoever has a parent in it that is not
\* a worker.
Beneath(a) ==
    LET Closed(s) == a \in s /\ \A b \in s : Rows[b].level <= 2 => Children(b) \subseteq s
        Candidates == {s \in SUBSET DOMAIN registry : Closed(s)}
    IN  {b \in DOMAIN registry : \A s \in Candidates : b \in s}

\* Somebody below a, and no worker, has a himself under him.
Circles(a) == \E b \in Beneath(a) : Rows[b].level <= 2 /\ a \in Children(b)

\* However the parents are given, in a loop, to nobody or to themselves, every tree shows
\* whom it is about and all below him in the rows it was built from, and nobody twice; it
\* has one empty node where the parents lead back to its top, and no other.
ChartIsReach ==
    \A tree \in Charts :
        LET top == tree.chart[1]
        IN  /\ Range(tree.chart) = Beneath(top)
            /\ Len(tree.chart) = Cardinality(Beneath(top))
            /\ tree.empty = IF Circles(top) THEN 1 ELSE 0

\* Who stands at the head of a chart of the places was registered for it, or his
\* registration is between its two statements or ended there.
HeadIsMeant ==
    readable =>
        \/ ChartHead \in meant \cup aborted \cup {Above}
        \/ \E r \in Registrars : registrars[r].at = "update" /\ registrars[r].agent = ChartHead

\* Where the second query answered, the chart is of the first agent by name, whoever he is,
\* and of nobody else.
HeadIsAlone ==
    ~readable => \A tree \in Charts : tree.chart = <<ChartHead>> /\ tree.empty = 0

\* The chart has at its head who was meant to be there, and below everyone who reports to him,
\* unless the places could not be read.
ChartIsMeant == ChartIsReach /\ HeadIsMeant /\ HeadIsAlone
=============================================================================
