------------------------------ MODULE Companions ------------------------------
(***************************************************************************)
(* Who the server talks with: other personalities, registered as peers, and *)
(* the discussions held with them; and its users' sessions, which end when   *)
(* they are not used.  All of it is memory of the process, and every handler *)
(* runs without an await, as one step.                                      *)
(***************************************************************************)
EXTENDS Integers, Sequences, FiniteSets

CONSTANTS
    Peers, Self,        \* ids of peers, and "cocoro-main"
    Topics,             \* discussions
    People,             \* users
    Timeout,            \* ticks after which an unused session has expired
    MaxOpinions, MaxSent, MaxRegistered, MaxSessions    \* bounds

ASSUME CompanionsAssumption ==
    /\ Self \notin Peers /\ Timeout \in Nat
    /\ MaxOpinions \in Nat /\ MaxSent \in Nat /\ MaxRegistered \in Nat /\ MaxSessions \in Nat

VARIABLES
    peers,          \* _peers: the registered ones, with their count of messages
    discussions,    \* _discussions: those that were begun
    sessions,       \* _sessions, by user: id, the time since the last use, messages
    nextSession,    \* ids of sessions are not given twice
    registrations

companionVars == <<peers, discussions, sessions, nextSession, registrations>>

Speakers == Peers \cup {Self}

NoSession == [id |-> 0, idle |-> 0, messages |-> 0]

CompanionsTypeOK ==
    /\ DOMAIN peers \subseteq Peers
    /\ \A p \in DOMAIN peers : peers[p] \in Nat
    /\ DOMAIN discussions \subseteq Topics
    /\ \A d \in DOMAIN discussions :
        /\ discussions[d].status \in {"active", "concluded"}
        /\ discussions[d].participants \subseteq Speakers
        /\ discussions[d].authors \in Seq(Speakers) /\ Len(discussions[d].authors) <= MaxOpinions
        /\ discussions[d].conclusion \in {"none", "first", "second"}
    /\ sessions \in [People -> [id : 0..MaxSessions, idle : 0..Timeout + 1, messages : 0..MaxSent]]
    /\ nextSession \in 1..MaxSessions + 1
    /\ registrations \in 0..MaxRegistered

CompanionsInit ==
    /\ peers = <<>> /\ discussions = <<>>
    /\ sessions = [u \in People |-> NoSession] /\ nextSession = 1
    /\ registrations = 0

-----------------------------------------------------------------------------
(* Peers *)

\* A peer that is registered again starts anew.
RegisterPeer(p) ==
    /\ registrations < MaxRegistered /\ registrations' = registrations + 1
    /\ peers' = [q \in DOMAIN peers \cup {p} |-> IF q = p THEN 0 ELSE peers[q]]
    /\ UNCHANGED <<discussions, sessions, nextSession>>

CountedOf(p) == [q \in DOMAIN peers |-> IF q = p THEN peers[q] + 1 ELSE peers[q]]

\* A message to who is not registered is answered with an error.
SendMessage(p) ==
    /\ p \in DOMAIN peers /\ peers[p] < MaxSent
    /\ peers' = CountedOf(p)
    /\ UNCHANGED <<discussions, sessions, nextSession, registrations>>

-----------------------------------------------------------------------------
(* Discussions *)

\* Of the participants only those that are registered are taken.
StartDiscussion(d, invited) ==
    /\ d \notin DOMAIN discussions
    /\ discussions' = [e \in DOMAIN discussions \cup {d} |->
          IF e # d THEN discussions[e]
          ELSE [status |-> "active", participants |-> {Self} \cup (invited \cap DOMAIN peers),
                authors |-> <<>>, conclusion |-> "none"]]
    /\ UNCHANGED <<peers, sessions, nextSession, registrations>>

OpenAlways(d) == d \in DOMAIN discussions         \* mutant: the status is not looked at

Open(d) == d \in DOMAIN discussions /\ discussions[d].status = "active"

\* Anybody may speak, registered or not, and takes part from then on.
AddOpinion(d, p) ==
    /\ Open(d) /\ Len(discussions[d].authors) < MaxOpinions
    /\ discussions' = [discussions EXCEPT ![d].authors = Append(@, p),
                                          ![d].participants = @ \cup {p}]
    /\ peers' = CountedOf(p)
    /\ UNCHANGED <<sessions, nextSession, registrations>>

\* A conclusion may be drawn again, and replaces the first.
Conclude(d, conclusion) ==
    /\ d \in DOMAIN discussions
    /\ discussions' = [discussions EXCEPT ![d].status = "concluded", ![d].conclusion = conclusion]
    /\ UNCHANGED <<peers, sessions, nextSession, registrations>>

-----------------------------------------------------------------------------
(* Sessions *)

CompanionsTick ==
    /\ \E u \in People : sessions[u].id # 0 /\ sessions[u].idle <= Timeout
    /\ sessions' = [u \in People |->
          IF sessions[u].id # 0 /\ sessions[u].idle <= Timeout
          THEN [sessions[u] EXCEPT !.idle = @ + 1] ELSE sessions[u]]
    /\ UNCHANGED <<peers, discussions, nextSession, registrations>>

ExpiredNever(u) == FALSE                          \* mutant: sessions do not expire

Expired(u) == sessions[u].id # 0 /\ sessions[u].idle > Timeout

\* The session that is there is used; one that has expired is replaced by a new one.
UseSession(u) ==
    /\ sessions[u].messages < MaxSent /\ nextSession <= MaxSessions
    /\ IF sessions[u].id = 0 \/ Expired(u)
       THEN /\ sessions' = [sessions EXCEPT ![u] = [NoSession EXCEPT !.id = nextSession]]
            /\ nextSession' = nextSession + 1
       ELSE /\ sessions' = [sessions EXCEPT ![u].idle = 0, ![u].messages = @ + 1]
            /\ UNCHANGED nextSession
    /\ UNCHANGED <<peers, discussions, registrations>>

EndSession(u) ==
    /\ sessions[u].id # 0
    /\ sessions' = [sessions EXCEPT ![u] = NoSession]
    /\ UNCHANGED <<peers, discussions, nextSession, registrations>>

-----------------------------------------------------------------------------
CompanionsNext ==
    \/ \E p \in Peers : RegisterPeer(p) \/ SendMessage(p)
    \/ \E d \in Topics :
        \/ \E invited \in SUBSET Peers : StartDiscussion(d, invited)
        \/ \E p \in Speakers : AddOpinion(d, p)
        \/ \E conclusion \in {"first", "second"} : Conclude(d, conclusion)
    \/ CompanionsTick
    \/ \E u \in People : UseSession(u) \/ EndSession(u)

CompanionsSpec == CompanionsInit /\ [][CompanionsNext]_companionVars

-----------------------------------------------------------------------------
(* Properties *)

\* A discussion that is concluded is never reopened and its opinions stay as they are,
\* whatever is sent for it later.
ConcludedIsClosed ==
    [][\A d \in DOMAIN discussions :
          discussions[d].status = "concluded"
            => /\ discussions'[d].status = "concluded"
               /\ discussions'[d].authors = discussions[d].authors]_companionVars

\* A session that was not used for the time of the limit is not revived: it stays unused
\* until it is replaced by another or removed.
ExpiredNotRevived ==
    [][\A u \in People :
          sessions[u].id # 0 /\ sessions[u].idle > Timeout
            => sessions'[u] = sessions[u] \/ sessions'[u].id # sessions[u].id]_companionVars

\* What is over, a discussion concluded or a session unused for too long, stays over.
ClosedStaysClosed == ConcludedIsClosed /\ ExpiredNotRevived
=============================================================================
