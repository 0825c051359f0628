------------------------------ MODULE Migrations ------------------------------
(***************************************************************************)
(* The migration runner: at each start of the server, and at the request of *)
(* /migrate/run, the scripts above the highest recorded version are run and *)
(* recorded one after the other.  A script is one transaction, its record   *)
(* another.                                                                 *)
(***************************************************************************)
EXTENDS Integers, FiniteSets

CONSTANTS
    Starter,        \* the run that starts the server
    Runners,        \* requests to /migrate/run
    Latest,         \* the last version; the first one has no script
    MaxBroken,      \* bound: errors of the database and crashes
    MaxRequested    \* bound: requests

Versions == 1..Latest
Migrators == Runners \cup {Starter}

ASSUME MigrationAssumption ==
    /\ Latest \in Nat \ {0} /\ MaxBroken \in Nat /\ MaxRequested \in Nat
    /\ Starter \notin Runners

VARIABLES
    recorded,   \* schema_migrations
    ran,        \* how often each script ran
    work,       \* where each runner is
    broken, requested,
    repeated    \* history: versions two runners worked on together, or one ended without recording

migrationVars == <<recorded, ran, work, broken, requested, repeated>>

Ready == [at |-> "idle", next |-> 1, result |-> "none"]

MigrationTypeOK ==
    /\ recorded \subseteq Versions
    /\ ran \in [Versions -> Nat]
    /\ \A r \in Migrators :
        /\ work[r].at \in {"idle", "read", "mark", "script", "record"}
        /\ work[r].next \in 1..Latest + 1
        /\ work[r].result \in {"none", "migrated", "up_to_date", "error", "raised"}
    /\ broken \in 0..MaxBroken /\ requested \in 0..MaxRequested /\ repeated \subseteq Versions

\* A database that init.sql has set up, the server starting.
MigrationInit ==
    /\ recorded = {}
    /\ ran = [v \in Versions |-> 0]
    /\ work = [r \in Migrators |-> IF r = Starter THEN [Ready EXCEPT !.at = "read"] ELSE Ready]
    /\ broken = 0 /\ requested = 0
    /\ repeated = {}

-----------------------------------------------------------------------------
Highest(vs) == IF vs = {} THEN 0 ELSE CHOOSE v \in vs : \A w \in vs : w <= v

\* Requests are served once the start is over.
RunMigrations(r) ==
    /\ work[r].at = "idle" /\ work[Starter].at = "idle"
    /\ requested < MaxRequested /\ requested' = requested + 1
    /\ repeated' = IF \E s \in Migrators : work[s].at # "idle" THEN Versions ELSE repeated
    /\ work' = [work EXCEPT ![r] = [Ready EXCEPT !.at = "read"]]
    /\ UNCHANGED <<recorded, ran, broken>>

End(r, result) == work' = [work EXCEPT ![r] = [Ready EXCEPT !.result = result]]

Advance(r, v) ==
    work' = [work EXCEPT ![r] = [@ EXCEPT !.at = "script", !.next = v]]

PendingAll(current) == 1          \* mutant: the versions that are there are run again

Pending(current) == current + 1

\* What is pending follows from the version that is read first.
ReadVersion(r) ==
    /\ work[r].at = "read"
    /\ LET current == Highest(recorded)
       IN  IF current = 0 THEN work' = [work EXCEPT ![r].at = "mark"]
           ELSE IF current < Latest THEN Advance(r, Pending(current))
           ELSE End(r, "up_to_date")
    /\ UNCHANGED <<recorded, ran, broken, requested, repeated>>

\* An error of the read is taken for version 0.
ReadFails(r) ==
    /\ work[r].at = "read" /\ broken < MaxBroken /\ broken' = broken + 1
    /\ work' = [work EXCEPT ![r].at = "mark"]
    /\ repeated' = Versions
    /\ UNCHANGED <<recorded, ran, requested>>

\* init.sql has done the work of version 1; it may be marked already.
Mark(r) ==
    /\ work[r].at = "mark"
    /\ recorded' = recorded \cup {1}
    /\ IF Latest > 1 THEN Advance(r, 2) ELSE End(r, "up_to_date")
    /\ UNCHANGED <<ran, broken, requested, repeated>>

Holders(v) == {r \in Migrators : work[r].at = "record" /\ work[r].next = v}

RunScript(r) ==
    /\ work[r].at = "script"
    /\ ran' = [ran EXCEPT ![work[r].next] = @ + 1]
    /\ work' = [work EXCEPT ![r].at = "record"]
    /\ UNCHANGED <<recorded, broken, requested, repeated>>

\* The version is the key of the table: where another runner was faster the INSERT
\* raises and this runner stops.
Record(r) ==
    /\ work[r].at = "record"
    /\ LET v == work[r].next
       IN  /\ recorded' = recorded \cup {v}
           /\ IF v \in recorded THEN End(r, "error")
              ELSE IF v < Latest THEN Advance(r, v + 1)
              ELSE End(r, "migrated")
    /\ UNCHANGED <<ran, broken, requested, repeated>>

GoesOn(r) ==                      \* mutant: the loop goes on with the next script
    IF work[r].at = "mark" THEN End(r, "raised")
    ELSE IF work[r].next < Latest THEN Advance(r, work[r].next + 1) ELSE End(r, "migrated")

\* The first script or record that fails ends the run; before them the error is the caller's.
Stops(r) == End(r, IF work[r].at = "mark" THEN "raised" ELSE "error")

MigrationFails(r) ==
    /\ work[r].at \in {"mark", "script", "record"}
    /\ broken < MaxBroken /\ broken' = broken + 1
    /\ repeated' = IF work[r].at = "record" THEN repeated \cup {work[r].next} ELSE repeated
    /\ Stops(r)
    /\ UNCHANGED <<recorded, ran, requested>>

\* The process dies and is started again.
Restart ==
    /\ broken < MaxBroken /\ broken' = broken + 1
    /\ repeated' = repeated \cup {v \in Versions : Holders(v) # {}}
    /\ work' = [r \in Migrators |-> IF r = Starter THEN [Ready EXCEPT !.at = "read"] ELSE Ready]
    /\ UNCHANGED <<recorded, ran, requested>>

-----------------------------------------------------------------------------
MigrationNext ==
    \/ \E r \in Runners : RunMigrations(r)
    \/ \E r \in Migrators :
        ReadVersion(r) \/ ReadFails(r) \/ Mark(r) \/ RunScript(r) \/ Record(r) \/ MigrationFails(r)
    \/ Restart

MigrationSpec == MigrationInit /\ [][MigrationNext]_migrationVars

-----------------------------------------------------------------------------
(* Properties *)

\* The highest recorded version says that every script up to it has run: no error, crash
\* or second runner lets one be jumped over, for the runner would never return to it.
RecordedWasRun ==
    /\ recorded = 1..Highest(recorded)
    /\ \A v \in recorded \ {1} : ran[v] > 0

\* Who reports success leaves a database of the latest version.
SuccessIsLatest ==
    (\E r \in Migrators : work[r].result \in {"migrated", "up_to_date"}) => recorded = Versions

\* A script runs once, unless two runners were at work together or one ended between its
\* script and its record, or could not read the version: the UPDATE of version 7 would
\* set levels back that were changed since.
RunsOnce == \A v \in Versions : ran[v] > 1 => v \in repeated

\* What schema_version says is what was done: nothing is jumped over, nothing done again
\* without a cause, and success is reported only at the end.
RecordIsTrue == RecordedWasRun /\ SuccessIsLatest /\ RunsOnce
=============================================================================
