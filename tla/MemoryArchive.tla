----------------------------- MODULE MemoryArchive -----------------------------
(***************************************************************************)
(* The archiver: rows older than their table's limit are counted, summed up *)
(* in memory_archive and deleted, by three statements without a             *)
(* transaction, table after table; started by requests and by a scheduler,  *)
(* next to reset-memory, which truncates the same tables.                   *)
(***************************************************************************)
EXTENDS Integers, Sequences, FiniteSets

CONSTANTS
    Archivers,      \* requests for an archive or a reset
    Scheduler,      \* the scheduler's own run, which comes back for ever
    Tables,         \* a sequence: the tables, in the order they are archived
    Dated,          \* tables whose INSERT reads the first date itself
    PerTable,       \* bound: rows of each table
    MaxErrors,      \* bound: errors of the database and crashes
    MaxRuns         \* bound: runs that requests start

Runs == Archivers \cup {Scheduler}
TableNames == {Tables[i] : i \in DOMAIN Tables}
Logged == UNION {{<<t, i>> : i \in 1..PerTable[t]} : t \in TableNames}      \* the rows

ASSUME ArchiveAssumption ==
    /\ Tables \in Seq(TableNames)
    /\ PerTable \in [TableNames -> Nat] /\ MaxErrors \in Nat /\ MaxRuns \in Nat
    /\ Scheduler \notin Archivers /\ Dated \subseteq TableNames

VARIABLES
    log,        \* the state of each row
    counted,    \* summaries that count the row
    runs,       \* what each run has to do and where it is
    errors, started,
    excused     \* history: rows two runs held at once, or a run had summed up when it ended

archiveVars == <<log, counted, runs, errors, started, excused>>

NoRun == [kind |-> "none", todo |-> <<>>, at |-> "none", below |-> {}]

ArchiveTypeOK ==
    /\ log \in [Logged -> {"unwritten", "young", "old", "archived", "truncated"}]
    /\ counted \in [Logged -> Nat]
    /\ \A c \in Runs :
        /\ runs[c].kind \in {"none", "archive", "reset"} /\ runs[c].below \subseteq Logged
        /\ runs[c].at \in {"none", "count", "insert", "delete", "truncate"}
    /\ errors \in 0..MaxErrors /\ started \in 0..MaxRuns
    /\ excused \subseteq Logged

ArchiveInit ==
    /\ log = [r \in Logged |-> "unwritten"]
    /\ counted = [r \in Logged |-> 0]
    /\ runs = [c \in Runs |-> NoRun]
    /\ errors = 0 /\ started = 0
    /\ excused = {}

-----------------------------------------------------------------------------
(* The tables *)

Present(t) == {r \in Logged : r[1] = t /\ log[r] \in {"young", "old"}}
Old(t) == {r \in Present(t) : log[r] = "old"}

WriteLog(r) ==
    /\ log[r] = "unwritten" /\ log' = [log EXCEPT ![r] = "young"]
    /\ UNCHANGED <<counted, runs, errors, started, excused>>

Age(r) ==
    /\ log[r] = "young" /\ log' = [log EXCEPT ![r] = "old"]
    /\ UNCHANGED <<counted, runs, errors, started, excused>>

-----------------------------------------------------------------------------
(* Runs *)

Table(c) == Head(runs[c].todo)

\* The run c goes on with the table after this one, or is over.
Onward(c, first) ==
    IF Len(runs[c].todo) > 1
    THEN [runs[c] EXCEPT !.todo = Tail(@), !.at = first, !.below = {}]
    ELSE NoRun

StartRun(c, kind) ==
    /\ runs[c] = NoRun
    /\ IF c = Scheduler THEN kind = "archive" /\ UNCHANGED started
                        ELSE started < MaxRuns /\ started' = started + 1
    /\ runs' = [runs EXCEPT ![c] = [kind |-> kind, todo |-> Tables, below |-> {},
                                    at |-> IF kind = "archive" THEN "count" ELSE "truncate"]]
    /\ UNCHANGED <<log, counted, errors, excused>>

\* Rows that other runs have counted and not yet deleted.
InHand(c) == UNION {runs[d].below : d \in Runs \ {c}}

\* The cutoff is taken once for the three statements; rows can leave what is below
\* it but none can enter.
Count(c) ==
    /\ runs[c].at = "count"
    /\ runs' = [runs EXCEPT ![c] = IF Old(Table(c)) = {} THEN Onward(c, "count")
                                   ELSE [@ EXCEPT !.at = "insert", !.below = Old(Table(c))]]
    /\ excused' = excused \cup (Old(Table(c)) \cap InHand(c))
    /\ UNCHANGED <<log, counted, errors, started>>

Gone(c) == Dated \cap {Table(c)} # {} /\ runs[c].below \cap Present(Table(c)) = {}

InsertSummary(c) ==
    /\ runs[c].at = "insert" /\ ~Gone(c)
    /\ counted' = [r \in Logged |-> IF r \in runs[c].below THEN counted[r] + 1 ELSE counted[r]]
    /\ runs' = [runs EXCEPT ![c].at = "delete"]
    /\ UNCHANGED <<log, errors, started, excused>>

\* Where the first date is read again it is NULL when the rows are gone, and the
\* column refuses it: the run ends, and the tables after this one are left.
InsertRefused(c) ==
    /\ runs[c].at = "insert" /\ Gone(c)
    /\ runs' = [runs EXCEPT ![c] = NoRun]
    /\ UNCHANGED <<log, counted, errors, started, excused>>

BelowNow(c) == Old(Table(c))      \* mutant: the cutoff is taken again for the DELETE

BelowNone(c) == IF Table(c) \in Dated THEN {} ELSE runs[c].below   \* mutant: not all tables are cleared

Below(c) == runs[c].below

DeleteOld(c) ==
    /\ runs[c].at = "delete"
    /\ log' = [r \in Logged |-> IF r \in Below(c) \cap Present(Table(c)) THEN "archived" ELSE log[r]]
    /\ runs' = [runs EXCEPT ![c] = Onward(c, "count")]
    /\ UNCHANGED <<counted, errors, started, excused>>

\* reset-memory truncates table after table.
Truncate(c) ==
    /\ runs[c].at = "truncate"
    /\ log' = [r \in Logged |-> IF r \in Present(Table(c)) THEN "truncated" ELSE log[r]]
    /\ runs' = [runs EXCEPT ![c] = Onward(c, "truncate")]
    /\ UNCHANGED <<counted, errors, started, excused>>

\* Rows that are summed up and not deleted when c ends here.
Unfinished(c) == IF runs[c].at = "delete" THEN runs[c].below ELSE {}

\* A statement raises.  An archive ends there: a request fails, the scheduler logs
\* it and sleeps.  A reset notes the table and goes on.
StatementRaises(c) ==
    /\ runs[c].at # "none" /\ errors < MaxErrors /\ errors' = errors + 1
    /\ runs' = [runs EXCEPT ![c] = IF @.kind = "reset" THEN Onward(c, "truncate") ELSE NoRun]
    /\ excused' = excused \cup Unfinished(c)
    /\ UNCHANGED <<log, counted, started>>

Crash ==
    /\ errors < MaxErrors /\ errors' = errors + 1
    /\ \E c \in Runs : runs[c] # NoRun
    /\ runs' = [c \in Runs |-> NoRun]
    /\ excused' = excused \cup UNION {Unfinished(c) : c \in Runs}
    /\ UNCHANGED <<log, counted, started>>

-----------------------------------------------------------------------------
RunStep(c) == Count(c) \/ InsertSummary(c) \/ InsertRefused(c) \/ DeleteOld(c) \/ Truncate(c)

ReturnsNever == FALSE             \* mutant: the scheduler's loop is not entered again

Returns == StartRun(Scheduler, "archive")

ArchiveNext ==
    \/ \E r \in Logged : WriteLog(r) \/ Age(r)
    \/ \E c \in Archivers, kind \in {"archive", "reset"} : StartRun(c, kind)
    \/ Returns
    \/ \E c \in Runs : RunStep(c) \/ StatementRaises(c)
    \/ Crash

ArchiveSpec == ArchiveInit /\ [][ArchiveNext]_archiveVars

-----------------------------------------------------------------------------
(* Properties *)

\* Whatever runs overlap, fail or are cut off by a reset, a row the archiver deleted
\* is counted by a summary.
ArchivedIsCounted == \A r \in Logged : log[r] = "archived" => counted[r] > 0

\* No row is counted by two summaries, unless two runs had it in hand at once or a
\* run ended after its summary and before its DELETE.
CountedOnce == \A r \in Logged : counted[r] > 1 => r \in excused

\* With the scheduler coming back for ever, every old row leaves its table in the end,
\* through any error and crash.
OldRowsLeave == \A r \in Logged : log[r] = "old" ~> log[r] \in {"archived", "truncated"}

\* A row the archiver deleted was counted, and no row was counted twice but where the three
\* statements of two runs, or of a run and its repetition, allow it.
ArchivedOnce == ArchivedIsCounted /\ CountedOnce
=============================================================================
