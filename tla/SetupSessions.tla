---------------------------- MODULE SetupSessions -----------------------------
(***************************************************************************)
(* The sessions that ask a user about himself and what is made of them: the *)
(* boot wizard, the decision sampling and the test bench, each a table of   *)
(* sessions in memory; and the personality they write, row by row and       *)
(* without a transaction, next to the restore and the backup of the clone   *)
(* engine.                                                                  *)
(*                                                                          *)
(* What a row holds is abstracted to where it comes from.                   *)
(***************************************************************************)
EXTENDS Integers, Sequences, FiniteSets

CONSTANTS
    Wizards, Samplings, Benches,    \* ids of the sessions of each kind
    Calls,          \* requests for a result, a restore or a backup
    Length,         \* questions of a session
    ValueRows,      \* a sequence: the rows of values_system an analysis names
    Analyses,       \* what the model's analysis may name: values, then what is inserted
    MaxFaults,      \* bound: errors of the database
    MaxStarted,     \* bound: sessions that are started
    MaxAsked,       \* bound: requests that are made in all
    None

Sessions == Wizards \cup Samplings \cup Benches
Questions == 1..Length
Values == {ValueRows[i] : i \in DOMAIN ValueRows}
Rows == Values \cup {"ideal"}       \* of the rows, those that properties tell apart

ASSUME SetupAssumption ==
    /\ Length \in Nat \ {0} /\ MaxFaults \in Nat /\ MaxStarted \in Nat /\ MaxAsked \in Nat
    /\ Wizards \cap (Samplings \cup Benches) = {} /\ Samplings \cap Benches = {}
    /\ None \notin Sessions
    /\ ValueRows \in Seq(Values)
    /\ Values \cap {"ideal", "inserts", "ask", "look", "goal"} = {}
    /\ Analyses \subseteq Seq(Values \cup {"inserts"})
    /\ \A parts \in Analyses : \A i \in DOMAIN parts : parts[i] = "inserts" => i = Len(parts)

VARIABLES
    sessions,   \* the tables of sessions of the three engines
    rows,       \* the personality: the source each row was last written from
    inserts,    \* by session: how often its goals and beliefs were inserted
    goals,      \* rows of the goal that only the backup has
    copy,       \* the backup a client holds, by row
    calls,      \* the requests under way
    faults, asked,
    overlap,    \* history: sources that two calls were inserting from at once
    whole       \* history: the source of all the values, if one call wrote them alone

vars == <<sessions, rows, inserts, goals, copy, calls, faults, asked, overlap, whole>>

Blank(state) == [state |-> state, at |-> 1, answered |-> {}, ahead |-> FALSE]

Fresh == Blank("none")
Gone == Blank("gone")

Call(kind, of, todo, data) == [kind |-> kind, of |-> of, todo |-> todo, data |-> data]

Quiet == Call("none", None, <<>>, None)

Sources == Sessions \cup {"initial", "backup"}

ReadParts == <<"values", "ideal">>

Parts == Rows \cup {"inserts", "ask", "look", "goal", "values"}

TypeOK ==
    /\ sessions \in [Sessions -> [state : {"none", "open", "gone"}, at : 1..Length + 1,
                                  answered : SUBSET Questions, ahead : BOOLEAN]]
    /\ rows \in [Rows -> Sources] /\ copy \in [Rows -> Sources]
    /\ inserts \in [Sessions -> Nat] /\ goals \in Nat
    /\ calls \in [Calls -> [kind : {"none", "result", "restore", "backup"},
                            of : Sessions \cup {None}, todo : Seq(Parts),
                            data : {None} \cup [Rows -> Sources]]]
    /\ faults \in 0..MaxFaults /\ asked \in 0..MaxAsked
    /\ overlap \subseteq Sources /\ whole \in Sources \cup {"mixed"}

Init ==
    /\ sessions = [s \in Sessions |-> Fresh]
    /\ rows = [r \in Rows |-> "initial"]
    /\ inserts = [s \in Sessions |-> 0]
    /\ goals = 0
    /\ copy = [r \in Rows |-> "backup"]
    /\ calls = [c \in Calls |-> Quiet]
    /\ faults = 0 /\ asked = 0
    /\ overlap = {}
    /\ whole = "initial"

-----------------------------------------------------------------------------
(* Questions and answers.  Nothing here awaits. *)

Complete(s) == sessions[s].at > Length

Start(s) ==
    /\ sessions[s].state = "none"
    /\ Cardinality({t \in Sessions : sessions[t].state # "none"}) < MaxStarted
    /\ sessions' = [sessions EXCEPT ![s].state = "open"]
    /\ UNCHANGED <<rows, inserts, goals, copy, calls, faults, asked, overlap, whole>>

AnsweredNext(session, q) ==       \* mutant: the index moves on from where it was
    [state |-> session.state, at |-> session.at + 1,
     answered |-> session.answered \cup {q}, ahead |-> session.ahead \/ q > session.at]

Answered(session, q) ==
    [state |-> session.state, at |-> q + 1,
     answered |-> session.answered \cup {q}, ahead |-> session.ahead \/ q > session.at]

\* A complete session takes no further answer, unless the answer names its question.
Answer(s) ==
    /\ sessions[s].state = "open" /\ ~Complete(s)
    /\ sessions' = [sessions EXCEPT ![s] = Answered(@, sessions[s].at)]
    /\ UNCHANGED <<rows, inserts, goals, copy, calls, faults, asked, overlap, whole>>

\* Only the wizard takes the id of a question: it goes there, back or ahead.
AnswerNamed(s, q) ==
    /\ s \in Wizards /\ sessions[s].state = "open"
    /\ sessions' = [sessions EXCEPT ![s] = Answered(@, q)]
    /\ UNCHANGED <<rows, inserts, goals, copy, calls, faults, asked, overlap, whole>>

-----------------------------------------------------------------------------
(* Writing the personality *)

\* What is written one after the other; a wizard writes what its analysis names.  The
\* statements on identity, beliefs and emotion that a wizard and a restore add write
\* rows nothing here tells apart; an error in one of them leaves what an error in the
\* next leaves.
SamplingOrder == <<"ideal">> \o ValueRows
RestoreOrder == ValueRows \o <<"look">>

Pending(c) == {calls[c].todo[i] : i \in DOMAIN calls[c].todo}

Writers == {c \in Calls : calls[c].kind # "backup" /\ Pending(c) \cap Values # {}}

Source(c, r) == IF calls[c].kind = "restore" THEN calls[c].data[r] ELSE calls[c].of

\* The values are of one source when one call writes them all while no other does.
Whole(c, r) ==
    LET begins == Values \subseteq Pending(c)
    IN  IF Writers = {c} /\ (begins \/ whole = Source(c, r)) THEN Source(c, r) ELSE "mixed"

WriteRow(c, r) ==
    /\ rows' = [rows EXCEPT ![r] = Source(c, r)]
    /\ UNCHANGED <<inserts, goals>>

\* Beliefs have no key an INSERT could conflict with, goals neither.
InsertAll(c) ==
    /\ inserts' = [inserts EXCEPT ![calls[c].of] = @ + 1]
    /\ UNCHANGED <<rows, goals>>

\* restore inserts a goal whose title it did not find.
InsertGoal(c) ==
    /\ goals' = goals + 1
    /\ UNCHANGED <<rows, inserts>>

Effect(c, p) ==
    \/ p \in Rows /\ WriteRow(c, p)
    \/ p = "inserts" /\ InsertAll(c)
    \/ p = "goal" /\ InsertGoal(c)
    \/ p \notin Rows \cup {"inserts", "goal"} /\ UNCHANGED <<rows, inserts, goals>>

LeftSkips(c, p) ==                \* mutant: the loop over the values leaves one out
    IF p = ValueRows[1] THEN Tail(Tail(calls[c].todo)) ELSE Tail(calls[c].todo)

\* The parts that are left once p is written; the look at the goals decides on
\* the INSERT that follows.
Left(c, p) ==
    IF p = "look" /\ goals = 0 THEN <<"goal">> \o Tail(calls[c].todo) ELSE Tail(calls[c].todo)

Proceeds(c, todo) ==
    calls' = [calls EXCEPT ![c] = Call(calls[c].kind, calls[c].of, todo, calls[c].data)]

-----------------------------------------------------------------------------
(* Results.  The request of a session that is absent or incomplete returns an  *)
(* error and changes nothing.                                                  *)

Asks == asked < MaxAsked /\ asked' = asked + 1

\* The wizard asks the model, the bench asks it batch by batch, the sampling
\* computes its vector at once.
AskResult(c, s) ==
    /\ calls[c] = Quiet /\ Asks
    /\ sessions[s].state = "open" /\ Complete(s)
    /\ calls' = [calls EXCEPT ![c] =
          Call("result", s, IF s \in Samplings THEN SamplingOrder ELSE <<"ask">>, None)]
    /\ overlap' = IF s \in Wizards /\ \E d \in Calls : calls[d].of = s THEN overlap \cup {s} ELSE overlap
    /\ UNCHANGED <<sessions, rows, inserts, goals, copy, faults, whole>>

Busy(c) == calls[c].todo # <<>>

\* The model answers or not: what it did not give is not written, and without
\* any analysis there is the default.
Analyse(c) ==
    /\ Busy(c) /\ Head(calls[c].todo) = "ask"
    /\ \E parts \in Analyses : Proceeds(c, IF calls[c].of \in Wizards THEN parts ELSE <<>>)
    /\ UNCHANGED <<sessions, rows, inserts, goals, copy, faults, asked, overlap, whole>>

WritePart(c) ==
    /\ calls[c].kind \in {"result", "restore"} /\ Busy(c) /\ Head(calls[c].todo) # "ask"
    /\ LET p == Head(calls[c].todo)
       IN  /\ Effect(c, p) /\ Proceeds(c, Left(c, p))
           /\ whole' = IF p \in Values THEN Whole(c, p) ELSE whole
    /\ UNCHANGED <<sessions, copy, faults, asked, overlap>>

\* A statement raises, applied or not.  The wizard swallows it and goes on to the
\* end of its session; the others leave the session and the rest of the rows.
WriteRaises(c) ==
    /\ calls[c].kind \in {"result", "restore"} /\ Busy(c) /\ Head(calls[c].todo) # "ask"
    /\ faults < MaxFaults /\ faults' = faults + 1
    /\ LET p == Head(calls[c].todo)
       IN  Effect(c, p) \/ UNCHANGED <<rows, inserts, goals>>
    /\ whole' = IF Writers = {} THEN whole ELSE "mixed"
    /\ IF calls[c].of \in Wizards THEN Proceeds(c, <<>>) ELSE calls' = [calls EXCEPT ![c] = Quiet]
    /\ UNCHANGED <<sessions, copy, asked, overlap>>

CloseKeeps(c) ==                  \* mutant: the session stays in the table
    /\ calls[c].kind = "result" /\ ~Busy(c)
    /\ calls' = [calls EXCEPT ![c] = Quiet]
    /\ UNCHANGED <<sessions, rows, inserts, goals, copy, faults, asked, overlap, whole>>

\* The end of a result: the session is deleted.  When another result has deleted
\* it, the request raises.
Close(c) ==
    /\ calls[c].kind = "result" /\ ~Busy(c)
    /\ sessions' = [sessions EXCEPT ![calls[c].of] = Gone]
    /\ calls' = [calls EXCEPT ![c] = Quiet]
    /\ UNCHANGED <<rows, inserts, goals, copy, faults, asked, overlap, whole>>

-----------------------------------------------------------------------------
(* Clone engine *)

Restore(c) ==
    /\ calls[c] = Quiet /\ Asks
    /\ calls' = [calls EXCEPT ![c] = Call("restore", None, RestoreOrder, copy)]
    /\ overlap' = IF \E d \in Calls : calls[d].kind = "restore"
                  THEN overlap \cup {"backup"} ELSE overlap
    /\ UNCHANGED <<sessions, rows, inserts, goals, copy, faults, whole>>

Restored(c) ==
    /\ calls[c].kind = "restore" /\ ~Busy(c)
    /\ calls' = [calls EXCEPT ![c] = Quiet]
    /\ UNCHANGED <<sessions, rows, inserts, goals, copy, faults, asked, overlap, whole>>

\* backup reads part after part; an error among them gives no backup.
Backup(c) ==
    /\ calls[c] = Quiet /\ Asks
    /\ calls' = [calls EXCEPT ![c] = Call("backup", None, ReadParts, copy)]
    /\ UNCHANGED <<sessions, rows, inserts, goals, copy, faults, overlap, whole>>

RowsOf(p) == IF p = "values" THEN Values ELSE {p} \cap Rows

ReadPart(c) ==
    /\ calls[c].kind = "backup" /\ Busy(c)
    /\ LET read == RowsOf(Head(calls[c].todo))
       IN  calls' = [calls EXCEPT ![c] =
               Call("backup", None, Tail(calls[c].todo),
                    [r \in Rows |-> IF r \in read THEN rows[r] ELSE calls[c].data[r]])]
    /\ UNCHANGED <<sessions, rows, inserts, goals, copy, faults, asked, overlap, whole>>

ReadRaises(c) ==
    /\ calls[c].kind = "backup" /\ Busy(c)
    /\ faults < MaxFaults /\ faults' = faults + 1
    /\ calls' = [calls EXCEPT ![c] = Quiet]
    /\ UNCHANGED <<sessions, rows, inserts, goals, copy, asked, overlap, whole>>

BackedUp(c) ==
    /\ calls[c].kind = "backup" /\ ~Busy(c)
    /\ copy' = calls[c].data
    /\ calls' = [calls EXCEPT ![c] = Quiet]
    /\ UNCHANGED <<sessions, rows, inserts, goals, faults, asked, overlap, whole>>

-----------------------------------------------------------------------------
Proceed(c) ==
    Analyse(c) \/ WritePart(c) \/ Close(c) \/ Restored(c) \/ ReadPart(c) \/ BackedUp(c)

Next ==
    \/ \E s \in Sessions :
        \/ Start(s) \/ Answer(s)
        \/ \E q \in Questions : AnswerNamed(s, q)
        \/ \E c \in Calls : AskResult(c, s)
    \/ \E c \in Calls :
        Proceed(c) \/ WriteRaises(c) \/ Restore(c) \/ Backup(c) \/ ReadRaises(c)

Spec == Init /\ [][Next]_vars

\* A request under way goes on; the model answers or its client times out.
FairSpec == Spec /\ \A c \in Calls : WF_vars(Proceed(c))

-----------------------------------------------------------------------------
(* Properties *)

\* A session whose questions are over has an answer to each of them, in whatever
\* order it went back, unless an answer named a question ahead of its turn.
CompleteIsAnswered ==
    \A s \in Sessions :
        Complete(s) /\ ~sessions[s].ahead => sessions[s].answered = Questions

\* However often a result is asked for, the goals of a session are inserted once,
\* and a goal of a backup too, unless two such requests were under way at once.
InsertedOnce ==
    /\ \A s \in Sessions : inserts[s] > 1 => s \in overlap
    /\ goals > 1 => "backup" \in overlap

\* The values are those of one analysis, vector or backup when one call wrote them
\* all, undisturbed and without an error.
ValuesOfOneSource ==
    whole # "mixed" /\ Writers = {} => \A v \in Values : rows[v] = whole

\* Whoever asks for the result of a wizard or a bench, and whatever fails, its session ends.
ResultCloses ==
    \A s \in Wizards \cup Benches :
        (\E c \in Calls : calls[c].of = s) ~> sessions[s].state = "gone"
=============================================================================
