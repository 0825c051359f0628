----------------------------- MODULE DailyRounds -----------------------------
(***************************************************************************)
(* What comes back by the clock: the thinker's loop, which thinks at a fixed *)
(* distance and writes a briefing when its check falls into hour 0; the mail *)
(* loop, which sleeps until the hour of the daily mail; and the requests that *)
(* read a stored briefing or have one made.                                  *)
(*                                                                         *)
(* The clock counts ticks of a day that comes round; a day is told from the *)
(* days before it only.                                                     *)
(***************************************************************************)
EXTENDS Integers, FiniteSets

CONSTANTS
    Askers,         \* requests for a briefing
    Hour, Hours,    \* ticks of an hour, hours of a day
    Interval,       \* AUTO_THINK_INTERVAL_HOURS
    Delay,          \* ticks from the start to the first session
    SendHour,       \* DAILY_BRIEF_HOUR
    Longest,        \* ticks a generation takes at most
    Late,           \* ticks a sleeper wakes late at most
    MaxRestarts     \* bound: restarts of the server

Day == Hour * Hours

ASSUME RoundsAssumption ==
    /\ Hour \in Nat \ {0} /\ Hours \in Nat \ {0} /\ Interval \in Nat \ {0}
    /\ Delay \in Nat /\ Longest \in Nat \ {0} /\ Late \in Nat /\ MaxRestarts \in Nat
    /\ SendHour \in 0..Hours - 1 /\ SendHour * Hour + Late < Day

\* The columns of thought_log.
ThoughtColumns ==
    {"id", "session_id", "thought_type", "input_summary", "reasoning_chain", "conclusion",
     "confidence", "values_applied", "created_at"}

VARIABLES
    now,        \* the tick of the day
    thinker,    \* where the thinker's loop is, and the ticks it has left there
    mailer,     \* the ticks until the mail loop wakes
    briefs,     \* the days of the stored briefings: today, or earlier
    askers,     \* where each request is, and what it asks for
    briefed,    \* briefings the loop has begun today, since the last start
    rounds,     \* rounds of the mail loop today, since the last start
    mailed,     \* whether today's mail was sent
    restarts

roundsVars == <<now, thinker, mailer, briefs, askers, briefed, rounds, mailed, restarts>>

Quiet == [at |-> "idle", day |-> "today", left |-> 0]

RoundsTypeOK ==
    /\ now \in 0..Day - 1
    /\ thinker \in [at : {"asleep", "thinking", "briefing"}, day : {"today", "earlier"},
                    left : -Late..Interval * Hour + Delay + Longest]
    /\ mailer \in -Late..Day
    /\ briefs \subseteq {"today", "earlier"}
    /\ askers \in [Askers -> [at : {"idle", "reading", "briefing"},
                              day : {"today", "earlier", "latest"}, left : 0..Longest]]
    /\ briefed \in 0..2 /\ rounds \in 0..2 /\ mailed \in BOOLEAN
    /\ restarts \in 0..MaxRestarts

\* The ticks until the hour of the mail; at that hour itself a whole day.
Wait(t) == LET target == SendHour * Hour
           IN  IF t >= target THEN target + Day - t ELSE target - t

RoundsInit ==
    /\ now \in 0..Day - 1
    /\ thinker = [at |-> "asleep", day |-> "today", left |-> Delay] /\ mailer = Wait(now)
    /\ briefs \in SUBSET {"today", "earlier"}
    /\ askers = [c \in Askers |-> Quiet]
    /\ briefed = 0 /\ rounds = 0 /\ mailed = FALSE
    /\ restarts = 0

-----------------------------------------------------------------------------
(* The clock *)

Busy(at) == at \notin {"idle", "asleep"}

Aged(p, midnight) ==
    [p EXCEPT !.left = @ - 1, !.day = IF midnight /\ @ = "today" THEN "earlier" ELSE @]

\* A generation ends in time and a sleeper wakes almost in time.
RoundsTick ==
    /\ IF Busy(thinker.at) THEN thinker.left > 0 ELSE thinker.left > -Late
    /\ mailer > -Late
    /\ \A c \in Askers : Busy(askers[c].at) => askers[c].left > 0
    /\ LET midnight == now = Day - 1
       IN  /\ now' = (now + 1) % Day
           /\ thinker' = Aged(thinker, midnight)
           /\ mailer' = mailer - 1
           /\ askers' = [c \in Askers |-> IF Busy(askers[c].at) THEN Aged(askers[c], midnight)
                                                                 ELSE askers[c]]
           /\ briefs' = IF midnight /\ briefs # {} THEN {"earlier"} ELSE briefs
           /\ briefed' = IF midnight THEN 0 ELSE briefed
           /\ rounds' = IF midnight THEN 0 ELSE rounds
           /\ mailed' = (mailed /\ ~midnight)
    /\ UNCHANGED restarts

-----------------------------------------------------------------------------
(* The thinker's loop *)

ThinkerWakes ==
    /\ thinker.at = "asleep" /\ thinker.left <= 0
    /\ thinker' = [at |-> "thinking", day |-> "today", left |-> Longest]
    /\ UNCHANGED <<now, mailer, briefs, askers, briefed, rounds, mailed, restarts>>

MidnightHourTwo == now \div Hour \in {0, 1}     \* mutant: the hour after it as well

MidnightHour == now \div Hour = 0

RestingNever == [at |-> "ended", day |-> "today", left |-> Day]   \* mutant: an error ends the loop

Resting == [at |-> "asleep", day |-> "today", left |-> Interval * Hour]

\* The session is over: an error of the model has become its text, an error of the
\* database is logged.  The clock is read after it, and minute < 65 always holds.
SessionEnds ==
    /\ thinker.at = "thinking"
    /\ IF MidnightHour
       THEN /\ thinker' = [at |-> "briefing", day |-> "today", left |-> Longest]
            /\ briefed' = briefed + 1
       ELSE thinker' = Resting /\ UNCHANGED briefed
    /\ UNCHANGED <<now, mailer, briefs, askers, rounds, mailed, restarts>>

\* A briefing is stored under the day it was begun on, a text that says the model has
\* failed like any other; an error of the INSERT is logged and the briefing not stored.
LoopBriefs(stored) ==
    /\ thinker.at = "briefing"
    /\ briefs' = IF stored THEN briefs \cup {thinker.day} ELSE briefs
    /\ thinker' = Resting
    /\ UNCHANGED <<now, mailer, askers, briefed, rounds, mailed, restarts>>

-----------------------------------------------------------------------------
(* Requests *)

\* GET /brief/daily, of a day or the latest.
GetBrief(c, day) ==
    /\ askers[c] = Quiet
    /\ askers' = [askers EXCEPT ![c] = [at |-> "reading", day |-> day, left |-> Longest]]
    /\ UNCHANGED <<now, thinker, mailer, briefs, briefed, rounds, mailed, restarts>>

Stored(day) == IF day = "latest" THEN briefs # {} ELSE day \in briefs

Generating == [at |-> "briefing", day |-> "today", left |-> Longest]

\* What is not stored, or could not be read, is made: for today, whatever day was asked.
ReadBrief(c, readable) ==
    /\ askers[c].at = "reading"
    /\ askers' = [askers EXCEPT ![c] = IF readable /\ Stored(askers[c].day) THEN Quiet ELSE Generating]
    /\ UNCHANGED <<now, thinker, mailer, briefs, briefed, rounds, mailed, restarts>>

\* POST /brief/daily.
PostBrief(c) ==
    /\ askers[c] = Quiet
    /\ askers' = [askers EXCEPT ![c] = Generating]
    /\ UNCHANGED <<now, thinker, mailer, briefs, briefed, rounds, mailed, restarts>>

BriefMade(c, stored) ==
    /\ askers[c].at = "briefing"
    /\ briefs' = IF stored THEN briefs \cup {askers[c].day} ELSE briefs
    /\ askers' = [askers EXCEPT ![c] = Quiet]
    /\ UNCHANGED <<now, thinker, mailer, briefed, rounds, mailed, restarts>>

-----------------------------------------------------------------------------
(* The mail loop *)

\* The query of the latest insight asks thought_log for its content, a column it has
\* not: it raises, which is logged, before the mail is sent.
MailDailyBrief ==
    /\ mailer <= 0
    /\ mailed' = (mailed \/ "content" \in ThoughtColumns)
    /\ rounds' = rounds + 1
    /\ mailer' = Wait(now)
    /\ UNCHANGED <<now, thinker, briefs, askers, briefed, restarts>>

\* The server is started anew.
Reboot ==
    /\ restarts < MaxRestarts /\ restarts' = restarts + 1
    /\ thinker' = [at |-> "asleep", day |-> "today", left |-> Delay] /\ mailer' = Wait(now)
    /\ askers' = [c \in Askers |-> Quiet]
    /\ briefed' = 0 /\ rounds' = 0
    /\ UNCHANGED <<now, briefs, mailed>>

-----------------------------------------------------------------------------
LoopStep == ThinkerWakes \/ SessionEnds \/ \E stored \in BOOLEAN : LoopBriefs(stored)

AskerStep(c) == \E ok \in BOOLEAN : ReadBrief(c, ok) \/ BriefMade(c, ok)

RoundsNext ==
    \/ RoundsTick \/ LoopStep \/ MailDailyBrief \/ Reboot
    \/ \E c \in Askers :
        \/ \E day \in {"today", "earlier", "latest"} : GetBrief(c, day)
        \/ PostBrief(c) \/ AskerStep(c)

\* The clock goes on, timers go off, and the model and the database answer or fail in
\* the end: their calls have timeouts.
RoundsFairness ==
    /\ WF_roundsVars(RoundsTick) /\ WF_roundsVars(LoopStep) /\ WF_roundsVars(MailDailyBrief)
    /\ \A c \in Askers : WF_roundsVars(AskerStep(c))

RoundsSpec == RoundsInit /\ [][RoundsNext]_roundsVars /\ RoundsFairness

-----------------------------------------------------------------------------
(* Properties *)

\* Since the day began, or the server was started, the thinker's loop has made at most one
\* briefing and the mail loop at most one round, however long the sessions take and however
\* late the loops wake.
OncePerDay == briefed <= 1 /\ rounds <= 1

\* No error of the model or the database ends the loops: the thinker thinks and the
\* mail loop makes its round again and again.
RoundsReturn == []<>(thinker.at = "thinking") /\ []<>(rounds > 0)

\* The daily mail is sent, day after day (the docstring of the mail loop).
BriefIsMailed == []<>mailed
=============================================================================
