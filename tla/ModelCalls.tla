------------------------------ MODULE ModelCalls ------------------------------
(***************************************************************************)
(* Calls of the language model through Gemini: the limiter of the requests *)
(* of a minute, the retries of generate, the calls with tools that fall back *)
(* to it, and the streams, whose requests run in threads of their own.        *)
(*                                                                         *)
(* A call that is not a stream runs on the event loop and gives it up only   *)
(* between two attempts: the limiter sleeps and Gemini is asked without an   *)
(* await.  A thread may be switched at any step of the limiter.              *)
(***************************************************************************)
EXTENDS Integers, Sequences, FiniteSets

CONSTANTS
    Generators,     \* calls of generate or generate_with_tools
    Streams,        \* calls of generate_stream
    PerMinute,      \* requests of a minute: 15
    Minute,         \* ticks of a minute
    Chunks,         \* bound: chunks of a stream
    MaxCalls        \* bound: calls

Attempts == 3       \* retries + 1
Users == Generators \cup Streams
Nobody == "nobody"

ASSUME CallsAssumption ==
    /\ PerMinute \in Nat \ {0} /\ Minute \in Nat \ {0} /\ Chunks \in Nat /\ MaxCalls \in Nat
    /\ Generators \cap Streams = {} /\ Nobody \notin Users

VARIABLES
    count,      \* _rpm_count
    age,        \* the time since _rpm_start, up to a minute and a tick
    users,      \* where each call is
    loop,       \* the call that has the event loop
    queue,      \* the chunks of each stream between its thread and its reader
    passed,     \* history: requests the limiter has passed since _rpm_start was set
    mixed,      \* history: whether two calls were in the limiter at once in this minute
    calls

callVars == <<count, age, users, loop, queue, passed, mixed, calls>>

NoCall == [at |-> "idle", kind |-> "none", tries |-> 0, read |-> 0, left |-> 0]

NoStream == [chunks |-> <<>>, made |-> 0, reader |-> "gone"]

Limiter == {"load", "store", "sleep", "one", "start"}      \* places inside _rate_limit

CallsTypeOK ==
    /\ count \in Nat /\ age \in 0..Minute + 1
    /\ \A u \in Users :
        /\ users[u].at \in Limiter \cup {"idle", "enter", "ask", "backoff", "produce", "joining"}
        /\ users[u].kind \in {"none", "plain", "tools", "stream"}
        /\ users[u].tries \in 0..Attempts /\ users[u].left \in 0..Minute
    /\ loop \in Generators \cup {Nobody}
    /\ \A s \in Streams :
        /\ queue[s].made \in 0..Chunks
        /\ queue[s].reader \in {"reading", "done", "gone"}
    /\ passed \in Nat /\ mixed \in BOOLEAN /\ calls \in 0..MaxCalls

CallsInit ==
    /\ count = 0 /\ age = 0
    /\ users = [u \in Users |-> NoCall] /\ loop = Nobody
    /\ queue = [s \in Streams |-> NoStream]
    /\ passed = 0 /\ mixed = FALSE /\ calls = 0

-----------------------------------------------------------------------------
Inside(u) == users[u].at \in Limiter

Running(u) == u \in Streams \/ loop = u

\* The clock; a sleep of a thread or of the loop goes on with it.
CallsTick ==
    /\ age <= Minute \/ \E u \in Users : users[u].at = "sleep" /\ users[u].left > 0
    /\ age' = IF age > Minute THEN age ELSE age + 1
    /\ users' = [u \in Users |->
          IF users[u].at = "sleep" /\ users[u].left > 0 THEN [users[u] EXCEPT !.left = @ - 1]
          ELSE users[u]]
    /\ UNCHANGED <<count, loop, queue, passed, mixed, calls>>

CallModel(u, kind) ==
    /\ users[u] = NoCall /\ calls < MaxCalls /\ calls' = calls + 1
    /\ IF u \in Streams
       THEN /\ kind = "stream" /\ queue[u].reader = "gone"
            /\ queue' = [queue EXCEPT ![u] = [NoStream EXCEPT !.reader = "reading"]]
            /\ UNCHANGED loop
       ELSE /\ kind \in {"plain", "tools"} /\ loop = Nobody /\ loop' = u
            /\ UNCHANGED queue
    /\ users' = [users EXCEPT ![u].at = "enter", ![u].kind = kind]
    /\ UNCHANGED <<count, age, passed, mixed>>

-----------------------------------------------------------------------------
(* _rate_limit *)

\* The first read of the clock, and a new minute when the last is over.
EnterLimiter(u) ==
    /\ users[u].at = "enter" /\ Running(u)
    /\ LET over == age > Minute
           alone == ~ \E v \in Users \ {u} : Inside(v)
       IN  /\ count' = IF over THEN 0 ELSE count
           /\ age' = IF over THEN 0 ELSE age
           /\ passed' = IF over THEN 0 ELSE passed
           /\ mixed' = (~alone \/ (mixed /\ ~over))
    /\ users' = [users EXCEPT ![u].at = "load"]
    /\ UNCHANGED <<loop, queue, calls>>

\* `_rpm_count += 1` reads and then writes.
LoadCount(u) ==
    /\ users[u].at = "load"
    /\ users' = [users EXCEPT ![u].at = "store", ![u].read = count]
    /\ UNCHANGED <<count, age, loop, queue, passed, mixed, calls>>

TooMany(n) == n > PerMinute

Pass(u) == users' = [users EXCEPT ![u].at = IF u \in Streams THEN "produce" ELSE "ask"]

\* Sixty seconds after the start of the minute, and one second at the least.
Remaining == IF Minute - age > 1 THEN Minute - age ELSE 1

StoreCount(u) ==
    /\ users[u].at = "store"
    /\ count' = users[u].read + 1
    /\ IF TooMany(count')
       THEN users' = [users EXCEPT ![u].at = "sleep", ![u].left = Remaining] /\ UNCHANGED passed
       ELSE Pass(u) /\ passed' = passed + 1
    /\ UNCHANGED <<age, loop, queue, mixed, calls>>

FirstOfMinuteZero == 0            \* mutant: the sleeper's own request is not counted

FirstOfMinute == 1

AfterSleep(u) ==
    /\ users[u].at = "sleep" /\ users[u].left = 0
    /\ count' = FirstOfMinute
    /\ users' = [users EXCEPT ![u].at = "start"]
    /\ UNCHANGED <<age, loop, queue, passed, mixed, calls>>

StartMinute(u) ==
    /\ users[u].at = "start"
    /\ age' = 0 /\ passed' = 1
    /\ mixed' = \E v \in Users \ {u} : Inside(v)
    /\ Pass(u)
    /\ UNCHANGED <<count, loop, queue, calls>>

-----------------------------------------------------------------------------
(* generate and generate_with_tools *)

FinishCall(u) == users' = [users EXCEPT ![u] = NoCall] /\ loop' = Nobody

\* A text or a function call.
Answered(u) ==
    /\ users[u].at = "ask" /\ FinishCall(u)
    /\ UNCHANGED <<count, age, queue, passed, mixed, calls>>

LastTry(u) == users[u].tries = Attempts - 1

\* An error: the call with tools falls back to generate, generate tries again after a
\* while, and gives up after the last attempt.
AskFails(u) ==
    /\ users[u].at = "ask"
    /\ IF users[u].kind = "tools"
       THEN users' = [users EXCEPT ![u].at = "enter", ![u].kind = "plain"] /\ UNCHANGED loop
       ELSE IF LastTry(u) THEN FinishCall(u)
       ELSE /\ users' = [users EXCEPT ![u].at = "backoff", ![u].tries = @ + 1]
            /\ loop' = Nobody
    /\ UNCHANGED <<count, age, queue, passed, mixed, calls>>

\* asyncio.sleep is over and the loop is this call's again.
Retry(u) ==
    /\ users[u].at = "backoff" /\ loop = Nobody /\ loop' = u
    /\ users' = [users EXCEPT ![u].at = "enter"]
    /\ UNCHANGED <<count, age, queue, passed, mixed, calls>>

-----------------------------------------------------------------------------
(* generate_stream *)

Chunk(s) ==
    /\ users[s].at = "produce" /\ queue[s].made < Chunks
    /\ queue' = [queue EXCEPT ![s] = [chunks |-> Append(@.chunks, "chunk"), made |-> @.made + 1,
                                     reader |-> @.reader]]
    /\ UNCHANGED <<count, age, users, loop, passed, mixed, calls>>

EndOfStreamOpen(failed) == IF failed THEN <<"error">> ELSE <<>>   \* mutant: no sentinel

EndOfStream(failed) == IF failed THEN <<"error", "end">> ELSE <<"end">>

\* The thread ends: a failure is put into the queue before the sentinel.
ThreadEnds(s, failed) ==
    /\ users[s].at = "produce"
    /\ queue' = [queue EXCEPT ![s].chunks = @ \o EndOfStream(failed)]
    /\ users' = [users EXCEPT ![s].at = "joining"]
    /\ UNCHANGED <<count, age, loop, passed, mixed, calls>>

\* The reader polls on the event loop, and ends at the sentinel or at a failure.
ReadChunk(s) ==
    /\ queue[s].reader = "reading" /\ queue[s].chunks # <<>> /\ loop = Nobody
    /\ queue' = [queue EXCEPT ![s] =
          IF Head(@.chunks) = "chunk"
          THEN [@ EXCEPT !.chunks = Tail(queue[s].chunks)]
          ELSE [@ EXCEPT !.chunks = Tail(queue[s].chunks), !.reader = "done"]]
    /\ UNCHANGED <<count, age, users, loop, passed, mixed, calls>>

\* The client has gone: nobody reads on, the thread runs to its end.
ReaderLeaves(s) ==
    /\ queue[s].reader = "reading" /\ loop = Nobody
    /\ queue' = [queue EXCEPT ![s].reader = "gone"]
    /\ UNCHANGED <<count, age, users, loop, passed, mixed, calls>>

\* The thread is gone, and its stream with it once nobody reads.
Join(s) ==
    /\ users[s].at = "joining" /\ queue[s].reader # "reading"
    /\ users' = [users EXCEPT ![s] = NoCall]
    /\ queue' = [queue EXCEPT ![s] = NoStream]
    /\ UNCHANGED <<count, age, loop, passed, mixed, calls>>

-----------------------------------------------------------------------------
LimiterStep(u) ==
    EnterLimiter(u) \/ LoadCount(u) \/ StoreCount(u) \/ AfterSleep(u) \/ StartMinute(u)

UserStep(u) ==
    LimiterStep(u) \/ Answered(u) \/ AskFails(u) \/ Retry(u)

StreamStep(s) == ThreadEnds(s, FALSE) \/ ReadChunk(s) \/ Join(s)

CallsNext ==
    \/ CallsTick
    \/ \E u \in Users, kind \in {"plain", "tools", "stream"} : CallModel(u, kind)
    \/ \E u \in Users : UserStep(u)
    \/ \E s \in Streams : StreamStep(s) \/ ThreadEnds(s, TRUE) \/ Chunk(s) \/ ReaderLeaves(s)

CallsSpec == CallsInit /\ [][CallsNext]_callVars

-----------------------------------------------------------------------------
(* Properties *)

\* Of the requests of a minute as the limiter counts it, no more than the limit pass,
\* unless two calls were in the limiter at once: whoever slept counts himself into
\* the minute he begins.
UnderLimit == mixed \/ passed <= PerMinute

\* Calls that no more are added to are all over in the end: no sleep of the limiter,
\* retry, thread or reader that left keeps one for ever, nor the event loop.
CallsEnd == []<>(loop = Nobody /\ \A u \in Users : users[u] = NoCall)
=============================================================================
