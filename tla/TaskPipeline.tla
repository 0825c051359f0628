----------------------------- MODULE TaskPipeline -----------------------------
(***************************************************************************)
(* The asynchronous task pipeline of cocoro-core: the requests that create *)
(* tasks, the `tasks` table, the Redis list that carries jobs to the       *)
(* workers, WorkerManager.execute, the result keys a client polls,         *)
(* the delegation of a task to another agent, the EventBus, and the record *)
(* of completed and failed tasks kept per agent.                           *)
(*                                                                         *)
(* The program is one asyncio process: a step here is what happens between *)
(* two awaits.  PostgreSQL and Redis outlive the process.  A task stands   *)
(* for its id, title and payload; AgentOf is the agent its payload names   *)
(* or, when it names none, the one TaskRouter.route picks, and Urgent is   *)
(* the set of tasks submitted with priority <= 3.                          *)
(***************************************************************************)
EXTENDS Naturals, Sequences, FiniteSets

CONSTANTS
    Tasks,       \* ids of the tasks that clients may create
    Workers,     \* the _worker_loop coroutines
    Callers,     \* request handlers that run WorkerManager.execute themselves
    Streams,     \* those of them that answer by a stream, whose client may leave
    Agents,      \* agent types
    Registered,  \* agent types with a row in agent_registry
    Urgent,      \* tasks whose priority is at most 3
    AgentOf,     \* the agent that executes a task
    Operations,  \* the requests clients make in this instance
    Faults,      \* the kinds of faults that may occur in this instance
    MaxFaults,   \* bound: how many faults one behaviour contains
    NoTask, NoAgent

Executors == Workers \cup Callers

ASSUME PipelineAssumption ==
    /\ Workers \cap Callers = {} /\ Streams \subseteq Callers
    /\ Registered \subseteq Agents
    /\ Urgent \subseteq Tasks
    /\ AgentOf \in [Tasks -> Agents]
    /\ Operations \subseteq {"submit", "create", "direct", "delegate", "reset"}
    /\ Faults \subseteq {"db", "redis", "crash", "shutdown", "evict", "listener"}
    /\ MaxFaults \in Nat
    /\ NoTask \notin Tasks
    /\ NoAgent \notin Agents

VARIABLES
    row,          \* tasks.status, or "absent"
    delegating,   \* delegations recorded, whose UPDATE tasks is still to come
    delegatedTo,  \* the agent a task was last delegated to
    queue,        \* the Redis list cocoro:task_queue
    result,       \* the Redis keys cocoro:task_result:<id>
    request,      \* how far the request that creates a task has come
    at, job,      \* where an executor is, and the task it holds
    phase,        \* "up", or "stopping" once the lifespan's shutdown has begun
    listening,    \* whether the EventBus listener runs
    events,       \* events published and not handled yet
    credit,       \* agent_registry.tasks_completed and tasks_failed
    faults,       \* number of faults so far (bounded by MaxFaults)
    announced,    \* history: the events published about a task
    lost,         \* history: tasks whose way through the pipeline was cut short
    wiped         \* history: tasks whose row /admin/reset-memory removed

dbVars    == <<row, delegating, delegatedTo>>
redisVars == <<queue, result>>
execVars  == <<at, job>>
busVars   == <<listening, events, credit, announced>>
vars == <<dbVars, redisVars, request, execVars, phase, busVars, faults, lost, wiped>>

Verdicts == {"done", "failed"}
Status   == {"pending", "queued", "running", "absent"} \cup Verdicts
Requests == {"new", "inserted", "accepted", "refused", "created", "direct", "left"}
Places   == {"idle", "taken", "generating", "storing", "announcing", "erring",
             "announcingFailure", "backoff"} \cup Verdicts

TypeOK ==
    /\ row \in [Tasks -> Status]
    /\ delegating \in [Tasks -> Agents \cup {NoAgent}]
    /\ delegatedTo \in [Tasks -> Agents \cup {NoAgent}]
    /\ queue \in Seq(Tasks)
    /\ result \in [Tasks -> Verdicts \cup {"none"}]
    /\ request \in [Tasks -> Requests]
    /\ at \in [Executors -> Places]
    /\ job \in [Executors -> Tasks \cup {NoTask}]
    /\ phase \in {"up", "stopping"}
    /\ listening \in BOOLEAN
    /\ events \in Seq([task : Tasks, verdict : Verdicts])
    /\ credit \in [Agents -> [Verdicts -> Nat]]
    /\ faults \in 0..MaxFaults
    /\ announced \in [Tasks -> SUBSET Verdicts]
    /\ lost \subseteq Tasks
    /\ wiped \subseteq Tasks

Init ==
    /\ row = [t \in Tasks |-> "absent"]
    /\ delegating = [t \in Tasks |-> NoAgent]
    /\ delegatedTo = [t \in Tasks |-> NoAgent]
    /\ queue = <<>>
    /\ result = [t \in Tasks |-> "none"]
    /\ request = [t \in Tasks |-> "new"]
    /\ at = [e \in Executors |-> "idle"]
    /\ job = [e \in Executors |-> NoTask]
    /\ phase = "up"
    /\ listening = TRUE
    /\ events = <<>>
    /\ credit = [a \in Agents |-> [v \in Verdicts |-> 0]]
    /\ faults = 0
    /\ announced = [t \in Tasks |-> {}]
    /\ lost = {}
    /\ wiped = {}

-----------------------------------------------------------------------------
(* Helpers *)

Queued == {queue[i] : i \in DOMAIN queue}
Held   == {job[e] : e \in Executors} \ {NoTask}

\* One fault of kind k happens, if this instance still allows one.
Fault(k) == k \in Faults /\ faults < MaxFaults /\ faults' = faults + 1

\* UPDATE tasks SET status=s WHERE id=t: no effect when the row is gone.
SetRow(t, s) == row' = [row EXCEPT ![t] = IF @ = "absent" THEN @ ELSE s]

\* An UPDATE raises: the pool is closing, or the connection broke before or
\* after PostgreSQL committed.
UpdateRaises(t, s) ==
    \/ phase = "stopping" /\ UNCHANGED <<row, faults>>
    \/ phase = "up" /\ Fault("db") /\ (SetRow(t, s) \/ UNCHANGED row)

\* LPUSH for an urgent task, RPUSH for any other.
Enqueue(q, t) == IF t \in Urgent THEN <<t>> \o q ELSE Append(q, t)

\* PUBLISH reaches the listener only while it is subscribed.
Publish(t, v) ==
    /\ events' = IF listening THEN Append(events, [task |-> t, verdict |-> v])
                              ELSE events
    /\ announced' = [announced EXCEPT ![t] = @ \cup {v}]

Silent == UNCHANGED <<events, announced>>

Move(e, from, to) == at[e] = from /\ at' = [at EXCEPT ![e] = to]

Release(e, place) ==
    /\ at' = [at EXCEPT ![e] = place]
    /\ job' = [job EXCEPT ![e] = NoTask]

\* An exception leaves execute() or set_result(): a worker logs it and sleeps
\* one second, a request handler answers 500.  Nobody puts the job back.
Abandon(e) ==
    /\ Release(e, IF e \in Workers THEN "backoff" ELSE "idle")
    /\ lost' = lost \cup {job[e]}

-----------------------------------------------------------------------------
(* Requests that create tasks *)

PushBeforeInsert(t) ==                 \* mutant: the job goes out before the row
    /\ "submit" \in Operations /\ phase = "up" /\ request[t] = "new"
    /\ queue' = Enqueue(queue, t)
    /\ request' = [request EXCEPT ![t] = "accepted"]
    /\ UNCHANGED <<dbVars, result, execVars, phase, busVars, faults, lost, wiped>>

\* POST /tasks/async, first await of execute_async: the INSERT.
InsertQueued(t) ==
    /\ "submit" \in Operations /\ phase = "up" /\ request[t] = "new"
    /\ row' = [row EXCEPT ![t] = "queued"]
    /\ request' = [request EXCEPT ![t] = "inserted"]
    /\ UNCHANGED <<delegating, delegatedTo, redisVars, execVars, phase, busVars,
                   faults, lost, wiped>>

\* Second await of execute_async: enqueue_with_id, and the answer.
Push(t) ==
    /\ request[t] = "inserted"
    /\ queue' = Enqueue(queue, t)
    /\ request' = [request EXCEPT ![t] = "accepted"]
    /\ UNCHANGED <<dbVars, result, execVars, phase, busVars, faults, lost, wiped>>

\* The push raises, before or after Redis has applied it: a 500 either way.
PushRaises(t) ==
    /\ request[t] = "inserted"
    /\ Fault("redis")
    /\ \/ queue' = Enqueue(queue, t) /\ lost' = lost
       \/ queue' = queue /\ lost' = lost \cup {t}
    /\ request' = [request EXCEPT ![t] = "refused"]
    /\ UNCHANGED <<dbVars, result, execVars, phase, busVars, wiped>>

\* POST /task: a row nobody executes until it is delegated or ever.
CreatePending(t) ==
    /\ "create" \in Operations /\ phase = "up" /\ request[t] = "new"
    /\ row' = [row EXCEPT ![t] = "pending"]
    /\ request' = [request EXCEPT ![t] = "created"]
    /\ UNCHANGED <<delegating, delegatedTo, redisVars, execVars, phase, busVars,
                   faults, lost, wiped>>

\* The delegate branch of /chat and /chat/stream, and /plan with execute: the
\* handler inserts the row and goes on to execute the task itself.
BeginDirect(c, t) ==
    /\ "direct" \in Operations /\ phase = "up" /\ request[t] = "new"
    /\ Move(c, "idle", "taken")
    /\ job' = [job EXCEPT ![c] = t]
    /\ row' = [row EXCEPT ![t] = "pending"]
    /\ request' = [request EXCEPT ![t] = "direct"]
    /\ UNCHANGED <<delegating, delegatedTo, redisVars, phase, busVars, faults, lost, wiped>>

\* The INSERT of a request raises, before or after the commit: a 500 either way.
InsertRaises(t) ==
    /\ phase = "up" /\ request[t] = "new"
    /\ Fault("db")
    /\ \/ "submit" \in Operations /\ row' = [row EXCEPT ![t] = "queued"]
       \/ {"create", "direct"} \cap Operations # {} /\ row' = [row EXCEPT ![t] = "pending"]
       \/ UNCHANGED row
    /\ request' = [request EXCEPT ![t] = "refused"]
    /\ lost' = lost \cup {t}
    /\ UNCHANGED <<delegating, delegatedTo, redisVars, execVars, phase, busVars, wiped>>

-----------------------------------------------------------------------------
(* TaskQueue.dequeue and WorkerManager.execute *)

Peek(w) ==                             \* mutant: the job is read, not removed
    /\ queue # <<>>
    /\ Move(w, "idle", "taken")
    /\ job' = [job EXCEPT ![w] = Head(queue)]
    /\ UNCHANGED <<dbVars, redisVars, request, phase, busVars, faults, lost, wiped>>

SkipJob(w) ==                          \* mutant: a job is popped and passed over
    /\ queue # <<>> /\ at[w] = "idle"
    /\ queue' = Tail(queue)
    /\ UNCHANGED <<dbVars, result, request, execVars, phase, busVars, faults, lost, wiped>>

\* BLPOP removes the job: from here on only the worker's memory holds it.
Dequeue(w) ==
    /\ queue # <<>>
    /\ Move(w, "idle", "taken")
    /\ job' = [job EXCEPT ![w] = Head(queue)]
    /\ queue' = Tail(queue)
    /\ UNCHANGED <<dbVars, result, request, phase, busVars, faults, lost, wiped>>

\* BLPOP raises; Redis may have popped a job whose reply never arrives.
DequeueRaises(w) ==
    /\ Move(w, "idle", "backoff")
    /\ Fault("redis")
    /\ \/ UNCHANGED <<queue, lost>>
       \/ queue # <<>> /\ queue' = Tail(queue) /\ lost' = lost \cup {Head(queue)}
    /\ UNCHANGED <<dbVars, result, request, job, phase, busVars, wiped>>

\* UPDATE tasks SET status='running'; it stands before the try block.
MarkRunning(e) ==
    /\ phase = "up"
    /\ Move(e, "taken", "generating")
    /\ SetRow(job[e], "running")
    /\ UNCHANGED <<delegating, delegatedTo, redisVars, request, job, phase, busVars,
                   faults, lost, wiped>>

MarkRunningRaises(e) ==
    /\ at[e] = "taken"
    /\ UpdateRaises(job[e], "running")
    /\ Abandon(e)
    /\ UNCHANGED <<delegating, delegatedTo, redisVars, request, phase, busVars, wiped>>

\* llm.generate answers, or raises LLMError after its retries.
Generate(e) ==
    /\ \/ Move(e, "generating", "storing")
       \/ Move(e, "generating", "erring")
    /\ UNCHANGED <<dbVars, redisVars, request, job, phase, busVars, faults, lost, wiped>>

DoneUnstored(e) ==                     \* mutant: the UPDATE to 'done' is forgotten
    /\ phase = "up"
    /\ Move(e, "storing", "announcing")
    /\ UNCHANGED <<dbVars, redisVars, request, job, phase, busVars, faults, lost, wiped>>

StoreDone(e) ==
    /\ phase = "up"
    /\ Move(e, "storing", "announcing")
    /\ SetRow(job[e], "done")
    /\ UNCHANGED <<delegating, delegatedTo, redisVars, request, job, phase, busVars,
                   faults, lost, wiped>>

StoreDoneRaises(e) ==
    /\ Move(e, "storing", "erring")
    /\ UpdateRaises(job[e], "done")
    /\ UNCHANGED <<delegating, delegatedTo, redisVars, request, job, phase, busVars,
                   lost, wiped>>

\* publish("task.completed") and the return of a done result.
AnnounceDone(e) ==
    /\ Move(e, "announcing", "done")
    /\ Publish(job[e], "done")
    /\ UNCHANGED <<dbVars, redisVars, request, job, phase, listening, credit, faults,
                   lost, wiped>>

\* The publish stands inside the try block: when it raises, the except branch
\* runs for a task whose row already says 'done'.
AnnounceDoneRaises(e) ==
    /\ Move(e, "announcing", "erring")
    /\ Fault("redis")
    /\ Publish(job[e], "done") \/ UNCHANGED <<events, announced>>
    /\ UNCHANGED <<dbVars, redisVars, request, job, phase, listening, credit, lost, wiped>>

FailureUnstored(e) ==                  \* mutant: the except branch only logs
    /\ phase = "up"
    /\ Move(e, "erring", "announcingFailure")
    /\ UNCHANGED <<dbVars, redisVars, request, job, phase, busVars, faults, lost, wiped>>

StoreFailed(e) ==
    /\ phase = "up"
    /\ Move(e, "erring", "announcingFailure")
    /\ SetRow(job[e], "failed")
    /\ UNCHANGED <<delegating, delegatedTo, redisVars, request, job, phase, busVars,
                   faults, lost, wiped>>

StoreFailedRaises(e) ==
    /\ at[e] = "erring"
    /\ UpdateRaises(job[e], "failed")
    /\ Abandon(e)
    /\ UNCHANGED <<delegating, delegatedTo, redisVars, request, phase, busVars, wiped>>

AnnounceFailed(e) ==
    /\ Move(e, "announcingFailure", "failed")
    /\ Publish(job[e], "failed")
    /\ UNCHANGED <<dbVars, redisVars, request, job, phase, listening, credit, faults,
                   lost, wiped>>

AnnounceFailedRaises(e) ==
    /\ at[e] = "announcingFailure"
    /\ Fault("redis")
    /\ Publish(job[e], "failed") \/ UNCHANGED <<events, announced>>
    /\ Abandon(e)
    /\ UNCHANGED <<dbVars, redisVars, request, phase, listening, credit, wiped>>

\* A worker stores execute's return value under the task's result key.
SetResult(w) ==
    /\ at[w] \in Verdicts
    /\ result' = [result EXCEPT ![job[w]] = at[w]]
    /\ Release(w, "idle")
    /\ UNCHANGED <<dbVars, queue, request, phase, busVars, faults, lost, wiped>>

SetResultRaises(w) ==
    /\ at[w] \in Verdicts
    /\ Fault("redis")
    /\ result' = [result EXCEPT ![job[w]] = at[w]] \/ UNCHANGED result
    /\ Abandon(w)
    /\ UNCHANGED <<dbVars, queue, request, phase, busVars, wiped>>

\* A request handler answers with execute's return value.
Answer(c) ==
    /\ at[c] \in Verdicts
    /\ Release(c, "idle")
    /\ UNCHANGED <<dbVars, redisVars, request, phase, busVars, faults, lost, wiped>>

\* The client of a stream leaves, which cancels the generator at the await it stands at.
\* CancelledError is no Exception: no except branch runs, nothing is written any more, and
\* of the await that was cut the effect may be there or not.  (A stream that is cut at its
\* INSERT is as one that leaves before its first UPDATE, or as no request at all.)
Leave(c) ==
    /\ \/ at[c] = "taken" /\ (SetRow(job[c], "running") \/ UNCHANGED row) /\ Silent
       \/ at[c] = "generating" /\ UNCHANGED row /\ Silent
       \/ at[c] = "storing" /\ (SetRow(job[c], "done") \/ UNCHANGED row) /\ Silent
       \/ at[c] = "announcing" /\ UNCHANGED row /\ (Publish(job[c], "done") \/ Silent)
       \/ at[c] = "erring" /\ (SetRow(job[c], "failed") \/ UNCHANGED row) /\ Silent
       \/ at[c] = "announcingFailure" /\ UNCHANGED row /\ (Publish(job[c], "failed") \/ Silent)
    /\ Release(c, "idle")
    /\ request' = [request EXCEPT ![job[c]] = "left"]
    /\ UNCHANGED <<delegating, delegatedTo, redisVars, phase, listening, credit, faults,
                   lost, wiped>>

\* The second of sleep after an error is over.
Wake(w) ==
    /\ Move(w, "backoff", "idle")
    /\ UNCHANGED <<dbVars, redisVars, request, job, phase, busVars, faults, lost, wiped>>

\* The steps of WorkerManager.execute, whoever runs it.
ExecuteStep(e) ==
    \/ MarkRunning(e) \/ MarkRunningRaises(e)
    \/ Generate(e)
    \/ StoreDone(e) \/ StoreDoneRaises(e)
    \/ AnnounceDone(e) \/ AnnounceDoneRaises(e)
    \/ StoreFailed(e) \/ StoreFailedRaises(e)
    \/ AnnounceFailed(e) \/ AnnounceFailedRaises(e)

-----------------------------------------------------------------------------
(* The EventBus listener and OrganizationManager.record_task_completion *)

CreditDoneOnly(ev) ==                  \* mutant: task.failed is not tracked
    LET a == AgentOf[ev.task]
    IN  credit' = IF a \in Registered /\ ev.verdict = "done"
                  THEN [credit EXCEPT ![a]["done"] = @ + 1] ELSE credit

CreditTwice(ev) ==                     \* mutant: the handler is subscribed twice
    LET a == AgentOf[ev.task]
    IN  credit' = IF a \in Registered
                  THEN [credit EXCEPT ![a][ev.verdict] = @ + 2] ELSE credit

\* The handlers of the oldest event run in turn; the last one adds one to the
\* agent's counter, an UPDATE without effect for an agent without a row.
Credit(ev) ==
    LET a == AgentOf[ev.task]
    IN  credit' = IF a \in Registered
                  THEN [credit EXCEPT ![a][ev.verdict] = @ + 1] ELSE credit

Deliver ==
    /\ listening /\ events # <<>>
    /\ Credit(Head(events))
    /\ events' = Tail(events)
    /\ UNCHANGED <<dbVars, redisVars, request, execVars, phase, listening, announced,
                   faults, lost, wiped>>

\* The handler's UPDATE raises: the listener logs it and goes on.
DeliverRaises ==
    /\ listening /\ events # <<>>
    /\ Fault("db")
    /\ Credit(Head(events)) \/ UNCHANGED credit
    /\ events' = Tail(events)
    /\ UNCHANGED <<dbVars, redisVars, request, execVars, phase, listening, announced,
                   lost, wiped>>

\* pubsub.listen() raises: _listen ends, and nothing starts it again.
ListenerDies ==
    /\ listening
    /\ Fault("listener")
    /\ listening' = FALSE
    /\ events' = <<>>
    /\ UNCHANGED <<dbVars, redisVars, request, execVars, phase, credit, announced,
                   lost, wiped>>

-----------------------------------------------------------------------------
(* POST /org/delegate and POST /admin/reset-memory *)

\* INSERT INTO task_delegations: the foreign key demands that the row exists.
RecordDelegation(t, a) ==
    /\ "delegate" \in Operations /\ phase = "up"
    /\ row[t] # "absent" /\ delegating[t] = NoAgent
    /\ delegating' = [delegating EXCEPT ![t] = a]
    /\ UNCHANGED <<row, delegatedTo, redisVars, request, execVars, phase, busVars,
                   faults, lost, wiped>>

\* UPDATE tasks SET assigned_agent, status='queued', whatever the status was.
\* The task.delegated event that follows has no subscriber.
ApplyDelegation(t) ==
    /\ delegating[t] # NoAgent
    /\ SetRow(t, "queued")
    /\ delegatedTo' = [delegatedTo EXCEPT ![t] = delegating[t]]
    /\ delegating' = [delegating EXCEPT ![t] = NoAgent]
    /\ UNCHANGED <<redisVars, request, execVars, phase, busVars, faults, lost, wiped>>

\* The UPDATE raises before the commit: the delegation stays on record only.
ApplyDelegationRaises(t) ==
    /\ delegating[t] # NoAgent
    /\ Fault("db")
    /\ delegating' = [delegating EXCEPT ![t] = NoAgent]
    /\ UNCHANGED <<row, delegatedTo, redisVars, request, execVars, phase, busVars,
                   lost, wiped>>

\* TRUNCATE tasks CASCADE; Redis is left as it is.
ResetMemory ==
    /\ "reset" \in Operations /\ phase = "up"
    /\ row' = [t \in Tasks |-> "absent"]
    /\ wiped' = wiped \cup {t \in Tasks : row[t] # "absent"}
    /\ UNCHANGED <<delegating, delegatedTo, redisVars, request, execVars, phase, busVars,
                   faults, lost>>

-----------------------------------------------------------------------------
(* Shutdown, crash and restart; what Redis may drop *)

\* The server waits for its requests, then the lifespan stops the event bus and
\* closes the pool.  It does not stop the workers.
BeginShutdown ==
    /\ phase = "up"
    /\ Fault("shutdown")
    /\ \A t \in Tasks : request[t] # "inserted" /\ delegating[t] = NoAgent
    /\ \A c \in Callers : at[c] = "idle"
    /\ phase' = "stopping"
    /\ listening' = FALSE
    /\ events' = <<>>
    /\ UNCHANGED <<dbVars, redisVars, request, execVars, credit, announced, lost, wiped>>

\* The process ends, after a shutdown or by a crash, and a new one starts.
Restart ==
    /\ \/ phase = "stopping" /\ UNCHANGED faults
       \/ phase = "up" /\ Fault("crash")
    /\ phase' = "up"
    /\ at' = [e \in Executors |-> "idle"]
    /\ job' = [e \in Executors |-> NoTask]
    /\ lost' = lost \cup Held \cup {t \in Tasks : request[t] = "inserted"}
    /\ request' = [t \in Tasks |-> IF request[t] = "inserted" THEN "refused" ELSE request[t]]
    /\ delegating' = [t \in Tasks |-> NoAgent]
    /\ listening' = TRUE
    /\ events' = <<>>
    /\ UNCHANGED <<row, delegatedTo, redisVars, credit, announced, wiped>>

\* Redis runs with maxmemory-policy allkeys-lru: the list is a key like others.
EvictQueue ==
    /\ queue # <<>>
    /\ Fault("evict")
    /\ queue' = <<>>
    /\ lost' = lost \cup Queued
    /\ UNCHANGED <<dbVars, result, request, execVars, phase, busVars, wiped>>

\* The hour of SETEX is over.
ExpireResult(t) ==
    /\ result[t] # "none"
    /\ result' = [result EXCEPT ![t] = "none"]
    /\ UNCHANGED <<dbVars, queue, request, execVars, phase, busVars, faults, lost, wiped>>

-----------------------------------------------------------------------------
CreateStep(t) ==
    \/ InsertQueued(t) \/ CreatePending(t) \/ InsertRaises(t)
    \/ Push(t) \/ PushRaises(t)

WorkerStep(w) == SetResult(w) \/ SetResultRaises(w) \/ Wake(w) \/ ExecuteStep(w)

DelegationStep(t) ==
    \/ \E a \in Agents : RecordDelegation(t, a)
    \/ ApplyDelegation(t) \/ ApplyDelegationRaises(t)

Next ==
    \/ \E t \in Tasks : CreateStep(t) \/ DelegationStep(t) \/ ExpireResult(t)
    \/ \E w \in Workers : Dequeue(w) \/ DequeueRaises(w) \/ WorkerStep(w)
    \/ \E c \in Callers : (\E t \in Tasks : BeginDirect(c, t)) \/ ExecuteStep(c) \/ Answer(c)
    \/ \E c \in Streams : Leave(c)
    \/ Deliver \/ DeliverRaises \/ ListenerDies
    \/ ResetMemory
    \/ BeginShutdown \/ Restart \/ EvictQueue

Spec == Init /\ [][Next]_vars

\* The event loop runs every coroutine that can go on, and every awaited call
\* ends, with a value or an exception (the LLM client has a timeout).  Nothing
\* is assumed of clients, of faults or of the expiry of results.
Fairness ==
    /\ \A t \in Tasks : WF_vars(Push(t)) /\ WF_vars(ApplyDelegation(t))
    /\ \A w \in Workers : WF_vars(Dequeue(w)) /\ WF_vars(WorkerStep(w))
    /\ \A c \in Callers : WF_vars(ExecuteStep(c) \/ Answer(c))
    /\ WF_vars(Deliver)
    /\ WF_vars(phase = "stopping" /\ Restart)

FairSpec == Spec /\ Fairness

-----------------------------------------------------------------------------
(* Safety *)

\* A job is in the Redis list once or in one worker's memory, never twice and
\* never in both: no task is executed by two workers, and none twice.
AtMostOneHolder ==
    /\ \A i, j \in DOMAIN queue : i # j => queue[i] # queue[j]
    /\ \A e \in Executors : job[e] \notin Queued
    /\ \A e, f \in Executors : e # f => job[e] = NoTask \/ job[e] # job[f]

\* execute_async inserts the row before it pushes the job, so that whoever
\* holds the job finds the row, unless reset-memory has removed it since.
RecordBeforeJob ==
    \A t \in Tasks : t \in Queued \cup Held => row[t] # "absent" \/ t \in wiped

\* A row says 'queued' or 'running' only while a job or an executor stands
\* behind it; a row that waits for nobody was delegated, a fault cut its task
\* short, or the client left the stream that executed it.
StrandedHasCause ==
    \A t \in Tasks :
        /\ row[t] = "queued" /\ delegatedTo[t] = NoAgent =>
             \/ request[t] = "inserted" \/ t \in Queued \/ t \in lost
             \/ \E e \in Executors : job[e] = t /\ at[e] = "taken"
        /\ row[t] = "running" =>
             \/ t \in lost \/ request[t] = "left"
             \/ \E e \in Executors : job[e] = t /\ at[e] \in {"generating", "storing", "erring"}

\* The result key and the row, written by separate awaits, tell a poller the
\* same verdict, unless the row was delegated or removed meanwhile.
ResultAgreesWithRow ==
    \A t \in Tasks : result[t] # "none" =>
        row[t] = result[t] \/ delegatedTo[t] # NoAgent \/ t \in wiped

\* An agent is credited at most once for each verdict announced about one of
\* its tasks, counting the events that are still to be handled.
CreditBacked ==
    \A a \in Agents, v \in Verdicts :
        credit[a][v] + Cardinality({i \in DOMAIN events :
                          AgentOf[events[i].task] = a /\ events[i].verdict = v})
            <= Cardinality({t \in Tasks : AgentOf[t] = a /\ v \in announced[t]})

\* What GET /tasks/{id}/result answers: the result key, or else the row.
PollAnswer(t) == IF result[t] # "none" THEN result[t] ELSE row[t]

\* Once the executor has let a task go, the verdict a poller sees is final: it
\* survives the expiry of the key, restarts and faults, and only a delegation or
\* reset-memory takes it back.
PollVerdictFinal ==
    [][\A t \in Tasks :
         /\ PollAnswer(t) \in Verdicts /\ t \notin Held
         /\ delegatedTo[t] = NoAgent /\ t \notin wiped
         => \/ PollAnswer(t)' = PollAnswer(t)
            \/ delegatedTo'[t] # NoAgent \/ t \in wiped']_vars

-----------------------------------------------------------------------------
(* Liveness, under FairSpec *)

\* Every accepted task gets a verdict, unless its row is removed or a fault cut
\* this very task short.
AcceptedFinishes ==
    \A t \in Tasks :
        request[t] = "accepted" ~> row[t] \in Verdicts \/ t \in wiped \/ t \in lost

\* Without faults the agents' records catch up with the published verdicts.
VerdictsCredited ==
    \A a \in Registered, v \in Verdicts :
        []<>(faults # 0 \/ credit[a][v] = Cardinality({t \in Tasks : AgentOf[t] = a /\ v \in announced[t]}))

=============================================================================
