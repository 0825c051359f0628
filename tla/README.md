# A formal model of cocoro-core

cocoro-core is one asyncio process (FastAPI, one uvicorn worker) in front of
PostgreSQL (asyncpg pool) and Redis. Its concurrency is the interleaving of
coroutines at their awaits: request handlers, two queue workers, an event
listener and half a dozen schedulers. What survives the process is what
PostgreSQL and Redis hold, and almost no operation uses a transaction: an
operation of several statements can be cut between any two of them.

The modules here model the components whose state and interleavings matter;
TLC checks them on small instances, TLAPS proves the theorems named below.

## Inventory

| component | state | operations | what is hard |
|---|---|---|---|
| Task pipeline: `agent/task_queue.py`, `agent/worker_manager/`, `agent/event_bus.py`, `agent/organization/`, handlers in `api/server.py` | table `tasks`, Redis list of jobs, result keys, pub/sub, `agent_registry` counters, workers' memory | create, queue, execute, poll, delegate, count, reset | job popped before it is executed; row, key and event written by separate awaits; publish inside a `try`; reset leaves Redis alone; shutdown leaves workers running |
| Node registry: `api/routes/nodes.py`, monitor in `api/server.py` | table `cocoro_nodes` | register, ping, sweep, unregister, forward | slow pings answer about an address the node no longer has |
| Emotion engine: `personality/emotion/` | row `emotion_state`, a cache of it | adjust, decay, reset | cache changed before the save is awaited; reset bypasses the cache |
| Organization chart: `agent/organization/` | levels and parents in `agent_registry` | register, chart | two statements; parents in any order, or in a circle; a second query where the first fails |
| Security front: `api/security.py`, `api/security_middleware.py` | token buckets, failure counters, lists | allow, record, lock, clean up | time passing between the steps, boundaries of the windows |
| API keys, audit log: `api/routes/admin_*.py` | tables whose scripts nothing runs | issue, revoke, list | nothing reads them back |
| Boot wizard, samplings, test bench: `personality/setup/`, `personality/test/` | sessions in memory | start, answer, skip about, result | answers out of order, two results at once, other writers of the same rows |
| Learning: `personality/growth_tracker.py`, `sync_engine.py`, `values/`, `beliefs/`, `goals/` | weights, goals, rates; a cache of weights | consolidate, gradient, adjust, record | read and write of weights apart; stale cache; an error halfway |
| Memory: `memory/` | conversations, archives, memories | archive, add | statements without a transaction |
| Migrations: `infra/migration.py` | schema, version rows | migrate | script and version recorded apart |
| Self-evolution: `evolution/` | plans, modification log | plan, execute, limit | repeated execution, check before act |
| Governance: `governance/` | log | ethics levels, value limits | pure functions of texts and numbers |
| Chat and tools: `api/server.py`, `brain/tools/`, `brain/planner/`, `brain/reasoning/`, `brain/decision_engine/` | logs, registry of plugins | one turn, tool loop | bounded loop, what is stored when a step fails |
| Language model runtime: `brain/llm_runtime.py`, `brain/local_llm.py` | request times, stream queue | generate, stream, switch | retries, a thread feeding a coroutine |
| Clones, peers, calibration, users: `personality/*.py` | sessions, discussions, snapshots | touch, expire, conclude, restore | expiry against use |
| Autonomous thinker: `brain/autonomous_thinker.py` | sessions in `knowledge_base`, briefings in `thought_log` | loop, briefing, request | the hour at which a loop wakes, restarts |
| Mail and notifications: `agent/email_engine.py`, `agent/webhook/`, `api/routes/notify.py` | `email_history`, whose script nothing runs | daily brief | errors that end no loop and are seen by nobody |
| Profiles and compatibility: `personality/*_traits.py`, `personality_vector.py`, `personality_learning.py`, `compatibility/` | vectors in memory, learning history | create, answer, learn, compare, report | clamping, rounding, limits of levels |
| Monitoring: `infra/monitoring.py` | bounded histories | record, alert | limits of the histories |

Components left without state of their own worth modelling (tables of texts,
public registration, monitoring, governance, scripts) are listed in
`PROJECT.json` with the reason.

Components meet in four ways: a request handler calls several managers in turn;
they share tables; the task pipeline publishes events that the organization and
the webhook handle; schedulers call managers by the clock.

## Modules

| module | models |
|---|---|
| `TaskPipeline` | the task pipeline, one action for what happens between two awaits |
| `AtMostOnce` | what the list of jobs promises: at-most-once delivery |
| `TaskDelivery` | the refinement mapping from `TaskPipeline` to `AtMostOnce` |
| `NodeRegistry` | the rows of nodes, the checks that ping them, the monitor and the forwarding of chats |
| `EmotionEngine` | the row of the emotional state, the object cached of it and the calls that share both |
| `ChatTurn` | the turns of a chat session, answered whole, streamed or forwarded |
| `ValueLearning` | the weights of the values, their cache, and all that writes them: requests, consolidations, restores, samplings |
| `SetupSessions` | the sessions of questions (wizard, sampling, bench), what is made of them, and the restores and backups that write and read the same rows |
| `RequestFront` | what a request meets before its handler: filters, lockouts, rate limits, keys |
| `TokenBucket` | what a rate limiter promises for one key |
| `MemoryArchive` | the archiver's runs over the tables of observations |
| `UserMemories` | what is remembered of the user and goes into the prompt |
| `Migrations` | the scripts of the schema and the record of their versions |
| `DailyRounds` | the thinker's loop, the mail loop and the requests for a briefing |
| `ModelCalls` | calls of the language model: limit per minute, retries, streams |
| `Companions` | peers, discussions and user sessions |
| `OrgChart` | registrations of agents and the chart built from the rows |
| `Profiles` | vectors of traits, their seeds, their learning, and the comparison of two |
| `MCServices` | the nine modules from `RequestFront` on, one of them at work in each behaviour |
| `MCTaskPipeline`, `MCNodeRegistry`, `MCEmotionEngine`, `MCChatTurn`, `MCValueLearning`, `MCSetupSessions` | the constants and symmetries of the instances TLC checks |
| `TaskPipelineProofs`, `NodeRegistryProofs`, `EmotionEngineProofs`, `ChatTurnProofs`, `ValueLearningProofs`, `SetupSessionsProofs` | theorems about the module each is named after; the first has the refinement of `AtMostOnce` too |
| `ProfilesProofs` | theorems about `Profiles`, and the theory of sums they need |
| `ServicesProofs` | theorems about the other eight services, each by itself and all of them in `MCServices` |

### TaskPipeline

State: `row` is `tasks.status`, `queue` the Redis list, `result` the result
keys, `at` and `job` the place and the task of each executor (two
`_worker_loop` coroutines, and request handlers that call
`WorkerManager.execute` themselves), `delegating` the delegations between
their INSERT and their UPDATE, `events` what Redis has delivered to the
listener and the listener has not handled, `credit` the counters of
`agent_registry`. `announced`, `lost` and `wiped` are history: they record
what happened and no guard of an action reads them.

Actions follow `execute` await by await: `Dequeue` (BLPOP), `MarkRunning`,
`Generate`, `StoreDone`, `AnnounceDone`, then `SetResult` for a worker or
`Answer` for a handler; the `except` branch is `StoreFailed`,
`AnnounceFailed`. Every awaited call has an action in which it raises instead
(`...Raises`), with the effect applied or not, since an exception of a network
call says nothing about what the server did. `MarkRunning` stands before the
`try` block, so its exception leaves `execute`; `AnnounceDone` stands inside
it, so its exception turns a stored 'done' into 'failed'. `InsertQueued` and
`Push` are the two awaits of `execute_async`; `RecordDelegation` and
`ApplyDelegation` those of `delegate_task`. `ResetMemory` truncates the rows
and leaves Redis alone. `BeginShutdown` closes the pool and the listener while
the workers keep running; `Restart` follows it, or a crash at any moment.
`Leave` is the client of a stream going away while `/chat/stream` executes a
delegated task inside its generator (`server.py:1290`): the await that stands is
cancelled, with its effect applied or not, and since `CancelledError` is no
`Exception` neither the `except` branch of `execute` nor anything after it runs.
Which handlers answer by a stream is the constant `Streams`; the client of a
handler that is no stream cannot cut it short.
`EvictQueue` is Redis dropping the list (both compose files set
`allkeys-lru`), `ExpireResult` the hour of a result key.

A task stands for its id, title and payload. Which agent executes it (the
payload's or the router's) and whether its priority is at most 3 are constants.
The webhook handlers of the events, the 'cancelled' status no code writes, and
`task.delegated`, to which nobody subscribes, are left out.

A push after its INSERT is not retried by any client action: the id of a task
is drawn by the server, so a retry is another task.

### NodeRegistry

State: `addr`, `status` and `seen` are the columns of `cocoro_nodes` that the
code reads back (`seen`: `last_seen` is not NULL), `check` the ping each
request, each chat or the monitor has under way, `alive` the addresses that
would answer. `basis` and `overtaken` are history: the address whose ping gave
a node its status, and the nodes registered anew during a check.

A check has three steps with awaits between them: it reads an address, pings it
(`Ping`, at most three seconds) and updates the row by node id (`Write`),
whatever the row says by then. `Register` pings the address it was given,
`CheckHealth` the row's; `StartRound` begins the monitor's checks of all rows
together, and the next round waits for the last. `Forward` picks a node for a
chat; `Refuse` is the connection error on which the forwarding code writes
'offline'. `live_check=true` is `CheckHealth` for every row at once.

### EmotionEngine

State: `row` is the one row of `emotion_state`, `heap` the `EmotionState`
objects, `cache` the one `_cache` refers to, `call` the call each coroutine is
in. One level stands for the six numbers: the code treats each alike, and the
levels outside 0..MaxLevel are those the table's CHECK would refuse. A keyword's
trust step is one level up, a decay one level towards neutral.

`Begin` with a cached object changes it in the same step (`Use`), for there is
no await before the UPDATE; without one it reads the row (`Fetch`), and `Load`
creates and caches a new object. `Commit` is the UPDATE at the database,
`Resume` the coroutine's return from it, in which `_save_state` caches its
object, `Recorded` the return from the history's INSERT, in which a chat clears
the cache and asks again. A request's calls are separated by awaits on the
language model, so each is a call of its own. `Round` is the scheduler's: the
coroutine `get_state()` is not awaited and has no `intensity`. The trigger
`/scheduler/trigger/emotion_decay` creates a coroutine and drops it, which
changes nothing, and is no action.

`accord` is history: it says whether cache and row have been kept in step. Calls
that overlap, an UPDATE that raises and a reset behind the cache lose the
accord; a call that saves alone restores it, which is what the next request
after any accident does.

### ChatTurn

State: `at` is the await a turn of a session stands at, `via` how it is served
(`/chat`, `/chat/stream`, another node's core, its agent), `action` what the
model took the message for, `tools` the tools called, `size` the chunks of the
answer, `thread` and `pipe` the thread of `generate_stream` and its queue,
`sent` what the client got, `short` and `long` the session's messages in Redis
and in `conversation_log`.

`Hear`, `Note`, `Judge`, `Classify` are the awaits both handlers share; `Answer`
and `CallTool` are `/chat`'s, whose loop offers the model three tools and then
must answer; `Stream` starts the thread, `ThreadChunk`, `ThreadFails` and
`ThreadEnds` are what it puts into the queue, `Listen` what the generator takes
out. `HearAnswer` and `NoteAnswer` store the answer, `Finish` is the rest, whose
errors are swallowed. `Fails` is an exception of any awaited call, caught by the
handler's `except` clauses; `Leave` a client that closes its stream, which
cancels the generator at its await. Both may leave a write of that await made
or not (`MayStore`). `RelayText`, `RelayFinal` are the lines of
`forward_to_node`, `RelayEnds` and `RelayBreaks` its ends; `Submit`, `Progress`,
`AgentEnds`, `Poll` the steps of `forward_task_to_agent`.

A text is counted and not spelled: a message has the number of chunks it was
made from. 'decide' and 'learn' are covered by 'think': one answer, stored the
same way. A relayed turn is taken to speak the protocol of this same program
and to send finitely many lines. The node picked for a turn is `NodeRegistry`'s
business, the task of a delegated one `TaskPipeline`'s, the emotions
`EmotionEngine`'s. The hour after which Redis forgets a session and
`reset-memory` are left out.

### ValueLearning

State: `weight` is `values_system`, `ideal` what `_get_ideal_values` makes of
`identity.ideal_profile`, `cache` the list `ValueSystem` keeps, `call` what each
coroutine is doing, with the weights it has read (`copy`), the ideal it has read
(`aim`) and the rows it has still to write (`todo`). `behind` and `touched` are
history: the copies a write has left behind for good, and the rows others wrote
after a gradient read them.

`Fetch` and `Keep` are the two halves of `load`; `Write` is the UPDATE of `add`
or `adjust_weight`, `Clear` its return, which empties the cache. `Gather`,
`AskNothing`, `AskChange`, `Learn` are a consolidation up to what it learned;
`Weigh` and `Rate` compute the sync rate, `Aim` and `Rows` read ideal and rows
again, `StepMoves` and `StepStays` write one row. `Overwrite` is a row written
by a restore, by the setup or by the sampling, which first replaces the ideal
(`Profile`); none of them clears the cache. `Import` changes the ideal.

A weight is one of a few levels. An adjustment is one level; a gradient step is a
fraction of the gap, so it may stay within its level (`StepStays`) or reach the
next (`StepMoves`). The rates of 0.3 to 1.5 times the base and the emotional
factor only change that fraction; where the rate is zero, `Rate` ends the call.
The cosine is compared without roots. The seeded values and the keys of the ideal
are the same names, as in `init.sql` and `DEFAULT_IDEAL_VALUES`. Beliefs, goals,
history and the recorded rates are left out: nothing here reads them back.

### SetupSessions

State: `sessions` are the three tables of sessions in memory, `rows` the values
and the ideal, each told by the source it was last written from, `inserts` and
`goals` the rows of goals and beliefs inserted, `copy` the backup a client holds,
`calls` the requests for a result, a restore or a backup, with what each has
still to write or read. `overlap` and `whole` are history.

`Answer` is the next question's, `AnswerNamed` the wizard's answer to a question
by its id, which moves the session to the question after it, forwards or back.
`AskResult` takes what each engine's guard asks for; `Analyse` is the wizard's
await on the model, `WritePart` one statement of the list each caller works
through (an analysis' own parts, `SamplingOrder`, `RestoreOrder`), `Close` the
deletion of the session at the end. An error ends a restore or a sampling's result; the
wizard swallows it and goes on (`WriteRaises`). A sampling's session stays when
its result raised, so it can be asked for again.

### RequestFront

State: `bucket` are the token buckets by address and first path segment,
`failures` and `locked` the login throttle, `req` the requests under way. Times
are ages: a tick of the clock moves them, and an age that nothing tells from a
greater one stops. A lockout or a window is at its limit in the tick in which
the code's comparison changes.

`Bypass`, `Redirect`, `Filter`, `LockOut`, `Admit` are the ways through the
outer middleware in the order of its early returns, `Inner` the allowed networks
of the second one, `IssueToken` and `RefuseKey` the handler of `/auth/token`,
`Handle` any other, `Audit` the record written after it, `Respond` the outer
middleware's return. Failures are counted by the token handler alone
(`RefuseKey`); a 401 of any other is not. `LimitsAsBucket` is a refinement:
`TokenBucket` is refilled at every tick, `RateLimiter` only when it is asked, and
`cleanup` may forget a bucket in between.

### MemoryArchive, UserMemories, Migrations

Three operations of several statements without a transaction, each with
overlapping runs, errors and crashes.

`MemoryArchive`: `Count`, `InsertSummary`, `DeleteOld` are the statements of each
table in turn. The count and the DELETE compare with the same moment
(`below`), so rows that age in between stay; the INSERT's own first date may
meet a table that another run has emptied (`InsertRefused`: the column refuses
NULL). `Truncate` is `reset-memory`'s. `log` says for each row whether it is
young, old, archived or truncated, `counted` how many summaries count it.

`UserMemories`: `Look` is `add`'s SELECT, `Update` and `Insert` its two ends,
`NextFact` the next match of `auto_extract`. `Prompted` is what
`get_high_confidence` returns. A row is what it says and how sure it is.

`Migrations`: `ReadVersion`, `Mark`, `RunScript`, `Record` are the awaits of
`migrate`; a script is one transaction and its record another. A version whose
script raises ends the run (`Stops`). `Mark` is the row of version 1, which
`init.sql` has made; an error of the read is taken for version 0 and leads there too.

### DailyRounds

A day of ticks comes round (`now`). `thinker` is the loop that thinks at a fixed
distance and briefs when its check falls into hour 0, `mailer` the mail loop's
sleep until its hour, `briefs` the stored briefings, `askers` the requests for
one. Sessions take up to `Longest` ticks and sleepers wake up to `Late` ticks
late, so a check may miss the hour, and with it the day; that it never briefs twice in
a day is `OncePerDay`. `MailDailyBrief`
reads a column `thought_log` does not have (`ThoughtColumns`) and ends its round
there. `Reboot` starts both loops anew.

### ModelCalls

`count` and `age` are `_rpm_count` and the time since `_rpm_start`. A call that
is no stream holds the event loop (`loop`) through the limiter, its
`time.sleep` and the request, and gives it up only at `asyncio.sleep` between
attempts (`Retry`); a stream's request is made in a thread, whose steps in the
limiter (`LoadCount`, `StoreCount`, `AfterSleep`, `StartMinute`) fall between
those of the loop. `queue` is what the thread puts and the reader polls.

### Companions

`peers`, `discussions` and `sessions` are the process's memory; every handler
runs without an await and is one action. `UseSession` touches a session, or
replaces an expired one by a new one.

### OrgChart

`AskRegister`, `InsertAgent`, `PlaceAgent` are a registration with its INSERT
and its UPDATE, `AbortRegister` its end between them. `readable` says whether the
query for levels and parents succeeds (`SelectBreaks`, `SelectWorks`); the
`except` that catches any error of it asks for no places, so `Rows`, what the
chart is built from, then has everyone at level 0 and under nobody. `BuildNode` is
the search that enters each agent once: a walk has the calls still to be made, the
agents entered so far, in order, and how many of its nodes are the empty one a call
returns for who was entered. `Enter` is one call, and the calls for an agent's
reports stand before those that wait for him to return. `ChartIsReach` compares the
tree with the least set closed under the rows (`Beneath`), for parents given in any
way, and finds one empty node where the parents lead back to the top and none
elsewhere. Who is at the head was registered for it only where the places were read
(`HeadIsMeant`); where they were not, the first agent by name stands there alone
(`HeadIsAlone`).

### Profiles

A vector of 32 traits in ten-thousandths, so that the code's two and four
decimals are exact. `Seed` applies the three tables and clamps after each;
`Answer` applies the questions' modifiers, `Learn` a feedback with its
multiplier, `Check` and `Report` compare two vectors. The tables are the
code's own. A float that ought to be a half or a limit may fall to either side
of it; here it is exact. Two facts about the tables, that a day has one sign and
that a seed is the sum of its three rows, do not depend on a state and are
assumptions of `MCServices`, which TLC evaluates (`SignPerDay`, `SeedIsSum`).

### What the runs show

| run | instance | properties |
|---|---|---|
| `pipeline_faults` | 2 tasks (one urgent), 2 workers, 1 handler that answers by a stream, 3 faults of 6 kinds | `StrandedHasCause`, `CreditBacked`, `PollVerdictFinal`, `DeliversAtMostOnce` (refinement of `AtMostOnce`) |
| `pipeline_requests` | 2 tasks, 2 workers, delegations, resets, 1 database error | `RecordBeforeJob`, `ResultAgreesWithRow` |
| `pipeline_liveness` | 2 tasks, 2 workers, 1 handler that answers by a stream, resets, 1 fault of 6 kinds | `AcceptedFinishes`, `VerdictsCredited` |
| `node_checks` | 1 node, 2 addresses, 2 requests, 1 chat, the monitor | `StatusAboutAddress`, `NoResurrection`, `MonitorConverges` |
| `emotion_calls` | 2 callers, 3 objects, 4 levels, errors, crashes, resets | `CacheAgreesWithRow`, `SavesApplyOnce` |
| `chat_turns` | 2 turns of one session, at most 2 chunks, 3 tools, errors, clients that leave | `OneFinal`, `AnswerAsSent`, `Remembered`, `TurnsEnd` |
| `value_learning` | 2 callers, 2 values of 3 levels, 2 ideals, errors, crashes | `CopyAgrees`, `GradientApproaches`, `WeightsConverge` |
| `setup_sessions` | a wizard, a sampling and a bench, of which 2 start, 2 questions, 2 calls at once, 3 in all, 1 error | `CompleteIsAnswered`, `InsertedOnce`, `ValuesOfOneSource`, `ResultCloses` |
| `services` | nine services, see below | `ServicesTypeOK` and, by service: |
| | front: 2 requests, 3 addresses, 2 paths | `LimitsAsBucket` (refinement of `TokenBucket`), `UnlockedBelowThreshold` |
| | archive: 2 tables, 3 rows, scheduler and 1 request, 1 error | `ArchivedOnce`, `OldRowsLeave` |
| | memories: 2 tellers, 2 texts, 3 rows, 1 error, 1 deletion | `PromptSaysOnce`, `ReturnedIsKept` |
| | migrations: 4 versions, 3 runners, 2 errors or crashes | `RecordIsTrue` |
| | rounds: a day of 8 ticks, 1 request, 1 restart | `OncePerDay`, `LoopsReturn` |
| | calls: 1 call and 1 stream at once, 2 in all, 2 a minute | `UnderLimit`, `CallsEnd` |
| | companions: 1 peer, 1 discussion, 1 user | `ClosedStaysClosed` |
| | chart: 3 agents, one of them seeded, 1 registration cut, either query | `ChartIsMeant` |
| | profiles: 2 profiles, 2 births, 2 given vectors, 2 lessons | `RecordsAccount`, `LevelsAsMeant` |
| `value_consolidation` | requests and the scheduler, no failure | `LearnedIsApplied` is violated |
| `emotion_scheduler` | 1 caller, no failure | `DecaysAtRest` is violated |
| `daily_mail` | both loops, no requests, 1 restart | `BriefIsMailed` is violated |

A property that names several promises of one component is the conjunction of
named parts (`ArchivedOnce`, `RecordIsTrue`, `ChartIsMeant`, `LevelsAsMeant`,
`ClosedStaysClosed`, `TurnsEnd`), and each part has a mutant of its own. The type
invariants of the modules with proofs, `AtMostOneHolder` and
`SeenAgreesWithStatus` are theorems and not checked by a run besides.

Bounds. Two tasks and two workers are enough for two workers to meet one job and
one worker to meet two; one urgent and one normal task are enough for each to be
pushed before and after the other. `MaxFaults` bounds the faults of one behaviour:
three allow the sequence "publish raises, UPDATE raises, crash" that strands a
task. A node's rows and checks do not depend on another node's, so one node with
four checks of it at once (two requests, a chat, the monitor) and two addresses
meets every order; the proofs hold for any number. Two callers are enough for
calls to overlap, three objects for each to hold one besides the cached one, and
four levels with neutral at one for both bounds to be hit and for decays from both
sides. The proofs remove these bounds where it matters most. Two turns are enough
for the messages of one session to interleave, two chunks for a thread to fail
with one sent and one waiting; the three tools are the code's own
`MAX_TOOL_CALLS`. Two values of three levels are enough for a weight to approach
its ideal from either side and for the ceiling of 92% to be met by one direction
and missed by others; one caller for requests and one for the scheduler are enough
for each write to fall into another's load or gradient. In `setup_sessions` two
questions are enough for an answer that goes back and one that jumps ahead, and
three requests for two that overlap and one that comes after.

The services share no state, so one of them is at work in a behaviour (`subject`)
and the others keep their initial state: the product of their states would show
nothing more. Of the archiver's two tables one reads its first date in the INSERT
and one before; two rows of one table and a second run are enough for a row to age
between count and DELETE. Three rows and two tellers are enough for two adds of
one text to miss each other. Four versions are the first, which has no script, and
three scripts to run, fail or repeat. A day of four hours of two ticks has room
for a session that ends in the next hour. A limit of two a minute, with one call
on the loop and one in a thread, meets the sleep and the race for the count;
`mixed` is the exception that race makes. Three agents make chains, pairs of
siblings and circles of two and three. The given vectors of `Profiles` are the two
with the best score there is; with 12 signs, 12 animals and 4 blood types every
seed is in `SeedIsSum`. Deadlock is not checked: when every task is over and every
result has expired, or no request comes, the system waits.

Three runs show the code at odds with what its own comments say; they are the
`findings` of `PROJECT.json`. The decay scheduler never decays. A consolidation
that learns something ends with the INSERT of the learning, whose source the
table refuses; only one that learns nothing reaches the values and the gradient.
The daily mail is never sent: its query names a column the table does not have,
and the loop logs the error and sleeps until the next day.

What the properties excuse. A hazard that the code does meet cannot be an
invariant; the property then says what holds besides, and a history variable
names the behaviours it says nothing of. A row may wait for ever after a
delegation, a fault, or a client that left its stream (`StrandedHasCause`). A
delegation or a reset may separate row and key (`ResultAgreesWithRow`,
`PollVerdictFinal`), a fault may lose an event (`VerdictsCredited`). A node that
registers anew during a check of it may get the status of its old address
(`overtaken`). Overlapping calls, a reset or a failed save lose the accord of
cache and row of the emotions (`accord`), writers that go around it that of the
values (`behind`). An answer that jumps ahead completes a session early (`ahead`),
two requests at once may insert twice (`overlap`), a call that fails leaves some
values written. Two calls that look up the same text both insert it (`raced`), a
stream's thread and the loop may lose a count of the limiter (`mixed`), a runner
that overlaps another or ends before its record runs a script again (`repeated`).
What these properties do show is that nothing else breaks them, and that what they
promise holds of calls that run alone. A clock that is set, or a sleeper that wakes
early, is not modelled.

### Seen on the way

What the code does besides, as the modules have it; no run is about these.

- A delegated task says 'queued' and no job is pushed
  (`organization/manager.py:111`); it stays so unless a worker held it. A client
  that leaves `/chat/stream` while it executes a delegated task leaves the row
  'pending' or 'running' for ever, or 'done' with nobody told (`server.py:1290`,
  `manager.py:94`). A stream that delegates does not store its answer as `/chat`
  does (`server.py:1283`). After `reset-memory` the cached emotions live on, and
  the next decay writes them back.
- The wizard announces completion though a question may have been jumped over
  (`boot_wizard.py:601`), and an answer that arrives while the analysis is awaited
  is lost with the session. A restore ignores the backup's ideal profile, and
  inserts its beliefs and goals again each time: `ON CONFLICT` has no unique key
  to meet.
- `record_sync_rate` is given the rate as the trigger's name (`server.py:451`,
  `899`), which the column's type refuses, so the scheduler records nothing; the
  engine of `/sync/rate` is made before the tracker exists (`server.py:196`) and
  always takes its fallback.
- The trigger of `emotion_decay` reports "decayed" and decays nothing. The archive
  scheduler reports the key "archived", the run returns "total_archived". The note
  at `admin_security.py:175` says `/migrate/run` creates `audit_log`; the script
  for it, `infra/migrations/v009_audit_log.sql`, is not among those it runs. The
  brief counts tasks 'completed', a status no code writes.
- The thinker's check may fall past hour 0 when its sessions drift, and then the
  day has no briefing; a request's or a failure's text becomes the day's briefing
  too; a briefing asked for by a past date is made today.
- The comment at `server.py:2757` says the second query is for a database without
  version 7; the `except` takes any error for that, so a connection that breaks
  once gives a chart of the first agent by name, whom nobody meant to be its head,
  and nobody below him. A circle of parents shows as an empty node `{}` where it
  closes (`server.py:2797`).
- A CEO hides the seeded directors from the chart; without one, two directors'
  trees may show the same agent.
- "ideal_partner" begins at .85 and the best score is .8476. Neutral feedback
  raises traits, and feedback of an unknown type more. An answers request sent
  twice is applied twice. The balance depends on which of the two profiles asks.
  For one birth in 576 (Capricorn, elephant, B) the order of the tables matters.
- An import whose MBTI type is unknown is refused after it has written its
  `life_history` row.

### Fairness

`FairSpec` of `TaskPipeline` assumes weak fairness of the steps the event loop must run: a
request goes on to its push, a worker takes a waiting job and goes on with the
one it has, a handler goes on, the listener handles the next event, and a
process whose shutdown has begun is replaced (compose restarts it). The model
client has a timeout on each attempt and a bounded number of retries, so
`Generate` answers or raises. Nothing is assumed of clients, faults, resets or
expiry. Fairness is per worker, since each is a coroutine of its own.

`FairSpec` of `NodeRegistry` assumes that the monitor goes on with its rounds
(its loop catches every exception), that a ping ends (httpx has a timeout), that
a forwarded chat's connection succeeds or fails, and that an UPDATE which is
tried again and again does not raise for ever (strong fairness of `Write`,
since each round may end in `WriteRaises`). Nothing is assumed of requests and
nodes. `FairSpec` of `EmotionEngine` assumes that calls go on and that the
scheduler's sleep ends; only the run that refutes `DecaysAtRest` uses it.
`FairSpec` of `ChatTurn` assumes that an awaited call returns or raises (the
model's clients, httpx and the pool have timeouts) and that the stream's thread
goes on; nothing is assumed of clients and errors. `FairSpec` of `ValueLearning`
assumes that the scheduler consolidates again and again, that a call goes on, and
that steps of a fraction of the gap reach the next level in the end (strong
fairness of `StepMoves`). `WeightsConverge` is about a future in which nothing
else writes; requests, imports and errors are assumed nothing of.

`FairSpec` of `SetupSessions` assumes that a request under way goes on: the
model's client times out. `ServicesFairness` assumes for the archive that the
scheduler comes back and its runs go on; for the rounds that the clock ticks,
timers go off, and sessions and requests end (every call has a timeout); for the
calls that the clock ticks, sleeps end, Gemini answers or fails, and threads run.
Nothing is assumed of the other services, whose properties are of safety, nor of
clients, errors and crashes.

## Proofs

Each theorem holds for every value of the constants, from the modules' named
assumptions alone. They say that the kinds of actors are disjoint, that bounds,
limits and lengths of time are natural numbers, that "none" values are not
members, and of what the code's own tables and parsers guarantee: an analysis
inserts its goals last (`SetupAssumption`), a bucket forgotten after `MaxIdle`
would have been full and holds one token at least (`FrontAssumption`), the mail's
hour and a late wake-up fall into one day (`RoundsAssumption`), what is extracted
has a certainty that is a number (`MemoriesAssumption`), a number in a request for
the profiles is one (`ProfilesAssumption`), and agents are numbered from one, finitely
many of them seeded (`ChartAssumption`). TLC evaluates them on
the instances.

The argument is the same everywhere. The property is not inductive; an invariant
that says what the calls under way are about to do makes it so. TLC checked each
of these invariants on the run's instance before it was proved. They are stated
in the proof modules.

`TaskPipelineProofs`, where the jobs are:

- `TypeCorrect`: `Spec => []TypeOK`. `TypeOK` alone is not inductive: the
  result of `job[w]` is stored under a task only if the worker holds one.
  `TypeInv` adds `HoldsJob`: an executor inside `execute` or about to store
  its result holds a task.
- `AtMostOnceHeld`: `Spec => []AtMostOneHolder`. The strengthening
  `HolderInv` adds `Sent`: whoever is in the list or held was pushed or begun
  by its own request. Without it, a later push could add a second job of the
  same task. `Shrink` is the common case of a step that moves no job in;
  pushing, popping and beginning a task directly are proved apart.
- `RecordPrecedesJob`: `Spec => []RecordBeforeJob`. The strengthening
  `RecordInv` says the same of a request between its INSERT and its push, so
  that the push adds only a job whose row exists or was removed by a reset.
- `PipelineDelivers`: `Spec => DeliversAtMostOnce`, the refinement. Every step
  of the pipeline has one of eight shapes (`Shape`): no job moves (`Still`), one
  is dropped, refused, pushed, popped or released, a restart loses what workers
  held, Redis evicts the list. `StepShape` sorts the actions, and
  `ShapeRefines` maps each shape to a step of `AtMostOnce` or a stutter.
  `SettledInv` is what a release needs: the request of a job that is in the list
  or held has been answered, so the job is over and not unsent once it is let
  go.

and what is said of a task. These rest on one lemma, `TaskMoves`, that sorts what
any action may do to one task (its row, job, result key, holder, announcements)
into a few `Moves`:

- `NobodyWaitsForNothing`: `Spec => []StrandedHasCause`. With the types it is
  inductive task by task (`Stranded`), with `JobInv`: a job has one holder, and what
  a handler executes itself was never a job. So a client that leaves strands the
  row of its own request, and no accepted job.
- `KeyAgreesWithRow`: `Spec => []ResultAgreesWithRow`, and `VerdictStays`:
  `Spec => PollVerdictFinal`. `VerdictInv` ties the three places together: what
  an executor is about to report is what the row says, a key says what the row
  says and its task is `Over`, and a row with a verdict is of a task that is in
  no list any more, so that no worker can take it up again.
- `CreditHasCause`: `Spec => []CreditBacked`. `AnnouncedInv` says that each
  verdict of a task is announced once; the bus then adds an event exactly when
  it adds an announcement (`BusMoves`), and the listener turns an event into a
  credit. Counting is by the places of the events, with the library's facts on
  cardinalities.

`NodeRegistryProofs`:

- `RegistryTypes`, `SeenAgrees`: `TypeOK` and `SeenAgreesWithStatus`.
- `StatusIsAboutAddress`: `Spec => []StatusAboutAddress`. The strengthening
  `ChecksAboutAddress` says where the next status will come from: every check
  under way pings the address its node's row has, or the node was registered
  anew since. A registration decides it for all checks at once.
- `NoLateRow`: `Spec => NoResurrection`, from the shape of the actions.

`EmotionEngineProofs`:

- `EngineTypes`: `Spec => []TypeOK`; the heart is `AfterLevel`, that a change
  stays within the levels.
- `CacheAgrees`: `Spec => []CacheAgreesWithRow`, and `AppliesOnce`:
  `Spec => SavesApplyOnce`. Both follow from `AccordInv`: unless accord is lost
  there is one call at most, it works on the cached object or there is none,
  and what it read or saved is what the row has. `UseInStep` is the synchronous
  part of a call, common to `Begin` and `Load`.

`ChatTurnProofs`:

- `TurnTypes`: `Spec => []TypeOK`. `PlaceInv` says where on its route a turn can
  be, when there is a thread, and that the chunks sent and those in the queue are
  together no more than `MaxChunks`; `size` is bounded only through it.
- `StreamEndsOnce` (`OneFinal`), `StoredAsSent` (`AnswerAsSent`) and
  `TurnsRemembered` (`Remembered`) from `TurnInv`. `SentInv`: before a turn is
  over it has sent texts only, a stream one for each chunk it counts. `StoredInv`:
  the turn of a stored answer has nothing but its end before it. `KeptInv`: each
  memory has the question and the answer from the step on that stores them.
  A memory only grows (`Grows`), so what other turns add between disturbs
  neither order nor count.
- `NoSilentEnd`: `Spec => EndsWithFinal`, the action-property part of `TurnsEnd`.

`ValueLearningProofs`:

- `LearningTypes`: `Spec => []TypeOK`. `TypeInv` adds `HasRead`: who is about to
  use a copy or an ideal has read one.
- `CopiesAgree`: `Spec => []CopyAgrees`, which with the types is inductive; its
  two halves are the cache (`CacheFollows`) and the loads (`LoadsFollow`).
- `GradientsApproach`: `Spec => GradientApproaches`. `ReadAsIs` says that a
  gradient has read every row it has still to write as it is, unless others wrote
  it since.

`SetupSessionsProofs`:

- `SetupTypes`: `Spec => []TypeOK`. `CallsInv` says for each kind of request what
  it may still have to write, and that insertions come last.
- `CompleteAnswers` (`CompleteIsAnswered`): a session that never went ahead has
  answers up to the question it is at (`AnsweredInv`), however often it went back.
- `ValuesAgree` (`ValuesOfOneSource`): each value has the source of the whole or
  is still to be written (`ValuesInv`).
- `InsertsAreOnce` (`InsertedOnce`): while nobody asked twice at once, a session
  has one request at most, and one that has inserted has nothing left to write
  and ends the session (`OnceInv`); a restore that found no goal is the only one
  (`GoalInv`).

`ServicesProofs`, first what counts against the clock:

- `FrontTypes`, and `FailuresLock` (`UnlockedBelowThreshold`).
- `FrontLimits`: `Spec => LimitsAsBucket`, the refinement of `TokenBucket`: a
  bucket refilled when it is asked has, reckoned up to now, what one refilled at
  every tick has, and one that is forgotten would have been full (`IdleIsFull`).
- `LimiterHolds` (`UnderLimit`): where no two calls were in the limiter at once,
  one is in it at most, has read the count as it is, and no more have passed than
  were counted, but for a sleeper that has counted itself into a minute it has
  not begun (`OneAtATime`, `StarterCounted`).
- `RoundsOncePerDay` (`OncePerDay`): the mail loop wakes at the hour of the mail,
  today or, once it made its round, tomorrow (`MailDue`); a thinker that briefed
  today is at it still or wakes after hour 0 (`BriefedOnce`).
- `ClosedForGood` (`ClosedStaysClosed`): no session has an id that is still to be
  given, so the session that replaces an expired one is another.

then what is written by several statements:

- `VersionIsTrue` (`RecordIsTrue`): the recorded versions are the first ones, a
  runner works on the next and records what it has run (`RecordedAreFirst`,
  `WorksInOrder`); until a cause for repeating is noted there is one runner at
  most (`WorksAlone`), and a script that has run is recorded or about to be
  (`RanIsKnown`).
- `RowsArchivedOnce` (`ArchivedOnce`): what a run is about to delete is counted
  (`DeletesCounted`), and a row without an excuse is in the hand of one run at
  most and not counted before that run's INSERT (`OneHand`).
- `PromptOnce` (`PromptSaysOnce`): what a call looked for and missed is not there
  until it inserts it (`MissedIsMissing`), unless calls raced. `ReturnedKept`
  (`ReturnedIsKept`): the row a call is about to update has the call's text
  (`FoundIsIt`), and no update makes a row less sure.

the chart:

- `ChartMeant` (`ChartIsMeant`): for any agents, any parents, any cut of a
  registration, and whichever query answers. `BuildNode` is a recursive function
  over the walks, and the walks are a set without a bound, so that it is defined
  at all has to be shown first. Along the path of walks that one call leads to, a
  number falls: who is not entered weighs more than the calls that entering him
  adds (`FurtherFalls`). `PathExists` and `PathEnds` say that a recursion along
  such a path has a function, and what it returns at the end; both rest on the
  least number of a set for which it failed (`Least`). What holds on the way is
  kept by each call (`WalkGoesOn`): who was entered is beneath the top and there
  once, and his reports are entered or still to be called. At the end nothing is
  to be called, so those entered are the least closed set (`BuiltIsReach`). An
  agent has one parent, so whoever is to be entered is there through one agent
  only, and none but the top can be called a second time, and then once
  (`Circled`, `CircleGoesOn`): that is the empty node. Without the places nobody
  has anybody below him (`HeadAlone`). `InOrderHasAll` says that the order of the
  rows misses nobody: ranks are an injection of a finite set into its numbers.
  `HeadsMeant` is the invariant for the head.

and all of them together:

- `ServicesTypes` (`ServicesTypeOK`), `ServicesKeep` (the ten safety invariants of
  the run) and `ServicesAct` (`LimitsAsBucket`, `ClosedStaysClosed`) are about
  `ServicesSpec`. `ServicesInv` is the conjunction of the services' inductive
  invariants; a step is one service's and leaves the variables of the others as
  they are (`OneAtWork`), so each part is kept by the lemma of its own service
  (`MigrationStep`, ...) or by nothing happening. The types of the counters and
  histories that had no theorem before are parts of it (`...Bounds`).

`ProfilesProofs`:

- Sums over a finite set come first, since totals are what the scores and the
  history are made of: `SumFunction` is a fold, whose recursion the provers cannot
  follow, so a function on the subsets that takes out one element after the other
  is shown to exist, by well-founded minimum instead of an induction theorem
  (`Sums`, `Least`), and the fold to agree with it. From there: a sum without one
  element, of a sum, within bounds, over a range that grows by one.
- `ProfilesTypes`: vectors are always clamped, and every score is between 0 and
  100. The bound on the weighted sum of the four components is proved from bounds
  on each, which are sums over the traits.
- `RecordsAreAccounts` (`RecordsAccount`): a lesson moves one trait of one profile
  by what its record says (`Records`, `Moves`); both sides of the account move by
  the same number, since a sum changes by what one of its terms changes.
- `LevelsAreMeant` (`LevelsAsMeant`), its three parts: the components' bounds leave
  the best level out of reach; `AdviceFitsScore` compares the two lists of limits
  for every score there can be; and the balance alone depends on the order, whose
  weight is too small for two levels.

What stays with TLC is liveness (`AcceptedFinishes`, `VerdictsCredited`,
`MonitorConverges`, the second part of `TurnsEnd`, `WeightsConverge`,
`ResultCloses`, `OldRowsLeave`, `LoopsReturn`, `CallsEnd`): the prover has no
ENABLED. Every invariant and every property of steps that a passing run checks is
stated by a theorem. The two facts of the profiles' tables that `MCServices`
assumes (`SignPerDay`, `SeedIsSum`) are evaluated by TLC over all days and seeds.

Some counters have the type Nat in the types of their modules, and not a
bound: how often a script has run, how many summaries count a row, how many
requests a minute has seen. Each grows with as many faults, runs and retries as a
behaviour has; the bounds of an instance follow from its own constants and say
nothing about the code.

## Not modelled

- The handlers of `/evolution`, `/safety`, `/intelligence`, `/meta`, `/scoring`,
  `/cognitive` and `/calibration` (`server.py:2098-2312`) return coroutines they
  do not await, so the operations behind them do not run; the one that is awaited
  (`evaluate`) only reads.
- Public registration, API keys and the audit log write single rows of tables
  whose scripts (`infra/migrations/v006_*`, `v009_*`) nothing runs; nothing reads
  them back to decide anything.
- `check_sync_milestone`, `receive_message`, `unregister_peer`, `cleanup_expired`,
  `record_request`, `learn_from_conversation`, `learn_from_decision` and
  `apply_decay` are called by nobody but tests.
- Lists and searches, which change nothing; goals, beliefs and the recorded sync
  rates, rows written by one statement each; monitoring, governance, roles,
  languages, templates and the tools' bodies: pure functions, tables and wrappers
  of other programs.
- The protocols of the model's providers, SMTP and webhooks.

## Plan

Every safety invariant and action property of a passing run is a theorem. What
could follow:

1. Abstract specifications of what the other components promise, as `AtMostOnce`
   and `TokenBucket` are for theirs: a register with a cache for `EmotionEngine`
   and `ValueLearning`, a set of facts for `UserMemories`.
2. `SeedIsSum` and `SignPerDay` as theorems: they need the tables' values one by
   one, which TLC does in a second.
3. Components that are listed as partly modelled: what their notes in
   `PROJECT.json` name.
