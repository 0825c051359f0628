-------------------------- MODULE TaskPipelineProofs --------------------------
(***************************************************************************)
(* Theorems about TaskPipeline, for every set of tasks, workers, callers   *)
(* and agents, every set of operations and faults, and every bound.  The   *)
(* first are about where the jobs are: types, one holder of a job, a row   *)
(* before the job, and the implementation of AtMostOnce.  The others are   *)
(* about what the pipeline says of a task: its row, its result key, the    *)
(* answer a poller gets and the record of its agent agree.  Those rest on  *)
(* one lemma, TaskMoves, that says what a step may do to one task.         *)
(***************************************************************************)
EXTENDS TaskDelivery, SequenceTheorems, FiniteSetTheorems, TLAPS

-----------------------------------------------------------------------------
(* Lists *)

\* The tasks in a list, and a list without repetition.
Elems(q) == {q[i] : i \in DOMAIN q}
Distinct(q) == \A i, j \in DOMAIN q : i # j => q[i] # q[j]

\* Pushing a job adds that one task to the list, and repeats none that was not
\* there before.
LEMMA EnqueueList ==
    ASSUME NEW q \in Seq(Tasks), NEW t \in Tasks
    PROVE  /\ Enqueue(q, t) \in Seq(Tasks)
           /\ Elems(Enqueue(q, t)) = Elems(q) \cup {t}
           /\ Distinct(q) /\ t \notin Elems(q) => Distinct(Enqueue(q, t))
<1>1. CASE t \in Urgent
  <2> DEFINE r == <<t>> \o q
  <2>1. /\ r \in Seq(Tasks) /\ Len(r) = Len(q) + 1 /\ r[1] = t
        /\ \A i \in 1..Len(q) : r[i + 1] = q[i]
    OBVIOUS
  <2>2. \A i \in 1..Len(r) : i # 1 => i - 1 \in 1..Len(q) /\ r[i] = q[i - 1]
    BY <2>1
  <2>3. \A i \in 1..Len(q) : i + 1 \in 1..Len(r)
    BY <2>1
  <2>4. Elems(r) = Elems(q) \cup {t}
    <3>1. /\ Elems(r) = {r[i] : i \in 1..Len(r)}
          /\ Elems(q) = {q[i] : i \in 1..Len(q)}
      <4>1. DOMAIN r = 1..Len(r) /\ DOMAIN q = 1..Len(q)
        BY <2>1
      <4> HIDE DEF r
      <4> QED BY <4>1 DEF Elems
    <3>2. 1 \in 1..Len(r)
      BY <2>1
    <3>3. Elems(r) \subseteq Elems(q) \cup {t}
      BY <2>1, <2>2, <3>1
    <3>4. Elems(q) \cup {t} \subseteq Elems(r)
      BY <2>1, <2>3, <3>1, <3>2
    <3> QED BY <3>3, <3>4
  <2>5. Distinct(q) /\ t \notin Elems(q) => Distinct(r)
    BY <2>1, <2>2 DEF Elems, Distinct
  <2> QED BY <1>1, <2>1, <2>4, <2>5 DEF Enqueue
<1>2. CASE t \notin Urgent
  <2> DEFINE r == Append(q, t)
  <2>1. /\ r \in Seq(Tasks) /\ Len(r) = Len(q) + 1 /\ r[Len(q) + 1] = t
        /\ \A i \in 1..Len(q) : r[i] = q[i]
    OBVIOUS
  <2>2. \A i \in 1..Len(r) : i # Len(q) + 1 => i \in 1..Len(q)
    BY <2>1
  <2>3. Elems(r) = Elems(q) \cup {t}
    BY <2>1, <2>2 DEF Elems
  <2>4. Distinct(q) /\ t \notin Elems(q) => Distinct(r)
    BY <2>1, <2>2 DEF Elems, Distinct
  <2> QED BY <1>2, <2>1, <2>3, <2>4 DEF Enqueue
<1> QED BY <1>1, <1>2

\* Popping a job takes the head out of the list.
LEMMA PopList ==
    ASSUME NEW q \in Seq(Tasks), q # <<>>
    PROVE  /\ Head(q) \in Tasks /\ Head(q) \in Elems(q)
           /\ Tail(q) \in Seq(Tasks)
           /\ Elems(Tail(q)) \subseteq Elems(q)
           /\ Distinct(q) => Distinct(Tail(q)) /\ Head(q) \notin Elems(Tail(q))
<1> DEFINE r == Tail(q)
<1>1. /\ r \in Seq(Tasks) /\ Len(r) = Len(q) - 1 /\ Len(q) \in Nat \ {0}
      /\ Head(q) = q[1] /\ q[1] \in Tasks
      /\ \A i \in 1..Len(r) : r[i] = q[i + 1]
  OBVIOUS
<1>2. \A i \in 1..Len(r) : i + 1 \in 1..Len(q) /\ i + 1 # 1
  BY <1>1
<1>3. Elems(r) \subseteq Elems(q) /\ q[1] \in Elems(q)
  BY <1>1, <1>2 DEF Elems
<1>4. Distinct(q) => Distinct(r) /\ q[1] \notin Elems(r)
  BY <1>1, <1>2, 1 \in 1..Len(q) DEF Elems, Distinct
<1> QED BY <1>1, <1>3, <1>4

\* What stays after a pop is everything but the head.
LEMMA PopListElems ==
    ASSUME NEW q \in Seq(Tasks), q # <<>>
    PROVE  Elems(q) = Elems(Tail(q)) \cup {Head(q)}
<1> DEFINE r == Tail(q)
<1>1. /\ r \in Seq(Tasks) /\ Len(r) = Len(q) - 1 /\ Len(q) \in Nat \ {0}
      /\ Head(q) = q[1]
      /\ \A i \in 1..Len(r) : r[i] = q[i + 1]
  OBVIOUS
<1>2. \A i \in 1..Len(q) : i = 1 \/ i - 1 \in 1..Len(r)
  BY <1>1
<1>3. \A i \in 1..Len(q) : i = 1 \/ q[i] = r[i - 1]
  BY <1>1, <1>2
<1> HIDE DEF r
<1>4. /\ Elems(q) = {q[i] : i \in 1..Len(q)}
      /\ Elems(r) = {r[i] : i \in 1..Len(r)}
  BY <1>1 DEF Elems
<1>5. Elems(q) \subseteq Elems(r) \cup {q[1]}
  BY <1>2, <1>3, <1>4
<1> QED BY <1>1, <1>5, PopList DEF r

-----------------------------------------------------------------------------
(* Types *)

\* An executor holds a task exactly while it is between two visits to the queue
\* or, for a request handler, while it executes.
HoldsJob ==
    \A e \in Executors :
        IF at[e] \in {"idle", "backoff"} THEN job[e] = NoTask ELSE job[e] \in Tasks

TypeInv == TypeOK /\ HoldsJob

USE PipelineAssumption

\* The type invariant holds initially.
LEMMA TypeInvInit == Init => TypeInv
BY DEF Init, TypeInv, TypeOK, HoldsJob, Status, Requests, Places, Verdicts

\* The helpers keep the types.
LEMMA FaultType ==
    ASSUME TypeOK, NEW k, Fault(k)
    PROVE  faults' \in 0..MaxFaults
BY DEF TypeOK, Fault

\* An UPDATE writes a status of the table.
LEMMA SetRowType ==
    ASSUME TypeOK, NEW t, NEW s \in Status, SetRow(t, s)
    PROVE  row' \in [Tasks -> Status]
BY DEF TypeOK, SetRow

\* Publishing keeps the types of the event channel and of the history.
LEMMA PublishType ==
    ASSUME TypeOK, NEW t \in Tasks, NEW v \in Verdicts, Publish(t, v)
    PROVE  /\ events' \in Seq([task : Tasks, verdict : Verdicts])
           /\ announced' \in [Tasks -> SUBSET Verdicts]
<1> DEFINE Event == [task : Tasks, verdict : Verdicts]
<1>1. [task |-> t, verdict |-> v] \in Event
  OBVIOUS
<1>2. events \in Seq(Event)
  BY DEF TypeOK
<1>3. ASSUME NEW ev \in Event
      PROVE  Append(events, ev) \in Seq(Event)
  <2> HIDE DEF Event
  <2> QED BY <1>2
<1>4. events' \in Seq(Event)
  BY <1>1, <1>2, <1>3 DEF Publish
<1>5. announced' \in [Tasks -> SUBSET Verdicts]
  BY DEF TypeOK, Publish
<1> QED BY <1>4, <1>5

\* Handling an event keeps the counters natural numbers.
LEMMA CreditType ==
    ASSUME TypeOK, events # <<>>, Credit(Head(events))
    PROVE  credit' \in [Agents -> [Verdicts -> Nat]]
<1> DEFINE ev == Head(events)
<1> DEFINE Event == [task : Tasks, verdict : Verdicts]
<1>1. events \in Seq(Event)
  BY DEF TypeOK
<1>2. ev \in Event
  <2> HIDE DEF Event
  <2> QED BY <1>1
<1>3. ev.task \in Tasks /\ ev.verdict \in Verdicts
  BY <1>2
<1> DEFINE a == AgentOf[ev.task]
<1>4. a \in Agents /\ credit \in [Agents -> [Verdicts -> Nat]]
  BY <1>3 DEF TypeOK
<1>5. CASE a \in Registered
  <2>1. credit' = [credit EXCEPT ![a] = [credit[a] EXCEPT ![ev.verdict] = credit[a][ev.verdict] + 1]]
    BY <1>5 DEF Credit
  <2>2. credit[a] \in [Verdicts -> Nat] /\ credit[a][ev.verdict] + 1 \in Nat
    BY <1>3, <1>4
  <2> HIDE DEF a, ev
  <2>3. [credit[a] EXCEPT ![ev.verdict] = credit[a][ev.verdict] + 1] \in [Verdicts -> Nat]
    BY <2>2
  <2> QED BY <2>1, <2>3, <1>4
<1>6. CASE a \notin Registered
  BY <1>4, <1>6 DEF Credit
<1> QED BY <1>5, <1>6

\* So does an UPDATE that raises, committed or not.
LEMMA UpdateRaisesType ==
    ASSUME TypeOK, NEW t, NEW s \in Status, UpdateRaises(t, s)
    PROVE  row' \in [Tasks -> Status] /\ faults' \in 0..MaxFaults
BY SetRowType, FaultType DEF UpdateRaises, TypeOK

\* An exception that leaves execute() frees the executor.
LEMMA AbandonType ==
    ASSUME TypeInv, NEW e \in Executors, at[e] \notin {"idle", "backoff"}, Abandon(e)
    PROVE  /\ at' \in [Executors -> Places]
           /\ job' \in [Executors -> Tasks \cup {NoTask}]
           /\ HoldsJob'
           /\ lost' \subseteq Tasks
BY DEF TypeInv, TypeOK, HoldsJob, Abandon, Release, Places

\* The steps of WorkerManager.execute keep the types.
LEMMA ExecuteStepType ==
    ASSUME TypeInv, NEW e \in Executors, ExecuteStep(e)
    PROVE  TypeInv'
<1> USE DEF TypeInv, Verdicts
<1> {"running", "done", "failed"} \subseteq Status
  BY DEF Status
<1>1. CASE MarkRunning(e)
  BY <1>1, SetRowType DEF MarkRunning, Move, TypeOK, HoldsJob, Places, dbVars, redisVars, busVars
<1>2. CASE MarkRunningRaises(e)
  BY <1>2, UpdateRaisesType, AbandonType DEF MarkRunningRaises, TypeOK, dbVars, redisVars, busVars
<1>3. CASE Generate(e)
  BY <1>3 DEF Generate, Move, TypeOK, HoldsJob, Places, dbVars, redisVars, busVars
<1>4. CASE StoreDone(e)
  BY <1>4, SetRowType DEF StoreDone, Move, TypeOK, HoldsJob, Places, dbVars, redisVars, busVars
<1>5. CASE StoreDoneRaises(e)
  BY <1>5, UpdateRaisesType DEF StoreDoneRaises, Move, TypeOK, HoldsJob, Places, dbVars, redisVars, busVars
<1>6. CASE AnnounceDone(e)
  BY <1>6, PublishType DEF AnnounceDone, Move, TypeOK, HoldsJob, Places, dbVars, redisVars, busVars
<1>7. CASE AnnounceDoneRaises(e)
  BY <1>7, PublishType, FaultType DEF AnnounceDoneRaises, Move, TypeOK, HoldsJob, Places, dbVars, redisVars, busVars
<1>8. CASE StoreFailed(e)
  BY <1>8, SetRowType DEF StoreFailed, Move, TypeOK, HoldsJob, Places, dbVars, redisVars, busVars
<1>9. CASE StoreFailedRaises(e)
  BY <1>9, UpdateRaisesType, AbandonType DEF StoreFailedRaises, TypeOK, dbVars, redisVars, busVars
<1>10. CASE AnnounceFailed(e)
  BY <1>10, PublishType DEF AnnounceFailed, Move, TypeOK, HoldsJob, Places, dbVars, redisVars, busVars
<1>11. CASE AnnounceFailedRaises(e)
  <2> USE <1>11 DEF AnnounceFailedRaises
  <2>1. faults' \in 0..MaxFaults
    BY FaultType
  <2>2. job[e] \in Tasks
    BY DEF HoldsJob
  <2>3. /\ events' \in Seq([task : Tasks, verdict : Verdicts])
        /\ announced' \in [Tasks -> SUBSET Verdicts]
    BY <2>2, PublishType DEF TypeOK
  <2>4. /\ at' \in [Executors -> Places] /\ job' \in [Executors -> Tasks \cup {NoTask}]
        /\ HoldsJob' /\ lost' \subseteq Tasks
    BY AbandonType
  <2> QED BY <2>1, <2>3, <2>4 DEF TypeOK, dbVars, redisVars
<1> QED BY <1>1, <1>2, <1>3, <1>4, <1>5, <1>6, <1>7, <1>8, <1>9, <1>10, <1>11 DEF ExecuteStep

\* So does a client that leaves its stream.
LEMMA LeaveType ==
    ASSUME TypeInv, NEW c \in Streams, Leave(c)
    PROVE  TypeInv'
<1> USE DEF TypeInv, Leave
<1>1. /\ c \in Executors /\ at[c] \notin {"idle", "backoff"}
      /\ {"running", "done", "failed"} \subseteq Status /\ {"done", "failed"} \subseteq Verdicts
  BY DEF Executors, Status, Verdicts
<1>2. job[c] \in Tasks
  BY <1>1 DEF HoldsJob
<1>3. row' \in [Tasks -> Status]
  <2>1. row' = row \/ \E s \in {"running", "done", "failed"} : SetRow(job[c], s)
    OBVIOUS
  <2> QED BY <1>1, <2>1, SetRowType DEF TypeOK
<1>4. /\ events' \in Seq([task : Tasks, verdict : Verdicts])
      /\ announced' \in [Tasks -> SUBSET Verdicts]
  <2>1. UNCHANGED <<events, announced>> \/ \E v \in {"done", "failed"} : Publish(job[c], v)
    BY DEF Silent
  <2> QED BY <1>1, <1>2, <2>1, PublishType DEF TypeOK
<1>5. /\ at' \in [Executors -> Places] /\ job' \in [Executors -> Tasks \cup {NoTask}]
      /\ HoldsJob' /\ request' \in [Tasks -> Requests]
  BY <1>1, <1>2 DEF TypeOK, HoldsJob, Release, Places, Requests
<1> QED BY <1>3, <1>4, <1>5 DEF TypeOK, redisVars

\* Every step keeps the type invariant.
LEMMA TypeInvStep == TypeInv /\ [Next]_vars => TypeInv'
<1> SUFFICES ASSUME TypeInv, [Next]_vars PROVE TypeInv'
  OBVIOUS
<1> USE DEF TypeInv
<1> {"queued", "pending", "running"} \subseteq Status
  BY DEF Status
<1> {"inserted", "accepted", "refused", "created", "direct"} \subseteq Requests
  BY DEF Requests
<1>1. ASSUME NEW t \in Tasks, CreateStep(t) PROVE TypeInv'
  <2>1. CASE InsertQueued(t)
    BY <2>1 DEF InsertQueued, TypeOK, HoldsJob, redisVars, execVars, busVars
  <2>2. CASE CreatePending(t)
    BY <2>2 DEF CreatePending, TypeOK, HoldsJob, redisVars, execVars, busVars
  <2>3. CASE InsertRaises(t)
    <3> USE <2>3 DEF InsertRaises
    <3>1. faults' \in 0..MaxFaults
      BY FaultType
    <3>2. row' \in [Tasks -> Status]
      <4>1. \/ row' = [row EXCEPT ![t] = "queued"]
            \/ row' = [row EXCEPT ![t] = "pending"]
            \/ row' = row
        OBVIOUS
      <4>2. row \in [Tasks -> Status] /\ "queued" \in Status /\ "pending" \in Status
        BY DEF TypeOK, Status
      <4> QED BY <4>1, <4>2
    <3>3. request' \in [Tasks -> Requests] /\ lost' \subseteq Tasks
      BY DEF TypeOK
    <3> QED BY <3>1, <3>2, <3>3 DEF TypeOK, HoldsJob, redisVars, execVars, busVars
  <2>4. CASE Push(t)
    BY <2>4, EnqueueList DEF Push, TypeOK, HoldsJob, dbVars, execVars, busVars
  <2>5. CASE PushRaises(t)
    BY <2>5, EnqueueList DEF PushRaises, Fault, TypeOK, HoldsJob, dbVars, execVars, busVars
  <2> QED BY <1>1, <2>1, <2>2, <2>3, <2>4, <2>5 DEF CreateStep
<1>2. ASSUME NEW t \in Tasks, DelegationStep(t) PROVE TypeInv'
  <2>1. ASSUME NEW a \in Agents, RecordDelegation(t, a) PROVE TypeInv'
    BY <2>1 DEF RecordDelegation, TypeOK, HoldsJob, redisVars, execVars, busVars
  <2>2. CASE ApplyDelegation(t)
    BY <2>2, SetRowType DEF ApplyDelegation, TypeOK, HoldsJob, redisVars, execVars, busVars
  <2>3. CASE ApplyDelegationRaises(t)
    BY <2>3, FaultType DEF ApplyDelegationRaises, TypeOK, HoldsJob, redisVars, execVars, busVars
  <2> QED BY <1>2, <2>1, <2>2, <2>3 DEF DelegationStep
<1>3. ASSUME NEW t \in Tasks, ExpireResult(t) PROVE TypeInv'
  BY <1>3 DEF ExpireResult, TypeOK, HoldsJob, dbVars, execVars, busVars
<1>4. ASSUME NEW w \in Workers, Dequeue(w) PROVE TypeInv'
  BY <1>4, PopList DEF Dequeue, Move, TypeOK, HoldsJob, Places, Executors, dbVars, busVars
<1>5. ASSUME NEW w \in Workers, DequeueRaises(w) PROVE TypeInv'
  <2> USE <1>5 DEF DequeueRaises
  <2>1. faults' \in 0..MaxFaults
    BY FaultType
  <2>2. queue' \in Seq(Tasks) /\ lost' \subseteq Tasks
    <3>1. queue \in Seq(Tasks) /\ lost \subseteq Tasks
      BY DEF TypeOK
    <3>2. queue # <<>> => Head(queue) \in Tasks /\ Tail(queue) \in Seq(Tasks)
      BY <3>1, PopList
    <3> QED BY <3>1, <3>2
  <2>3. at' \in [Executors -> Places] /\ HoldsJob'
    BY DEF Move, TypeOK, HoldsJob, Places, Executors
  <2> QED BY <2>1, <2>2, <2>3 DEF TypeOK, dbVars, busVars
<1>6. ASSUME NEW w \in Workers, WorkerStep(w) PROVE TypeInv'
  <2>0. w \in Executors
    BY DEF Executors
  <2>1. CASE SetResult(w)
    BY <2>0, <2>1 DEF SetResult, Release, TypeOK, HoldsJob, Places, Verdicts, dbVars, busVars
  <2>2. CASE SetResultRaises(w)
    BY <2>0, <2>2, FaultType, AbandonType DEF SetResultRaises, TypeOK, Verdicts, dbVars, busVars
  <2>3. CASE Wake(w)
    BY <2>0, <2>3 DEF Wake, Move, TypeOK, HoldsJob, Places, dbVars, redisVars, busVars
  <2>4. CASE ExecuteStep(w)
    BY <2>0, <2>4, ExecuteStepType
  <2> QED BY <1>6, <2>1, <2>2, <2>3, <2>4 DEF WorkerStep
<1>7. ASSUME NEW c \in Callers, NEW t \in Tasks, BeginDirect(c, t) PROVE TypeInv'
  BY <1>7 DEF BeginDirect, Move, TypeOK, HoldsJob, Places, Executors, redisVars, busVars
<1>8. ASSUME NEW c \in Callers, ExecuteStep(c) PROVE TypeInv'
  BY <1>8, ExecuteStepType DEF Executors
<1>9. ASSUME NEW c \in Callers, Answer(c) PROVE TypeInv'
  BY <1>9 DEF Answer, Release, TypeOK, HoldsJob, Places, Executors, dbVars, redisVars, busVars
<1>10. CASE Deliver
  <2>1. events # <<>> /\ Credit(Head(events)) /\ events' = Tail(events)
    BY <1>10 DEF Deliver
  <2>2. credit' \in [Agents -> [Verdicts -> Nat]]
    BY <2>1, CreditType
  <2>3. events' \in Seq([task : Tasks, verdict : Verdicts])
    BY <2>1 DEF TypeOK
  <2> QED BY <1>10, <2>2, <2>3 DEF Deliver, TypeOK, HoldsJob, dbVars, redisVars, execVars
<1>11. CASE DeliverRaises
  <2> USE <1>11 DEF DeliverRaises
  <2>1. faults' \in 0..MaxFaults
    BY FaultType
  <2>2. credit' \in [Agents -> [Verdicts -> Nat]]
    BY CreditType DEF TypeOK
  <2>3. events' \in Seq([task : Tasks, verdict : Verdicts])
    BY DEF TypeOK
  <2> QED BY <2>1, <2>2, <2>3 DEF TypeOK, HoldsJob, dbVars, redisVars, execVars
<1>12. CASE ListenerDies
  <2>1. faults' \in 0..MaxFaults
    BY <1>12, FaultType DEF ListenerDies
  <2>2. events' \in Seq([task : Tasks, verdict : Verdicts])
    BY <1>12 DEF ListenerDies
  <2> QED BY <1>12, <2>1, <2>2 DEF ListenerDies, TypeOK, HoldsJob, dbVars, redisVars, execVars
<1>13. CASE ResetMemory
  BY <1>13 DEF ResetMemory, TypeOK, HoldsJob, Status, redisVars, execVars, busVars
<1>14. CASE BeginShutdown
  <2>1. faults' \in 0..MaxFaults
    BY <1>14, FaultType DEF BeginShutdown
  <2>2. events' \in Seq([task : Tasks, verdict : Verdicts])
    BY <1>14 DEF BeginShutdown
  <2> QED BY <1>14, <2>1, <2>2 DEF BeginShutdown, TypeOK, HoldsJob, dbVars, redisVars, execVars
<1>15. CASE Restart
  BY <1>15, FaultType DEF Restart, TypeOK, HoldsJob, Held, Places, redisVars
<1>16. CASE EvictQueue
  BY <1>16, FaultType DEF EvictQueue, TypeOK, HoldsJob, Queued, dbVars, execVars, busVars
<1>17. CASE UNCHANGED vars
  BY <1>17 DEF vars, TypeOK, HoldsJob, dbVars, redisVars, execVars, busVars
<1>18. ASSUME NEW c \in Streams, Leave(c) PROVE TypeInv'
  BY <1>18, LeaveType
<1> QED
  BY <1>1, <1>2, <1>3, <1>4, <1>5, <1>6, <1>7, <1>8, <1>9, <1>10, <1>11, <1>12,
     <1>13, <1>14, <1>15, <1>16, <1>17, <1>18 DEF Next

\* TypeInv is inductive, so it holds in every reachable state.
LEMMA TypeInvAlways == Spec => []TypeInv
<1> QED BY TypeInvInit, TypeInvStep, PTL DEF Spec

\* Every variable of the pipeline keeps its type: no interleaving of requests,
\* workers, faults and restarts writes a status, a result or a request state
\* that the tables and keys of the code do not have.
THEOREM TypeCorrect == Spec => []TypeOK
<1>1. TypeInv => TypeOK
  BY DEF TypeInv
<1> QED BY <1>1, TypeInvAlways, PTL

-----------------------------------------------------------------------------
(* At most one holder of a job *)

\* A task that has a job, or an executor, has been accepted or refused by
\* execute_async or is executed by its own request: no later push can add to it.
SentStates == {"accepted", "refused", "direct", "left"}

Sent ==
    /\ \A t \in Elems(queue) : request[t] \in SentStates
    /\ \A e \in Executors : job[e] # NoTask => request[job[e]] \in SentStates

Unique ==
    /\ Distinct(queue)
    /\ \A e \in Executors : job[e] \notin Elems(queue)
    /\ \A e, f \in Executors : e # f => job[e] = NoTask \/ job[e] # job[f]

HolderInv == Unique /\ Sent

\* Nothing is queued or held initially.
LEMMA HolderInvInit == Init => HolderInv
BY DEF Init, HolderInv, Unique, Sent, Elems, Distinct

\* A step that at most removes jobs, lets executors go and settles requests
\* keeps the invariant.
LEMMA Shrink ==
    ASSUME TypeInv, HolderInv,
           Elems(queue') \subseteq Elems(queue), Distinct(queue'),
           \A e \in Executors : job'[e] \in {job[e], NoTask},
           \A t \in Tasks : request[t] \in SentStates => request'[t] \in SentStates
    PROVE  HolderInv'
<1>1. \A e \in Executors : job[e] \in Tasks \cup {NoTask}
  BY DEF TypeInv, TypeOK
<1>2. Elems(queue) \subseteq Tasks
  BY DEF TypeInv, TypeOK, Elems
<1>3. Unique'
  BY <1>2 DEF HolderInv, Unique
<1>4. Sent'
  BY <1>1, <1>2 DEF HolderInv, Sent
<1> QED BY <1>3, <1>4 DEF HolderInv

\* The case of Shrink that leaves the list alone.
LEMMA SameQueue ==
    ASSUME TypeInv, HolderInv, queue' = queue,
           \A e \in Executors : job'[e] \in {job[e], NoTask},
           \A t \in Tasks : request[t] \in SentStates => request'[t] \in SentStates
    PROVE  HolderInv'
BY Shrink DEF HolderInv, Unique

\* Executing a task moves no job.
LEMMA ExecuteStepHolder ==
    ASSUME TypeInv, HolderInv, NEW e \in Executors, ExecuteStep(e)
    PROVE  HolderInv'
<1>1. queue' = queue /\ request' = request
  BY DEF ExecuteStep, MarkRunning, MarkRunningRaises, Generate, StoreDone, StoreDoneRaises,
         AnnounceDone, AnnounceDoneRaises, StoreFailed, StoreFailedRaises, AnnounceFailed,
         AnnounceFailedRaises, redisVars
<1>2. job' = job \/ job' = [job EXCEPT ![e] = NoTask]
  BY DEF ExecuteStep, MarkRunning, MarkRunningRaises, Generate, StoreDone, StoreDoneRaises,
         AnnounceDone, AnnounceDoneRaises, StoreFailed, StoreFailedRaises, AnnounceFailed,
         AnnounceFailedRaises, Abandon, Release
<1>3. \A f \in Executors : job'[f] \in {job[f], NoTask}
  BY <1>2 DEF TypeInv, TypeOK
<1> QED BY <1>1, <1>3, SameQueue

\* A task whose request is still new or only inserted has no job.
LEMMA NoJobYet ==
    ASSUME TypeInv, HolderInv, NEW t \in Tasks, request[t] \notin SentStates
    PROVE  t \notin Elems(queue) /\ \A e \in Executors : job[e] # t
BY DEF HolderInv, Sent, TypeInv, TypeOK

\* Pushing the job of such a task keeps the invariant.
LEMMA PushHolder ==
    ASSUME TypeInv, HolderInv, NEW t \in Tasks, request[t] = "inserted",
           queue' = Enqueue(queue, t), job' = job,
           NEW s \in SentStates, request' = [request EXCEPT ![t] = s]
    PROVE  HolderInv'
<1>1. /\ queue \in Seq(Tasks) /\ request \in [Tasks -> Requests]
      /\ \A e \in Executors : job[e] \in Tasks \cup {NoTask}
  BY DEF TypeInv, TypeOK
<1>2. t \notin Elems(queue) /\ \A e \in Executors : job[e] # t
  BY NoJobYet DEF SentStates
<1>3. Elems(queue') = Elems(queue) \cup {t} /\ Distinct(queue')
  BY <1>1, <1>2, EnqueueList DEF HolderInv, Unique
<1>4. Elems(queue) \subseteq Tasks
  BY <1>1 DEF Elems
<1>5. Unique'
  BY <1>2, <1>3 DEF HolderInv, Unique
<1>6. Sent'
  BY <1>1, <1>3, <1>4 DEF HolderInv, Sent
<1> QED BY <1>5, <1>6 DEF HolderInv

\* Every step keeps the invariant of the jobs' places.
LEMMA HolderInvStep == TypeInv /\ HolderInv /\ [Next]_vars => HolderInv'
<1> SUFFICES ASSUME TypeInv, HolderInv, [Next]_vars PROVE HolderInv'
  OBVIOUS
<1>0. /\ queue \in Seq(Tasks) /\ request \in [Tasks -> Requests]
      /\ job \in [Executors -> Tasks \cup {NoTask}]
      /\ Distinct(queue)
  BY DEF TypeInv, TypeOK, HolderInv, Unique
<1>1. ASSUME NEW t \in Tasks, CreateStep(t) PROVE HolderInv'
  <2>1. CASE InsertQueued(t) \/ CreatePending(t) \/ InsertRaises(t)
    <3>1. queue' = queue /\ job' = job
      BY <2>1 DEF InsertQueued, CreatePending, InsertRaises, redisVars, execVars
    <3>2. \A u \in Tasks : request[u] \in SentStates => request'[u] \in SentStates
      BY <2>1, <1>0 DEF InsertQueued, CreatePending, InsertRaises, SentStates
    <3> QED BY <3>1, <3>2, SameQueue
  <2>2. CASE Push(t)
    BY <2>2, PushHolder DEF Push, execVars, SentStates
  <2>3. CASE PushRaises(t)
    <3>1. CASE queue' = Enqueue(queue, t)
      BY <2>3, <3>1, PushHolder DEF PushRaises, execVars, SentStates
    <3>2. CASE queue' = queue
      BY <2>3, <3>2, <1>0, SameQueue DEF PushRaises, execVars, SentStates
    <3> QED BY <2>3, <3>1, <3>2 DEF PushRaises
  <2> QED BY <1>1, <2>1, <2>2, <2>3 DEF CreateStep
<1>2. ASSUME NEW t \in Tasks, DelegationStep(t) \/ ExpireResult(t) PROVE HolderInv'
  BY <1>2, SameQueue DEF DelegationStep, RecordDelegation, ApplyDelegation,
     ApplyDelegationRaises, ExpireResult, redisVars, execVars
<1>3. ASSUME NEW w \in Workers, Dequeue(w) PROVE HolderInv'
  <2> DEFINE t == Head(queue)
  <2>1. /\ queue # <<>> /\ w \in Executors /\ queue' = Tail(queue) /\ request' = request
        /\ job' = [job EXCEPT ![w] = t]
    BY <1>3 DEF Dequeue, Executors
  <2>2. /\ t \in Tasks /\ t \in Elems(queue) /\ Elems(queue') \subseteq Elems(queue)
        /\ Distinct(queue') /\ t \notin Elems(queue')
    BY <1>0, <2>1, PopList
  <2> HIDE DEF t
  <2>3. Unique'
    BY <1>0, <2>1, <2>2 DEF HolderInv, Unique
  <2>4. Sent'
    BY <1>0, <2>1, <2>2 DEF HolderInv, Sent
  <2> QED BY <2>3, <2>4 DEF HolderInv
<1>4. ASSUME NEW w \in Workers, DequeueRaises(w) PROVE HolderInv'
  <2>1. job' = job /\ request' = request
    BY <1>4 DEF DequeueRaises
  <2>2. queue' = queue \/ (queue # <<>> /\ queue' = Tail(queue))
    BY <1>4 DEF DequeueRaises
  <2>3. Elems(queue') \subseteq Elems(queue) /\ Distinct(queue')
    <3>1. CASE queue' = queue
      BY <1>0, <3>1
    <3>2. CASE queue # <<>> /\ queue' = Tail(queue)
      BY <1>0, <3>2, PopList
    <3> QED BY <2>2, <3>1, <3>2
  <2> QED BY <2>1, <2>3, Shrink
<1>5. ASSUME NEW w \in Workers, WorkerStep(w) PROVE HolderInv'
  <2>0. w \in Executors
    BY DEF Executors
  <2>1. CASE SetResult(w) \/ SetResultRaises(w) \/ Wake(w)
    <3>1. queue' = queue /\ request' = request
      BY <2>1 DEF SetResult, SetResultRaises, Wake, redisVars
    <3>2. job' = job \/ job' = [job EXCEPT ![w] = NoTask]
      BY <2>1 DEF SetResult, SetResultRaises, Wake, Abandon, Release
    <3>3. \A f \in Executors : job'[f] \in {job[f], NoTask}
      BY <1>0, <2>0, <3>2
    <3> QED BY <3>1, <3>3, SameQueue
  <2>2. CASE ExecuteStep(w)
    BY <2>0, <2>2, ExecuteStepHolder
  <2> QED BY <1>5, <2>1, <2>2 DEF WorkerStep
<1>6. ASSUME NEW c \in Callers, NEW t \in Tasks, BeginDirect(c, t) PROVE HolderInv'
  <2>1. /\ c \in Executors /\ queue' = queue /\ job' = [job EXCEPT ![c] = t]
        /\ request[t] = "new" /\ request' = [request EXCEPT ![t] = "direct"]
    BY <1>6 DEF BeginDirect, Executors, redisVars
  <2>2. t \notin Elems(queue) /\ \A e \in Executors : job[e] # t
    BY <2>1, NoJobYet DEF SentStates
  <2>3. Unique'
    BY <1>0, <2>1, <2>2 DEF HolderInv, Unique
  <2>4. Elems(queue) \subseteq Tasks
    BY <1>0 DEF Elems
  <2>5. Sent'
    BY <1>0, <2>1, <2>2, <2>4 DEF HolderInv, Sent, SentStates
  <2> QED BY <2>3, <2>5 DEF HolderInv
<1>7. ASSUME NEW c \in Callers, ExecuteStep(c) PROVE HolderInv'
  BY <1>7, ExecuteStepHolder DEF Executors
<1>8. ASSUME NEW c \in Callers, Answer(c) PROVE HolderInv'
  <2>1. queue' = queue /\ request' = request /\ job' = [job EXCEPT ![c] = NoTask]
    BY <1>8 DEF Answer, Release, redisVars
  <2> QED BY <1>0, <2>1, SameQueue
<1>9. CASE Deliver \/ DeliverRaises \/ ListenerDies \/ ResetMemory \/ BeginShutdown
  <2>1. queue' = queue /\ request' = request /\ job' = job
    BY <1>9 DEF Deliver, DeliverRaises, ListenerDies, ResetMemory, BeginShutdown, redisVars, execVars
  <2> QED BY <2>1, SameQueue
<1>10. CASE Restart
  <2>1. /\ queue' = queue /\ job' = [e \in Executors |-> NoTask]
        /\ request' = [t \in Tasks |-> IF request[t] = "inserted" THEN "refused" ELSE request[t]]
    BY <1>10 DEF Restart, redisVars
  <2> QED BY <2>1, SameQueue DEF SentStates
<1>11. CASE EvictQueue
  <2>1. queue' = <<>> /\ job' = job /\ request' = request
    BY <1>11 DEF EvictQueue, execVars
  <2>2. Elems(queue') \subseteq Elems(queue) /\ Distinct(queue')
    BY <2>1 DEF Elems, Distinct
  <2> QED BY <2>1, <2>2, Shrink
<1>12. CASE UNCHANGED vars
  BY <1>12, SameQueue DEF vars, redisVars, execVars
<1>13. ASSUME NEW c \in Streams, Leave(c) PROVE HolderInv'
  <2>1. /\ queue' = queue /\ request' = [request EXCEPT ![job[c]] = "left"]
        /\ job' = [job EXCEPT ![c] = NoTask]
    BY <1>13 DEF Leave, Release, redisVars
  <2> QED BY <1>0, <2>1, SameQueue DEF SentStates
<1> QED
  BY <1>1, <1>2, <1>3, <1>4, <1>5, <1>6, <1>7, <1>8, <1>9, <1>10, <1>11, <1>12, <1>13 DEF Next

\* Whatever faults occur and however requests, workers and restarts interleave, a
\* job is in the list once or in the memory of one executor, so that no task is
\* executed by two workers and no job comes back.
THEOREM AtMostOnceHeld == Spec => []AtMostOneHolder
<1>1. HolderInv => AtMostOneHolder
  BY DEF HolderInv, Unique, AtMostOneHolder, Queued, Elems, Distinct
<1> QED BY TypeInvInit, TypeInvStep, HolderInvInit, HolderInvStep, <1>1, PTL DEF Spec

-----------------------------------------------------------------------------
(* A job has its record *)

\* A request is about to push the task's job, or the job is queued or held.
Carried(t) ==
    request[t] = "inserted" \/ t \in Elems(queue) \/ \E e \in Executors : job[e] = t

\* The task has its row, or reset-memory has removed it.
Recorded(t) == row[t] # "absent" \/ t \in wiped

\* The strengthening of RecordBeforeJob: a request between its INSERT and its
\* push counts as well.
RecordInv == \A t \in Tasks : Carried(t) => Recorded(t)

\* An UPDATE neither creates nor removes a row.
LEMMA SetRowStays ==
    ASSUME TypeInv, NEW t, NEW s \in Status \ {"absent"}, SetRow(t, s)
    PROVE  \A u \in Tasks : row[u] # "absent" => row'[u] # "absent"
BY DEF TypeInv, TypeOK, SetRow

\* Executing a task moves no job and removes no row.
LEMMA ExecuteStepRecord ==
    ASSUME TypeInv, RecordInv, NEW e \in Executors, ExecuteStep(e)
    PROVE  RecordInv'
<1>1. queue' = queue /\ request' = request /\ wiped' = wiped
  BY DEF ExecuteStep, MarkRunning, MarkRunningRaises, Generate, StoreDone, StoreDoneRaises,
         AnnounceDone, AnnounceDoneRaises, StoreFailed, StoreFailedRaises, AnnounceFailed,
         AnnounceFailedRaises, redisVars
<1>2. job' = job \/ job' = [job EXCEPT ![e] = NoTask]
  BY DEF ExecuteStep, MarkRunning, MarkRunningRaises, Generate, StoreDone, StoreDoneRaises,
         AnnounceDone, AnnounceDoneRaises, StoreFailed, StoreFailedRaises, AnnounceFailed,
         AnnounceFailedRaises, Abandon, Release
<1>3. \/ row' = row
      \/ \E s \in Status \ {"absent"} : SetRow(job[e], s)
  BY DEF ExecuteStep, MarkRunning, MarkRunningRaises, Generate, StoreDone, StoreDoneRaises,
         AnnounceDone, AnnounceDoneRaises, StoreFailed, StoreFailedRaises, AnnounceFailed,
         AnnounceFailedRaises, UpdateRaises, dbVars, Status, Verdicts
<1>4. \A u \in Tasks : row[u] # "absent" => row'[u] # "absent"
  BY <1>3, SetRowStays
<1>5. \A f \in Executors : job'[f] \in {job[f], NoTask}
  BY <1>2 DEF TypeInv, TypeOK
<1> QED BY <1>1, <1>4, <1>5 DEF RecordInv, Carried, Recorded

\* Every step keeps the records of the jobs.
LEMMA RecordInvStep == TypeInv /\ RecordInv /\ [Next]_vars => RecordInv'
<1> SUFFICES ASSUME TypeInv, RecordInv, [Next]_vars PROVE RecordInv'
  OBVIOUS
<1>0. /\ queue \in Seq(Tasks) /\ request \in [Tasks -> Requests]
      /\ job \in [Executors -> Tasks \cup {NoTask}]
      /\ row \in [Tasks -> Status]
  BY DEF TypeInv, TypeOK
<1>1. ASSUME NEW t \in Tasks, CreateStep(t) PROVE RecordInv'
  <2>1. CASE InsertQueued(t) \/ CreatePending(t) \/ InsertRaises(t)
    <3>1. queue' = queue /\ job' = job /\ wiped' = wiped
      BY <2>1 DEF InsertQueued, CreatePending, InsertRaises, redisVars, execVars
    <3>2. \A u \in Tasks : row[u] # "absent" => row'[u] # "absent"
      BY <2>1, <1>0 DEF InsertQueued, CreatePending, InsertRaises
    <3>3. \A u \in Tasks : request'[u] = "inserted" => request[u] = "inserted" \/ row'[u] # "absent"
      BY <2>1, <1>0 DEF InsertQueued, CreatePending, InsertRaises
    <3> QED BY <3>1, <3>2, <3>3 DEF RecordInv, Carried, Recorded
  <2>2. CASE Push(t) \/ PushRaises(t)
    <3>1. /\ request[t] = "inserted" /\ queue' \in {queue, Enqueue(queue, t)} /\ row' = row
          /\ job' = job /\ wiped' = wiped
      BY <2>2 DEF Push, PushRaises, dbVars, execVars
    <3>2. \A u \in Tasks : request'[u] = "inserted" => request[u] = "inserted"
      BY <2>2, <1>0 DEF Push, PushRaises
    <3>3. Elems(queue') \subseteq Elems(queue) \cup {t}
      BY <3>1, <1>0, EnqueueList
    <3> QED BY <3>1, <3>2, <3>3 DEF RecordInv, Carried, Recorded
  <2> QED BY <1>1, <2>1, <2>2 DEF CreateStep
<1>2. ASSUME NEW t \in Tasks, DelegationStep(t) \/ ExpireResult(t) PROVE RecordInv'
  <2>1. queue' = queue /\ job' = job /\ request' = request /\ wiped' = wiped
    BY <1>2 DEF DelegationStep, RecordDelegation, ApplyDelegation, ApplyDelegationRaises,
       ExpireResult, redisVars, execVars
  <2>2. row' = row \/ SetRow(t, "queued")
    BY <1>2 DEF DelegationStep, RecordDelegation, ApplyDelegation, ApplyDelegationRaises,
       ExpireResult, dbVars
  <2>3. \A u \in Tasks : row[u] # "absent" => row'[u] # "absent"
    BY <2>2, SetRowStays DEF Status
  <2> QED BY <2>1, <2>3 DEF RecordInv, Carried, Recorded
<1>3. ASSUME NEW w \in Workers, Dequeue(w) \/ DequeueRaises(w) PROVE RecordInv'
  <2>1. /\ w \in Executors /\ request' = request /\ row' = row /\ wiped' = wiped
        /\ queue' = queue \/ (queue # <<>> /\ queue' = Tail(queue))
    BY <1>3 DEF Dequeue, DequeueRaises, Executors, dbVars
  <2>2. Elems(queue') \subseteq Elems(queue)
    BY <1>0, <2>1, PopList
  <2>3. job' = job \/ (queue # <<>> /\ job' = [job EXCEPT ![w] = Head(queue)])
    BY <1>3 DEF Dequeue, DequeueRaises
  <2>4. \A f \in Executors : job'[f] = job[f] \/ job'[f] \in Elems(queue)
    BY <1>0, <2>1, <2>3, PopList
  <2> QED BY <2>1, <2>2, <2>4 DEF RecordInv, Carried, Recorded
<1>4. ASSUME NEW w \in Workers, WorkerStep(w) PROVE RecordInv'
  <2>0. w \in Executors
    BY DEF Executors
  <2>1. CASE SetResult(w) \/ SetResultRaises(w) \/ Wake(w)
    <3>1. queue' = queue /\ request' = request /\ row' = row /\ wiped' = wiped
      BY <2>1 DEF SetResult, SetResultRaises, Wake, redisVars, dbVars
    <3>2. job' = job \/ job' = [job EXCEPT ![w] = NoTask]
      BY <2>1 DEF SetResult, SetResultRaises, Wake, Abandon, Release
    <3>3. \A f \in Executors : job'[f] \in {job[f], NoTask}
      BY <1>0, <2>0, <3>2
    <3> QED BY <3>1, <3>3 DEF RecordInv, Carried, Recorded
  <2>2. CASE ExecuteStep(w)
    BY <2>0, <2>2, ExecuteStepRecord
  <2> QED BY <1>4, <2>1, <2>2 DEF WorkerStep
<1>5. ASSUME NEW c \in Callers, NEW t \in Tasks, BeginDirect(c, t) PROVE RecordInv'
  <2>1. /\ c \in Executors /\ queue' = queue /\ job' = [job EXCEPT ![c] = t]
        /\ request' = [request EXCEPT ![t] = "direct"] /\ row' = [row EXCEPT ![t] = "pending"]
        /\ wiped' = wiped
    BY <1>5 DEF BeginDirect, Executors, redisVars
  <2>2. \A u \in Tasks : Carried(u)' => Carried(u) \/ u = t
    BY <2>1, <1>0 DEF Carried
  <2> QED BY <2>1, <2>2, <1>0 DEF RecordInv, Recorded
<1>6. ASSUME NEW c \in Callers, ExecuteStep(c) \/ Answer(c) PROVE RecordInv'
  <2>0. c \in Executors
    BY DEF Executors
  <2>1. CASE Answer(c)
    <3>1. /\ queue' = queue /\ request' = request /\ job' = [job EXCEPT ![c] = NoTask]
          /\ row' = row /\ wiped' = wiped
      BY <2>1 DEF Answer, Release, redisVars, dbVars
    <3>2. \A f \in Executors : job'[f] \in {job[f], NoTask}
      BY <1>0, <2>0, <3>1
    <3> QED BY <3>1, <3>2 DEF RecordInv, Carried, Recorded
  <2> QED BY <1>6, <2>0, <2>1, ExecuteStepRecord
<1>7. CASE Deliver \/ DeliverRaises \/ ListenerDies \/ BeginShutdown
  <2>1. queue' = queue /\ request' = request /\ job' = job /\ row' = row /\ wiped' = wiped
    BY <1>7 DEF Deliver, DeliverRaises, ListenerDies, BeginShutdown, redisVars, execVars, dbVars
  <2> QED BY <2>1 DEF RecordInv, Carried, Recorded
<1>8. CASE ResetMemory
  <2>1. /\ queue' = queue /\ request' = request /\ job' = job
        /\ wiped' = wiped \cup {t \in Tasks : row[t] # "absent"}
    BY <1>8 DEF ResetMemory, redisVars, execVars
  <2> QED BY <2>1 DEF RecordInv, Carried, Recorded
<1>9. CASE Restart
  <2>1. /\ queue' = queue /\ job' = [e \in Executors |-> NoTask] /\ row' = row /\ wiped' = wiped
        /\ request' = [t \in Tasks |-> IF request[t] = "inserted" THEN "refused" ELSE request[t]]
    BY <1>9 DEF Restart, redisVars
  <2> QED BY <2>1 DEF RecordInv, Carried, Recorded
<1>10. CASE EvictQueue
  <2>1. /\ queue' = <<>> /\ job' = job /\ request' = request /\ row' = row /\ wiped' = wiped
    BY <1>10 DEF EvictQueue, execVars, dbVars
  <2>2. Elems(queue') = {}
    BY <2>1 DEF Elems
  <2> QED BY <2>1, <2>2 DEF RecordInv, Carried, Recorded
<1>11. CASE UNCHANGED vars
  BY <1>11 DEF vars, redisVars, execVars, dbVars, RecordInv, Carried, Recorded
<1>12. ASSUME NEW c \in Streams, Leave(c) PROVE RecordInv'
  <2>1. /\ queue' = queue /\ wiped' = wiped /\ job' = [job EXCEPT ![c] = NoTask]
        /\ request' = [request EXCEPT ![job[c]] = "left"]
        /\ row' = row \/ \E s \in {"running", "done", "failed"} : SetRow(job[c], s)
    BY <1>12 DEF Leave, Release, redisVars
  <2>2. \A u \in Tasks : row[u] # "absent" => row'[u] # "absent"
    BY <2>1, SetRowStays DEF Status, Verdicts
  <2>3. /\ \A f \in Executors : job'[f] \in {job[f], NoTask}
        /\ \A u \in Tasks : request'[u] = "inserted" => request[u] = "inserted"
    BY <1>0, <2>1
  <2> QED BY <2>1, <2>2, <2>3 DEF RecordInv, Carried, Recorded
<1> QED
  BY <1>1, <1>2, <1>3, <1>4, <1>5, <1>6, <1>7, <1>8, <1>9, <1>10, <1>11, <1>12 DEF Next

\* execute_async inserts the row before it pushes the job, so that no worker ever
\* holds a job whose row was never there: only reset-memory takes it away.
THEOREM RecordPrecedesJob == Spec => []RecordBeforeJob
<1>1. Init => RecordInv
  BY DEF Init, RecordInv, Carried, Elems
<1>2. TypeInv /\ RecordInv => RecordBeforeJob
  BY DEF RecordInv, RecordBeforeJob, Carried, Recorded, Queued, Held, Elems
<1> QED BY <1>1, <1>2, TypeInvAlways, RecordInvStep, PTL DEF Spec

-----------------------------------------------------------------------------
(* Delivery at most once: a step of the pipeline moves jobs in one of eight *)
(* ways, and each is a step of AtMostOnce or leaves its stages alone.       *)

Settled == {"accepted", "refused"}

\* The requests that are settled stay the same ones.
SameSettled == \A t \in Tasks : request'[t] \in Settled <=> request[t] \in Settled

\* No job moves.
Still ==
    /\ queue' = queue /\ SameSettled
    /\ \A w \in Workers : job'[w] = job[w]

\* A request fails and leaves no job behind.
Refused(t) ==
    /\ request[t] \in {"new", "inserted"}
    /\ request' = [request EXCEPT ![t] = "refused"]
    /\ queue' = queue /\ job' = job

\* A job is pushed, whatever the client is told.
Pushed(t) ==
    /\ request[t] = "inserted"
    /\ \E s \in Settled : request' = [request EXCEPT ![t] = s]
    /\ queue' = Enqueue(queue, t) /\ job' = job

\* A worker takes the first job.
Popped(w) ==
    /\ queue # <<>> /\ job[w] = NoTask
    /\ queue' = Tail(queue) /\ job' = [job EXCEPT ![w] = Head(queue)]
    /\ request' = request

\* The first job is popped for nobody.
Dropped ==
    /\ queue # <<>>
    /\ queue' = Tail(queue) /\ job' = job /\ request' = request

\* A worker lets its job go.
Released(w) ==
    /\ job[w] \in Tasks
    /\ job' = [job EXCEPT ![w] = NoTask] /\ queue' = queue /\ request' = request

Shape ==
    \/ Still \/ Dropped \/ Restart \/ EvictQueue
    \/ \E t \in Tasks : Refused(t) \/ Pushed(t)
    \/ \E w \in Workers : Popped(w) \/ Released(w)

\* A worker in execute either keeps its job or lets it go; a request handler's
\* task is no worker's.
LEMMA ExecuteStepShape ==
    ASSUME TypeInv, NEW e \in Executors, ExecuteStep(e)
    PROVE  Shape
<1>1. queue' = queue /\ request' = request
  BY DEF ExecuteStep, MarkRunning, MarkRunningRaises, Generate, StoreDone, StoreDoneRaises,
         AnnounceDone, AnnounceDoneRaises, StoreFailed, StoreFailedRaises, AnnounceFailed,
         AnnounceFailedRaises, redisVars
<1>2. job' = job \/ job' = [job EXCEPT ![e] = NoTask]
  BY DEF ExecuteStep, MarkRunning, MarkRunningRaises, Generate, StoreDone, StoreDoneRaises,
         AnnounceDone, AnnounceDoneRaises, StoreFailed, StoreFailedRaises, AnnounceFailed,
         AnnounceFailedRaises, Abandon, Release
<1>3. at[e] \notin {"idle", "backoff"}
  BY DEF ExecuteStep, MarkRunning, MarkRunningRaises, Generate, StoreDone, StoreDoneRaises,
         AnnounceDone, AnnounceDoneRaises, StoreFailed, StoreFailedRaises, AnnounceFailed,
         AnnounceFailedRaises, Move
<1>4. job[e] \in Tasks /\ job \in [Executors -> Tasks \cup {NoTask}]
  BY <1>3 DEF TypeInv, TypeOK, HoldsJob
<1>5. CASE e \in Workers /\ job' # job
  BY <1>1, <1>2, <1>4, <1>5 DEF Shape, Released
<1>6. CASE e \notin Workers \/ job' = job
  BY <1>1, <1>2, <1>4, <1>6 DEF Shape, Still, SameSettled, Executors
<1> QED BY <1>5, <1>6

\* What a request handler executes is no job: its request is never settled.
DirectInv == \A c \in Callers : job[c] # NoTask => request[job[c]] \in {"direct", "left"}

\* The requests that execute their own task stay apart from those that push a job.
LEMMA DirectInvStep == TypeInv /\ DirectInv /\ [Next]_vars => DirectInv'
<1> SUFFICES ASSUME TypeInv, DirectInv, [Next]_vars PROVE DirectInv'
  OBVIOUS
<1>0. /\ request \in [Tasks -> Requests] /\ job \in [Executors -> Tasks \cup {NoTask}]
      /\ Callers \subseteq Executors
  BY DEF TypeInv, TypeOK, Executors
<1>1. ASSUME \A c \in Callers : job'[c] \in {job[c], NoTask},
             \A t \in Tasks : request[t] \in {"direct", "left"} => request'[t] \in {"direct", "left"}
      PROVE  DirectInv'
  BY <1>0, <1>1 DEF DirectInv
<1>2. ASSUME NEW t \in Tasks, CreateStep(t) PROVE DirectInv'
  <2>1. job' = job /\ \E s \in Requests : request' = [request EXCEPT ![t] = s]
    BY <1>2 DEF CreateStep, InsertQueued, CreatePending, InsertRaises, Push, PushRaises, execVars,
       Requests
  <2>2. request[t] \in {"new", "inserted"}
    BY <1>2 DEF CreateStep, InsertQueued, CreatePending, InsertRaises, Push, PushRaises
  <2> QED BY <1>0, <1>1, <2>1, <2>2
<1>3. ASSUME NEW t \in Tasks, DelegationStep(t) \/ ExpireResult(t) PROVE DirectInv'
  BY <1>1, <1>3 DEF DelegationStep, RecordDelegation, ApplyDelegation, ApplyDelegationRaises,
     ExpireResult, redisVars, execVars
<1>4. ASSUME NEW w \in Workers, Dequeue(w) \/ DequeueRaises(w) \/ WorkerStep(w) PROVE DirectInv'
  <2>1. request' = request /\ \A f \in Executors \ {w} : job'[f] = job[f]
    BY <1>0, <1>4 DEF Dequeue, DequeueRaises, WorkerStep, SetResult, SetResultRaises, Wake,
       ExecuteStep, MarkRunning, MarkRunningRaises, Generate, StoreDone, StoreDoneRaises,
       AnnounceDone, AnnounceDoneRaises, StoreFailed, StoreFailedRaises, AnnounceFailed,
       AnnounceFailedRaises, Abandon, Release
  <2> QED BY <1>0, <1>1, <2>1, PipelineAssumption
<1>5. ASSUME NEW c \in Callers, NEW t \in Tasks, BeginDirect(c, t) PROVE DirectInv'
  <2>1. /\ job' = [job EXCEPT ![c] = t] /\ request' = [request EXCEPT ![t] = "direct"]
    BY <1>5 DEF BeginDirect
  <2> QED BY <1>0, <2>1 DEF DirectInv
<1>6. ASSUME NEW c \in Callers, ExecuteStep(c) \/ Answer(c) PROVE DirectInv'
  <2>1. request' = request /\ (job' = job \/ job' = [job EXCEPT ![c] = NoTask])
    BY <1>6 DEF Answer, ExecuteStep, MarkRunning, MarkRunningRaises, Generate, StoreDone,
       StoreDoneRaises, AnnounceDone, AnnounceDoneRaises, StoreFailed, StoreFailedRaises,
       AnnounceFailed, AnnounceFailedRaises, Abandon, Release
  <2> QED BY <1>0, <1>1, <2>1
<1>7. ASSUME NEW c \in Streams, Leave(c) PROVE DirectInv'
  <2>1. /\ job' = [job EXCEPT ![c] = NoTask] /\ request' = [request EXCEPT ![job[c]] = "left"]
    BY <1>7 DEF Leave, Release
  <2> QED BY <1>0, <1>1, <2>1
<1>8. CASE \/ Deliver \/ DeliverRaises \/ ListenerDies \/ ResetMemory \/ BeginShutdown
           \/ EvictQueue \/ UNCHANGED vars
  <2>1. request' = request /\ job' = job
    BY <1>8 DEF Deliver, DeliverRaises, ListenerDies, ResetMemory, BeginShutdown, EvictQueue, vars,
       execVars
  <2> QED BY <1>1, <2>1
<1>9. CASE Restart
  <2>1. /\ job' = [e \in Executors |-> NoTask]
        /\ request' = [t \in Tasks |-> IF request[t] = "inserted" THEN "refused" ELSE request[t]]
    BY <1>9 DEF Restart
  <2> QED BY <1>0, <1>1, <2>1
<1> QED BY <1>2, <1>3, <1>4, <1>5, <1>6, <1>7, <1>8, <1>9 DEF Next

\* Every step has one of the eight shapes.
LEMMA StepShape == TypeInv /\ DirectInv /\ [Next]_vars => Shape
<1> SUFFICES ASSUME TypeInv, DirectInv, [Next]_vars PROVE Shape
  OBVIOUS
<1>0. /\ request \in [Tasks -> Requests] /\ job \in [Executors -> Tasks \cup {NoTask}]
      /\ \A e \in Executors : at[e] \notin {"idle", "backoff"} => job[e] \in Tasks
      /\ \A e \in Executors : at[e] = "idle" => job[e] = NoTask
  BY DEF TypeInv, TypeOK, HoldsJob
<1>1. ASSUME NEW t \in Tasks, CreateStep(t) PROVE Shape
  <2>1. CASE InsertQueued(t) \/ CreatePending(t)
    BY <2>1, <1>0 DEF InsertQueued, CreatePending, redisVars, execVars, Shape, Still,
       SameSettled, Settled
  <2>2. CASE InsertRaises(t)
    BY <2>2 DEF InsertRaises, redisVars, execVars, Shape, Refused
  <2>3. CASE Push(t)
    BY <2>3 DEF Push, execVars, Shape, Pushed, Settled
  <2>4. CASE PushRaises(t)
    BY <2>4 DEF PushRaises, execVars, Shape, Pushed, Refused, Settled
  <2> QED BY <1>1, <2>1, <2>2, <2>3, <2>4 DEF CreateStep
<1>2. ASSUME NEW t \in Tasks, DelegationStep(t) \/ ExpireResult(t) PROVE Shape
  BY <1>2 DEF DelegationStep, RecordDelegation, ApplyDelegation, ApplyDelegationRaises,
     ExpireResult, redisVars, execVars, Shape, Still, SameSettled
<1>3. ASSUME NEW w \in Workers, Dequeue(w) \/ DequeueRaises(w) PROVE Shape
  <2>0. w \in Executors
    BY DEF Executors
  <2>1. CASE Dequeue(w)
    BY <2>0, <2>1, <1>0 DEF Dequeue, Move, Shape, Popped
  <2>2. CASE DequeueRaises(w)
    BY <2>2 DEF DequeueRaises, Shape, Dropped, Still, SameSettled
  <2> QED BY <1>3, <2>1, <2>2
<1>4. ASSUME NEW w \in Workers, WorkerStep(w) PROVE Shape
  <2>0. w \in Executors
    BY DEF Executors
  <2>1. CASE SetResult(w) \/ SetResultRaises(w)
    <3>1. at[w] \in Verdicts
      BY <2>1 DEF SetResult, SetResultRaises
    <3>2. job[w] \in Tasks
      BY <2>0, <3>1, <1>0 DEF Verdicts
    <3> QED BY <2>1, <3>2 DEF SetResult, SetResultRaises, Abandon, Release, Shape, Released
  <2>2. CASE Wake(w)
    BY <2>2 DEF Wake, redisVars, Shape, Still, SameSettled
  <2>3. CASE ExecuteStep(w)
    BY <2>0, <2>3, ExecuteStepShape
  <2> QED BY <1>4, <2>1, <2>2, <2>3 DEF WorkerStep
<1>5. ASSUME NEW c \in Callers, NEW t \in Tasks, BeginDirect(c, t) PROVE Shape
  <2>1. /\ queue' = queue /\ job' = [job EXCEPT ![c] = t]
        /\ request[t] = "new" /\ request' = [request EXCEPT ![t] = "direct"]
    BY <1>5 DEF BeginDirect, redisVars
  <2>2. \A w \in Workers : job'[w] = job[w]
    BY <2>1, <1>0, PipelineAssumption DEF Executors
  <2>3. SameSettled
    BY <2>1, <1>0 DEF SameSettled, Settled
  <2> QED BY <2>1, <2>2, <2>3 DEF Shape, Still
<1>6. ASSUME NEW c \in Callers, ExecuteStep(c) \/ Answer(c) PROVE Shape
  <2>1. CASE Answer(c)
    <3>1. queue' = queue /\ request' = request /\ job' = [job EXCEPT ![c] = NoTask]
      BY <2>1 DEF Answer, Release, redisVars
    <3>2. \A w \in Workers : job'[w] = job[w]
      BY <3>1, <1>0, PipelineAssumption DEF Executors
    <3> QED BY <3>1, <3>2 DEF Shape, Still, SameSettled
  <2> QED BY <1>6, <2>1, ExecuteStepShape DEF Executors
<1>7. CASE Deliver \/ DeliverRaises \/ ListenerDies \/ ResetMemory \/ BeginShutdown
  BY <1>7 DEF Deliver, DeliverRaises, ListenerDies, ResetMemory, BeginShutdown, redisVars,
     execVars, Shape, Still, SameSettled
<1>8. CASE Restart \/ EvictQueue
  BY <1>8 DEF Shape
<1>9. CASE UNCHANGED vars
  BY <1>9 DEF vars, redisVars, execVars, Shape, Still, SameSettled
<1>10. ASSUME NEW c \in Streams, Leave(c) PROVE Shape
  <2>1. /\ c \in Callers /\ c \in Executors /\ at[c] \notin {"idle", "backoff"}
        /\ queue' = queue /\ job' = [job EXCEPT ![c] = NoTask]
        /\ request' = [request EXCEPT ![job[c]] = "left"]
    BY <1>10, PipelineAssumption DEF Leave, Release, redisVars, Executors
  <2>2. \A w \in Workers : job'[w] = job[w]
    BY <2>1, <1>0, PipelineAssumption DEF Executors
  <2>3. request[job[c]] \notin Settled
    BY <2>1, <1>0, PipelineAssumption DEF DirectInv, Settled
  <2>4. SameSettled
    BY <2>1, <2>3, <1>0 DEF SameSettled, Settled
  <2> QED BY <2>1, <2>2, <2>4 DEF Shape, Still
<1> QED BY <1>1, <1>2, <1>3, <1>4, <1>5, <1>6, <1>7, <1>8, <1>9, <1>10 DEF Next

-----------------------------------------------------------------------------
(* Who has a job was settled *)

\* A queued job, or one that a worker holds, belongs to a request that was
\* accepted or refused; a task executed by its own request has no job.
SettledInv ==
    /\ \A t \in Elems(queue) : request[t] \in Settled
    /\ \A w \in Workers : job[w] # NoTask => request[job[w]] \in Settled

\* The invariant holds after a step that settles what it queues.
LEMMA SettledInvStep == TypeInv /\ SettledInv /\ Shape => SettledInv'
<1> SUFFICES ASSUME TypeInv, SettledInv, Shape PROVE SettledInv'
  OBVIOUS
<1>0. /\ queue \in Seq(Tasks) /\ request \in [Tasks -> Requests]
      /\ job \in [Executors -> Tasks \cup {NoTask}] /\ Elems(queue) \subseteq Tasks
      /\ \A w \in Workers : w \in Executors
  BY DEF TypeInv, TypeOK, Elems, Executors
<1>1. CASE Still
  <2>1. Elems(queue') = Elems(queue)
    BY <1>1 DEF Still
  <2> QED BY <1>0, <1>1, <2>1 DEF Still, SameSettled, SettledInv
<1>2. CASE Dropped
  <2>1. Elems(queue') \subseteq Elems(queue)
    BY <1>0, <1>2, PopList DEF Dropped
  <2> QED BY <1>0, <1>2, <2>1 DEF Dropped, SettledInv
<1>3. CASE Restart
  BY <1>0, <1>3 DEF Restart, redisVars, SettledInv, Settled
<1>4. CASE EvictQueue
  <2>1. Elems(queue') = {} /\ job' = job /\ request' = request
    BY <1>4 DEF EvictQueue, execVars, Elems
  <2> QED BY <2>1 DEF SettledInv
<1>5. ASSUME NEW t \in Tasks, Refused(t) PROVE SettledInv'
  BY <1>0, <1>5 DEF Refused, SettledInv, Settled
<1>6. ASSUME NEW t \in Tasks, Pushed(t) PROVE SettledInv'
  <2>1. Elems(queue') = Elems(queue) \cup {t}
    BY <1>0, <1>6, EnqueueList DEF Pushed
  <2> QED BY <1>0, <1>6, <2>1 DEF Pushed, SettledInv
<1>7. ASSUME NEW w \in Workers, Popped(w) PROVE SettledInv'
  <2>1. /\ Head(queue) \in Elems(queue) /\ Elems(queue') \subseteq Elems(queue)
    BY <1>0, <1>7, PopList DEF Popped
  <2> QED BY <1>0, <1>7, <2>1 DEF Popped, SettledInv
<1>8. ASSUME NEW w \in Workers, Released(w) PROVE SettledInv'
  BY <1>0, <1>8 DEF Released, SettledInv
<1> QED BY <1>1, <1>2, <1>3, <1>4, <1>5, <1>6, <1>7, <1>8 DEF Shape

-----------------------------------------------------------------------------
(* The refinement *)

\* A step that moves one job from stage a to stage b.
LEMMA MapsToStep ==
    ASSUME NEW t \in Tasks, NEW a, NEW b, Stage(t) = a, Stage(t)' = b,
           \A u \in Tasks \ {t} : Stage(u)' = Stage(u)
    PROVE  Delivery!Step(t, a, b)
BY DEF Delivery!Step

\* A step that ends the jobs of S wherever they are.
LEMMA MapsToLose ==
    ASSUME NEW S \in SUBSET Tasks,
           \A u \in Tasks : Stage(u)' = IF u \in S THEN "over" ELSE Stage(u)
    PROVE  Delivery!Next
BY DEF Delivery!Next, Delivery!Lose

\* Every shape of step is a step of AtMostOnce.
LEMMA ShapeRefines ==
    TypeInv /\ HolderInv /\ SettledInv /\ Shape
        => [Delivery!Next]_([t \in Tasks |-> Stage(t)])
<1> DEFINE stages == [t \in Tasks |-> Stage(t)]
<1> SUFFICES ASSUME TypeInv, HolderInv, SettledInv, Shape
             PROVE  [Delivery!Next]_stages
  OBVIOUS
<1>0. /\ queue \in Seq(Tasks) /\ request \in [Tasks -> Requests]
      /\ job \in [Executors -> Tasks \cup {NoTask}] /\ Queued = Elems(queue)
      /\ Queued' = Elems(queue')
      /\ \A w \in Workers : w \in Executors
      /\ NoTask \notin Tasks
  BY PipelineAssumption DEF TypeInv, TypeOK, Elems, Queued, Executors
<1>a. /\ Distinct(queue)
      /\ \A e \in Executors : job[e] \notin Queued
      /\ \A e, f \in Executors : e # f => job[e] = NoTask \/ job[e] # job[f]
  BY <1>0 DEF HolderInv, Unique
<1>b. /\ \A t \in Queued : request[t] \in Settled
      /\ \A w \in Workers : job[w] # NoTask => request[job[w]] \in Settled
  BY <1>0 DEF SettledInv
<1>1. CASE Still
  <2>1. Queued' = Queued /\ HeldByWorker' = HeldByWorker
    BY <1>0, <1>1 DEF Still, HeldByWorker
  <2>2. \A t \in Tasks : Stage(t)' = Stage(t)
    BY <1>1, <2>1 DEF Still, SameSettled, Stage, Settled
  <2> QED BY <2>2
<1>2. CASE Dropped
  <2> DEFINE h == Head(queue)
  <2>1. h \in Queued /\ h \in Tasks /\ Queued' \subseteq Queued /\ h \notin Queued'
    BY <1>0, <1>a, <1>2, PopList DEF Dropped
  <2>2. Queued' = Queued \ {h}
    BY <1>0, <1>2, <2>1, PopListElems DEF Dropped
  <2>3. HeldByWorker' = HeldByWorker /\ h \notin HeldByWorker
    BY <1>0, <1>a, <1>2, <2>1 DEF Dropped, HeldByWorker
  <2>4. \A u \in Tasks : Stage(u)' = IF u \in {h} THEN "over" ELSE Stage(u)
    BY <1>b, <1>2, <2>1, <2>2, <2>3 DEF Dropped, Stage, Settled
  <2>5. {h} \in SUBSET Tasks
    BY <2>1
  <2> QED BY <2>4, <2>5, MapsToLose
<1>3. CASE Restart
  <2> DEFINE S == {t \in Tasks : t \in HeldByWorker \/ request[t] = "inserted"}
  <2>1. /\ queue' = queue /\ job' = [e \in Executors |-> NoTask]
        /\ request' = [t \in Tasks |-> IF request[t] = "inserted" THEN "refused" ELSE request[t]]
    BY <1>3 DEF Restart, redisVars
  <2>2. Queued' = Queued /\ \A u \in Tasks : u \notin HeldByWorker'
    BY <1>0, <2>1 DEF HeldByWorker
  <2>3. \A u \in HeldByWorker : u \notin Queued /\ (u # NoTask => request[u] \in Settled)
    BY <1>0, <1>a, <1>b DEF HeldByWorker
  <2>4. \A u \in Tasks : Stage(u)' = IF u \in S THEN "over" ELSE Stage(u)
    BY <1>0, <1>b, <2>1, <2>2, <2>3 DEF Stage, Settled
  <2> QED BY <2>4, MapsToLose
<1>4. CASE EvictQueue
  <2>1. Queued' = {} /\ job' = job /\ request' = request
    BY <1>4 DEF EvictQueue, execVars, Queued
  <2>2. HeldByWorker' = HeldByWorker
    BY <2>1 DEF HeldByWorker
  <2>3. Queued \subseteq Tasks
    BY <1>0 DEF Elems
  <2>4. \A u \in Tasks : u \in Queued => u \notin HeldByWorker
    BY <1>0, <1>a DEF HeldByWorker
  <2>5. \A u \in Tasks : Stage(u)' = IF u \in Queued THEN "over" ELSE Stage(u)
    BY <1>b, <2>1, <2>2, <2>4 DEF Stage, Settled
  <2> QED BY <2>3, <2>5, MapsToLose
<1>5. ASSUME NEW t \in Tasks, Refused(t) PROVE [Delivery!Next]_stages
  <2>1. /\ Queued' = Queued /\ HeldByWorker' = HeldByWorker
        /\ request[t] \notin Settled /\ request' = [request EXCEPT ![t] = "refused"]
    BY <1>0, <1>5 DEF Refused, HeldByWorker, Settled
  <2>2. t \notin Queued /\ t \notin HeldByWorker
    BY <1>0, <1>b, <2>1 DEF HeldByWorker
  <2>3. \A u \in Tasks : Stage(u)' = IF u \in {t} THEN "over" ELSE Stage(u)
    BY <1>0, <2>1, <2>2 DEF Stage
  <2> QED BY <2>3, MapsToLose
<1>6. ASSUME NEW t \in Tasks, Pushed(t) PROVE [Delivery!Next]_stages
  <2>1. /\ Queued' = Queued \cup {t} /\ HeldByWorker' = HeldByWorker
        /\ request[t] = "inserted"
        /\ \A u \in Tasks \ {t} : request'[u] = request[u]
    BY <1>0, <1>6, EnqueueList DEF Pushed, HeldByWorker
  <2>2. t \notin Queued /\ t \notin HeldByWorker
    BY <1>0, <1>b, <2>1 DEF HeldByWorker, Settled
  <2>3. Stage(t) = "unsent" /\ Stage(t)' = "waiting"
    BY <2>1, <2>2 DEF Stage
  <2>4. \A u \in Tasks \ {t} : Stage(u)' = Stage(u)
    BY <2>1 DEF Stage
  <2>5. Delivery!Step(t, "unsent", "waiting")
    BY <2>3, <2>4, MapsToStep
  <2> QED BY <2>5 DEF Delivery!Next, Delivery!Send
<1>7. ASSUME NEW w \in Workers, Popped(w) PROVE [Delivery!Next]_stages
  <2>0. PICK h \in Tasks : h = Head(queue)
    BY <1>0, <1>7, PopList DEF Popped
  <2>1. h \in Queued /\ h \in Tasks /\ h \notin Queued' /\ Queued' = Queued \ {h}
    BY <1>0, <1>a, <1>7, <2>0, PopList, PopListElems DEF Popped
  <2>2. job[w] = NoTask /\ job' = [job EXCEPT ![w] = h] /\ request' = request
    BY <1>7, <2>0 DEF Popped
  <2>3. \A u \in Tasks : u \in HeldByWorker' <=> u \in HeldByWorker \/ u = h
    BY <1>0, <2>2, <2>1 DEF HeldByWorker
  <2>4. Stage(h) = "waiting" /\ Stage(h)' = "taken"
    BY <2>1, <2>3 DEF Stage
  <2>5. \A u \in Tasks \ {h} : Stage(u)' = Stage(u)
    BY <2>1, <2>2, <2>3 DEF Stage
  <2>6. Delivery!Step(h, "waiting", "taken")
    BY <2>1, <2>4, <2>5, MapsToStep
  <2> QED BY <2>1, <2>6 DEF Delivery!Next, Delivery!Take
<1>8. ASSUME NEW w \in Workers, Released(w) PROVE [Delivery!Next]_stages
  <2>0. PICK t \in Tasks : t = job[w]
    BY <1>8 DEF Released
  <2>1. /\ job' = [job EXCEPT ![w] = NoTask]
        /\ Queued' = Queued /\ request' = request
    BY <1>0, <1>8 DEF Released
  <2>2. t \notin Queued /\ request[t] \in Settled
    BY <1>0, <1>a, <1>b, <2>0
  <2>3. \A u \in Tasks : u \in HeldByWorker' <=> u \in HeldByWorker /\ u # t
    BY <1>0, <1>a, <2>0, <2>1 DEF HeldByWorker
  <2>4. t \in HeldByWorker
    BY <2>0 DEF HeldByWorker
  <2>5. Stage(t) = "taken" /\ Stage(t)' = "over"
    BY <2>1, <2>2, <2>3, <2>4 DEF Stage, Settled
  <2>6. \A u \in Tasks \ {t} : Stage(u)' = Stage(u)
    BY <2>1, <2>3 DEF Stage
  <2>7. Delivery!Step(t, "taken", "over")
    BY <2>5, <2>6, MapsToStep
  <2> QED BY <2>7 DEF Delivery!Next, Delivery!End
<1> QED BY <1>1, <1>2, <1>3, <1>4, <1>5, <1>6, <1>7, <1>8 DEF Shape

\* The pipeline delivers every job at most once, whatever faults and restarts
\* cut it short: no worker takes a job that was taken before, and none returns
\* to the list.
THEOREM PipelineDelivers == Spec => DeliversAtMostOnce
<1>1. Init => SettledInv /\ DirectInv /\ Delivery!Init
  <2>1. Init => SettledInv /\ DirectInv
    BY DEF Init, SettledInv, DirectInv, Elems, Executors
  <2>2. Init => Delivery!Init
    BY PipelineAssumption DEF Init, Delivery!Init, Stage, Queued, HeldByWorker, Executors
  <2> QED BY <2>1, <2>2
<1>2. TypeInv /\ DirectInv /\ SettledInv /\ [Next]_vars => SettledInv'
  BY StepShape, SettledInvStep
<1>3. TypeInv /\ HolderInv /\ DirectInv /\ SettledInv /\ [Next]_vars
        => [Delivery!Next]_([t \in Tasks |-> Stage(t)])
  BY StepShape, ShapeRefines
<1> QED
  BY <1>1, <1>2, <1>3, TypeInvInit, TypeInvStep, HolderInvInit, HolderInvStep, DirectInvStep, PTL
  DEF Spec, DeliversAtMostOnce, Delivery!Spec
-----------------------------------------------------------------------------
(* What a step does to a task *)

\* A job has one holder, and a request handler's task was never a job.
JobInv == HolderInv /\ DirectInv

\* Nothing is queued or held initially.
LEMMA JobInvInit == Init => JobInv
BY HolderInvInit DEF Init, JobInv, DirectInv, Executors

\* Both parts are inductive.
LEMMA JobInvStep == TypeInv /\ JobInv /\ [Next]_vars => JobInv'
BY HolderInvStep, DirectInvStep DEF JobInv

\* The request has not begun, or executes the task itself: there was never a job.
OwnStates == {"new", "direct", "left"}

\* The row of t says s afterwards, if there is a row.
Written(t, s) == row'[t] = IF row[t] = "absent" THEN "absent" ELSE s

\* Histories grow, and the request of a task that was sent is over, but for a client that leaves.
HistoryGrows(t) ==
    /\ t \in lost => t \in lost'
    /\ t \in wiped => t \in wiped'
    /\ delegatedTo[t] # NoAgent => delegatedTo'[t] # NoAgent
    /\ request[t] \in SentStates => request'[t] \in {request[t], "left"}
    /\ request'[t] \in OwnStates => request[t] \in OwnStates

\* The job is pushed by its request, and leaves the list for a worker or by a fault.
JobMoves(t) ==
    /\ t \in Elems(queue') => t \in Elems(queue) \/ request[t] = "inserted"
    /\ t \in Elems(queue) => \/ t \in Elems(queue') \/ t \in lost'
                             \/ \E e \in Executors : job'[e] = t /\ at'[e] = "taken"
    /\ request[t] = "inserted" => \/ request'[t] = "inserted" \/ t \in lost'
                                  \/ t \in Elems(queue')
    /\ \A e \in Executors : job'[e] = t /\ job[e] # t =>
            at'[e] = "taken" /\ (t \in Elems(queue) \/ request[t] = "new")

\* The executor that holds t goes through execute(), whose UPDATEs leave what they write.
HolderMoves(t, e) ==
    \/ at'[e] = at[e] /\ job'[e] = t
    \/ at[e] = "taken" /\ at'[e] = "generating" /\ job'[e] = t /\ Written(t, "running")
    \/ at[e] = "generating" /\ at'[e] \in {"storing", "erring"} /\ job'[e] = t
    \/ at[e] = "storing" /\ at'[e] = "announcing" /\ job'[e] = t /\ Written(t, "done")
    \/ at[e] = "storing" /\ at'[e] = "erring" /\ job'[e] = t
    \/ at[e] = "announcing" /\ at'[e] \in {"done", "erring"} /\ job'[e] = t
    \/ at[e] = "erring" /\ at'[e] = "announcingFailure" /\ job'[e] = t /\ Written(t, "failed")
    \/ at[e] = "announcingFailure" /\ at'[e] = "failed" /\ job'[e] = t
    \/ job'[e] = NoTask /\ (t \in lost' \/ request'[t] = "left" \/ at[e] \in Verdicts)

\* The row is written by the INSERT, by the executor that holds the task, by a delegation or
\* by a reset.
RowMoves(t) ==
    \/ row'[t] = row[t]
    \/ /\ request[t] = "new" /\ row'[t] = "queued"
       /\ request'[t] = "inserted" \/ (request'[t] = "refused" /\ t \in lost')
    \/ request[t] = "new" /\ row'[t] = "pending"
    \/ \E e \in Executors :
        /\ job[e] = t /\ at[e] = "taken" /\ row'[t] = "running"
        /\ t \in lost' \/ request'[t] = "left" \/ (job'[e] = t /\ at'[e] = "generating")
    \/ \E e \in Executors : job[e] = t /\ at[e] \in {"storing", "erring"} /\ row'[t] \in Verdicts
    \/ row'[t] = "queued" /\ delegatedTo'[t] # NoAgent
    \/ row'[t] = "absent" /\ t \in wiped'

\* The result key is written by a worker that lets the task go with this verdict.
ResultMoves(t) ==
    \/ result'[t] = result[t] \/ result'[t] = "none"
    \/ \E e \in Executors : job[e] = t /\ at[e] \in Verdicts /\ result'[t] = at[e] /\ job'[e] = NoTask

\* A verdict is announced once the executor is past it.
AnnounceMoves(t) ==
    \/ announced'[t] = announced[t]
    \/ \E e \in Executors :
        /\ job[e] = t
        /\ \/ at[e] = "announcing" /\ announced'[t] = announced[t] \cup {"done"}
              /\ (job'[e] = NoTask \/ (job'[e] = t /\ at'[e] \in {"done", "erring"}))
           \/ at[e] = "announcingFailure" /\ announced'[t] = announced[t] \cup {"failed"}
              /\ (job'[e] = NoTask \/ at'[e] = "failed")

Moves(t) ==
    /\ HistoryGrows(t) /\ JobMoves(t)
    /\ \A e \in Executors : job[e] = t => HolderMoves(t, e)
    /\ RowMoves(t) /\ ResultMoves(t) /\ AnnounceMoves(t)

\* A step that moves no job and writes no row, result or event.
LEMMA StillMoves ==
    ASSUME TypeInv, NEW t \in Tasks, UNCHANGED <<queue, at, job, row, result, announced>>,
           HistoryGrows(t), request[t] = "inserted" => request'[t] = "inserted" \/ t \in lost'
    PROVE  Moves(t)
BY DEF Moves, JobMoves, HolderMoves, RowMoves, ResultMoves, AnnounceMoves

\* A step of one executor touches no task but its own.
LEMMA ExecutorMoves ==
    ASSUME TypeInv, NEW e \in Executors, NEW t \in Tasks,
           UNCHANGED <<queue, result, delegatedTo, wiped>>, lost \subseteq lost',
           request'[t] = request[t] \/ (request[t] \in {"direct", "left"} /\ request'[t] = "left"),
           \A f \in Executors \ {e} : at'[f] = at[f] /\ job'[f] = job[f],
           job'[e] \in {job[e], NoTask},
           t # job[e] => row'[t] = row[t] /\ announced'[t] = announced[t],
           t = job[e] => HolderMoves(t, e) /\ RowMoves(t) /\ AnnounceMoves(t)
    PROVE  Moves(t)
<1>1. t # NoTask
  BY PipelineAssumption
<1>2. HistoryGrows(t) /\ ResultMoves(t)
  BY DEF HistoryGrows, ResultMoves, OwnStates
<1>3. JobMoves(t)
  BY <1>1 DEF JobMoves
<1>4. \A f \in Executors : job[f] = t => HolderMoves(t, f)
  BY DEF HolderMoves
<1>5. RowMoves(t) /\ AnnounceMoves(t)
  BY DEF RowMoves, AnnounceMoves
<1> QED BY <1>2, <1>3, <1>4, <1>5 DEF Moves

\* An UPDATE writes the row of one task.
LEMMA SetRowWrites ==
    ASSUME TypeInv, NEW u \in Tasks, NEW s \in Status, SetRow(u, s)
    PROVE  Written(u, s) /\ \A t \in Tasks \ {u} : row'[t] = row[t]
BY DEF TypeInv, TypeOK, SetRow, Written

\* One that raises has written it or not.
LEMMA UpdateRaisesWrites ==
    ASSUME TypeInv, NEW u \in Tasks, NEW s \in Status, UpdateRaises(u, s)
    PROVE  /\ Written(u, s) \/ row'[u] = row[u]
           /\ \A t \in Tasks \ {u} : row'[t] = row[t]
BY SetRowWrites DEF UpdateRaises

\* A publication is about one task.
LEMMA PublishAnnounces ==
    ASSUME TypeInv, NEW u \in Tasks, NEW v \in Verdicts, Publish(u, v)
    PROVE  /\ announced'[u] = announced[u] \cup {v}
           /\ \A t \in Tasks \ {u} : announced'[t] = announced[t]
BY DEF TypeInv, TypeOK, Publish

\* The steps of execute() move the task of their executor.
LEMMA ExecuteMoves ==
    ASSUME TypeInv, NEW e \in Executors, ExecuteStep(e), NEW t \in Tasks
    PROVE  Moves(t)
<1> DEFINE u == job[e]
<1>a. /\ at \in [Executors -> Places] /\ job \in [Executors -> Tasks \cup {NoTask}]
      /\ row \in [Tasks -> Status]
  BY DEF TypeInv, TypeOK
<1>b. {"running", "done", "failed"} \subseteq Status /\ "done" \in Verdicts /\ "failed" \in Verdicts
  BY DEF Status, Verdicts
<1>c. at[e] \notin {"idle", "backoff"} => u \in Tasks
  BY DEF TypeInv, HoldsJob
<1>d. UNCHANGED <<queue, request, result, delegatedTo, wiped>> /\ lost \subseteq lost'
  BY DEF ExecuteStep, MarkRunning, MarkRunningRaises, Generate, StoreDone, StoreDoneRaises,
         AnnounceDone, AnnounceDoneRaises, StoreFailed, StoreFailedRaises, AnnounceFailed,
         AnnounceFailedRaises, Abandon, redisVars, dbVars
<1>1. CASE MarkRunning(e)
  <2>1. /\ at[e] = "taken" /\ at'[e] = "generating" /\ job' = job /\ announced' = announced
        /\ SetRow(u, "running") /\ \A f \in Executors \ {e} : at'[f] = at[f]
    BY <1>1, <1>a DEF MarkRunning, Move, busVars
  <2>2. u \in Tasks /\ Written(u, "running") /\ \A x \in Tasks \ {u} : row'[x] = row[x]
    BY <1>b, <1>c, <2>1, SetRowWrites
  <2>3. HolderMoves(u, e) /\ RowMoves(u) /\ AnnounceMoves(u)
    BY <2>1, <2>2 DEF HolderMoves, RowMoves, AnnounceMoves, Written
  <2> QED BY <1>d, <2>1, <2>2, <2>3, ExecutorMoves
<1>2. CASE MarkRunningRaises(e)
  <2>1. /\ at[e] = "taken" /\ UpdateRaises(u, "running") /\ Abandon(e) /\ announced' = announced
    BY <1>2 DEF MarkRunningRaises, busVars
  <2>2. /\ job'[e] = NoTask /\ u \in lost'
        /\ \A f \in Executors \ {e} : at'[f] = at[f] /\ job'[f] = job[f]
    BY <1>a, <2>1 DEF Abandon, Release
  <2>3. /\ u \in Tasks /\ (Written(u, "running") \/ row'[u] = row[u])
        /\ \A x \in Tasks \ {u} : row'[x] = row[x]
    BY <1>b, <1>c, <2>1, UpdateRaisesWrites
  <2>4. HolderMoves(u, e) /\ RowMoves(u) /\ AnnounceMoves(u)
    BY <2>1, <2>2, <2>3 DEF HolderMoves, RowMoves, AnnounceMoves, Written
  <2> QED BY <1>d, <2>1, <2>2, <2>3, <2>4, ExecutorMoves
<1>3. CASE Generate(e)
  <2>1. /\ at[e] = "generating" /\ at'[e] \in {"storing", "erring"} /\ job' = job
        /\ \A f \in Executors \ {e} : at'[f] = at[f]
        /\ row' = row /\ announced' = announced
    BY <1>3, <1>a DEF Generate, Move, busVars, dbVars
  <2>2. HolderMoves(u, e) /\ RowMoves(u) /\ AnnounceMoves(u)
    BY <2>1 DEF HolderMoves, RowMoves, AnnounceMoves
  <2> QED BY <1>d, <2>1, <2>2, ExecutorMoves
<1>4. CASE StoreDone(e)
  <2>1. /\ at[e] = "storing" /\ at'[e] = "announcing" /\ job' = job /\ announced' = announced
        /\ SetRow(u, "done") /\ \A f \in Executors \ {e} : at'[f] = at[f]
    BY <1>4, <1>a DEF StoreDone, Move, busVars
  <2>2. u \in Tasks /\ Written(u, "done") /\ \A x \in Tasks \ {u} : row'[x] = row[x]
    BY <1>b, <1>c, <2>1, SetRowWrites
  <2>3. HolderMoves(u, e) /\ RowMoves(u) /\ AnnounceMoves(u)
    BY <1>b, <2>1, <2>2 DEF HolderMoves, RowMoves, AnnounceMoves, Written
  <2> QED BY <1>d, <2>1, <2>2, <2>3, ExecutorMoves
<1>5. CASE StoreDoneRaises(e)
  <2>1. /\ at[e] = "storing" /\ at'[e] = "erring" /\ job' = job /\ announced' = announced
        /\ UpdateRaises(u, "done") /\ \A f \in Executors \ {e} : at'[f] = at[f]
    BY <1>5, <1>a DEF StoreDoneRaises, Move, busVars
  <2>2. /\ u \in Tasks /\ (Written(u, "done") \/ row'[u] = row[u])
        /\ \A x \in Tasks \ {u} : row'[x] = row[x]
    BY <1>b, <1>c, <2>1, UpdateRaisesWrites
  <2>3. HolderMoves(u, e) /\ RowMoves(u) /\ AnnounceMoves(u)
    BY <1>b, <2>1, <2>2 DEF HolderMoves, RowMoves, AnnounceMoves, Written
  <2> QED BY <1>d, <2>1, <2>2, <2>3, ExecutorMoves
<1>6. CASE AnnounceDone(e) \/ AnnounceDoneRaises(e)
  <2>1. /\ at[e] = "announcing" /\ at'[e] \in {"done", "erring"} /\ job' = job /\ row' = row
        /\ Publish(u, "done") \/ announced' = announced
        /\ \A f \in Executors \ {e} : at'[f] = at[f]
    BY <1>6, <1>a DEF AnnounceDone, AnnounceDoneRaises, Move, dbVars
  <2>2. /\ u \in Tasks
        /\ announced'[u] = announced[u] \cup {"done"} \/ announced'[u] = announced[u]
        /\ \A x \in Tasks \ {u} : announced'[x] = announced[x]
    BY <1>b, <1>c, <2>1, PublishAnnounces
  <2>3. HolderMoves(u, e) /\ RowMoves(u) /\ AnnounceMoves(u)
    BY <2>1, <2>2 DEF HolderMoves, RowMoves, AnnounceMoves
  <2> QED BY <1>d, <2>1, <2>2, <2>3, ExecutorMoves
<1>7. CASE StoreFailed(e)
  <2>1. /\ at[e] = "erring" /\ at'[e] = "announcingFailure" /\ job' = job /\ announced' = announced
        /\ SetRow(u, "failed") /\ \A f \in Executors \ {e} : at'[f] = at[f]
    BY <1>7, <1>a DEF StoreFailed, Move, busVars
  <2>2. u \in Tasks /\ Written(u, "failed") /\ \A x \in Tasks \ {u} : row'[x] = row[x]
    BY <1>b, <1>c, <2>1, SetRowWrites
  <2>3. HolderMoves(u, e) /\ RowMoves(u) /\ AnnounceMoves(u)
    BY <1>b, <2>1, <2>2 DEF HolderMoves, RowMoves, AnnounceMoves, Written
  <2> QED BY <1>d, <2>1, <2>2, <2>3, ExecutorMoves
<1>8. CASE StoreFailedRaises(e)
  <2>1. /\ at[e] = "erring" /\ UpdateRaises(u, "failed") /\ Abandon(e) /\ announced' = announced
    BY <1>8 DEF StoreFailedRaises, busVars
  <2>2. /\ job'[e] = NoTask /\ u \in lost'
        /\ \A f \in Executors \ {e} : at'[f] = at[f] /\ job'[f] = job[f]
    BY <1>a, <2>1 DEF Abandon, Release
  <2>3. /\ u \in Tasks /\ (Written(u, "failed") \/ row'[u] = row[u])
        /\ \A x \in Tasks \ {u} : row'[x] = row[x]
    BY <1>b, <1>c, <2>1, UpdateRaisesWrites
  <2>4. HolderMoves(u, e) /\ RowMoves(u) /\ AnnounceMoves(u)
    BY <1>b, <2>1, <2>2, <2>3 DEF HolderMoves, RowMoves, AnnounceMoves, Written
  <2> QED BY <1>d, <2>1, <2>2, <2>3, <2>4, ExecutorMoves
<1>9. CASE AnnounceFailed(e)
  <2>1. /\ at[e] = "announcingFailure" /\ at'[e] = "failed" /\ job' = job /\ row' = row
        /\ Publish(u, "failed") /\ \A f \in Executors \ {e} : at'[f] = at[f]
    BY <1>9, <1>a DEF AnnounceFailed, Move, dbVars
  <2>2. /\ u \in Tasks /\ announced'[u] = announced[u] \cup {"failed"}
        /\ \A x \in Tasks \ {u} : announced'[x] = announced[x]
    BY <1>b, <1>c, <2>1, PublishAnnounces
  <2>3. HolderMoves(u, e) /\ RowMoves(u) /\ AnnounceMoves(u)
    BY <2>1, <2>2 DEF HolderMoves, RowMoves, AnnounceMoves
  <2> QED BY <1>d, <2>1, <2>2, <2>3, ExecutorMoves
<1>10. CASE AnnounceFailedRaises(e)
  <2>1. /\ at[e] = "announcingFailure" /\ Abandon(e) /\ row' = row
        /\ Publish(u, "failed") \/ announced' = announced
    BY <1>10 DEF AnnounceFailedRaises, dbVars
  <2>2. /\ job'[e] = NoTask /\ u \in lost'
        /\ \A f \in Executors \ {e} : at'[f] = at[f] /\ job'[f] = job[f]
    BY <1>a, <2>1 DEF Abandon, Release
  <2>3. /\ u \in Tasks
        /\ announced'[u] = announced[u] \cup {"failed"} \/ announced'[u] = announced[u]
        /\ \A x \in Tasks \ {u} : announced'[x] = announced[x]
    BY <1>b, <1>c, <2>1, PublishAnnounces
  <2>4. HolderMoves(u, e) /\ RowMoves(u) /\ AnnounceMoves(u)
    BY <2>1, <2>2, <2>3 DEF HolderMoves, RowMoves, AnnounceMoves
  <2> QED BY <1>d, <2>1, <2>2, <2>3, <2>4, ExecutorMoves
<1> QED
  BY <1>1, <1>2, <1>3, <1>4, <1>5, <1>6, <1>7, <1>8, <1>9, <1>10 DEF ExecuteStep

\* A client that leaves its stream ends the execution of its task there and then.
LEMMA LeaveMoves ==
    ASSUME TypeInv, JobInv, NEW c \in Streams, Leave(c), NEW t \in Tasks
    PROVE  Moves(t)
<1> DEFINE u == job[c]
<1>a. /\ at \in [Executors -> Places] /\ job \in [Executors -> Tasks \cup {NoTask}]
      /\ row \in [Tasks -> Status] /\ request \in [Tasks -> Requests] /\ c \in Executors
  BY PipelineAssumption DEF TypeInv, TypeOK, Executors
<1>b. {"running", "done", "failed"} \subseteq Status /\ "done" \in Verdicts /\ "failed" \in Verdicts
  BY DEF Status, Verdicts
<1>c. /\ UNCHANGED <<queue, result, delegatedTo, wiped>> /\ lost \subseteq lost'
      /\ job'[c] = NoTask /\ \A f \in Executors \ {c} : at'[f] = at[f] /\ job'[f] = job[f]
  BY <1>a DEF Leave, Release, redisVars
<1>d. u \in Tasks
  BY <1>a DEF Leave, TypeInv, HoldsJob
<1>e. /\ request[u] \in {"direct", "left"} /\ request'[u] = "left"
      /\ \A x \in Tasks \ {u} : request'[x] = request[x]
  BY <1>a, <1>d, PipelineAssumption DEF Leave, JobInv, DirectInv
<1>f. HolderMoves(u, c)
  BY <1>c, <1>e DEF HolderMoves
<1>1. ASSUME NEW s \in {"running", "done", "failed"}, SetRow(u, s) \/ UNCHANGED row, Silent,
             at[c] = IF s = "running" THEN "taken" ELSE IF s = "done" THEN "storing" ELSE "erring"
      PROVE  Moves(t)
  <2>1. Written(u, s) \/ row'[u] = row[u]
    BY <1>b, <1>d, <1>1, SetRowWrites
  <2>2. \A x \in Tasks \ {u} : row'[x] = row[x]
    BY <1>b, <1>d, <1>1, SetRowWrites
  <2>3. AnnounceMoves(u) /\ announced' = announced
    BY <1>1 DEF AnnounceMoves, Silent
  <2>4. RowMoves(u)
    <3>1. row'[u] = row[u] \/ row'[u] = s
      BY <2>1 DEF Written
    <3>2. s = "running" \/ (at[c] \in {"storing", "erring"} /\ s \in Verdicts)
      BY <1>b, <1>1
    <3> QED BY <1>a, <1>e, <1>1, <3>1, <3>2 DEF RowMoves
  <2> QED BY <1>a, <1>c, <1>d, <1>e, <1>f, <2>2, <2>3, <2>4, ExecutorMoves
<1>2. CASE at[c] = "generating" /\ UNCHANGED row /\ Silent
  <2>1. RowMoves(u) /\ AnnounceMoves(u) /\ announced' = announced
    BY <1>2 DEF RowMoves, AnnounceMoves, Silent
  <2> QED BY <1>2, <1>a, <1>c, <1>d, <1>e, <1>f, <2>1, ExecutorMoves
<1>3. ASSUME NEW v \in {"done", "failed"}, UNCHANGED row, Publish(u, v) \/ Silent,
             at[c] = IF v = "done" THEN "announcing" ELSE "announcingFailure"
      PROVE  Moves(t)
  <2>1. /\ announced'[u] \in {announced[u], announced[u] \cup {v}}
        /\ \A x \in Tasks \ {u} : announced'[x] = announced[x]
    BY <1>b, <1>d, <1>3, PublishAnnounces DEF Silent
  <2>2. RowMoves(u) /\ AnnounceMoves(u)
    BY <1>a, <1>c, <1>3, <2>1 DEF RowMoves, AnnounceMoves
  <2> QED BY <1>3, <1>a, <1>c, <1>d, <1>e, <1>f, <2>1, <2>2, ExecutorMoves
<1> QED BY <1>1, <1>2, <1>3 DEF Leave

\* Creating a task moves that task.
LEMMA CreateMoves ==
    ASSUME TypeInv, NEW u \in Tasks, CreateStep(u), NEW t \in Tasks
    PROVE  Moves(t)
<1>a. /\ row \in [Tasks -> Status] /\ request \in [Tasks -> Requests] /\ queue \in Seq(Tasks)
      /\ lost \subseteq Tasks
  BY DEF TypeInv, TypeOK
<1>b. UNCHANGED <<at, job, announced, delegatedTo, wiped, result>> /\ lost \subseteq lost'
  BY DEF CreateStep, InsertQueued, CreatePending, InsertRaises, Push, PushRaises, execVars,
         busVars, dbVars, redisVars
<1>1. CASE InsertQueued(u) \/ CreatePending(u) \/ InsertRaises(u)
  <2>1. /\ request[u] = "new" /\ queue' = queue
        /\ \A x \in Tasks \ {u} : row'[x] = row[x] /\ request'[x] = request[x]
        /\ row'[u] \in {row[u], "queued", "pending"}
        /\ row'[u] # row[u] /\ row'[u] = "queued"
              => request'[u] = "inserted" \/ (request'[u] = "refused" /\ u \in lost')
    BY <1>1, <1>a DEF InsertQueued, CreatePending, InsertRaises, redisVars
  <2>2. HistoryGrows(t) /\ ResultMoves(t) /\ AnnounceMoves(t)
    BY <1>b, <2>1 DEF HistoryGrows, ResultMoves, AnnounceMoves, SentStates, OwnStates
  <2>3. RowMoves(t)
    BY <2>1 DEF RowMoves
  <2>4. JobMoves(t) /\ \A e \in Executors : job[e] = t => HolderMoves(t, e)
    BY <1>b, <2>1 DEF JobMoves, HolderMoves
  <2> QED BY <2>2, <2>3, <2>4 DEF Moves
<1>2. CASE Push(u) \/ PushRaises(u)
  <2>1. /\ request[u] = "inserted" /\ row' = row /\ request'[u] \in {"accepted", "refused"}
        /\ \A x \in Tasks \ {u} : request'[x] = request[x]
        /\ queue' = Enqueue(queue, u) \/ (queue' = queue /\ u \in lost')
    BY <1>2, <1>a DEF Push, PushRaises, dbVars
  <2>2. HistoryGrows(t) /\ ResultMoves(t) /\ AnnounceMoves(t) /\ RowMoves(t)
    BY <1>b, <2>1 DEF HistoryGrows, ResultMoves, AnnounceMoves, SentStates, OwnStates, RowMoves
  <2>3. /\ Elems(queue) \subseteq Elems(queue') /\ Elems(queue') \subseteq Elems(queue) \cup {u}
        /\ u \in Elems(queue') \/ u \in lost'
    <3>1. Elems(Enqueue(queue, u)) = Elems(queue) \cup {u} BY <1>a, EnqueueList
    <3> QED BY <2>1, <3>1
  <2>4. JobMoves(t) /\ \A e \in Executors : job[e] = t => HolderMoves(t, e)
    BY <1>b, <2>1, <2>3 DEF JobMoves, HolderMoves
  <2> QED BY <2>2, <2>4 DEF Moves
<1> QED BY <1>1, <1>2 DEF CreateStep

\* A worker that dequeues takes the first job, or a fault loses it.
LEMMA DequeueMoves ==
    ASSUME TypeInv, NEW w \in Workers, Dequeue(w) \/ DequeueRaises(w), NEW t \in Tasks
    PROVE  Moves(t)
<1>a. /\ queue \in Seq(Tasks) /\ at \in [Executors -> Places] /\ w \in Executors
      /\ job \in [Executors -> Tasks \cup {NoTask}] /\ t # NoTask /\ lost \subseteq Tasks
  BY PipelineAssumption DEF TypeInv, TypeOK, Executors
<1>b. UNCHANGED <<row, request, result, announced, delegatedTo, wiped>> /\ lost \subseteq lost'
  BY DEF Dequeue, DequeueRaises, dbVars, busVars
<1>c. at[w] = "idle" /\ job[w] = NoTask /\ \A f \in Executors \ {w} : at'[f] = at[f] /\ job'[f] = job[f]
  BY <1>a DEF Dequeue, DequeueRaises, Move, TypeInv, HoldsJob
<1>1. HistoryGrows(t) /\ ResultMoves(t) /\ AnnounceMoves(t) /\ RowMoves(t)
  BY <1>b DEF HistoryGrows, ResultMoves, AnnounceMoves, RowMoves
<1>2. \A e \in Executors : job[e] = t => HolderMoves(t, e)
  BY <1>a, <1>c DEF HolderMoves
<1>3. JobMoves(t)
  <2>1. CASE Dequeue(w)
    <3>1. /\ queue # <<>> /\ queue' = Tail(queue) /\ at'[w] = "taken" /\ job'[w] = Head(queue)
      BY <1>a, <2>1 DEF Dequeue, Move
    <3>2. Elems(queue) = Elems(queue') \cup {Head(queue)}
      BY <1>a, <3>1, PopListElems
    <3> QED BY <1>a, <1>b, <1>c, <3>1, <3>2 DEF JobMoves
  <2>2. CASE DequeueRaises(w)
    <3>1. /\ job'[w] = job[w]
          /\ \/ queue' = queue
             \/ queue # <<>> /\ queue' = Tail(queue) /\ lost' = lost \cup {Head(queue)}
      BY <2>2 DEF DequeueRaises
    <3>2. \/ Elems(queue') = Elems(queue)
          \/ Elems(queue) = Elems(queue') \cup {Head(queue)} /\ Head(queue) \in lost'
      BY <1>a, <3>1, PopListElems
    <3> QED BY <1>a, <1>b, <1>c, <3>1, <3>2 DEF JobMoves
  <2> QED BY <2>1, <2>2
<1> QED BY <1>1, <1>2, <1>3 DEF Moves

\* An executor that is done lets its task go, with its verdict or with an error.
LEMMA ReleaseMoves ==
    ASSUME TypeInv, NEW e \in Executors, SetResult(e) \/ SetResultRaises(e) \/ Answer(e) \/ Wake(e),
           NEW t \in Tasks
    PROVE  Moves(t)
<1>a. /\ at \in [Executors -> Places] /\ job \in [Executors -> Tasks \cup {NoTask}]
      /\ result \in [Tasks -> Verdicts \cup {"none"}] /\ t # NoTask
  BY PipelineAssumption DEF TypeInv, TypeOK
<1>b. UNCHANGED <<row, queue, request, announced, delegatedTo, wiped>> /\ lost \subseteq lost'
  BY DEF SetResult, SetResultRaises, Answer, Wake, Abandon, dbVars, busVars, redisVars
<1>1. /\ \A f \in Executors \ {e} : at'[f] = at[f] /\ job'[f] = job[f]
      /\ \/ at[e] = "backoff" /\ job'[e] = job[e] /\ result' = result
         \/ /\ at[e] \in Verdicts /\ job'[e] = NoTask
            /\ result' = result \/ result' = [result EXCEPT ![job[e]] = at[e]]
  BY <1>a DEF SetResult, SetResultRaises, Answer, Wake, Abandon, Release, Move, redisVars
<1>2. at[e] = "backoff" => job[e] = NoTask
  BY DEF TypeInv, HoldsJob
<1>3. HistoryGrows(t) /\ AnnounceMoves(t) /\ RowMoves(t)
  BY <1>b DEF HistoryGrows, AnnounceMoves, RowMoves
<1>4. JobMoves(t)
  BY <1>a, <1>b, <1>1 DEF JobMoves
<1>5. \A f \in Executors : job[f] = t => HolderMoves(t, f)
  BY <1>a, <1>1, <1>2 DEF HolderMoves
<1>6. ResultMoves(t)
  BY <1>a, <1>1 DEF ResultMoves
<1> QED BY <1>3, <1>4, <1>5, <1>6 DEF Moves

\* Whatever step the pipeline takes, a task moves in one of these ways.
LEMMA TaskMoves ==
    ASSUME TypeInv, JobInv, [Next]_vars, NEW t \in Tasks
    PROVE  Moves(t)
<1>a. /\ row \in [Tasks -> Status] /\ request \in [Tasks -> Requests] /\ queue \in Seq(Tasks)
      /\ delegating \in [Tasks -> Agents \cup {NoAgent}]
      /\ delegatedTo \in [Tasks -> Agents \cup {NoAgent}]
      /\ result \in [Tasks -> Verdicts \cup {"none"}]
      /\ job \in [Executors -> Tasks \cup {NoTask}] /\ t # NoTask
  BY PipelineAssumption DEF TypeInv, TypeOK
<1>1. ASSUME NEW u \in Tasks, CreateStep(u) PROVE Moves(t)
  BY <1>1, CreateMoves
<1>2. ASSUME NEW u \in Tasks, DelegationStep(u) \/ ExpireResult(u) PROVE Moves(t)
  <2>1. UNCHANGED <<queue, request, at, job, announced, lost, wiped>>
    BY <1>2 DEF DelegationStep, RecordDelegation, ApplyDelegation, ApplyDelegationRaises,
       ExpireResult, execVars, busVars, redisVars
  <2>2. /\ row'[t] = row[t] \/ (row'[t] = "queued" /\ delegatedTo'[t] # NoAgent)
        /\ delegatedTo[t] # NoAgent => delegatedTo'[t] # NoAgent
        /\ result'[t] = result[t] \/ result'[t] = "none"
    BY <1>2, <1>a DEF DelegationStep, RecordDelegation, ApplyDelegation, ApplyDelegationRaises,
       ExpireResult, SetRow, dbVars, redisVars
  <2> QED
    BY <2>1, <2>2
    DEF Moves, HistoryGrows, JobMoves, HolderMoves, RowMoves, ResultMoves, AnnounceMoves
<1>3. ASSUME NEW w \in Workers, Dequeue(w) \/ DequeueRaises(w) PROVE Moves(t)
  BY <1>3, DequeueMoves
<1>4. ASSUME NEW w \in Workers, WorkerStep(w) PROVE Moves(t)
  BY <1>4, ExecuteMoves, ReleaseMoves DEF WorkerStep, Executors
<1>5. ASSUME NEW c \in Callers, NEW u \in Tasks, BeginDirect(c, u) PROVE Moves(t)
  <2>1. /\ c \in Executors /\ at[c] = "idle" /\ at'[c] = "taken" /\ job'[c] = u
        /\ \A f \in Executors \ {c} : at'[f] = at[f] /\ job'[f] = job[f]
        /\ request[u] = "new" /\ row'[u] = "pending"
        /\ \A x \in Tasks \ {u} : row'[x] = row[x] /\ request'[x] = request[x]
        /\ UNCHANGED <<queue, result, announced, delegatedTo, lost, wiped>>
    BY <1>5, <1>a DEF BeginDirect, Move, Executors, busVars, redisVars, TypeInv, TypeOK
  <2>2. job[c] = NoTask
    BY <2>1 DEF TypeInv, HoldsJob
  <2>3. HistoryGrows(t) /\ ResultMoves(t) /\ AnnounceMoves(t) /\ RowMoves(t)
    BY <2>1 DEF HistoryGrows, ResultMoves, AnnounceMoves, RowMoves, SentStates, OwnStates
  <2>4. JobMoves(t) /\ \A e \in Executors : job[e] = t => HolderMoves(t, e)
    BY <1>a, <2>1, <2>2 DEF JobMoves, HolderMoves
  <2> QED BY <2>3, <2>4 DEF Moves
<1>6. ASSUME NEW c \in Callers, ExecuteStep(c) \/ Answer(c) PROVE Moves(t)
  BY <1>6, ExecuteMoves, ReleaseMoves DEF Executors
<1>7. CASE Deliver \/ DeliverRaises \/ ListenerDies \/ BeginShutdown
  <2>1. UNCHANGED <<queue, at, job, row, result, announced, request, delegatedTo, lost, wiped>>
    BY <1>7 DEF Deliver, DeliverRaises, ListenerDies, BeginShutdown, dbVars, redisVars, execVars
  <2> QED BY <2>1, StillMoves DEF HistoryGrows
<1>8. CASE ResetMemory
  <2>1. /\ UNCHANGED <<queue, request, at, job, announced, result, delegatedTo, lost>>
        /\ row' = [x \in Tasks |-> "absent"] /\ wiped' = wiped \cup {x \in Tasks : row[x] # "absent"}
    BY <1>8 DEF ResetMemory, redisVars, execVars, busVars
  <2>2. RowMoves(t)
    BY <2>1 DEF RowMoves
  <2> QED
    BY <2>1, <2>2 DEF Moves, HistoryGrows, JobMoves, HolderMoves, ResultMoves, AnnounceMoves
<1>9. CASE Restart
  <2>1. /\ UNCHANGED <<queue, row, result, announced, delegatedTo, wiped>>
        /\ job' = [e \in Executors |-> NoTask]
        /\ lost' = lost \cup Held \cup {x \in Tasks : request[x] = "inserted"}
        /\ request' = [x \in Tasks |-> IF request[x] = "inserted" THEN "refused" ELSE request[x]]
    BY <1>9 DEF Restart, redisVars
  <2>2. \A e \in Executors : job[e] = t => t \in lost' /\ job'[e] = NoTask
    BY <1>a, <2>1 DEF Held
  <2>3. HistoryGrows(t) /\ ResultMoves(t) /\ AnnounceMoves(t) /\ RowMoves(t)
    BY <2>1 DEF HistoryGrows, ResultMoves, AnnounceMoves, RowMoves, SentStates, OwnStates
  <2>4. JobMoves(t) /\ \A e \in Executors : job[e] = t => HolderMoves(t, e)
    BY <1>a, <2>1, <2>2 DEF JobMoves, HolderMoves
  <2> QED BY <2>3, <2>4 DEF Moves
<1>10. CASE EvictQueue
  <2>1. /\ UNCHANGED <<at, job, row, result, announced, request, delegatedTo, wiped>>
        /\ queue' = <<>> /\ lost' = lost \cup Queued
    BY <1>10 DEF EvictQueue, dbVars, execVars, busVars
  <2>2. Elems(queue') = {} /\ (t \in Elems(queue) => t \in lost')
    BY <2>1 DEF Elems, Queued
  <2> QED
    BY <2>1, <2>2
    DEF Moves, HistoryGrows, JobMoves, HolderMoves, RowMoves, ResultMoves, AnnounceMoves
<1>11. CASE UNCHANGED vars
  BY <1>11, StillMoves DEF vars, dbVars, redisVars, execVars, busVars, HistoryGrows
<1>12. ASSUME NEW c \in Streams, Leave(c) PROVE Moves(t)
  BY <1>12, LeaveMoves
<1> QED
  BY <1>1, <1>2, <1>3, <1>4, <1>5, <1>6, <1>7, <1>8, <1>9, <1>10, <1>11, <1>12 DEF Next

-----------------------------------------------------------------------------
(* Nobody waits for nothing *)

\* StrandedHasCause for one task: it is inductive, by what a step does to the task.
Stranded(t) ==
    /\ row[t] = "queued" /\ delegatedTo[t] = NoAgent =>
         /\ request[t] \notin OwnStates
         /\ \/ request[t] = "inserted" \/ t \in Elems(queue) \/ t \in lost
            \/ \E e \in Executors : job[e] = t /\ at[e] = "taken"
    /\ row[t] = "running" =>
         \/ t \in lost \/ request[t] = "left"
         \/ \E e \in Executors : job[e] = t /\ at[e] \in {"generating", "storing", "erring"}

\* A step of the pipeline strands no task without one of these causes.
LEMMA StrandedStep ==
    ASSUME TypeInv, JobInv, [Next]_vars, NEW t \in Tasks, Stranded(t)
    PROVE  Stranded(t)'
<1>1. /\ HistoryGrows(t) /\ JobMoves(t) /\ RowMoves(t)
      /\ \A e \in Executors : job[e] = t => HolderMoves(t, e)
  BY TaskMoves DEF Moves
<1>2. ASSUME row'[t] = "queued", delegatedTo'[t] = NoAgent
      PROVE  /\ request'[t] \notin OwnStates
             /\ \/ request'[t] = "inserted" \/ t \in Elems(queue') \/ t \in lost'
                \/ \E e \in Executors : job'[e] = t /\ at'[e] = "taken"
  <2>1. delegatedTo[t] = NoAgent
    BY <1>1, <1>2 DEF HistoryGrows
  <2>0. request'[t] \notin OwnStates
    BY <1>1, <1>2, <2>1 DEF HistoryGrows, RowMoves, OwnStates, Verdicts, Stranded
  <2>2. row[t] = "queued" \/ request'[t] = "inserted" \/ t \in lost'
    BY <1>1, <1>2 DEF RowMoves, Verdicts
  <2>3. CASE request[t] = "inserted" \/ t \in Elems(queue) \/ t \in lost
    BY <1>1, <2>0, <2>3 DEF HistoryGrows, JobMoves
  <2>4. ASSUME row[t] = "queued", NEW e \in Executors, job[e] = t, at[e] = "taken"
        PROVE  t \in lost' \/ (job'[e] = t /\ at'[e] = "taken")
    BY <1>1, <1>2, <2>0, <2>4 DEF HolderMoves, Written, Verdicts, OwnStates
  <2> QED BY <2>0, <2>1, <2>2, <2>3, <2>4 DEF Stranded
<1>3. ASSUME row'[t] = "running"
      PROVE  \/ t \in lost' \/ request'[t] = "left"
             \/ \E e \in Executors : job'[e] = t /\ at'[e] \in {"generating", "storing", "erring"}
  <2>1. CASE row[t] = "running"
    <3>1. ASSUME NEW e \in Executors, job[e] = t, at[e] \in {"generating", "storing", "erring"}
          PROVE  t \in lost' \/ request'[t] = "left"
                 \/ (job'[e] = t /\ at'[e] \in {"generating", "storing", "erring"})
      BY <1>1, <1>3, <2>1, <3>1 DEF HolderMoves, Written, Verdicts
    <3> QED BY <1>1, <2>1, <3>1 DEF Stranded, HistoryGrows, SentStates
  <2>2. CASE row[t] # "running"
    BY <1>1, <1>3, <2>2 DEF RowMoves, Verdicts
  <2> QED BY <2>1, <2>2
<1> QED BY <1>2, <1>3 DEF Stranded

\* However requests, workers, faults, restarts, delegations and resets interleave, a row that
\* says 'queued' or 'running' has somebody behind it, or one of three causes: it was delegated,
\* a fault cut its task short, or the client left the stream that executed it.
THEOREM NobodyWaitsForNothing == Spec => []StrandedHasCause
<1> DEFINE I == \A t \in Tasks : Stranded(t)
<1>1. Init => I
  BY DEF Init, Stranded
<1>2. TypeInv /\ JobInv /\ I /\ [Next]_vars => I'
  BY StrandedStep
<1>3. I => StrandedHasCause
  BY DEF Stranded, StrandedHasCause, Queued, Elems
<1> HIDE DEF I
<1> QED
  BY <1>1, <1>2, <1>3, TypeInvInit, TypeInvStep, JobInvInit, JobInvStep, PTL DEF Spec

-----------------------------------------------------------------------------
(* The row, the result key and the answer *)

\* The task's row was delegated or removed, so that it may say anything.
Disturbed(t) == delegatedTo[t] # NoAgent \/ t \in wiped

\* The task has been sent, its job is in no list any more, and nobody holds it.
Over(t) ==
    /\ request[t] \in SentStates /\ t \notin Elems(queue)
    /\ \A e \in Executors : job[e] # t

\* What the executor is about to report is what the row says; what the key says is what the
\* row says, and the task is over; and a row with a verdict is one of a task that left the list.
VerdictInv ==
    \A t \in Tasks :
        /\ \A e \in Executors : job[e] = t =>
            /\ at[e] \in {"announcing", "done"} => row[t] = "done" \/ Disturbed(t)
            /\ at[e] \in {"announcingFailure", "failed"} => row[t] = "failed" \/ Disturbed(t)
        /\ result[t] # "none" => Over(t) /\ (row[t] = result[t] \/ Disturbed(t))
        /\ row[t] \in Verdicts => request[t] \in SentStates /\ t \notin Elems(queue)

\* A task that is held was sent, has left the list, and is held once.
LEMMA HeldOnce ==
    ASSUME TypeInv, JobInv, NEW t \in Tasks, NEW e \in Executors, job[e] = t
    PROVE  /\ request[t] \in SentStates /\ t \notin Elems(queue) /\ t # NoTask
           /\ \A f \in Executors : job[f] = t => f = e
BY PipelineAssumption DEF JobInv, HolderInv, Sent, Unique

\* A task that was sent and has left the list does not come back.
LEMMA NeverBack ==
    ASSUME TypeInv, JobInv, [Next]_vars, NEW t \in Tasks, request[t] \in SentStates, t \notin Elems(queue)
    PROVE  /\ request'[t] \in SentStates /\ t \notin Elems(queue')
           /\ \A e \in Executors : job'[e] = t => job[e] = t
BY TaskMoves DEF Moves, HistoryGrows, JobMoves, SentStates

\* The verdicts stay in agreement.
LEMMA VerdictInvStep ==
    TypeInv /\ JobInv /\ RecordInv /\ VerdictInv /\ [Next]_vars => VerdictInv'
<1> SUFFICES ASSUME TypeInv, JobInv, RecordInv, VerdictInv, [Next]_vars, NEW t \in Tasks
             PROVE  /\ \A e \in Executors : job'[e] = t =>
                        /\ at'[e] \in {"announcing", "done"} => row'[t] = "done" \/ Disturbed(t)'
                        /\ at'[e] \in {"announcingFailure", "failed"}
                                => row'[t] = "failed" \/ Disturbed(t)'
                    /\ result'[t] # "none" => Over(t)' /\ (row'[t] = result'[t] \/ Disturbed(t)')
                    /\ row'[t] \in Verdicts => request'[t] \in SentStates /\ t \notin Elems(queue')
  BY DEF VerdictInv
<1>1. /\ HistoryGrows(t) /\ JobMoves(t) /\ RowMoves(t) /\ ResultMoves(t)
      /\ \A e \in Executors : job[e] = t => HolderMoves(t, e)
  BY TaskMoves DEF Moves
<1>2. Disturbed(t) => Disturbed(t)'
  BY <1>1 DEF HistoryGrows, Disturbed
<1>3. ASSUME NEW e \in Executors, job[e] = t, at[e] \notin {"taken", "storing", "erring"}
      PROVE  row'[t] = row[t] \/ Disturbed(t)'
  BY <1>1, <1>3, HeldOnce DEF RowMoves, Disturbed, SentStates
<1>4. ASSUME NEW e \in Executors, job'[e] = t
      PROVE  /\ at'[e] \in {"announcing", "done"} => row'[t] = "done" \/ Disturbed(t)'
             /\ at'[e] \in {"announcingFailure", "failed"} => row'[t] = "failed" \/ Disturbed(t)'
  <2>1. CASE job[e] # t
    BY <1>1, <1>4, <2>1 DEF JobMoves
  <2>2. CASE job[e] = t
    <3>1. row[t] = "absent" => Disturbed(t)
      BY <2>2 DEF RecordInv, Carried, Recorded, Disturbed
    <3>2. /\ at[e] \in {"announcing", "done"} => row[t] = "done" \/ Disturbed(t)
          /\ at[e] \in {"announcingFailure", "failed"} => row[t] = "failed" \/ Disturbed(t)
      BY <2>2 DEF VerdictInv
    <3>3. HolderMoves(t, e) /\ t # NoTask
      BY <1>1, <2>2, HeldOnce
    <3> QED BY <1>2, <1>3, <1>4, <2>2, <3>1, <3>2, <3>3 DEF HolderMoves, Written
  <2> QED BY <2>1, <2>2
<1>5. result'[t] # "none" => Over(t)' /\ (row'[t] = result'[t] \/ Disturbed(t)')
  <2> SUFFICES ASSUME result'[t] # "none" PROVE Over(t)' /\ (row'[t] = result'[t] \/ Disturbed(t)')
    OBVIOUS
  <2>1. CASE result'[t] = result[t]
    <3>1. Over(t) /\ (row[t] = result[t] \/ Disturbed(t))
      BY <2>1 DEF VerdictInv
    <3>2. Over(t)'
      BY <3>1, NeverBack DEF Over
    <3>3. row'[t] = row[t] \/ Disturbed(t)'
      BY <1>1, <3>1 DEF RowMoves, Over, Disturbed, SentStates
    <3> QED BY <1>2, <2>1, <3>1, <3>2, <3>3
  <2>2. CASE result'[t] # result[t]
    <3>1. PICK e \in Executors : /\ job[e] = t /\ at[e] \in Verdicts /\ result'[t] = at[e]
                                 /\ job'[e] = NoTask
      BY <1>1, <2>2 DEF ResultMoves
    <3>2. row[t] = at[e] \/ Disturbed(t)
      BY <3>1 DEF VerdictInv, Verdicts
    <3>3. row'[t] = row[t] \/ Disturbed(t)'
      BY <1>3, <3>1 DEF Verdicts
    <3>4. Over(t)'
      BY <3>1, HeldOnce, NeverBack DEF Over
    <3> QED BY <1>2, <3>1, <3>2, <3>3, <3>4
  <2> QED BY <2>1, <2>2
<1>6. row'[t] \in Verdicts => request'[t] \in SentStates /\ t \notin Elems(queue')
  <2> SUFFICES ASSUME row'[t] \in Verdicts PROVE request'[t] \in SentStates /\ t \notin Elems(queue')
    OBVIOUS
  <2>1. row[t] \in Verdicts \/ (\E e \in Executors : job[e] = t) \/ row'[t] = "queued"
    BY <1>1 DEF RowMoves, Verdicts
  <2> QED BY <2>1, HeldOnce, NeverBack DEF VerdictInv, Verdicts
<1> QED BY <1>4, <1>5, <1>6

\* The agreement holds in every reachable state, with what it rests on.
LEMMA VerdictInvHolds == Spec => [](TypeInv /\ JobInv /\ RecordInv /\ VerdictInv)
<1>1. Init => RecordInv
  BY PipelineAssumption DEF Init, RecordInv, Carried, Elems
<1>2. Init => VerdictInv
  BY PipelineAssumption DEF Init, VerdictInv, Verdicts
<1> QED
  BY <1>1, <1>2, TypeInvInit, TypeInvStep, JobInvInit, JobInvStep, RecordInvStep,
     VerdictInvStep, PTL DEF Spec

\* The result key and the row, written by separate awaits of which each may fail, tell a poller
\* the same verdict, unless the row was delegated or removed.
THEOREM KeyAgreesWithRow == Spec => []ResultAgreesWithRow
<1>1. VerdictInv => ResultAgreesWithRow
  BY DEF VerdictInv, ResultAgreesWithRow, Disturbed
<1> QED BY <1>1, VerdictInvHolds, PTL

\* Once the executor has let a task go, no step of anybody changes the verdict a poller gets,
\* whether from the key or, after its hour, from the row; a delegation and a reset excepted.
THEOREM VerdictStays == Spec => PollVerdictFinal
<1> DEFINE Final(t) == /\ PollAnswer(t) \in Verdicts /\ t \notin Held
                       /\ delegatedTo[t] = NoAgent /\ t \notin wiped
                       => \/ PollAnswer(t)' = PollAnswer(t)
                          \/ delegatedTo'[t] # NoAgent \/ t \in wiped'
<1>1. ASSUME TypeInv, JobInv, VerdictInv, [Next]_vars, NEW t \in Tasks PROVE Final(t)
  <2> SUFFICES ASSUME PollAnswer(t) \in Verdicts, t \notin Held, ~Disturbed(t), ~Disturbed(t)'
               PROVE  PollAnswer(t)' = PollAnswer(t)
    BY DEF Disturbed
  <2>1. RowMoves(t) /\ ResultMoves(t)
    BY <1>1, TaskMoves DEF Moves
  <2>2. result[t] # "none" => row[t] = result[t]
    BY <1>1 DEF VerdictInv
  <2>3. row[t] = PollAnswer(t)
    BY <2>2 DEF PollAnswer
  <2>4. \A e \in Executors : job[e] # t
    BY PipelineAssumption DEF Held
  <2>5. request[t] \in SentStates
    BY <1>1, <2>3 DEF VerdictInv
  <2>6. row'[t] = row[t]
    BY <2>1, <2>4, <2>5 DEF RowMoves, Disturbed, SentStates
  <2>7. result'[t] = result[t] \/ result'[t] = "none"
    BY <2>1, <2>4 DEF ResultMoves
  <2> QED BY <2>2, <2>3, <2>6, <2>7 DEF PollAnswer
<1>2. TypeInv /\ JobInv /\ VerdictInv /\ [Next]_vars => [\A t \in Tasks : Final(t)]_vars
  BY <1>1
<1> QED BY <1>2, VerdictInvHolds, PTL DEF Spec, PollVerdictFinal

-----------------------------------------------------------------------------
(* The agents' record *)

Event == [task : Tasks, verdict : Verdicts]

\* The events about the tasks of a with the verdict v, by their place, and the tasks of a
\* about which v was announced.
IsAbout(ev, a, v) == AgentOf[ev.task] = a /\ ev.verdict = v

EventsOf(evs, a, v) == {i \in DOMAIN evs : IsAbout(evs[i], a, v)}

AnnouncedOf(a, v) == {t \in Tasks : AgentOf[t] = a /\ v \in announced[t]}

\* The events are finitely many.
LEMMA EventsFinite ==
    ASSUME NEW evs \in Seq(Event), NEW a, NEW v
    PROVE  IsFiniteSet(EventsOf(evs, a, v)) /\ Cardinality(EventsOf(evs, a, v)) \in Nat
<1>1. Len(evs) \in Nat /\ EventsOf(evs, a, v) \in SUBSET (1..Len(evs))
  BY LenProperties DEF EventsOf
<1>2. IsFiniteSet(1..Len(evs))
  BY <1>1, FS_Interval
<1>3. IsFiniteSet(EventsOf(evs, a, v))
  BY <1>1, <1>2, FS_Subset
<1> QED BY <1>3, FS_CardinalityType

\* An event that is published counts once.
LEMMA EventAdded ==
    ASSUME NEW evs \in Seq(Event), NEW ev \in Event, NEW a, NEW v
    PROVE  Cardinality(EventsOf(Append(evs, ev), a, v)) =
               Cardinality(EventsOf(evs, a, v)) + (IF IsAbout(ev, a, v) THEN 1 ELSE 0)
<1> DEFINE n == Len(evs) + 1
           more == Append(evs, ev)
<1>1. /\ Len(evs) \in Nat /\ DOMAIN evs = 1..Len(evs) /\ DOMAIN more = 1..n
      /\ more[n] = ev /\ \A i \in 1..Len(evs) : more[i] = evs[i]
  BY LenProperties, AppendProperties
<1> HIDE DEF more
<1>2. EventsOf(more, a, v) = IF IsAbout(ev, a, v) THEN EventsOf(evs, a, v) \cup {n}
                                                   ELSE EventsOf(evs, a, v)
  BY <1>1 DEF EventsOf
<1>3. n \notin EventsOf(evs, a, v)
  BY <1>1 DEF EventsOf
<1>4. IsFiniteSet(EventsOf(evs, a, v)) /\ Cardinality(EventsOf(evs, a, v)) \in Nat
  BY EventsFinite
<1>5. Cardinality(EventsOf(evs, a, v) \cup {n}) = Cardinality(EventsOf(evs, a, v)) + 1
  BY <1>3, <1>4, FS_AddElement
<1> QED BY <1>2, <1>4, <1>5 DEF more

\* One that is handled counts no more.
LEMMA EventHandled ==
    ASSUME NEW evs \in Seq(Event), evs # <<>>, NEW a, NEW v
    PROVE  Cardinality(EventsOf(Tail(evs), a, v)) + (IF IsAbout(Head(evs), a, v) THEN 1 ELSE 0)
               <= Cardinality(EventsOf(evs, a, v))
<1> DEFINE rest == Tail(evs)
<1>1. /\ rest \in Seq(Event) /\ Len(evs) \in Nat /\ Len(rest) = Len(evs) - 1
      /\ DOMAIN evs = 1..Len(evs) /\ DOMAIN rest = 1..Len(rest) /\ Len(evs) > 0
      /\ Head(evs) = evs[1] /\ \A i \in 1..Len(rest) : rest[i] = evs[i + 1]
  BY LenProperties, HeadTailProperties, EmptySeq
<1> HIDE DEF rest
<1> DEFINE S == EventsOf(rest, a, v)
           T == EventsOf(evs, a, v)
           f == [i \in S |-> i + 1]
<1>2. /\ IsFiniteSet(S) /\ Cardinality(S) \in Nat /\ IsFiniteSet(T) /\ Cardinality(T) \in Nat
  BY <1>1, EventsFinite
<1>3. \A i \in S : i \in Nat \ {0} /\ i + 1 \in T \ {1}
  BY <1>1 DEF EventsOf
<1>4. f \in Injection(S, T \ {1})
  <2>1. f \in [S -> T \ {1}]
    BY <1>3
  <2>2. \A i, j \in S : f[i] = f[j] => i = j
    BY <1>3
  <2> HIDE DEF S, T, f
  <2> QED BY <2>1, <2>2 DEF Injection, IsInjective
<1>5. /\ IsFiniteSet(T \ {1})
      /\ Cardinality(T \ {1}) = IF 1 \in T THEN Cardinality(T) - 1 ELSE Cardinality(T)
  BY <1>2, FS_RemoveElement
<1>6. Cardinality(S) <= Cardinality(T \ {1})
  BY <1>4, <1>5, FS_Injection
<1>7. IsAbout(Head(evs), a, v) <=> 1 \in T
  BY <1>1 DEF EventsOf
<1> QED BY <1>2, <1>5, <1>6, <1>7 DEF rest

\* A verdict is announced at most once: before it is, the task is not sent or its executor is
\* not past the announcement.
AnnouncedInv ==
    \A t \in Tasks :
        /\ announced[t] # {} => request[t] \in SentStates /\ t \notin Elems(queue)
        /\ \A e \in Executors : job[e] = t =>
            /\ at[e] \in {"taken", "generating", "storing", "announcing"} => announced[t] = {}
            /\ at[e] \in {"erring", "announcingFailure"} => "failed" \notin announced[t]

\* No step announces a verdict again.
LEMMA AnnouncedInvStep == TypeInv /\ JobInv /\ AnnouncedInv /\ [Next]_vars => AnnouncedInv'
<1> SUFFICES ASSUME TypeInv, JobInv, AnnouncedInv, [Next]_vars, NEW t \in Tasks
             PROVE  /\ announced'[t] # {} => request'[t] \in SentStates /\ t \notin Elems(queue')
                    /\ \A e \in Executors : job'[e] = t =>
                        /\ at'[e] \in {"taken", "generating", "storing", "announcing"}
                                => announced'[t] = {}
                        /\ at'[e] \in {"erring", "announcingFailure"} => "failed" \notin announced'[t]
  BY DEF AnnouncedInv
<1>1. /\ JobMoves(t) /\ AnnounceMoves(t) /\ t # NoTask
      /\ \A e \in Executors : job[e] = t => HolderMoves(t, e)
  BY TaskMoves, PipelineAssumption DEF Moves
<1>2. announced'[t] # {} => request'[t] \in SentStates /\ t \notin Elems(queue')
  <2>1. announced[t] # {} => request[t] \in SentStates /\ t \notin Elems(queue)
    BY DEF AnnouncedInv
  <2>2. announced'[t] = announced[t] \/ \E e \in Executors : job[e] = t
    BY <1>1 DEF AnnounceMoves
  <2> QED BY <2>1, <2>2, HeldOnce, NeverBack
<1>3. ASSUME NEW e \in Executors, job'[e] = t
      PROVE  /\ at'[e] \in {"taken", "generating", "storing", "announcing"} => announced'[t] = {}
             /\ at'[e] \in {"erring", "announcingFailure"} => "failed" \notin announced'[t]
  <2>1. CASE job[e] # t
    <3>1. at'[e] = "taken" /\ (t \in Elems(queue) \/ request[t] = "new")
      BY <1>1, <1>3, <2>1 DEF JobMoves
    <3>2. announced[t] = {} /\ \A f \in Executors : job[f] # t
      BY <3>1, HeldOnce DEF AnnouncedInv, SentStates
    <3> QED BY <1>1, <3>1, <3>2 DEF AnnounceMoves
  <2>2. CASE job[e] = t
    <3>1. /\ at[e] \in {"taken", "generating", "storing", "announcing"} => announced[t] = {}
          /\ at[e] \in {"erring", "announcingFailure"} => "failed" \notin announced[t]
      BY <2>2 DEF AnnouncedInv
    <3>2. \A f \in Executors : job[f] = t => f = e
      BY <2>2, HeldOnce
    <3>3. \/ announced'[t] = announced[t]
          \/ /\ at[e] = "announcing" /\ announced'[t] = announced[t] \cup {"done"}
             /\ at'[e] \in {"done", "erring"}
          \/ at[e] = "announcingFailure" /\ at'[e] = "failed"
      BY <1>1, <1>3, <3>2 DEF AnnounceMoves
    <3>4. HolderMoves(t, e)
      BY <1>1, <2>2
    <3> QED BY <1>1, <1>3, <3>1, <3>3, <3>4 DEF HolderMoves
  <2> QED BY <2>1, <2>2
<1> QED BY <1>2, <1>3

\* The executor e announces v about its task.
Announces(e, v) ==
    /\ job[e] \in Tasks
    /\ at[e] = IF v = "done" THEN "announcing" ELSE "announcingFailure"
    /\ Publish(job[e], v) /\ credit' = credit

\* What a step does to the event bus: a publication, a delivery, or nothing but the loss of
\* all events.
BusMoves ==
    \/ \E e \in Executors, v \in Verdicts : Announces(e, v)
    \/ announced' = announced /\ credit' = credit /\ events' \in {events, <<>>}
    \/ /\ announced' = announced /\ events # <<>> /\ events' = Tail(events)
       /\ Credit(Head(events)) \/ credit' = credit

\* The steps of execute() publish, or leave the bus alone.
LEMMA ExecuteBus ==
    ASSUME TypeInv, NEW e \in Executors, ExecuteStep(e) PROVE BusMoves
<1>1. CASE AnnounceDone(e) \/ AnnounceDoneRaises(e)
  <2>1. /\ at[e] = "announcing" /\ credit' = credit
        /\ \/ Publish(job[e], "done")
           \/ UNCHANGED <<events, announced>>
    BY <1>1 DEF AnnounceDone, AnnounceDoneRaises, Move
  <2>2. job[e] \in Tasks
    BY <2>1 DEF TypeInv, HoldsJob
  <2> QED BY <2>1, <2>2 DEF BusMoves, Announces, Verdicts
<1>2. CASE AnnounceFailed(e) \/ AnnounceFailedRaises(e)
  <2>1. /\ at[e] = "announcingFailure" /\ credit' = credit
        /\ \/ Publish(job[e], "failed")
           \/ UNCHANGED <<events, announced>>
    BY <1>2 DEF AnnounceFailed, AnnounceFailedRaises, Move
  <2>2. job[e] \in Tasks
    BY <2>1 DEF TypeInv, HoldsJob
  <2> QED BY <2>1, <2>2 DEF BusMoves, Announces, Verdicts
<1>3. CASE \/ MarkRunning(e) \/ MarkRunningRaises(e) \/ Generate(e) \/ StoreDone(e)
           \/ StoreDoneRaises(e) \/ StoreFailed(e) \/ StoreFailedRaises(e)
  BY <1>3 DEF MarkRunning, MarkRunningRaises, Generate, StoreDone, StoreDoneRaises, StoreFailed,
     StoreFailedRaises, busVars, BusMoves
<1> QED BY <1>1, <1>2, <1>3 DEF ExecuteStep

\* So does every other step, or it delivers an event or loses all.
LEMMA StepBus ==
    ASSUME TypeInv, [Next]_vars PROVE BusMoves
<1>1. ASSUME NEW t \in Tasks, CreateStep(t) \/ DelegationStep(t) \/ ExpireResult(t)
      PROVE  BusMoves
  BY <1>1
  DEF CreateStep, InsertQueued, CreatePending, InsertRaises, Push, PushRaises, DelegationStep,
      RecordDelegation, ApplyDelegation, ApplyDelegationRaises, ExpireResult, busVars, BusMoves
<1>2. ASSUME NEW w \in Workers, Dequeue(w) \/ DequeueRaises(w) \/ WorkerStep(w) PROVE BusMoves
  <2>1. CASE ExecuteStep(w)
    BY <2>1, ExecuteBus DEF Executors
  <2>2. CASE \/ Dequeue(w) \/ DequeueRaises(w) \/ SetResult(w) \/ SetResultRaises(w) \/ Wake(w)
    BY <2>2 DEF Dequeue, DequeueRaises, SetResult, SetResultRaises, Wake, busVars, BusMoves
  <2> QED BY <1>2, <2>1, <2>2 DEF WorkerStep
<1>3. ASSUME NEW c \in Callers, (\E t \in Tasks : BeginDirect(c, t)) \/ ExecuteStep(c) \/ Answer(c)
      PROVE  BusMoves
  <2>1. CASE ExecuteStep(c)
    BY <2>1, ExecuteBus DEF Executors
  <2>2. CASE (\E t \in Tasks : BeginDirect(c, t)) \/ Answer(c)
    BY <2>2 DEF BeginDirect, Answer, busVars, BusMoves
  <2> QED BY <1>3, <2>1, <2>2
<1>4. CASE Deliver \/ DeliverRaises
  BY <1>4 DEF Deliver, DeliverRaises, BusMoves
<1>5. CASE ListenerDies \/ ResetMemory \/ BeginShutdown \/ Restart \/ EvictQueue \/ UNCHANGED vars
  BY <1>5 DEF ListenerDies, ResetMemory, BeginShutdown, Restart, EvictQueue, vars, busVars, BusMoves
<1>6. ASSUME NEW c \in Streams, Leave(c) PROVE BusMoves
  <2>1. c \in Executors /\ job[c] \in Tasks /\ credit' = credit
    BY <1>6, PipelineAssumption DEF Leave, Executors, TypeInv, HoldsJob
  <2>2. \/ at[c] = "announcing" /\ Publish(job[c], "done")
        \/ at[c] = "announcingFailure" /\ Publish(job[c], "failed")
        \/ UNCHANGED <<events, announced>>
    BY <1>6 DEF Leave, Silent
  <2> QED BY <2>1, <2>2 DEF BusMoves, Announces, Verdicts
<1> QED BY <1>1, <1>2, <1>3, <1>4, <1>5, <1>6 DEF Next

\* CreditBacked, with what makes its counts numbers.
CreditInv ==
    \A a \in Agents, v \in Verdicts :
        /\ IsFiniteSet(AnnouncedOf(a, v))
        /\ credit[a][v] + Cardinality(EventsOf(events, a, v)) <= Cardinality(AnnouncedOf(a, v))

\* Publishing a verdict backs one credit more, handling its event draws it.
LEMMA CreditInvStep ==
    TypeInv /\ AnnouncedInv /\ CreditInv /\ [Next]_vars => CreditInv'
<1> SUFFICES ASSUME TypeInv, AnnouncedInv, CreditInv, [Next]_vars,
                    NEW a \in Agents, NEW v \in Verdicts
             PROVE  /\ IsFiniteSet(AnnouncedOf(a, v)')
                    /\ credit'[a][v] + Cardinality(EventsOf(events', a, v))
                            <= Cardinality(AnnouncedOf(a, v)')
  BY DEF CreditInv
<1>1. /\ credit \in [Agents -> [Verdicts -> Nat]] /\ events \in Seq(Event)
      /\ announced \in [Tasks -> SUBSET Verdicts]
  BY DEF TypeInv, TypeOK, Event
<1>2. /\ IsFiniteSet(AnnouncedOf(a, v)) /\ Cardinality(AnnouncedOf(a, v)) \in Nat
      /\ credit[a][v] \in Nat /\ Cardinality(EventsOf(events, a, v)) \in Nat
      /\ credit[a][v] + Cardinality(EventsOf(events, a, v)) <= Cardinality(AnnouncedOf(a, v))
  BY <1>1, EventsFinite, FS_CardinalityType DEF CreditInv
<1>3. ASSUME NEW e \in Executors, NEW w \in Verdicts, Announces(e, w)
      PROVE  /\ IsFiniteSet(AnnouncedOf(a, v)')
             /\ credit'[a][v] + Cardinality(EventsOf(events', a, v)) <= Cardinality(AnnouncedOf(a, v)')
  <2> DEFINE t == job[e]
             ev == [task |-> t, verdict |-> w]
  <2>1. /\ t \in Tasks /\ w \notin announced[t] /\ ev \in Event /\ credit' = credit
        /\ announced'[t] = announced[t] \cup {w}
        /\ \A x \in Tasks \ {t} : announced'[x] = announced[x]
        /\ events' = events \/ events' = Append(events, ev)
    BY <1>1, <1>3 DEF Announces, Publish, AnnouncedInv, Verdicts, Event
  <2> HIDE DEF t
  <2>2. AnnouncedOf(a, v)' = IF IsAbout(ev, a, v) THEN AnnouncedOf(a, v) \cup {t}
                                                  ELSE AnnouncedOf(a, v)
    BY <2>1 DEF AnnouncedOf, IsAbout
  <2>3. IsAbout(ev, a, v) => t \notin AnnouncedOf(a, v)
    BY <2>1 DEF AnnouncedOf, IsAbout
  <2> HIDE DEF ev
  <2>4. /\ IsFiniteSet(AnnouncedOf(a, v)')
        /\ Cardinality(AnnouncedOf(a, v)') =
               Cardinality(AnnouncedOf(a, v)) + (IF IsAbout(ev, a, v) THEN 1 ELSE 0)
    <3>1. /\ IsFiniteSet(AnnouncedOf(a, v) \cup {t})
          /\ t \notin AnnouncedOf(a, v) =>
                 Cardinality(AnnouncedOf(a, v) \cup {t}) = Cardinality(AnnouncedOf(a, v)) + 1
      BY <1>2, FS_AddElement
    <3>2. CASE IsAbout(ev, a, v)
      <4>1. AnnouncedOf(a, v)' = AnnouncedOf(a, v) \cup {t} BY <2>2, <3>2
      <4> QED BY <2>3, <3>1, <3>2, <4>1
    <3>3. CASE ~IsAbout(ev, a, v)
      <4>1. AnnouncedOf(a, v)' = AnnouncedOf(a, v) BY <2>2, <3>3
      <4> QED BY <1>2, <3>3, <4>1
    <3> QED BY <3>2, <3>3
  <2>5. Cardinality(EventsOf(events', a, v)) <=
               Cardinality(EventsOf(events, a, v)) + (IF IsAbout(ev, a, v) THEN 1 ELSE 0)
    <3>1. CASE events' = events
      <4>1. Cardinality(EventsOf(events', a, v)) = Cardinality(EventsOf(events, a, v)) BY <3>1
      <4>2. (IF IsAbout(ev, a, v) THEN 1 ELSE 0) \in {0, 1} OBVIOUS
      <4> QED BY <1>2, <4>1, <4>2
    <3>2. CASE events' = Append(events, ev) BY <1>1, <1>2, <2>1, <3>2, EventAdded
    <3> QED BY <2>1, <3>1, <3>2
  <2>6. Cardinality(EventsOf(events', a, v)) \in Nat
    <3>1. ev \in Event /\ events \in Seq(Event) BY <1>1, <2>1
    <3>2. Append(events, ev) \in Seq(Event) BY <3>1, AppendProperties
    <3>3. events' \in Seq(Event) BY <2>1, <3>1, <3>2
    <3> QED BY <3>3, EventsFinite
  <2> QED BY <1>2, <2>1, <2>4, <2>5, <2>6
<1>4. ASSUME announced' = announced, credit' = credit, events' \in {events, <<>>}
      PROVE  /\ IsFiniteSet(AnnouncedOf(a, v)')
             /\ credit'[a][v] + Cardinality(EventsOf(events', a, v)) <= Cardinality(AnnouncedOf(a, v)')
  <2>1. AnnouncedOf(a, v)' = AnnouncedOf(a, v)
    BY <1>4 DEF AnnouncedOf
  <2>2. EventsOf(<<>>, a, v) = {}
    BY EmptySeq DEF EventsOf
  <2>3. Cardinality(EventsOf(events', a, v)) \in {Cardinality(EventsOf(events, a, v)), 0}
    BY <1>4, <2>2, FS_EmptySet
  <2> QED BY <1>2, <1>4, <2>1, <2>3
<1>5. ASSUME announced' = announced, events # <<>>, events' = Tail(events),
             Credit(Head(events)) \/ credit' = credit
      PROVE  /\ IsFiniteSet(AnnouncedOf(a, v)')
             /\ credit'[a][v] + Cardinality(EventsOf(events', a, v)) <= Cardinality(AnnouncedOf(a, v)')
  <2> DEFINE ev == Head(events)
  <2>1. AnnouncedOf(a, v)' = AnnouncedOf(a, v)
    BY <1>5 DEF AnnouncedOf
  <2>2. ev \in Event /\ events' \in Seq(Event)
    BY <1>1, <1>5, HeadTailProperties
  <2>3. Cardinality(EventsOf(events', a, v)) + (IF IsAbout(ev, a, v) THEN 1 ELSE 0)
            <= Cardinality(EventsOf(events, a, v))
    BY <1>1, <1>5, EventHandled
  <2>4. Cardinality(EventsOf(events', a, v)) \in Nat
    BY <2>2, EventsFinite
  <2> HIDE DEF ev
  <2>5. /\ credit'[a][v] \in Nat
        /\ credit'[a][v] <= credit[a][v] + (IF IsAbout(ev, a, v) THEN 1 ELSE 0)
    <3>1. ev.task \in Tasks /\ ev.verdict \in Verdicts /\ AgentOf[ev.task] \in Agents
      BY <2>2, PipelineAssumption DEF Event
    <3>2. credit' = credit \/
              credit' = [credit EXCEPT ![AgentOf[ev.task]] =
                  [credit[AgentOf[ev.task]] EXCEPT ![ev.verdict] =
                      credit[AgentOf[ev.task]][ev.verdict] + 1]]
      BY <1>5 DEF Credit, ev
    <3>3. CASE credit' = credit
      <4>1. (IF IsAbout(ev, a, v) THEN 1 ELSE 0) \in {0, 1} OBVIOUS
      <4> QED BY <1>2, <3>3, <4>1
    <3>4. CASE credit' # credit
      <4>1. credit'[a] = IF a = AgentOf[ev.task]
                         THEN [credit[a] EXCEPT ![ev.verdict] = credit[a][ev.verdict] + 1]
                         ELSE credit[a]
        BY <1>1, <3>1, <3>2, <3>4
      <4>2. credit[a] \in [Verdicts -> Nat] BY <1>1
      <4>3. credit'[a][v] = IF a = AgentOf[ev.task] /\ v = ev.verdict THEN credit[a][v] + 1
                                                                     ELSE credit[a][v]
        BY <4>1, <4>2
      <4> QED BY <1>2, <4>3 DEF IsAbout
    <3> QED BY <3>3, <3>4
  <2> QED BY <1>2, <2>1, <2>3, <2>4, <2>5
<1> QED BY <1>3, <1>4, <1>5, StepBus DEF BusMoves

\* However often the bus loses events, workers raise or the process restarts, an agent is
\* credited no more than once for a verdict announced about a task of its own.
THEOREM CreditHasCause == Spec => []CreditBacked
<1>1. Init => AnnouncedInv
  BY DEF Init, AnnouncedInv
<1>2. Init => CreditInv
  <2> SUFFICES ASSUME Init, NEW a \in Agents, NEW v \in Verdicts
               PROVE  /\ IsFiniteSet(AnnouncedOf(a, v))
                      /\ credit[a][v] + Cardinality(EventsOf(events, a, v))
                              <= Cardinality(AnnouncedOf(a, v))
    BY DEF CreditInv
  <2>1. AnnouncedOf(a, v) = {} /\ credit[a][v] = 0
    BY DEF Init, AnnouncedOf
  <2>2. EventsOf(events, a, v) = {}
    BY EmptySeq DEF Init, EventsOf
  <2> QED BY <2>1, <2>2, FS_EmptySet
<1>3. CreditInv => CreditBacked
  BY DEF CreditInv, CreditBacked, EventsOf, IsAbout, AnnouncedOf
<1> QED
  BY <1>1, <1>2, <1>3, TypeInvInit, TypeInvStep, JobInvInit, JobInvStep, AnnouncedInvStep,
     CreditInvStep, PTL DEF Spec
=============================================================================
