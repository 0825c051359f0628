------------------------------- MODULE ChatTurn -------------------------------
(***************************************************************************)
(* Turns of one chat session: POST /chat, which answers as a whole, and    *)
(* POST /chat/stream, which sends events to the client and ends with a     *)
(* final one.  A turn puts the user's message into the short-term memory   *)
(* (Redis) and the long-term one (PostgreSQL), lets the model answer, and  *)
(* puts the answer there too.                                              *)
(*                                                                         *)
(* A stream's answer is produced chunk by chunk by a thread, which hands   *)
(* it to the coroutine through a queue; or the whole turn is forwarded to  *)
(* another node's core, whose events are relayed, or to its agent, whose   *)
(* progress is translated.                                                 *)
(***************************************************************************)
EXTENDS Naturals, Sequences, FiniteSets, SequencesExt

CONSTANTS
    Turns,
    MaxChunks,  \* bounds the chunks of an answer and the lines of another node
    MaxTools,   \* MAX_TOOL_CALLS
    Faults      \* what may go wrong: "error", "leave"

ASSUME TurnAssumption ==
    MaxChunks \in Nat \ {0} /\ MaxTools \in Nat \ {0} /\ Faults \subseteq {"error", "leave"}

VARIABLES
    via,        \* how a turn is served: "chat", "stream", "core", "agent"
    at,         \* the await a turn is in
    action,     \* what the model took the message for
    tools,      \* the tools a turn has called
    size,       \* the chunks of the answer so far
    thread,     \* the thread that produces a stream's answer
    pipe,       \* chunk_queue
    sent,       \* the events the client has got, or the one response of /chat
    short, long \* the session's messages in Redis and in conversation_log

vars == <<via, at, action, tools, size, thread, pipe, sent, short, long>>

Routes == {"chat", "stream", "core", "agent"}

\* "think" stands for "decide" and "learn" as well: one answer, and no tools.
Actions == {"chat", "think", "delegate"}

Places == {"new", "hear", "note", "judge", "classify", "act", "listen",
           "hearAnswer", "noteAnswer", "finish", "relay", "submit", "follow", "poll", "over"}

\* A message of the session; an answer has the size of its text.
Message(t, by, n) == [turn |-> t, by |-> by, size |-> n]

Messages == [turn : Turns, by : {"user", "cocoro"}, size : 0..MaxChunks]

Finals == {[final |-> x] : x \in Actions \cup {"blocked", "error"}}

Text == [text |-> TRUE]

Final(x) == [final |-> x]

IsFinal(e) == e \in Finals

\* How often e occurs in the sequence s.
Occurrences(s, e) == Cardinality({i \in DOMAIN s : s[i] = e})

TypeOK ==
    /\ via \in [Turns -> Routes]
    /\ at \in [Turns -> Places]
    /\ action \in [Turns -> Actions \cup {"none"}]
    /\ tools \in [Turns -> 0..MaxTools]
    /\ size \in [Turns -> 0..MaxChunks]
    /\ thread \in [Turns -> {"none", "running", "failing", "ended"}]
    /\ pipe \in [Turns -> Seq({"chunk", "error", "end"})]
    /\ sent \in [Turns -> Seq(Finals \cup {Text})]
    /\ short \in Seq(Messages) /\ long \in Seq(Messages)

Init ==
    /\ via = [t \in Turns |-> "chat"]
    /\ at = [t \in Turns |-> "new"]
    /\ action = [t \in Turns |-> "none"]
    /\ tools = [t \in Turns |-> 0]
    /\ size = [t \in Turns |-> 0]
    /\ thread = [t \in Turns |-> "none"]
    /\ pipe = [t \in Turns |-> <<>>]
    /\ sent = [t \in Turns |-> <<>>]
    /\ short = <<>>
    /\ long = <<>>

-----------------------------------------------------------------------------
Goto(t, p) == at' = [at EXCEPT ![t] = p]

Send(t, events) == sent' = [sent EXCEPT ![t] = @ \o events]

\* The last events of a turn; /chat has one response and no texts before it.
Close(t, x) ==
    /\ Goto(t, "over")
    /\ Send(t, IF via[t] = "chat" THEN <<Final(x)>> ELSE <<Text, Final(x)>>)

threadVars == <<thread, pipe>>
memory == <<short, long>>

\* A request arrives; with a role some node serves it is forwarded.
Begin(t, r) ==
    /\ at[t] = "new"
    /\ via' = [via EXCEPT ![t] = r]
    /\ Goto(t, CASE r \in {"chat", "stream"} -> "hear"
                 [] r = "core" -> "relay"
                 [] r = "agent" -> "submit")
    /\ UNCHANGED <<action, tools, size, threadVars, sent, memory>>

-----------------------------------------------------------------------------
(* A turn served here *)

Hear(t) ==
    /\ at[t] = "hear"
    /\ short' = Append(short, Message(t, "user", 0))
    /\ Goto(t, "note")
    /\ UNCHANGED <<via, action, tools, size, threadVars, sent, long>>

Note(t) ==
    /\ at[t] = "note"
    /\ long' = Append(long, Message(t, "user", 0))
    /\ Goto(t, "judge")
    /\ UNCHANGED <<via, action, tools, size, threadVars, sent, short>>

JudgeGoesOn(t) ==                 \* mutant: a blocked turn goes on
    /\ at[t] = "judge"
    /\ Goto(t, "classify")
    /\ UNCHANGED sent \/ Send(t, <<Text, Final("blocked")>>)
    /\ UNCHANGED <<via, action, tools, size, threadVars, memory>>

\* governance.check_input: a blocked message gets an answer that is not stored.
Judge(t) ==
    /\ at[t] = "judge"
    /\ \/ Goto(t, "classify") /\ UNCHANGED sent
       \/ Close(t, "blocked")
    /\ UNCHANGED <<via, action, tools, size, threadVars, memory>>

Classify(t) ==
    /\ at[t] = "classify"
    /\ \E a \in Actions : action' = [action EXCEPT ![t] = a]
    /\ Goto(t, "act")
    /\ UNCHANGED <<via, tools, size, threadVars, sent, memory>>

\* /chat answers as a whole: from one generation, the delegated execution, the
\* learning, or the last generation of the loop over tools.
Answer(t) ==
    /\ at[t] = "act" /\ via[t] = "chat"
    /\ size' = [size EXCEPT ![t] = 1]
    /\ Goto(t, "hearAnswer")
    /\ UNCHANGED <<via, action, tools, threadVars, sent, memory>>

\* The model calls a tool instead; what the tool answers, errors included, goes
\* into the next prompt.  After the last tool the model must answer.
CallTool(t) ==
    /\ at[t] = "act" /\ via[t] = "chat" /\ action[t] = "chat" /\ tools[t] < MaxTools
    /\ tools' = [tools EXCEPT ![t] = @ + 1]
    /\ UNCHANGED <<via, at, action, size, threadVars, sent, memory>>

\* A stream executes a delegated task and is over; otherwise it starts the thread.
Stream(t) ==
    /\ at[t] = "act" /\ via[t] = "stream"
    /\ \/ action[t] = "delegate" /\ Close(t, "delegate") /\ UNCHANGED thread
       \/ /\ action[t] # "delegate"
          /\ thread' = [thread EXCEPT ![t] = "running"]
          /\ Goto(t, "listen")
          /\ UNCHANGED sent
    /\ UNCHANGED <<via, action, tools, size, pipe, memory>>

\* The thread's _sync_stream puts chunks, an exception if there is one, and
\* always the sentinel.
Produced(t) == size[t] + Occurrences(pipe[t], "chunk")

ThreadChunk(t) ==
    /\ thread[t] = "running" /\ Produced(t) < MaxChunks
    /\ pipe' = [pipe EXCEPT ![t] = Append(@, "chunk")]
    /\ UNCHANGED <<via, at, action, tools, size, thread, sent, memory>>

ThreadFails(t) ==
    /\ "error" \in Faults /\ thread[t] = "running"
    /\ thread' = [thread EXCEPT ![t] = "failing"]
    /\ pipe' = [pipe EXCEPT ![t] = Append(@, "error")]
    /\ UNCHANGED <<via, at, action, tools, size, sent, memory>>

ThreadSilent(t) ==                \* mutant: no sentinel
    /\ thread[t] \in {"running", "failing"}
    /\ thread' = [thread EXCEPT ![t] = "ended"]
    /\ UNCHANGED <<via, at, action, tools, size, pipe, sent, memory>>

ThreadEnds(t) ==
    /\ thread[t] \in {"running", "failing"}
    /\ thread' = [thread EXCEPT ![t] = "ended"]
    /\ pipe' = [pipe EXCEPT ![t] = Append(@, "end")]
    /\ UNCHANGED <<via, at, action, tools, size, sent, memory>>

ListenAhead(t) ==                 \* mutant: a chunk is counted and not sent
    /\ at[t] = "listen" /\ pipe[t] # <<>>
    /\ pipe' = [pipe EXCEPT ![t] = Tail(@)]
    /\ size' = IF Head(pipe[t]) = "chunk" THEN [size EXCEPT ![t] = @ + 1] ELSE size
    /\ IF Head(pipe[t]) = "chunk" THEN UNCHANGED at ELSE Goto(t, "hearAnswer")
    /\ UNCHANGED <<via, action, tools, thread, sent, memory>>

\* The generator sends each chunk on; an exception of the thread is logged, and
\* ends the answer as the sentinel does.
Listen(t) ==
    /\ at[t] = "listen" /\ pipe[t] # <<>>
    /\ pipe' = [pipe EXCEPT ![t] = Tail(@)]
    /\ IF Head(pipe[t]) = "chunk"
       THEN /\ size' = [size EXCEPT ![t] = @ + 1]
            /\ Send(t, <<Text>>)
            /\ UNCHANGED at
       ELSE /\ Goto(t, "hearAnswer")
            /\ UNCHANGED <<size, sent>>
    /\ UNCHANGED <<via, action, tools, thread, memory>>

HearAnswer(t) ==
    /\ at[t] = "hearAnswer"
    /\ short' = Append(short, Message(t, "cocoro", size[t]))
    /\ Goto(t, "noteAnswer")
    /\ UNCHANGED <<via, action, tools, size, threadVars, sent, long>>

NoteSkipped(t) ==                 \* mutant: the long-term memory is skipped
    /\ at[t] = "noteAnswer"
    /\ long' = long
    /\ Goto(t, "finish")
    /\ UNCHANGED <<via, action, tools, size, threadVars, sent, short>>

NoteAnswer(t) ==
    /\ at[t] = "noteAnswer"
    /\ long' = Append(long, Message(t, "cocoro", size[t]))
    /\ Goto(t, "finish")
    /\ UNCHANGED <<via, action, tools, size, threadVars, sent, short>>

\* Emotions, memories and observation, whose errors are swallowed; then the end.
Finish(t) ==
    /\ at[t] = "finish"
    /\ Goto(t, "over")
    /\ Send(t, <<Final(action[t])>>)
    /\ UNCHANGED <<via, action, tools, size, threadVars, memory>>

\* Nothing raises here, or the code catches it on the spot.
Unfailing == {"new", "listen", "finish", "relay", "poll", "over"}

FailsSilently(t) ==               \* mutant: the exception ends the stream
    /\ "error" \in Faults /\ at[t] \in Places \ Unfailing
    /\ Goto(t, "over")
    /\ UNCHANGED <<via, action, tools, size, threadVars, sent, memory>>

\* A write to a memory that raises, or is cancelled, may have been made all the
\* same: add_message sends two commands, and an answer may get lost.
Words(t) ==
    IF at[t] \in {"hear", "note"} THEN Message(t, "user", 0) ELSE Message(t, "cocoro", size[t])

MayStore(t) ==
    \/ UNCHANGED memory
    \/ at[t] \in {"hear", "hearAnswer"} /\ short' = Append(short, Words(t)) /\ UNCHANGED long
    \/ at[t] \in {"note", "noteAnswer"} /\ long' = Append(long, Words(t)) /\ UNCHANGED short

\* An awaited call raises: Redis, PostgreSQL, the model after its retries, or the
\* agent's node.
Fails(t) ==
    /\ "error" \in Faults /\ at[t] \in Places \ Unfailing
    /\ Close(t, "error")
    /\ MayStore(t)
    /\ UNCHANGED <<via, action, tools, size, threadVars>>

\* The client of a stream goes away: the generator is cancelled where it stands,
\* which no except clause catches; the thread goes on.
Leave(t) ==
    /\ "leave" \in Faults /\ via[t] # "chat" /\ at[t] \notin {"new", "over"}
    /\ Goto(t, "over")
    /\ MayStore(t)
    /\ UNCHANGED <<via, action, tools, size, threadVars, sent>>

-----------------------------------------------------------------------------
(* A turn served by another node *)

\* forward_to_node relays the lines of the other core, which keeps this same
\* protocol, as far as the connection carries them.
Relayed(t) == \E i \in DOMAIN sent[t] : IsFinal(sent[t][i])

RelayText(t) ==
    /\ at[t] = "relay" /\ ~Relayed(t) /\ size[t] < MaxChunks
    /\ size' = [size EXCEPT ![t] = @ + 1]
    /\ Send(t, <<Text>>)
    /\ UNCHANGED <<via, at, action, tools, threadVars, memory>>

RelayFinal(t) ==
    /\ at[t] = "relay" /\ ~Relayed(t)
    /\ \E x \in {"chat", "error"} : Send(t, <<Final(x)>>)
    /\ UNCHANGED <<via, at, action, tools, size, threadVars, memory>>

RelayEnds(t) ==
    /\ at[t] = "relay" /\ Relayed(t)
    /\ Goto(t, "over")
    /\ UNCHANGED <<via, action, tools, size, threadVars, sent, memory>>

\* No connection, another status than 200, or a connection that breaks.
RelayBreaks(t) ==
    /\ "error" \in Faults /\ at[t] = "relay"
    /\ Close(t, "error")
    /\ UNCHANGED <<via, action, tools, size, threadVars, memory>>

\* forward_task_to_agent: the agent takes the task, reports progress and ends.
Submit(t) ==
    /\ at[t] = "submit"
    /\ Goto(t, "follow")
    /\ Send(t, <<Text>>)
    /\ UNCHANGED <<via, action, tools, size, threadVars, memory>>

Progress(t) ==
    /\ at[t] = "follow" /\ size[t] < MaxChunks
    /\ size' = [size EXCEPT ![t] = @ + 1]
    /\ Send(t, <<Text>>)
    /\ UNCHANGED <<via, at, action, tools, threadVars, memory>>

\* The agent is done, or reports an error; a read that times out and a stream
\* that ends without either lead to a request for the result.
AgentEnds(t) ==
    /\ at[t] = "follow"
    /\ \/ Close(t, "delegate")
       \/ Close(t, "error")
       \/ Goto(t, "poll") /\ UNCHANGED sent
    /\ UNCHANGED <<via, action, tools, size, threadVars, memory>>

\* Whatever the request for the result answers becomes the text.
Poll(t) ==
    /\ at[t] = "poll"
    /\ Close(t, "delegate")
    /\ UNCHANGED <<via, action, tools, size, threadVars, memory>>

-----------------------------------------------------------------------------
ThreadStep(t) == ThreadChunk(t) \/ ThreadFails(t) \/ ThreadEnds(t)

TurnStep(t) ==
    \/ Hear(t) \/ Note(t) \/ Judge(t) \/ Classify(t)
    \/ Answer(t) \/ CallTool(t) \/ Stream(t) \/ Listen(t)
    \/ HearAnswer(t) \/ NoteAnswer(t) \/ Finish(t)
    \/ RelayText(t) \/ RelayFinal(t) \/ RelayEnds(t)
    \/ Submit(t) \/ Progress(t) \/ AgentEnds(t) \/ Poll(t)

Next ==
    \E t \in Turns :
        \/ \E r \in Routes : Begin(t, r)
        \/ TurnStep(t) \/ ThreadStep(t)
        \/ Fails(t) \/ RelayBreaks(t) \/ Leave(t)

Spec == Init /\ [][Next]_vars

\* Every awaited call returns or raises in the end, and the thread goes on.
Fairness == \A t \in Turns : WF_vars(TurnStep(t)) /\ WF_vars(ThreadStep(t))

FairSpec == Spec /\ Fairness

-----------------------------------------------------------------------------
(* Properties *)

\* A turn sends one final event at most, and nothing after it, on every path
\* through the handler and the agent's translation.  (A relayed turn whose
\* connection breaks after the other core's final event gets a second one.)
OneFinal ==
    \A t \in Turns : via[t] # "core" =>
        \A i \in DOMAIN sent[t] : IsFinal(sent[t][i]) => i = Len(sent[t])

\* What conversation_log keeps as a stream's answer is what the client was sent,
\* chunk for chunk; after it the client gets a text only when storing it raised.
AnswerAsSent ==
    \A m \in ToSet(long) : m.by = "cocoro" /\ via[m.turn] = "stream" =>
        Occurrences(sent[m.turn], Text) =
            IF Final("error") \in ToSet(sent[m.turn]) THEN m.size + 1 ELSE m.size

InOrder(s, t) ==
    \E i, j \in DOMAIN s : /\ i < j /\ s[i] = Message(t, "user", 0)
                          /\ s[j] = Message(t, "cocoro", size[t])

EndedNormally(t) ==
    /\ via[t] \in {"chat", "stream"} /\ at[t] = "over"
    /\ sent[t] # <<>> /\ Last(sent[t]) \in {Final(x) : x \in Actions}

\* A turn that ended normally is in both memories, the question before the answer,
\* however the turns of the session interleave; a stream's delegated execution
\* alone leaves no answer.
Remembered ==
    \A t \in Turns : EndedNormally(t) =>
        \/ InOrder(short, t) /\ InOrder(long, t)
        \/ via[t] = "stream" /\ action[t] = "delegate"

\* A turn ends with its final event, whatever raised, unless its client left.
EndsWithFinal ==
    [][\A t \in Turns : at[t] # "over" /\ at'[t] = "over" =>
         \/ sent'[t] # <<>> /\ IsFinal(Last(sent'[t]))
         \/ Leave(t)]_vars

\* Every turn ends, and with its final event: the loop over tools, the thread and the
\* queue between it and the generator never keep a client waiting for ever.
TurnsEnd == EndsWithFinal /\ \A t \in Turns : at[t] # "new" ~> at[t] = "over"
=============================================================================
