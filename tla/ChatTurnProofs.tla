---------------------------- MODULE ChatTurnProofs ----------------------------
(***************************************************************************)
(* Theorems about the turns of a chat session: what the client of a turn   *)
(* is sent, and what the two memories keep of it, for every set of turns,  *)
(* every bound on chunks and tools and whatever faults there are.          *)
(***************************************************************************)
EXTENDS ChatTurn, TLAPS, SequenceTheorems, FiniteSetTheorems

Events == Finals \cup {Text}

Items == {"chunk", "error", "end"}

-----------------------------------------------------------------------------
(* Sequences of events *)

\* The empty sequence holds nothing.
LEMMA OccursEmpty ==
    ASSUME NEW e
    PROVE  Occurrences(<<>>, e) = 0
  BY FS_EmptySet DEF Occurrences

\* A sequence holds a thing a number of times.
LEMMA OccursNat ==
    ASSUME NEW S, NEW s \in Seq(S), NEW e
    PROVE  Occurrences(s, e) \in Nat /\ IsFiniteSet({i \in DOMAIN s : s[i] = e})
  <1>1. DOMAIN s = 1..Len(s) /\ Len(s) \in Nat BY LenProperties
  <1>2. IsFiniteSet(1..Len(s)) BY <1>1, FS_Interval
  <1>3. IsFiniteSet({i \in DOMAIN s : s[i] = e}) BY <1>1, <1>2, FS_Subset
  <1> QED BY <1>3, FS_CardinalityType DEF Occurrences

\* Appending something adds one occurrence of it.
LEMMA OccursAppend ==
    ASSUME NEW S, NEW s \in Seq(S), NEW x \in S, NEW e
    PROVE  Occurrences(Append(s, x), e)
             = IF x = e THEN Occurrences(s, e) + 1 ELSE Occurrences(s, e)
  <1> DEFINE A == {i \in DOMAIN s : s[i] = e}
             B == {i \in DOMAIN Append(s, x) : Append(s, x)[i] = e}
             n == Len(s) + 1
  <1>1. /\ DOMAIN s = 1..Len(s) /\ Len(s) \in Nat
        /\ DOMAIN Append(s, x) = 1..n /\ Append(s, x)[n] = x
        /\ \A i \in 1..Len(s) : Append(s, x)[i] = s[i]
    BY LenProperties, AppendProperties
  <1>2. IsFiniteSet(A) BY OccursNat
  <1>3. B = IF x = e THEN A \cup {n} ELSE A BY <1>1
  <1>4. n \notin A BY <1>1
  <1> QED BY <1>2, <1>3, <1>4, FS_AddElement DEF Occurrences

\* Taking the head away takes its occurrence away.
LEMMA OccursTail ==
    ASSUME NEW S, NEW s \in Seq(S), s # <<>>, NEW e
    PROVE  Occurrences(s, e)
             = IF Head(s) = e THEN Occurrences(Tail(s), e) + 1 ELSE Occurrences(Tail(s), e)
  <1> DEFINE A == {i \in DOMAIN s : s[i] = e}
             C == {i \in A : i # 1}
             B == {i \in DOMAIN Tail(s) : Tail(s)[i] = e}
             f == [i \in B |-> i + 1]
  <1>1. /\ DOMAIN s = 1..Len(s) /\ Len(s) \in Nat \ {0} /\ s[1] = Head(s)
        /\ Tail(s) \in Seq(S) /\ Len(Tail(s)) = Len(s) - 1
        /\ DOMAIN Tail(s) = 1..(Len(s) - 1)
        /\ \A i \in 1..(Len(s) - 1) : Tail(s)[i] = s[i + 1]
    BY LenProperties, EmptySeq, HeadTailProperties
  <1>2. IsFiniteSet(A) /\ IsFiniteSet(B) BY <1>1, OccursNat
  <1>3. IsFiniteSet(C) BY <1>2, FS_Subset
  <1>4. f \in Bijection(B, C)
    <2>1. f \in [B -> C] BY <1>1
    <2>2. \A i, j \in B : f[i] = f[j] => i = j BY <1>1
    <2>3. \A c \in C : \E b \in B : f[b] = c
      <3> TAKE c \in C
      <3>1. c \in Nat /\ c - 1 \in B BY <1>1
      <3>2. f[c - 1] = c BY <3>1
      <3> QED BY <3>1, <3>2
    <2> QED BY <2>1, <2>2, <2>3 DEF Bijection, Injection, Surjection, IsInjective
  <1>5. Cardinality(B) = Cardinality(C)
    <2>1. ExistsBijection(B, C) BY <1>4 DEF ExistsBijection
    <2> QED BY <2>1, <1>2, FS_Bijection
  <1>6. A = IF Head(s) = e THEN C \cup {1} ELSE C BY <1>1
  <1> QED BY <1>3, <1>5, <1>6, FS_AddElement DEF Occurrences

\* What is sent at once is sent one after the other.
LEMMA ConcatOne ==
    ASSUME NEW S, NEW s \in Seq(S), NEW a \in S
    PROVE  s \o <<a>> = Append(s, a)
  OBVIOUS

\* The same for a text and the final event after it.
LEMMA ConcatTwo ==
    ASSUME NEW S, NEW s \in Seq(S), NEW a \in S, NEW b \in S
    PROVE  s \o <<a, b>> = Append(Append(s, a), b)
  OBVIOUS

\* A final event is no text.
LEMMA FinalNotText ==
    ASSUME NEW x
    PROVE  Final(x) # Text
  <1>1. DOMAIN Final(x) = {"final"} /\ DOMAIN Text = {"text"} BY DEF Final, Text
  <1> QED BY <1>1

\* The final events are those of the kinds the handler knows.
LEMMA FinalKinds ==
    /\ \A x \in Actions \cup {"blocked", "error"} : Final(x) \in Finals
    /\ \A x, y : Final(x) = Final(y) => x = y
    /\ \A f \in Finals : \E x \in Actions \cup {"blocked", "error"} : f = Final(x)
    /\ Text \notin Finals
  <1>1. \A x, y : Final(x) = Final(y) => x = y
    <2> TAKE x, y
    <2>1. Final(x).final = x /\ Final(y).final = y BY DEF Final
    <2> QED BY <2>1
  <1>2. \A f \in Finals : \E x \in Actions \cup {"blocked", "error"} : f = Final(x)
    BY DEF Finals, Final
  <1> QED BY <1>1, <1>2, FinalNotText DEF Finals, Final

\* What the end of a turn sends: a text before the final event, or the one response.
LEMMA ClosingEvents ==
    ASSUME NEW s \in Seq(Events), NEW x \in Actions \cup {"blocked", "error"}
    PROVE  /\ s \o <<Final(x)>> = Append(s, Final(x))
           /\ s \o <<Text, Final(x)>> = Append(Append(s, Text), Final(x))
           /\ s \o <<Text>> = Append(s, Text)
           /\ Append(s, Text) \in Seq(Events) /\ Append(s, Final(x)) \in Seq(Events)
           /\ Append(Append(s, Text), Final(x)) \in Seq(Events)
           /\ Occurrences(Append(s, Text), Text) = Occurrences(s, Text) + 1
           /\ Occurrences(Append(s, Final(x)), Text) = Occurrences(s, Text)
           /\ Occurrences(Append(Append(s, Text), Final(x)), Text) = Occurrences(s, Text) + 1
  <1>1. Text \in Events /\ Final(x) \in Events BY FinalKinds DEF Events
  <1>2. Append(s, Text) \in Seq(Events) /\ Append(s, Final(x)) \in Seq(Events)
        /\ Append(Append(s, Text), Final(x)) \in Seq(Events)
    BY <1>1
  <1>3. /\ s \o <<Final(x)>> = Append(s, Final(x))
        /\ s \o <<Text, Final(x)>> = Append(Append(s, Text), Final(x))
        /\ s \o <<Text>> = Append(s, Text)
    BY <1>1, ConcatOne, ConcatTwo
  <1>4. Occurrences(Append(s, Text), Text) = Occurrences(s, Text) + 1
    BY <1>1, OccursAppend
  <1>5. Occurrences(Append(s, Final(x)), Text) = Occurrences(s, Text)
    BY <1>1, OccursAppend, FinalNotText
  <1>6. Occurrences(Append(Append(s, Text), Final(x)), Text) = Occurrences(s, Text) + 1
    <2> DEFINE longer == Append(s, Text)
    <2>1. longer \in Seq(Events) /\ Occurrences(longer, Text) = Occurrences(s, Text) + 1
      BY <1>2, <1>4
    <2> HIDE DEF longer
    <2>2. Occurrences(Append(longer, Final(x)), Text) = Occurrences(longer, Text)
      BY <1>1, <2>1, OccursAppend, FinalNotText
    <2> QED BY <2>1, <2>2 DEF longer
  <1> QED BY <1>2, <1>3, <1>4, <1>5, <1>6

-----------------------------------------------------------------------------
(* Where a turn can be on its route *)

Here == {"hear", "note", "judge", "classify", "act", "listen",
         "hearAnswer", "noteAnswer", "finish"}

Taken == {"act", "listen", "hearAnswer", "noteAnswer", "finish"}

PlaceInv(t) ==
    /\ at[t] = "relay" => via[t] = "core"
    /\ at[t] \in {"submit", "follow", "poll"} => via[t] = "agent"
    /\ at[t] \in Here => via[t] \in {"chat", "stream"}
    /\ at[t] = "listen" => via[t] = "stream"
    /\ at[t] \in Taken => action[t] \in Actions
    /\ at[t] = "new" => /\ sent[t] = <<>> /\ size[t] = 0
                        /\ pipe[t] = <<>> /\ thread[t] = "none"
    /\ thread[t] # "none" => via[t] = "stream"
    /\ via[t] = "stream" => Produced(t) <= MaxChunks

Places1 == TypeOK /\ \A t \in Turns : PlaceInv(t)

\* In the beginning every turn is new.
LEMMA PlacesInit == Init => Places1
  <1> SUFFICES ASSUME Init PROVE Places1 OBVIOUS
  <1>1. TypeOK
    BY TurnAssumption, EmptySeq DEF Init, TypeOK, Routes, Places, Actions, TurnAssumption
  <1>2. ASSUME NEW t \in Turns PROVE PlaceInv(t)
    BY OccursEmpty DEF Init, PlaceInv, Produced, Here, Taken
  <1> QED BY <1>1, <1>2 DEF Places1

\* What the thread puts into the queue.
LEMMA ThreadPlaces ==
    ASSUME Places1, NEW t \in Turns, ThreadStep(t)
    PROVE  Places1'
  <1>1. CASE ThreadChunk(t)
    <2>1. TypeOK' BY <1>1 DEF Places1, TypeOK, ThreadChunk, memory
    <2>2. ASSUME NEW u \in Turns PROVE PlaceInv(u)'
      <3>1. CASE u # t
        BY <1>1, <3>1 DEF Places1, TypeOK, PlaceInv, ThreadChunk, Produced
      <3>2. CASE u = t
        <4>1. pipe[t] \in Seq(Items) /\ pipe'[t] = Append(pipe[t], "chunk")
          BY <1>1 DEF Places1, TypeOK, ThreadChunk, Items
        <4>2. Occurrences(pipe'[t], "chunk") = Occurrences(pipe[t], "chunk") + 1
          BY <4>1, OccursAppend DEF Items
        <4>3. Occurrences(pipe[t], "chunk") \in Nat BY <4>1, OccursNat
        <4>4. size[t] \in Nat /\ MaxChunks \in Nat
          BY TurnAssumption DEF Places1, TypeOK, TurnAssumption
        <4> QED BY <1>1, <3>2, <4>1, <4>2, <4>3, <4>4
                DEF Places1, TypeOK, PlaceInv, ThreadChunk, Produced
      <3> QED BY <3>1, <3>2
    <2> QED BY <2>1, <2>2 DEF Places1
  <1>2. CASE ThreadFails(t) \/ ThreadEnds(t)
    <2>1. TypeOK'
      <3>1. CASE ThreadFails(t) BY <3>1 DEF Places1, TypeOK, ThreadFails, memory
      <3>2. CASE ThreadEnds(t) BY <3>2 DEF Places1, TypeOK, ThreadEnds, memory
      <3> QED BY <1>2, <3>1, <3>2
    <2>2. ASSUME NEW u \in Turns PROVE PlaceInv(u)'
      <3>1. CASE u # t
        BY <1>2, <3>1 DEF Places1, TypeOK, PlaceInv, ThreadFails, ThreadEnds, Produced
      <3>2. CASE u = t
        <4>1. pipe[t] \in Seq(Items)
              /\ \E x \in Items \ {"chunk"} : pipe'[t] = Append(pipe[t], x)
          BY <1>2 DEF Places1, TypeOK, ThreadFails, ThreadEnds, Items
        <4>2. Occurrences(pipe'[t], "chunk") = Occurrences(pipe[t], "chunk")
          BY <4>1, OccursAppend DEF Items
        <4> QED BY <1>2, <3>2, <4>1, <4>2
                DEF Places1, TypeOK, PlaceInv, ThreadFails, ThreadEnds, Produced
      <3> QED BY <3>1, <3>2
    <2> QED BY <2>1, <2>2 DEF Places1
  <1> QED BY <1>1, <1>2 DEF ThreadStep

\* What a step of another turn leaves of a turn.
Still(u) ==
    /\ via'[u] = via[u] /\ at'[u] = at[u] /\ action'[u] = action[u] /\ size'[u] = size[u]
    /\ thread'[u] = thread[u] /\ pipe'[u] = pipe[u] /\ sent'[u] = sent[u]

\* The steps of turn t.
Steps(t) ==
    \/ \E r \in Routes : Begin(t, r)
    \/ TurnStep(t) \/ ThreadStep(t)
    \/ Fails(t) \/ RelayBreaks(t) \/ Leave(t)

\* A step is one turn's, and leaves the others where they are.
LEMMA OthersStill ==
    ASSUME TypeOK, NEW t \in Turns, Steps(t), NEW u \in Turns, u # t
    PROVE  Still(u)
  <1> USE DEF TypeOK, Still, threadVars, memory, Goto, Send, Close
  <1>1. CASE \E r \in Routes : Begin(t, r) BY <1>1 DEF Begin
  <1>2. CASE Hear(t) \/ Note(t) \/ Judge(t) \/ Classify(t)
    BY <1>2 DEF Hear, Note, Judge, Classify
  <1>3. CASE Answer(t) \/ CallTool(t) \/ Stream(t)
    BY <1>3 DEF Answer, CallTool, Stream
  <1>4. CASE Listen(t) BY <1>4 DEF Listen
  <1>5. CASE HearAnswer(t) \/ NoteAnswer(t) \/ Finish(t)
    BY <1>5 DEF HearAnswer, NoteAnswer, Finish
  <1>6. CASE RelayText(t) \/ RelayFinal(t) \/ RelayEnds(t) \/ RelayBreaks(t)
    BY <1>6 DEF RelayText, RelayFinal, RelayEnds, RelayBreaks
  <1>7. CASE Submit(t) \/ Progress(t) \/ AgentEnds(t) \/ Poll(t)
    BY <1>7 DEF Submit, Progress, AgentEnds, Poll
  <1>8. CASE ThreadStep(t) BY <1>8 DEF ThreadStep, ThreadChunk, ThreadFails, ThreadEnds
  <1>9. CASE Fails(t) \/ Leave(t) BY <1>9 DEF Fails, Leave
  <1> QED BY <1>1, <1>2, <1>3, <1>4, <1>5, <1>6, <1>7, <1>8, <1>9 DEF Steps, TurnStep

\* The events of a turn grow by texts and final events.
LEMMA SendTypes ==
    ASSUME TypeOK, NEW t \in Turns, NEW x \in Actions \cup {"blocked", "error"}
    PROVE  /\ sent[t] \in Seq(Events)
           /\ sent[t] \o <<Text>> \in Seq(Events)
           /\ sent[t] \o <<Final(x)>> \in Seq(Events)
           /\ sent[t] \o <<Text, Final(x)>> \in Seq(Events)
  <1>1. sent[t] \in Seq(Events) BY DEF TypeOK, Events
  <1> QED BY <1>1, ClosingEvents

\* The messages the turns write have their type.
LEMMA MessageTypes ==
    ASSUME TypeOK, NEW t \in Turns
    PROVE  /\ Message(t, "user", 0) \in Messages
           /\ Message(t, "cocoro", size[t]) \in Messages
           /\ Words(t) \in Messages
  BY TurnAssumption DEF TypeOK, Message, Messages, Words, TurnAssumption

\* Closing a turn keeps the types.
LEMMA CloseTypes ==
    ASSUME TypeOK, NEW t \in Turns, NEW x \in Actions \cup {"blocked", "error"}, Close(t, x)
    PROVE  at' \in [Turns -> Places] /\ sent' \in [Turns -> Seq(Events)]
  BY SendTypes DEF TypeOK, Close, Goto, Send, Places, Events

\* A write that may have been made keeps the types.
LEMMA StoreTypes ==
    ASSUME TypeOK, NEW t \in Turns, MayStore(t)
    PROVE  short' \in Seq(Messages) /\ long' \in Seq(Messages)
  <1>1. Words(t) \in Messages BY MessageTypes
  <1>2. /\ short' = short \/ short' = Append(short, Words(t))
        /\ long' = long \/ long' = Append(long, Words(t))
    BY DEF MayStore, memory
  <1>3. short \in Seq(Messages) /\ long \in Seq(Messages) BY DEF TypeOK
  <1>4. short' \in Seq(Messages) BY <1>1, <1>2, <1>3, AppendProperties
  <1>5. long' \in Seq(Messages) BY <1>1, <1>2, <1>3, AppendProperties
  <1> QED BY <1>4, <1>5

\* The words of the user and the answer are messages of the session.
LEMMA MemoryTypes ==
    ASSUME TypeOK, NEW t \in Turns, Hear(t) \/ Note(t) \/ HearAnswer(t) \/ NoteAnswer(t)
    PROVE  short' \in Seq(Messages) /\ long' \in Seq(Messages)
  <1>1. \E m \in Messages : /\ short' = short \/ short' = Append(short, m)
                            /\ long' = long \/ long' = Append(long, m)
    <2>1. CASE Hear(t) BY <2>1, MessageTypes DEF Hear
    <2>2. CASE Note(t) BY <2>2, MessageTypes DEF Note
    <2>3. CASE HearAnswer(t) BY <2>3, MessageTypes DEF HearAnswer
    <2>4. CASE NoteAnswer(t) BY <2>4, MessageTypes DEF NoteAnswer
    <2> QED BY <2>1, <2>2, <2>3, <2>4
  <1>2. short \in Seq(Messages) /\ long \in Seq(Messages) BY DEF TypeOK
  <1>3. PICK m \in Messages : /\ short' = short \/ short' = Append(short, m)
                              /\ long' = long \/ long' = Append(long, m)
    BY <1>1
  <1>4. Append(short, m) \in Seq(Messages) BY <1>2, <1>3, AppendProperties
  <1>5. Append(long, m) \in Seq(Messages) BY <1>2, <1>3, AppendProperties
  <1> QED BY <1>2, <1>3, <1>4, <1>5

\* What the generator takes out of the queue.
LEMMA ListenPlaces ==
    ASSUME Places1, NEW t \in Turns, Listen(t)
    PROVE  TypeOK' /\ PlaceInv(t)'
  <1>1. /\ TypeOK /\ PlaceInv(t) /\ via[t] = "stream" /\ via' = via
        /\ at[t] = "listen" /\ pipe[t] # <<>> /\ pipe[t] \in Seq(Items)
        /\ pipe'[t] = Tail(pipe[t]) /\ pipe' = [pipe EXCEPT ![t] = Tail(@)]
        /\ action' = action /\ thread' = thread /\ tools' = tools
        /\ short' = short /\ long' = long
    BY DEF Places1, PlaceInv, TypeOK, Items, Listen, memory
  <1>2. pipe'[t] \in Seq(Items) BY <1>1, HeadTailProperties
  <1>3. /\ Occurrences(pipe[t], "chunk")
             = IF Head(pipe[t]) = "chunk" THEN Occurrences(pipe'[t], "chunk") + 1
                                          ELSE Occurrences(pipe'[t], "chunk")
        /\ Occurrences(pipe'[t], "chunk") \in Nat /\ Occurrences(pipe[t], "chunk") \in Nat
    <2>1. Occurrences(pipe[t], "chunk")
             = IF Head(pipe[t]) = "chunk" THEN Occurrences(pipe'[t], "chunk") + 1
                                          ELSE Occurrences(pipe'[t], "chunk")
      BY <1>1, OccursTail
    <2>2. Occurrences(pipe'[t], "chunk") \in Nat BY <1>2, OccursNat
    <2>3. Occurrences(pipe[t], "chunk") \in Nat BY <1>1, OccursNat
    <2> QED BY <2>1, <2>2, <2>3
  <1>4. size[t] \in Nat /\ MaxChunks \in Nat /\ Produced(t) <= MaxChunks
    BY <1>1, TurnAssumption DEF TypeOK, PlaceInv, TurnAssumption
  <1>5. pipe' \in [Turns -> Seq(Items)] BY <1>1, <1>2 DEF TypeOK, Items
  <1>6. CASE Head(pipe[t]) = "chunk"
    <2>1. /\ size' = [size EXCEPT ![t] = size[t] + 1] /\ at' = at
          /\ sent' = [sent EXCEPT ![t] = sent[t] \o <<Text>>]
      BY <1>6 DEF Listen, Send
    <2>2. size'[t] = size[t] + 1 BY <1>1, <2>1 DEF TypeOK
    <2>3. Produced(t)' = Produced(t) BY <1>3, <1>4, <1>6, <2>2 DEF Produced
    <2>4. size'[t] \in 0..MaxChunks BY <1>3, <1>4, <1>6, <2>2 DEF Produced
    <2>5. sent' \in [Turns -> Seq(Events)]
      BY <1>1, <2>1, SendTypes DEF TypeOK, Events, Actions
    <2> QED BY <1>1, <1>4, <1>5, <2>1, <2>2, <2>3, <2>4, <2>5 DEF TypeOK, PlaceInv, Events, Items, Here, Taken
  <1>7. CASE Head(pipe[t]) # "chunk"
    <2>1. size' = size /\ sent' = sent /\ at' = [at EXCEPT ![t] = "hearAnswer"]
      BY <1>7 DEF Listen, Goto
    <2>2. Produced(t)' = Produced(t)
      BY <1>1, <1>3, <1>7, <2>1 DEF Produced
    <2> QED BY <1>1, <1>4, <1>5, <2>1, <2>2
            DEF TypeOK, PlaceInv, Items, Here, Taken, Places
  <1> QED BY <1>6, <1>7

\* The steps that leave the queue alone.
LEMMA OtherPlaces ==
    ASSUME Places1, NEW t \in Turns, Steps(t), ~ThreadStep(t), ~Listen(t)
    PROVE  TypeOK' /\ PlaceInv(t)'
  <1> USE DEF Places1, TypeOK, PlaceInv, Here, Taken, Goto, threadVars, memory, Places, Actions
  <1>1. MaxChunks \in Nat \ {0} /\ MaxTools \in Nat \ {0}
    BY TurnAssumption DEF TurnAssumption
  <1>2. Message(t, "user", 0) \in Messages /\ Message(t, "cocoro", size[t]) \in Messages
    BY MessageTypes
  <1>3. ASSUME size'[t] = size[t], pipe'[t] = pipe[t]
        PROVE  Produced(t)' = Produced(t)
    BY <1>3 DEF Produced
  <1>4. ASSUME NEW x \in Actions \cup {"blocked", "error"}, Close(t, x)
        PROVE  /\ at' \in [Turns -> Places] /\ sent' \in [Turns -> Seq(Finals \cup {Text})]
               /\ at'[t] = "over"
    BY <1>4, CloseTypes DEF Close, Events
  <1>5. /\ sent[t] \o <<Text>> \in Seq(Finals \cup {Text})
        /\ \A x \in Actions \cup {"blocked", "error"} :
              sent[t] \o <<Final(x)>> \in Seq(Finals \cup {Text})
    BY SendTypes DEF Events
  <1>6. ASSUME NEW x \in Actions \cup {"blocked", "error"}, Close(t, x),
               UNCHANGED <<via, action, tools, size, thread, pipe, short, long>>
        PROVE  TypeOK' /\ PlaceInv(t)'
    BY <1>3, <1>4, <1>6
  <1>10. CASE \E r \in Routes : Begin(t, r)
    <2>1. Occurrences(<<>>, "chunk") = 0 BY OccursEmpty
    <2>2. PICK r \in Routes : Begin(t, r) BY <1>10
    <2>3. TypeOK' BY <2>2 DEF Begin, Routes
    <2>4. /\ at[t] = "new" /\ via'[t] = r /\ sent' = sent /\ size' = size /\ pipe' = pipe
          /\ thread' = thread /\ action' = action
      BY <2>2 DEF Begin, Routes
    <2>5. at'[t] = CASE r \in {"chat", "stream"} -> "hear"
                     [] r = "core" -> "relay"
                     [] r = "agent" -> "submit"
      BY <2>2 DEF Begin
    <2>6. Produced(t)' <= MaxChunks BY <1>1, <2>1, <2>4 DEF Produced
    <2>7. thread'[t] = "none" BY <2>4
    <2>8. CASE r \in {"chat", "stream"} BY <2>3, <2>4, <2>5, <2>6, <2>7, <2>8
    <2>9. CASE r = "core" BY <2>3, <2>4, <2>5, <2>7, <2>9
    <2>10. CASE r = "agent" BY <2>3, <2>4, <2>5, <2>7, <2>10
    <2> QED BY <2>2, <2>8, <2>9, <2>10 DEF Routes
  <1>11. CASE Hear(t) \/ Note(t)
    <2>1. short' \in Seq(Messages) /\ long' \in Seq(Messages) BY <1>11, MemoryTypes
    <2>2. CASE Hear(t) BY <1>3, <2>1, <2>2 DEF Hear
    <2>3. CASE Note(t) BY <1>3, <2>1, <2>3 DEF Note
    <2> QED BY <1>11, <2>2, <2>3
  <1>12. CASE Judge(t)
    <2>1. CASE Close(t, "blocked") BY <1>6, <1>12, <2>1 DEF Judge
    <2>2. CASE at' = [at EXCEPT ![t] = "classify"] /\ sent' = sent
      BY <1>3, <1>12, <2>2 DEF Judge
    <2> QED BY <1>12, <2>1, <2>2 DEF Judge
  <1>13. CASE Classify(t) BY <1>3, <1>13 DEF Classify
  <1>14. CASE Answer(t) BY <1>1, <1>14 DEF Answer
  <1>15. CASE CallTool(t)
    <2>1. tools[t] + 1 \in 0..MaxTools BY <1>1, <1>15 DEF CallTool
    <2> QED BY <1>3, <1>15, <2>1 DEF CallTool
  <1>16. CASE Stream(t)
    <2>1. CASE Close(t, "delegate") /\ thread' = thread
      <3>1. UNCHANGED <<via, action, tools, size, pipe, short, long>> BY <1>16 DEF Stream
      <3> QED BY <1>6, <2>1, <3>1
    <2>2. CASE thread' = [thread EXCEPT ![t] = "running"] /\ Goto(t, "listen") /\ sent' = sent
      BY <1>3, <1>16, <2>2 DEF Stream
    <2> QED BY <1>16, <2>1, <2>2 DEF Stream
  <1>17. CASE HearAnswer(t) \/ NoteAnswer(t)
    <2>1. short' \in Seq(Messages) /\ long' \in Seq(Messages) BY <1>17, MemoryTypes
    <2>2. CASE HearAnswer(t) BY <1>3, <2>1, <2>2 DEF HearAnswer
    <2>3. CASE NoteAnswer(t) BY <1>3, <2>1, <2>3 DEF NoteAnswer
    <2> QED BY <1>17, <2>2, <2>3
  <1>18. CASE Finish(t)
    <2>1. sent[t] \o <<Final(action[t])>> \in Seq(Finals \cup {Text}) BY <1>5, <1>18 DEF Finish
    <2> QED BY <1>3, <1>18, <2>1 DEF Finish, Send
  <1>19. CASE RelayText(t) \/ Progress(t)
    <2>1. /\ sent' = [sent EXCEPT ![t] = sent[t] \o <<Text>>] /\ at' = at /\ via' = via
          /\ size' = [size EXCEPT ![t] = size[t] + 1] /\ size[t] < MaxChunks
          /\ at[t] \in {"relay", "follow"}
          /\ action' = action /\ tools' = tools /\ thread' = thread /\ pipe' = pipe
          /\ short' = short /\ long' = long
      BY <1>19 DEF RelayText, Progress, Send
    <2>2. sent' \in [Turns -> Seq(Finals \cup {Text})] BY <1>5, <2>1
    <2>3. size' \in [Turns -> 0..MaxChunks] BY <1>1, <2>1
    <2> QED BY <2>1, <2>2, <2>3
  <1>20. CASE RelayFinal(t) BY <1>3, <1>5, <1>20 DEF RelayFinal, Send
  <1>21. CASE RelayEnds(t) BY <1>3, <1>21 DEF RelayEnds
  <1>22. CASE RelayBreaks(t) BY <1>3, <1>4, <1>22 DEF RelayBreaks
  <1>23. CASE Submit(t) BY <1>3, <1>5, <1>23 DEF Submit, Send
  <1>24. CASE AgentEnds(t) \/ Poll(t)
    <2>1. CASE Close(t, "delegate") \/ Close(t, "error")
      BY <1>6, <1>24, <2>1 DEF AgentEnds, Poll
    <2>2. CASE AgentEnds(t) /\ at' = [at EXCEPT ![t] = "poll"] /\ sent' = sent
      BY <1>3, <2>2 DEF AgentEnds
    <2> QED BY <1>24, <2>1, <2>2 DEF AgentEnds, Poll
  <1>25. CASE Fails(t) BY <1>3, <1>4, <1>25, StoreTypes DEF Fails
  <1>26. CASE Leave(t) BY <1>3, <1>26, StoreTypes DEF Leave
  <1> QED BY <1>10, <1>11, <1>12, <1>13, <1>14, <1>15, <1>16, <1>17, <1>18, <1>19, <1>20,
             <1>21, <1>22, <1>23, <1>24, <1>25, <1>26 DEF Steps, TurnStep

\* A turn that is left where it is stays where its route allows.
LEMMA PlaceStill ==
    ASSUME NEW u \in Turns, PlaceInv(u), Still(u)
    PROVE  PlaceInv(u)'
  <1>1. Produced(u)' = Produced(u) BY DEF Still, Produced
  <1> QED BY <1>1 DEF PlaceInv, Still

\* Every step keeps the types and the turns on their routes.
LEMMA PlacesStep ==
    ASSUME Places1, [Next]_vars
    PROVE  Places1'
  <1>1. CASE UNCHANGED vars
    BY <1>1 DEF vars, Places1, TypeOK, PlaceInv, Produced
  <1>2. ASSUME NEW t \in Turns, Steps(t) PROVE Places1'
    <2>1. CASE ThreadStep(t) BY <2>1, ThreadPlaces
    <2>2. CASE ~ThreadStep(t)
      <3>1. TypeOK' /\ PlaceInv(t)'
        BY <1>2, <2>2, ListenPlaces, OtherPlaces DEF Places1
      <3>2. ASSUME NEW u \in Turns, u # t PROVE PlaceInv(u)'
        BY <1>2, <3>2, OthersStill, PlaceStill DEF Places1
      <3> QED BY <3>1, <3>2 DEF Places1
    <2> QED BY <2>1, <2>2
  <1> QED BY <1>1, <1>2 DEF Next, Steps

\* The state of the turns, the thread and queue of each, the events its client has got and
\* the messages of both memories always have their types: a stream never counts more chunks
\* than the thread may produce (process_message_stream, its _sync_stream and chunk_queue).
THEOREM TurnTypes == Spec => []TypeOK
  <1>1. Init => Places1 BY PlacesInit
  <1>2. Places1 /\ [Next]_vars => Places1' BY PlacesStep
  <1>3. Places1 => TypeOK BY DEF Places1
  <1> QED BY <1>1, <1>2, <1>3, PTL DEF Spec

-----------------------------------------------------------------------------
(* What is sent and what is kept *)

\* Before a turn is over it has sent texts, a stream one for each chunk it counts; a final
\* event is the last, but for a relayed turn whose connection breaks.
SentInv(t) ==
    /\ at[t] # "over" /\ via[t] # "core" => \A i \in DOMAIN sent[t] : sent[t][i] = Text
    /\ at[t] # "over" \/ via[t] # "core" =>
          \A i \in DOMAIN sent[t] : IsFinal(sent[t][i]) => i = Len(sent[t])
    /\ via[t] = "stream" /\ at[t] # "over" => Occurrences(sent[t], Text) = size[t]

\* The turn of a stored answer has only its end before it, or is over.
StoredInv(m) ==
    m.by = "cocoro" =>
        /\ at[m.turn] \in {"finish", "over"} /\ m.size = size[m.turn]
        /\ via[m.turn] = "stream" /\ at[m.turn] = "over" =>
              Occurrences(sent[m.turn], Text) =
                  IF Final("error") \in ToSet(sent[m.turn]) THEN m.size + 1 ELSE m.size

Asked(s, t) == \E i \in DOMAIN s : s[i] = Message(t, "user", 0)

\* The memories get the question and the answer in the places of the turn.
KeptInv(t) ==
    /\ at[t] \in Here \ {"hear"} => Asked(short, t)
    /\ at[t] \in Here \ {"hear", "note"} => Asked(long, t)
    /\ at[t] \in {"noteAnswer", "finish"} => InOrder(short, t)
    /\ at[t] = "finish" => InOrder(long, t)
    /\ EndedNormally(t) => \/ InOrder(short, t) /\ InOrder(long, t)
                           \/ via[t] = "stream" /\ action[t] = "delegate"

TurnInv ==
    /\ Places1
    /\ \A t \in Turns : SentInv(t) /\ KeptInv(t)
    /\ \A i \in DOMAIN long : StoredInv(long[i])

\* What a step of a turn sends: nothing, a text of its answer, the other core's final event,
\* or the events of its end.
Kinds == Actions \cup {"blocked", "error"}

GoesOn(t) ==
    /\ at'[t] # "over" \/ at[t] = "over"
    /\ sent'[t] = sent[t]
    /\ via[t] = "stream" \/ at[t] \in {"new", "finish", "over"} => size'[t] = size[t]
    /\ at[t] \in {"finish", "over"} => at'[t] = at[t]
    /\ action'[t] = action[t] \/ at[t] = "classify"

SaysText(t) ==
    /\ at[t] \notin {"finish", "over"} /\ at'[t] \notin {"finish", "over"}
    /\ sent'[t] = Append(sent[t], Text)
    /\ via[t] = "stream" => size'[t] = size[t] + 1
    /\ at[t] = "relay" => ~Relayed(t)

SaysFinal(t) ==
    /\ at[t] = "relay" /\ at'[t] = "relay"
    /\ \E x \in Kinds : sent'[t] = Append(sent[t], Final(x))
    /\ ~Relayed(t)

Ends(t) ==
    /\ at[t] # "over" /\ at'[t] = "over" /\ size'[t] = size[t] /\ action'[t] = action[t]
    /\ \/ sent'[t] = sent[t] /\ Relayed(t) /\ at[t] = "relay"
       \/ sent'[t] = Append(sent[t], Final("error")) /\ at[t] # "finish" /\ via[t] = "chat"
       \/ \E x \in Kinds : /\ sent'[t] = Append(Append(sent[t], Text), Final(x))
                           /\ at[t] # "finish"
                           /\ \/ x = "error"
                              \/ at[t] # "noteAnswer" /\ x = "blocked"
                              \/ at[t] # "noteAnswer" /\ x = "delegate" /\ via[t] = "agent"
                              \/ /\ at[t] # "noteAnswer" /\ x = "delegate"
                                 /\ via[t] = "stream" /\ action[t] = "delegate"
       \/ sent'[t] = Append(sent[t], Final("blocked")) /\ at[t] = "judge" /\ via[t] = "chat"
       \/ sent'[t] = Append(sent[t], Final(action[t])) /\ at[t] = "finish" /\ action[t] \in Actions

EventMoves(t) ==
    /\ via'[t] = via[t] \/ (at[t] = "new" /\ GoesOn(t))
    /\ GoesOn(t) \/ SaysText(t) \/ SaysFinal(t) \/ Ends(t)

\* What a closing turn sends, by its route.
LEMMA Closes ==
    ASSUME TypeOK, NEW t \in Turns, NEW x \in Kinds, Close(t, x)
    PROVE  /\ at'[t] = "over"
           /\ sent'[t] = IF via[t] = "chat" THEN Append(sent[t], Final(x))
                         ELSE Append(Append(sent[t], Text), Final(x))
  <1>1. sent[t] \in Seq(Events) BY DEF TypeOK, Events
  <1>2. sent[t] \o <<Final(x)>> = Append(sent[t], Final(x))
        /\ sent[t] \o <<Text, Final(x)>> = Append(Append(sent[t], Text), Final(x))
    BY <1>1, ClosingEvents DEF Kinds
  <1> QED BY <1>2 DEF TypeOK, Close, Goto, Send

\* A client that leaves gets no more.
LEMMA LeavingSends ==
    ASSUME Places1, NEW t \in Turns, Leave(t)
    PROVE  /\ via'[t] = via[t] /\ size'[t] = size[t] /\ action'[t] = action[t]
           /\ sent'[t] = sent[t] /\ at[t] # "over" /\ at'[t] = "over"
  BY DEF Leave, Goto, Places1, TypeOK

\* Every other step of a turn sends what one of these says.
LEMMA TurnSends ==
    ASSUME Places1, NEW t \in Turns, Steps(t), ~Leave(t)
    PROVE  EventMoves(t)
  <1> USE DEF Places1, TypeOK, PlaceInv, Here, Taken, Goto, threadVars, memory,
              EventMoves
  <1>1. \A x \in Kinds : Close(t, x) =>
            /\ at'[t] = "over"
            /\ sent'[t] = IF via[t] = "chat" THEN Append(sent[t], Final(x))
                          ELSE Append(Append(sent[t], Text), Final(x))
    BY Closes
  <1>2. /\ sent[t] \o <<Text>> = Append(sent[t], Text)
        /\ \A x \in Kinds : sent[t] \o <<Final(x)>> = Append(sent[t], Final(x))
    BY ClosingEvents DEF Events, Kinds
  <1>3. "error" \in Kinds /\ "blocked" \in Kinds /\ "delegate" \in Kinds /\ "chat" \in Kinds
        /\ \A x \in Actions : x \in Kinds
    BY DEF Kinds, Actions
  <1>10. CASE \E r \in Routes : Begin(t, r) BY <1>10 DEF Begin, GoesOn, Routes
  <1>11. CASE Hear(t) \/ Note(t) \/ Classify(t) BY <1>11 DEF Hear, Note, Classify, GoesOn
  <1>12. CASE Judge(t) BY <1>1, <1>3, <1>12 DEF Judge, GoesOn, Ends
  <1>13. CASE Answer(t) \/ CallTool(t) BY <1>13 DEF Answer, CallTool, GoesOn
  <1>14. CASE Stream(t) BY <1>1, <1>3, <1>14 DEF Stream, GoesOn, Ends
  <1>15. CASE Listen(t)
    <2>1. CASE Head(pipe[t]) = "chunk" BY <1>2, <1>15, <2>1 DEF Listen, Send, SaysText
    <2>2. CASE Head(pipe[t]) # "chunk" BY <1>15, <2>2 DEF Listen, GoesOn
    <2> QED BY <2>1, <2>2
  <1>16. CASE HearAnswer(t) \/ NoteAnswer(t) BY <1>16 DEF HearAnswer, NoteAnswer, GoesOn
  <1>17. CASE Finish(t) BY <1>2, <1>3, <1>17 DEF Finish, Send, Ends
  <1>18. CASE RelayText(t) BY <1>2, <1>18 DEF RelayText, Send, SaysText
  <1>19. CASE RelayFinal(t) BY <1>2, <1>3, <1>19 DEF RelayFinal, Send, SaysFinal
  <1>20. CASE RelayEnds(t) BY <1>20 DEF RelayEnds, Ends
  <1>21. CASE RelayBreaks(t) BY <1>1, <1>3, <1>21 DEF RelayBreaks, Ends
  <1>22. CASE Submit(t) \/ Progress(t) BY <1>2, <1>22 DEF Submit, Progress, Send, SaysText
  <1>23. CASE AgentEnds(t) \/ Poll(t) BY <1>1, <1>3, <1>23 DEF AgentEnds, Poll, GoesOn, Ends
  <1>24. CASE ThreadStep(t)
    BY <1>24 DEF ThreadStep, ThreadChunk, ThreadFails, ThreadEnds, GoesOn
  <1>25. CASE Fails(t) BY <1>1, <1>3, <1>25 DEF Fails, Unfailing, Ends
  <1> QED BY <1>10, <1>11, <1>12, <1>13, <1>14, <1>15, <1>16, <1>17, <1>18, <1>19, <1>20,
             <1>21, <1>22, <1>23, <1>24, <1>25 DEF Steps, TurnStep

\* What appending an event does to a sequence of events.
LEMMA Appended ==
    ASSUME NEW s \in Seq(Events), NEW e \in Events
    PROVE  /\ Append(s, e) \in Seq(Events) /\ Len(Append(s, e)) = Len(s) + 1
           /\ Len(s) \in Nat /\ DOMAIN s = 1..Len(s)
           /\ DOMAIN Append(s, e) = 1..(Len(s) + 1)
           /\ \A i \in 1..Len(s) : Append(s, e)[i] = s[i]
           /\ Append(s, e)[Len(s) + 1] = e
           /\ Last(Append(s, e)) = e
           /\ ToSet(Append(s, e)) = ToSet(s) \cup {e}
  <1>1. /\ Append(s, e) \in Seq(Events) /\ Len(Append(s, e)) = Len(s) + 1
        /\ Len(s) \in Nat /\ DOMAIN s = 1..Len(s)
        /\ DOMAIN Append(s, e) = 1..(Len(s) + 1)
        /\ \A i \in 1..Len(s) : Append(s, e)[i] = s[i]
        /\ Append(s, e)[Len(s) + 1] = e
    BY AppendProperties, LenProperties
  <1>2. Last(Append(s, e)) = e BY <1>1 DEF Last
  <1>3. ToSet(Append(s, e)) = ToSet(s) \cup {e} BY <1>1 DEF ToSet
  <1> QED BY <1>1, <1>2, <1>3

\* Only the last event of these is final, if the ones before are texts.
LEMMA FinalLast ==
    ASSUME NEW s \in Seq(Events), NEW x \in Kinds, \A i \in DOMAIN s : s[i] = Text
    PROVE  LET u == Append(s, Final(x))
               v == Append(Append(s, Text), Final(x))
           IN  /\ \A i \in DOMAIN u : IsFinal(u[i]) => i = Len(u)
               /\ \A i \in DOMAIN v : IsFinal(v[i]) => i = Len(v)
               /\ \A i \in DOMAIN Append(s, Text) : Append(s, Text)[i] = Text
  <1>1. Text \in Events /\ Final(x) \in Events /\ ~IsFinal(Text)
    BY FinalKinds DEF Events, Kinds, IsFinal
  <1>2. \A i \in DOMAIN Append(s, Text) : Append(s, Text)[i] = Text
    BY <1>1, Appended
  <1>3. \A i \in DOMAIN Append(s, Final(x)) :
            IsFinal(Append(s, Final(x))[i]) => i = Len(Append(s, Final(x)))
    BY <1>1, Appended
  <1>4. ASSUME NEW w \in Seq(Events), \A i \in DOMAIN w : w[i] = Text
        PROVE  \A i \in DOMAIN Append(w, Final(x)) :
                  IsFinal(Append(w, Final(x))[i]) => i = Len(Append(w, Final(x)))
    BY <1>1, <1>4, Appended
  <1>5. Append(s, Text) \in Seq(Events) BY <1>1, Appended
  <1> QED BY <1>2, <1>3, <1>4, <1>5

\* The events of a turn stay in order.
LEMMA SentStep ==
    ASSUME Places1, Places1', NEW t \in Turns, Steps(t), SentInv(t)
    PROVE  SentInv(t)'
  <1>1. sent[t] \in Seq(Events) /\ size[t] \in Nat /\ PlaceInv(t) /\ PlaceInv(t)'
    BY DEF Places1, TypeOK, Events
  <1>2. CASE Leave(t)
    <2>1. via'[t] = via[t] /\ sent'[t] = sent[t] /\ at[t] # "over" /\ at'[t] = "over"
      BY <1>2, LeavingSends
    <2> QED BY <2>1 DEF SentInv
  <1>3. CASE ~Leave(t)
    <2>1. EventMoves(t) BY <1>3, TurnSends
    <2>2. CASE GoesOn(t)
      <3>1. CASE at[t] = "new"
        <4>1. sent[t] = <<>> /\ sent'[t] = <<>> /\ size'[t] = 0
          BY <1>1, <2>2, <3>1 DEF GoesOn, PlaceInv
        <4>2. Occurrences(<<>>, Text) = 0 BY OccursEmpty
        <4> QED BY <4>1, <4>2 DEF SentInv
      <3>2. CASE at[t] # "new"
        BY <2>1, <2>2, <3>2 DEF SentInv, GoesOn, EventMoves
      <3> QED BY <3>1, <3>2
    <2>3. CASE SaysText(t)
      <3>1. via'[t] = via[t] BY <2>1, <2>3 DEF EventMoves, SaysText, GoesOn
      <3>2. \A i \in DOMAIN sent[t] : sent[t][i] = Text
        <4>1. CASE at[t] = "relay"
          <5>1. ~Relayed(t) /\ \A i \in DOMAIN sent[t] : sent[t][i] \in Events
            BY <1>1, <2>3, <4>1, LenProperties DEF SaysText
          <5> QED BY <5>1 DEF Relayed, Events, IsFinal
        <4>2. CASE at[t] = "new" BY <1>1, <4>2, EmptySeq DEF PlaceInv
        <4>3. CASE at[t] \notin {"relay", "new"}
          <5>1. at[t] \in Places /\ at[t] # "over" BY <2>3 DEF SaysText, Places1, TypeOK
          <5>2. via[t] # "core" BY <1>1, <4>3, <5>1 DEF Places, PlaceInv, Here
          <5> QED BY <5>1, <5>2 DEF SentInv
        <4> QED BY <4>1, <4>2, <4>3
      <3>3. Occurrences(sent'[t], Text) = Occurrences(sent[t], Text) + 1
        BY <1>1, <2>3, ClosingEvents DEF SaysText
      <3>4. \A i \in DOMAIN sent'[t] : sent'[t][i] = Text
        BY <1>1, <2>3, <3>2, FinalLast DEF SaysText, Kinds
      <3>5. ~IsFinal(Text) BY FinalKinds DEF IsFinal
      <3> QED BY <1>1, <2>3, <3>1, <3>3, <3>4, <3>5 DEF SaysText, SentInv
    <2>4. CASE SaysFinal(t)
      <3>1. via[t] = "core" /\ at[t] = "relay" /\ at'[t] = "relay" /\ via'[t] = via[t]
        BY <1>1, <2>1, <2>4 DEF EventMoves, SaysFinal, PlaceInv
      <3>2. \A i \in DOMAIN sent[t] : sent[t][i] = Text
        <4>1. ~Relayed(t) /\ \A i \in DOMAIN sent[t] : sent[t][i] \in Events
          BY <1>1, <2>4, LenProperties DEF SaysFinal
        <4> QED BY <4>1 DEF Relayed, Events, IsFinal
      <3>3. PICK x \in Kinds : sent'[t] = Append(sent[t], Final(x)) BY <2>4 DEF SaysFinal
      <3>4. \A i \in DOMAIN sent'[t] : IsFinal(sent'[t][i]) => i = Len(sent'[t])
        BY <1>1, <3>2, <3>3, FinalLast
      <3> QED BY <3>1, <3>4 DEF SentInv
    <2>5. CASE Ends(t)
      <3>1. at[t] # "over" /\ at'[t] = "over" /\ via'[t] = via[t]
        BY <2>1, <2>5 DEF EventMoves, Ends, GoesOn
      <3>2. CASE via[t] = "core" BY <3>1, <3>2 DEF SentInv
      <3>3. CASE via[t] # "core"
        <4>1. \A i \in DOMAIN sent[t] : sent[t][i] = Text BY <3>1, <3>3 DEF SentInv
        <4>2. \/ sent'[t] = sent[t]
              \/ \E x \in Kinds : \/ sent'[t] = Append(sent[t], Final(x))
                                  \/ sent'[t] = Append(Append(sent[t], Text), Final(x))
          BY <2>5 DEF Ends, Kinds
        <4>3. \A i \in DOMAIN sent'[t] : IsFinal(sent'[t][i]) => i = Len(sent'[t])
          <5>1. ASSUME NEW x \in Kinds PROVE
                  LET u == Append(sent[t], Final(x))
                      v == Append(Append(sent[t], Text), Final(x))
                  IN  /\ \A i \in DOMAIN u : IsFinal(u[i]) => i = Len(u)
                      /\ \A i \in DOMAIN v : IsFinal(v[i]) => i = Len(v)
            BY <1>1, <4>1, FinalLast
          <5> QED BY <3>3, <4>2, <5>1 DEF SentInv
        <4> QED BY <3>1, <4>3 DEF SentInv
      <3> QED BY <3>2, <3>3
    <2> QED BY <2>1, <2>2, <2>3, <2>4, <2>5 DEF EventMoves
  <1> QED BY <1>2, <1>3

\* What a step of a turn writes into the memories.
Writes(t) ==
    /\ \/ short' = short
       \/ \E m \in Messages : short' = Append(short, m)
    /\ \/ long' = long
       \/ long' = Append(long, Message(t, "user", 0))
       \/ /\ long' = Append(long, Message(t, "cocoro", size[t]))
          /\ at[t] = "noteAnswer" /\ at'[t] \in {"finish", "over"}
          /\ via'[t] = via[t] /\ size'[t] = size[t]
          /\ \/ sent'[t] = sent[t]
             \/ sent'[t] = Append(Append(sent[t], Text), Final("error"))
             \/ via[t] = "chat"

\* The places of a turn in which it writes.
WritesInPlace(t) ==
    /\ at'[t] \in Here \ {"hear"} => \/ at[t] \in Here \ {"hear"}
                                     \/ at'[t] = "note" /\ short' = Append(short, Message(t, "user", 0))
    /\ at'[t] \in Here \ {"hear", "note"} =>
          \/ at[t] \in Here \ {"hear", "note"}
          \/ long' = Append(long, Message(t, "user", 0))
    /\ at'[t] = "noteAnswer" => \/ at[t] = "noteAnswer"
                                \/ short' = Append(short, Message(t, "cocoro", size[t]))
                                   /\ at[t] = "hearAnswer"
    /\ at'[t] = "finish" => \/ at[t] = "finish"
                            \/ long' = Append(long, Message(t, "cocoro", size[t]))
                               /\ at[t] = "noteAnswer"
    /\ at[t] \in {"hearAnswer", "noteAnswer", "finish", "over"} => size'[t] = size[t]

\* Every step of a turn writes what one of these says.
LEMMA TurnWrites ==
    ASSUME Places1, NEW t \in Turns, Steps(t)
    PROVE  Writes(t) /\ WritesInPlace(t)
  <1> USE DEF Places1, TypeOK, PlaceInv, Here, Taken, Goto, threadVars, memory,
              Writes, WritesInPlace
  <1>1. Message(t, "user", 0) \in Messages /\ Message(t, "cocoro", size[t]) \in Messages
    BY MessageTypes
  <1>2. \A x \in Kinds : Close(t, x) =>
            /\ at'[t] = "over"
            /\ sent'[t] = IF via[t] = "chat" THEN Append(sent[t], Final(x))
                          ELSE Append(Append(sent[t], Text), Final(x))
    BY Closes
  <1>3. "error" \in Kinds /\ "blocked" \in Kinds /\ "delegate" \in Kinds
    BY DEF Kinds, Actions
  <1>10. CASE \E r \in Routes : Begin(t, r) BY <1>10 DEF Begin, Routes
  <1>11. CASE Hear(t) BY <1>1, <1>11 DEF Hear
  <1>12. CASE Note(t) BY <1>1, <1>12 DEF Note
  <1>13. CASE Judge(t) BY <1>2, <1>3, <1>13 DEF Judge
  <1>14. CASE Classify(t) BY <1>14 DEF Classify
  <1>15. CASE Answer(t) \/ CallTool(t) BY <1>15 DEF Answer, CallTool
  <1>16. CASE Stream(t) BY <1>2, <1>3, <1>16 DEF Stream
  <1>17. CASE Listen(t) BY <1>17 DEF Listen
  <1>18. CASE HearAnswer(t) BY <1>1, <1>18 DEF HearAnswer
  <1>19. CASE NoteAnswer(t) BY <1>1, <1>19 DEF NoteAnswer
  <1>20. CASE Finish(t) BY <1>20 DEF Finish
  <1>21. CASE RelayText(t) \/ RelayFinal(t) \/ RelayEnds(t)
    BY <1>21 DEF RelayText, RelayFinal, RelayEnds
  <1>22. CASE RelayBreaks(t) BY <1>2, <1>3, <1>22 DEF RelayBreaks
  <1>23. CASE Submit(t) \/ Progress(t) BY <1>23 DEF Submit, Progress
  <1>24. CASE AgentEnds(t) \/ Poll(t) BY <1>2, <1>3, <1>24 DEF AgentEnds, Poll
  <1>25. CASE ThreadStep(t)
    BY <1>25 DEF ThreadStep, ThreadChunk, ThreadFails, ThreadEnds
  <1>26. CASE Fails(t) BY <1>1, <1>2, <1>3, <1>26 DEF Fails, Unfailing, MayStore, Words
  <1>27. CASE Leave(t) BY <1>1, <1>27 DEF Leave, MayStore, Words
  <1> QED BY <1>10, <1>11, <1>12, <1>13, <1>14, <1>15, <1>16, <1>17, <1>18, <1>19, <1>20,
             <1>21, <1>22, <1>23, <1>24, <1>25, <1>26, <1>27 DEF Steps, TurnStep

\* A message stays true of its turn.
LEMMA StoredStays ==
    ASSUME TurnInv, NEW t \in Turns, Steps(t), NEW m \in Messages, StoredInv(m)
    PROVE  StoredInv(m)'
  <1>1. SUFFICES ASSUME m.by = "cocoro"
        PROVE  /\ at'[m.turn] \in {"finish", "over"} /\ m.size = size'[m.turn]
               /\ via'[m.turn] = "stream" /\ at'[m.turn] = "over" =>
                     Occurrences(sent'[m.turn], Text) =
                        IF Final("error") \in ToSet(sent'[m.turn]) THEN m.size + 1 ELSE m.size
    BY DEF StoredInv
  <1>2. /\ m.turn \in Turns /\ at[m.turn] \in {"finish", "over"} /\ m.size = size[m.turn]
        /\ Places1 /\ TypeOK
    BY <1>1 DEF StoredInv, Messages, TurnInv, Places1
  <1>3. CASE m.turn # t
    <2>1. Still(m.turn) BY <1>2, <1>3, OthersStill
    <2> QED BY <1>1, <1>2, <2>1 DEF StoredInv, Still
  <1>4. CASE m.turn = t
    <2>1. /\ sent[t] \in Seq(Events) /\ SentInv(t) /\ PlaceInv(t) /\ size[t] \in Nat
      BY <1>2 DEF TurnInv, Places1, TypeOK, Events
    <2>2. size'[t] = size[t] /\ via'[t] = via[t] /\ at'[t] \in {"finish", "over"}
      <3>1. CASE Leave(t) BY <1>2, <3>1, LeavingSends
      <3>2. CASE ~Leave(t)
        <4>1. EventMoves(t) BY <1>2, <3>2, TurnSends
        <4> QED BY <1>2, <1>4, <4>1 DEF EventMoves, GoesOn, SaysText, SaysFinal, Ends
      <3> QED BY <3>1, <3>2
    <2>3. CASE at[t] = "over"
      <3>1. ~Leave(t) BY <2>3 DEF Leave
      <3>2. EventMoves(t) BY <1>2, <3>1, TurnSends
      <3>3. sent'[t] = sent[t]
        BY <2>3, <3>2 DEF EventMoves, GoesOn, SaysText, SaysFinal, Ends
      <3> QED BY <1>1, <1>2, <1>4, <2>2, <2>3, <3>3 DEF StoredInv
    <2>4. CASE at[t] = "finish" /\ via'[t] = "stream" /\ at'[t] = "over"
      <3>1. /\ Occurrences(sent[t], Text) = size[t]
            /\ \A i \in DOMAIN sent[t] : sent[t][i] = Text
        BY <2>1, <2>2, <2>4 DEF SentInv
      <3>2. Final("error") \notin ToSet(sent[t]) BY <3>1, FinalNotText DEF ToSet
      <3>3. CASE Leave(t)
        <4>1. sent'[t] = sent[t] BY <1>2, <3>3, LeavingSends
        <4> QED BY <1>2, <1>4, <2>2, <2>4, <3>1, <3>2, <4>1
      <3>4. CASE ~Leave(t)
        <4>1. EventMoves(t) BY <1>2, <3>4, TurnSends
        <4>2. sent'[t] = Append(sent[t], Final(action[t])) /\ action[t] \in Actions
          BY <2>4, <4>1 DEF EventMoves, GoesOn, SaysText, SaysFinal, Ends
        <4>3. Occurrences(sent'[t], Text) = Occurrences(sent[t], Text)
          BY <2>1, <4>2, ClosingEvents
        <4>4. Final(action[t]) # Final("error") BY <4>2, FinalKinds DEF Actions
        <4>5. Final(action[t]) \in Events BY <4>2, FinalKinds DEF Events
        <4>6. ToSet(sent'[t]) = ToSet(sent[t]) \cup {Final(action[t])}
          BY <2>1, <4>2, <4>5, Appended
        <4> QED BY <1>2, <1>4, <2>2, <2>4, <3>1, <3>2, <4>3, <4>4, <4>6
      <3> QED BY <3>3, <3>4
    <2> QED BY <1>2, <1>4, <2>2, <2>3, <2>4
  <1> QED BY <1>3, <1>4

\* The answers in the long-term memory stay those that were sent.
LEMMA StoredStep ==
    ASSUME TurnInv, NEW t \in Turns, Steps(t)
    PROVE  (\A i \in DOMAIN long : StoredInv(long[i]))'
  <1>1. /\ Places1 /\ TypeOK /\ long \in Seq(Messages) /\ DOMAIN long = 1..Len(long)
        /\ Len(long) \in Nat /\ \A i \in 1..Len(long) : long[i] \in Messages
        /\ SentInv(t) /\ sent[t] \in Seq(Events) /\ size[t] \in Nat
    BY LenProperties DEF TurnInv, Places1, TypeOK, Events
  <1>2. ASSUME NEW i \in DOMAIN long, NEW m, m = long[i] PROVE StoredInv(m)'
    <2>1. m \in Messages /\ StoredInv(m) BY <1>1, <1>2 DEF TurnInv
    <2> QED BY <2>1, StoredStays
  <1>3. ASSUME NEW m \in Messages, long' = Append(long, m), StoredInv(m)'
        PROVE  (\A i \in DOMAIN long : StoredInv(long[i]))'
    <2>1. DOMAIN long' = 1..(Len(long) + 1) /\ long'[Len(long) + 1] = m
          /\ \A i \in 1..Len(long) : long'[i] = long[i]
      BY <1>1, <1>3, AppendProperties
    <2> SUFFICES ASSUME NEW i \in DOMAIN long', NEW k, k = long'[i] PROVE StoredInv(k)'
      OBVIOUS
    <2>2. CASE i = Len(long) + 1 BY <1>3, <2>1, <2>2
    <2>3. CASE i # Len(long) + 1
      <3>1. i \in DOMAIN long /\ k = long[i] BY <1>1, <2>1, <2>3
      <3> QED BY <3>1, <1>2
    <2> QED BY <2>2, <2>3
  <1>4. Writes(t) BY <1>1, TurnWrites
  <1>5. CASE long' = long
    <2> SUFFICES ASSUME NEW i \in DOMAIN long', NEW k, k = long'[i] PROVE StoredInv(k)'
      OBVIOUS
    <2> QED BY <1>2, <1>5
  <1>6. CASE long' = Append(long, Message(t, "user", 0))
    <2>1. PICK m : m = Message(t, "user", 0) OBVIOUS
    <2>2. m \in Messages BY <1>1, <2>1, MessageTypes
    <2>3. StoredInv(m)' BY <2>1 DEF StoredInv, Message
    <2> QED BY <1>3, <1>6, <2>1, <2>2, <2>3
  <1>7. ASSUME long' = Append(long, Message(t, "cocoro", size[t])),
               at[t] = "noteAnswer", at'[t] \in {"finish", "over"},
               via'[t] = via[t], size'[t] = size[t],
               \/ sent'[t] = sent[t]
               \/ sent'[t] = Append(Append(sent[t], Text), Final("error"))
               \/ via[t] = "chat"
        PROVE  (\A i \in DOMAIN long : StoredInv(long[i]))'
    <2>1. PICK m : m = Message(t, "cocoro", size[t]) OBVIOUS
    <2>2. m \in Messages /\ m.turn = t /\ m.size = size'[t]
      BY <1>1, <1>7, <2>1, MessageTypes DEF Message
    <2>3. ASSUME via[t] = "stream"
          PROVE  Occurrences(sent'[t], Text) =
                     IF Final("error") \in ToSet(sent'[t]) THEN m.size + 1 ELSE m.size
      <3>1. /\ Occurrences(sent[t], Text) = size[t]
            /\ \A i \in DOMAIN sent[t] : sent[t][i] = Text
        BY <1>1, <1>7, <2>3 DEF SentInv
      <3>2. Final("error") \notin ToSet(sent[t]) BY <3>1, FinalNotText DEF ToSet
      <3>3. CASE sent'[t] = sent[t] BY <1>7, <2>2, <3>1, <3>2, <3>3
      <3>4. CASE sent'[t] = Append(Append(sent[t], Text), Final("error"))
        <4> DEFINE w == Append(sent[t], Text)
        <4>a. Occurrences(Append(w, Final("error")), Text) = Occurrences(sent[t], Text) + 1
          BY <1>1, ClosingEvents
        <4>b. sent'[t] = Append(w, Final("error")) BY <3>4
        <4>1. Occurrences(sent'[t], Text) = size[t] + 1
          <5> HIDE DEF w
          <5> QED BY <3>1, <4>a, <4>b
        <4>2. w \in Seq(Events) /\ Final("error") \in Events /\ sent'[t] = Append(w, Final("error"))
          BY <1>1, <3>4, ClosingEvents, FinalKinds DEF Events
        <4> HIDE DEF w
        <4>3. Final("error") \in ToSet(sent'[t]) BY <4>2, Appended
        <4> QED BY <1>7, <2>2, <4>1, <4>3
      <3> QED BY <1>7, <2>3, <3>3, <3>4
    <2>4. StoredInv(m)' BY <1>7, <2>2, <2>3 DEF StoredInv
    <2> QED BY <1>3, <1>7, <2>1, <2>2, <2>4
  <1> QED BY <1>4, <1>5, <1>6, <1>7 DEF Writes

\* A memory that grows keeps what it has.
LEMMA Grows ==
    ASSUME NEW s \in Seq(Messages), NEW m \in Messages, NEW r \in Seq(Messages),
           r = s \/ r = Append(s, m)
    PROVE  /\ \A i \in DOMAIN s : i \in DOMAIN r /\ r[i] = s[i]
           /\ DOMAIN s = 1..Len(s) /\ Len(s) \in Nat
           /\ r # s => /\ Len(s) + 1 \in DOMAIN r /\ r[Len(s) + 1] = m
                       /\ \A i \in DOMAIN s : i < Len(s) + 1
  BY LenProperties, AppendProperties

\* An answer after the question puts the turn in order.
LEMMA OrderMade ==
    ASSUME NEW s \in Seq(Messages), NEW t \in Turns, NEW n \in 0..MaxChunks, NEW i \in DOMAIN s,
           s[i] = Message(t, "user", 0)
    PROVE  LET r == Append(s, Message(t, "cocoro", n))
           IN  \E j, k \in DOMAIN r : /\ j < k /\ r[j] = Message(t, "user", 0)
                                      /\ r[k] = Message(t, "cocoro", n)
  <1> DEFINE m == Message(t, "cocoro", n)
             r == Append(s, m)
  <1>1. m \in Messages BY DEF Message, Messages
  <1> HIDE DEF m
  <1>2. /\ DOMAIN s = 1..Len(s) /\ Len(s) \in Nat /\ DOMAIN r = 1..(Len(s) + 1)
        /\ r[Len(s) + 1] = m /\ r[i] = s[i] /\ i < Len(s) + 1
    BY <1>1, LenProperties, AppendProperties
  <1>3. i \in DOMAIN r /\ Len(s) + 1 \in DOMAIN r BY <1>2
  <1> QED BY <1>2, <1>3 DEF m

\* What a step does to the memory s, which holds r afterwards.
Grown(s, r) == \A i \in DOMAIN s : i \in DOMAIN r /\ r[i] = s[i]

\* The turn that a step leaves is where it was in both memories.
LEMMA KeptStill ==
    ASSUME NEW u \in Turns, KeptInv(u), Still(u), Grown(short, short'), Grown(long, long'),
           DOMAIN short \subseteq Nat, DOMAIN long \subseteq Nat
    PROVE  KeptInv(u)'
  <1>1. Asked(short, u) => Asked(short, u)' BY DEF Asked, Grown
  <1>2. Asked(long, u) => Asked(long, u)' BY DEF Asked, Grown
  <1>3. InOrder(short, u) => InOrder(short, u)'
    <2>1. Message(u, "cocoro", size[u])' = Message(u, "cocoro", size[u]) BY DEF Still, Message
    <2>2. Message(u, "user", 0)' = Message(u, "user", 0) BY DEF Message
    <2> QED BY <2>1, <2>2 DEF InOrder, Grown
  <1>4. InOrder(long, u) => InOrder(long, u)'
    <2>1. Message(u, "cocoro", size[u])' = Message(u, "cocoro", size[u]) BY DEF Still, Message
    <2>2. Message(u, "user", 0)' = Message(u, "user", 0) BY DEF Message
    <2> QED BY <2>1, <2>2 DEF InOrder, Grown
  <1>5. EndedNormally(u)' = EndedNormally(u) BY DEF EndedNormally, Still
  <1> QED BY <1>1, <1>2, <1>3, <1>4, <1>5 DEF KeptInv, Still

\* A turn in order stays in order while it counts no more chunks.
LEMMA OrderStays ==
    ASSUME NEW t \in Turns, size'[t] = size[t], Grown(short, short'), Grown(long, long')
    PROVE  /\ InOrder(short, t) => InOrder(short, t)'
           /\ InOrder(long, t) => InOrder(long, t)'
  <1>1. Message(t, "cocoro", size[t])' = Message(t, "cocoro", size[t]) BY DEF Message
  <1>2. Message(t, "user", 0)' = Message(t, "user", 0) BY DEF Message
  <1> QED BY <1>1, <1>2 DEF InOrder, Grown

\* The memories only grow.
LEMMA MemoriesGrow ==
    ASSUME Places1, Places1', NEW t \in Turns, Steps(t)
    PROVE  /\ Grown(short, short') /\ Grown(long, long')
           /\ DOMAIN short \subseteq Nat /\ DOMAIN long \subseteq Nat
  <1>1. /\ TypeOK /\ short \in Seq(Messages) /\ long \in Seq(Messages)
        /\ short' \in Seq(Messages) /\ long' \in Seq(Messages)
    BY DEF Places1, TypeOK
  <1>2. Writes(t) BY TurnWrites
  <1>3. \E m \in Messages : short' = short \/ short' = Append(short, m)
    BY <1>1, <1>2, MessageTypes DEF Writes
  <1>4. \E m \in Messages : long' = long \/ long' = Append(long, m)
    <2>1. Message(t, "user", 0) \in Messages /\ Message(t, "cocoro", size[t]) \in Messages
      BY <1>1, MessageTypes
    <2> QED BY <1>2, <2>1 DEF Writes
  <1>5. Grown(short, short') /\ DOMAIN short \subseteq Nat
    BY <1>1, <1>3, Grows DEF Grown
  <1>6. Grown(long, long') /\ DOMAIN long \subseteq Nat
    BY <1>1, <1>4, Grows DEF Grown
  <1> QED BY <1>5, <1>6

\* A turn that ends normally went through both writes of its answer.
LEMMA EndedKept ==
    ASSUME TurnInv, Places1', NEW t \in Turns, Steps(t), EndedNormally(t)'
    PROVE  \/ InOrder(short, t)' /\ InOrder(long, t)'
           \/ (via[t] = "stream" /\ action[t] = "delegate")'
  <1>1. /\ Places1 /\ PlaceInv(t) /\ SentInv(t) /\ KeptInv(t) /\ sent[t] \in Seq(Events)
        /\ at'[t] = "over" /\ via'[t] \in {"chat", "stream"}
        /\ sent'[t] # <<>> /\ Last(sent'[t]) \in {Final(x) : x \in Actions}
    BY DEF TurnInv, Places1, TypeOK, Events, EndedNormally
  <1>2. /\ "error" \notin Actions /\ "blocked" \notin Actions /\ Actions \subseteq Kinds
        /\ "error" \in Kinds /\ "blocked" \in Kinds
    BY DEF Actions, Kinds
  <1>3. ASSUME NEW x \in Kinds
        PROVE  /\ Last(Append(sent[t], Final(x))) = Final(x)
               /\ Last(Append(Append(sent[t], Text), Final(x))) = Final(x)
    <2>1. Append(sent[t], Text) \in Seq(Events) /\ Final(x) \in Events
      BY <1>1, ClosingEvents, FinalKinds DEF Kinds, Events
    <2> QED BY <1>1, <2>1, Appended
  <1>4. CASE Leave(t)
    <2>1. /\ sent'[t] = sent[t] /\ via'[t] = via[t] /\ at[t] # "over"
      BY <1>1, <1>4, LeavingSends
    <2>2. \A i \in DOMAIN sent[t] : sent[t][i] = Text BY <1>1, <2>1 DEF SentInv
    <2>3. Last(sent[t]) = Text BY <1>1, <2>1, <2>2, EmptySeq, LenProperties DEF Last
    <2> QED BY <1>1, <2>1, <2>3, FinalNotText
  <1>5. CASE ~Leave(t)
    <2>1. EventMoves(t) BY <1>1, <1>5, TurnSends
    <2>2. CASE GoesOn(t)
      <3>1. at[t] = "over" /\ sent'[t] = sent[t] /\ size'[t] = size[t] /\ via'[t] = via[t]
            /\ action'[t] = action[t]
        BY <1>1, <2>1, <2>2 DEF GoesOn, EventMoves
      <3>2. EndedNormally(t) BY <1>1, <3>1 DEF EndedNormally
      <3>3. \/ InOrder(short, t) /\ InOrder(long, t)
            \/ via[t] = "stream" /\ action[t] = "delegate"
        BY <1>1, <3>2 DEF KeptInv
      <3> QED BY <1>1, <3>1, <3>3, MemoriesGrow, OrderStays
    <2>3. CASE Ends(t)
      <3>1. /\ size'[t] = size[t] /\ action'[t] = action[t] /\ at[t] # "over"
            /\ via'[t] = via[t]
        BY <2>1, <2>3 DEF Ends, EventMoves, GoesOn
      <3>2. \/ at[t] = "finish"
            \/ via[t] = "stream" /\ action[t] = "delegate"
        <4>1. \A x \in Kinds : sent'[t] = Append(Append(sent[t], Text), Final(x)) =>
                  x # "error" /\ x # "blocked"
          BY <1>1, <1>2, <1>3, FinalKinds
        <4>2. /\ sent'[t] # Append(sent[t], Final("error"))
              /\ sent'[t] # Append(sent[t], Final("blocked"))
          <5>1. \A x \in Kinds : sent'[t] = Append(sent[t], Final(x)) =>
                    x # "error" /\ x # "blocked"
            BY <1>1, <1>2, <1>3, FinalKinds
          <5> QED BY <1>2, <5>1
        <4>3. at[t] # "relay" /\ via[t] # "agent" BY <1>1, <3>1 DEF PlaceInv
        <4> QED BY <2>3, <4>1, <4>2, <4>3 DEF Ends
      <3>3. CASE at[t] = "finish"
        <4>1. InOrder(short, t) /\ InOrder(long, t) BY <1>1, <3>3 DEF KeptInv
        <4> QED BY <1>1, <3>1, <4>1, MemoriesGrow, OrderStays
      <3>4. CASE via[t] = "stream" /\ action[t] = "delegate" BY <3>1, <3>4
      <3> QED BY <3>2, <3>3, <3>4
    <2> QED BY <1>1, <2>1, <2>2, <2>3 DEF EventMoves, SaysText, SaysFinal
  <1> QED BY <1>4, <1>5

\* The question and the answer of a turn are in the memories where its place says.
LEMMA KeptStep ==
    ASSUME TurnInv, Places1', NEW t \in Turns, Steps(t)
    PROVE  KeptInv(t)'
  <1>1. /\ Places1 /\ TypeOK /\ TypeOK' /\ KeptInv(t) /\ PlaceInv(t)
        /\ short \in Seq(Messages) /\ long \in Seq(Messages) /\ size[t] \in 0..MaxChunks
    BY DEF TurnInv, Places1, TypeOK
  <1>2. WritesInPlace(t) BY <1>1, TurnWrites
  <1>3. Grown(short, short') /\ Grown(long, long') BY <1>1, MemoriesGrow
  <1>5. at'[t] \in Here \ {"hear"} => Asked(short, t)'
    <2>1. CASE Asked(short, t) BY <1>3, <2>1 DEF Asked, Grown
    <2>2. CASE short' = Append(short, Message(t, "user", 0))
      <3>1. Message(t, "user", 0) \in Messages BY <1>1, MessageTypes
      <3>2. /\ Len(short) + 1 \in DOMAIN short' /\ short'[Len(short) + 1] = Message(t, "user", 0)
        BY <1>1, <2>2, <3>1, LenProperties, AppendProperties
      <3> QED BY <3>2 DEF Asked
    <2> QED BY <1>1, <1>2, <2>1, <2>2 DEF WritesInPlace, KeptInv
  <1>6. at'[t] \in Here \ {"hear", "note"} => Asked(long, t)'
    <2>1. CASE Asked(long, t) BY <1>3, <2>1 DEF Asked, Grown
    <2>2. CASE long' = Append(long, Message(t, "user", 0))
      <3>1. Message(t, "user", 0) \in Messages BY <1>1, MessageTypes
      <3>2. /\ Len(long) + 1 \in DOMAIN long' /\ long'[Len(long) + 1] = Message(t, "user", 0)
        BY <1>1, <2>2, <3>1, LenProperties, AppendProperties
      <3> QED BY <3>2 DEF Asked
    <2> QED BY <1>1, <1>2, <2>1, <2>2 DEF WritesInPlace, KeptInv
  <1>7. at'[t] \in {"noteAnswer", "finish"} => InOrder(short, t)'
    <2>1. CASE at[t] \in {"noteAnswer", "finish"}
      BY <1>1, <1>2, <1>3, <2>1, OrderStays DEF WritesInPlace, KeptInv
    <2>2. CASE at[t] = "hearAnswer" /\ short' = Append(short, Message(t, "cocoro", size[t]))
      <3>1. Asked(short, t) /\ size'[t] = size[t]
        BY <1>1, <1>2, <2>2 DEF KeptInv, Here, WritesInPlace
      <3>2. PICK i \in DOMAIN short : short[i] = Message(t, "user", 0) BY <3>1 DEF Asked
      <3>3. \E j, k \in DOMAIN short' : /\ j < k /\ short'[j] = Message(t, "user", 0)
                                        /\ short'[k] = Message(t, "cocoro", size[t])
        BY <1>1, <2>2, <3>2, OrderMade
      <3> QED BY <3>1, <3>3 DEF InOrder, Message
    <2> QED BY <1>2, <2>1, <2>2 DEF WritesInPlace
  <1>8. at'[t] = "finish" => InOrder(long, t)'
    <2>1. CASE at[t] = "finish"
      BY <1>1, <1>2, <1>3, <2>1, OrderStays DEF WritesInPlace, KeptInv
    <2>2. CASE at[t] = "noteAnswer" /\ long' = Append(long, Message(t, "cocoro", size[t]))
      <3>1. Asked(long, t) /\ size'[t] = size[t]
        BY <1>1, <1>2, <2>2 DEF KeptInv, Here, WritesInPlace
      <3>2. PICK i \in DOMAIN long : long[i] = Message(t, "user", 0) BY <3>1 DEF Asked
      <3>3. \E j, k \in DOMAIN long' : /\ j < k /\ long'[j] = Message(t, "user", 0)
                                       /\ long'[k] = Message(t, "cocoro", size[t])
        BY <1>1, <2>2, <3>2, OrderMade
      <3> QED BY <3>1, <3>3 DEF InOrder, Message
    <2> QED BY <1>2, <2>1, <2>2 DEF WritesInPlace
  <1> QED BY <1>5, <1>6, <1>7, <1>8, EndedKept DEF KeptInv

\* Every step keeps the whole invariant.
LEMMA TurnStepInv ==
    ASSUME TurnInv, [Next]_vars
    PROVE  TurnInv'
  <1>1. Places1' BY PlacesStep DEF TurnInv
  <1>2. CASE UNCHANGED vars
    <2>1. \A t \in Turns : SentInv(t)' BY <1>2 DEF TurnInv, SentInv, vars
    <2>2. ASSUME NEW t \in Turns PROVE KeptInv(t)'
      <3>1. Still(t) /\ Grown(short, short') /\ Grown(long, long')
        BY <1>2 DEF Still, Grown, vars
      <3>2. DOMAIN short \subseteq Nat /\ DOMAIN long \subseteq Nat
        BY LenProperties DEF TurnInv, Places1, TypeOK
      <3> QED BY <3>1, <3>2, KeptStill DEF TurnInv
    <2>3. (\A i \in DOMAIN long : StoredInv(long[i]))'
      BY <1>2 DEF TurnInv, StoredInv, vars
    <2> QED BY <1>1, <2>1, <2>2, <2>3 DEF TurnInv
  <1>3. ASSUME NEW t \in Turns, Steps(t) PROVE TurnInv'
    <2>1. SentInv(t)' /\ KeptInv(t)' BY <1>1, <1>3, SentStep, KeptStep DEF TurnInv
    <2>2. ASSUME NEW u \in Turns, u # t PROVE SentInv(u)' /\ KeptInv(u)'
      <3>1. Still(u) BY <1>3, <2>2, OthersStill DEF TurnInv, Places1
      <3>2. SentInv(u)' BY <3>1 DEF TurnInv, SentInv, Still
      <3>3. KeptInv(u)' BY <1>1, <1>3, <3>1, MemoriesGrow, KeptStill DEF TurnInv
      <3> QED BY <3>2, <3>3
    <2>3. (\A i \in DOMAIN long : StoredInv(long[i]))' BY <1>3, StoredStep
    <2> QED BY <1>1, <2>1, <2>2, <2>3 DEF TurnInv
  <1> QED BY <1>2, <1>3 DEF Next, Steps

\* In the beginning nothing is sent and nothing is kept.
LEMMA TurnInitInv == Init => TurnInv
  <1> SUFFICES ASSUME Init PROVE TurnInv OBVIOUS
  <1>1. Places1 BY PlacesInit
  <1>2. ASSUME NEW t \in Turns PROVE SentInv(t) /\ KeptInv(t)
    <2>1. Occurrences(<<>>, Text) = 0 BY OccursEmpty
    <2>2. SentInv(t) BY <1>2, <2>1, EmptySeq DEF Init, SentInv
    <2>3. KeptInv(t) BY <1>2 DEF Init, KeptInv, Here, EndedNormally
    <2> QED BY <2>2, <2>3
  <1>3. \A i \in DOMAIN long : StoredInv(long[i]) BY DEF Init
  <1> QED BY <1>1, <1>2, <1>3 DEF TurnInv

\* The invariant of the turns holds in every state.
LEMMA TurnsKeep == Spec => []TurnInv
  <1>1. Init => TurnInv BY TurnInitInv
  <1>2. TurnInv /\ [Next]_vars => TurnInv' BY TurnStepInv
  <1> QED BY <1>1, <1>2, PTL DEF Spec

\* On every path through /chat, the event generator of /chat/stream and the translation of
\* an agent's progress, the client gets one final event and nothing after it.
THEOREM StreamEndsOnce == Spec => []OneFinal
  <1>1. TurnInv => OneFinal BY DEF TurnInv, SentInv, OneFinal
  <1> QED BY <1>1, TurnsKeep, PTL

\* The answer of a stream in conversation_log has the chunks its client was sent, and a text
\* more went out only with an error event (process_message_stream and its callers).
THEOREM StoredAsSent == Spec => []AnswerAsSent
  <1>1. TurnInv => AnswerAsSent
    <2> SUFFICES ASSUME TurnInv, NEW m \in ToSet(long), m.by = "cocoro", via[m.turn] = "stream"
                 PROVE  Occurrences(sent[m.turn], Text) =
                          IF Final("error") \in ToSet(sent[m.turn]) THEN m.size + 1 ELSE m.size
      BY DEF AnswerAsSent
    <2>1. PICK i \in DOMAIN long : m = long[i] BY DEF ToSet
    <2>2. StoredInv(m) /\ m \in Messages BY <2>1, LenProperties DEF TurnInv, Places1, TypeOK
    <2>3. CASE at[m.turn] = "over" BY <2>2, <2>3 DEF StoredInv
    <2>4. CASE at[m.turn] = "finish"
      <3>1. SentInv(m.turn) /\ m.turn \in Turns BY <2>2 DEF TurnInv, Messages
      <3>2. /\ Occurrences(sent[m.turn], Text) = m.size
            /\ \A j \in DOMAIN sent[m.turn] : sent[m.turn][j] = Text
        BY <2>2, <2>4, <3>1 DEF SentInv, StoredInv
      <3>3. Final("error") \notin ToSet(sent[m.turn]) BY <3>2, FinalNotText DEF ToSet
      <3> QED BY <3>2, <3>3
    <2> QED BY <2>2, <2>3, <2>4 DEF StoredInv
  <1> QED BY <1>1, TurnsKeep, PTL

\* A turn that ended normally is in the short-term and the long-term memory, the question
\* before the answer, whatever the other turns of the session write in between.
THEOREM TurnsRemembered == Spec => []Remembered
  <1>1. TurnInv => Remembered BY DEF TurnInv, KeptInv, Remembered
  <1> QED BY <1>1, TurnsKeep, PTL

\* No turn is over without a final event, whatever raised on its way, unless its client
\* left: the except clauses of the handlers leave no path out.
THEOREM NoSilentEnd == Spec => EndsWithFinal
  <1>1. ASSUME TurnInv, [Next]_vars
        PROVE  [\A t \in Turns : at[t] # "over" /\ at'[t] = "over" =>
                    \/ sent'[t] # <<>> /\ IsFinal(Last(sent'[t]))
                    \/ Leave(t)]_vars
    <2> SUFFICES ASSUME ~UNCHANGED vars, NEW t \in Turns, at[t] # "over", at'[t] = "over",
                        ~Leave(t)
                 PROVE  sent'[t] # <<>> /\ IsFinal(Last(sent'[t]))
      OBVIOUS
    <2>1. PICK u \in Turns : Steps(u) BY <1>1 DEF Next, Steps
    <2>2. u = t BY <1>1, <2>1, OthersStill DEF TurnInv, Places1, Still
    <2>3. /\ sent[t] \in Seq(Events) /\ SentInv(t) /\ Places1
      BY <1>1 DEF TurnInv, Places1, TypeOK, Events
    <2>4. Ends(t)
      <3>1. EventMoves(t) BY <2>1, <2>2, <2>3, TurnSends
      <3> QED BY <3>1 DEF EventMoves, GoesOn, SaysText, SaysFinal
    <2>5. ASSUME NEW x \in Kinds, NEW w \in Seq(Events), sent'[t] = Append(w, Final(x))
          PROVE  sent'[t] # <<>> /\ IsFinal(Last(sent'[t]))
      <3>1. Final(x) \in Events /\ IsFinal(Final(x)) BY FinalKinds DEF Events, Kinds, IsFinal
      <3>2. Last(sent'[t]) = Final(x) /\ DOMAIN sent'[t] = 1..(Len(w) + 1) /\ Len(w) \in Nat
        BY <2>5, <3>1, Appended
      <3> QED BY <3>1, <3>2, EmptySeq
    <2>6. CASE sent'[t] = sent[t] /\ Relayed(t) /\ at[t] = "relay"
      <3>1. PICK i \in DOMAIN sent[t] : IsFinal(sent[t][i]) BY <2>6 DEF Relayed
      <3>2. i = Len(sent[t]) BY <2>3, <2>6, <3>1 DEF SentInv
      <3>3. sent[t] # <<>> BY <3>1, EmptySeq
      <3> QED BY <2>6, <3>1, <3>2, <3>3 DEF Last
    <2>7. "error" \in Kinds /\ "blocked" \in Kinds /\ Actions \subseteq Kinds
          /\ Append(sent[t], Text) \in Seq(Events)
      BY <2>3, Appended DEF Kinds, Events
    <2> QED BY <2>3, <2>4, <2>5, <2>6, <2>7 DEF Ends
  <1> QED BY <1>1, TurnsKeep, PTL DEF Spec, EndsWithFinal
=============================================================================
