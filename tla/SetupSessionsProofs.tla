-------------------------- MODULE SetupSessionsProofs --------------------------
(***************************************************************************)
(* Theorems about the sessions that ask a user about himself and what is   *)
(* made of them, for every number of sessions, questions, rows and         *)
(* requests, and whatever the model's analyses name.                       *)
(***************************************************************************)
EXTENDS SetupSessions, TLAPS, SequenceTheorems

CallTypes == [kind : {"none", "result", "restore", "backup"}, of : Sessions \cup {None},
              todo : Seq(Parts), data : {None} \cup [Rows -> Sources]]

SessionTypes == [state : {"none", "open", "gone"}, at : 1..Length + 1,
                 answered : SUBSET Questions, ahead : BOOLEAN]

-----------------------------------------------------------------------------
(* Sequences of parts *)

\* The head and the tail of what a call has to do.
LEMMA TodoTypes ==
    ASSUME NEW S, NEW s \in Seq(S), s # <<>>
    PROVE  /\ Head(s) \in S /\ Tail(s) \in Seq(S)
           /\ {s[i] : i \in DOMAIN s} = {Head(s)} \cup {Tail(s)[i] : i \in DOMAIN Tail(s)}
  <1>1. /\ DOMAIN s = 1..Len(s) /\ Len(s) \in Nat \ {0} /\ s[1] = Head(s)
        /\ Tail(s) \in Seq(S) /\ Head(s) \in S
        /\ DOMAIN Tail(s) = 1..(Len(s) - 1)
        /\ \A i \in 1..(Len(s) - 1) : Tail(s)[i] = s[i + 1]
    BY LenProperties, EmptySeq, HeadTailProperties
  <1>2. ASSUME NEW i \in DOMAIN s
        PROVE  s[i] \in {Head(s)} \cup {Tail(s)[j] : j \in DOMAIN Tail(s)}
    <2>1. CASE i = 1 BY <1>1, <2>1
    <2>2. CASE i # 1
      <3>1. i - 1 \in DOMAIN Tail(s) /\ Tail(s)[i - 1] = s[i] BY <1>1, <2>2
      <3> QED BY <3>1
    <2> QED BY <2>1, <2>2
  <1>3. ASSUME NEW j \in DOMAIN Tail(s) PROVE Tail(s)[j] \in {s[i] : i \in DOMAIN s}
    <2>1. j + 1 \in DOMAIN s /\ s[j + 1] = Tail(s)[j] BY <1>1
    <2> QED BY <2>1
  <1>4. Head(s) \in {s[i] : i \in DOMAIN s} BY <1>1
  <1> QED BY <1>1, <1>2, <1>3, <1>4

\* What is written in each kind of request is a part.
LEMMA OrderTypes ==
    /\ SamplingOrder \in Seq(Values \cup {"ideal"})
    /\ RestoreOrder \in Seq(Values \cup {"look", "goal"})
    /\ \A i \in DOMAIN RestoreOrder : RestoreOrder[i] \in {"look", "goal"} => i = Len(RestoreOrder)
    /\ SamplingOrder \in Seq(Parts) /\ RestoreOrder \in Seq(Parts) /\ ReadParts \in Seq(Parts)
    /\ <<"ask">> \in Seq(Parts) /\ Analyses \subseteq Seq(Parts) /\ <<>> \in Seq(Parts)
  <1>1. ValueRows \in Seq(Values) /\ Analyses \subseteq Seq(Values \cup {"inserts"})
        /\ Values \cap {"ideal", "inserts", "ask", "look", "goal"} = {}
    BY SetupAssumption DEF SetupAssumption
  <1>2. Seq(Values \cup {"ideal"}) \subseteq Seq(Parts)
        /\ Seq(Values \cup {"look", "goal"}) \subseteq Seq(Parts)
        /\ Seq(Values \cup {"inserts"}) \subseteq Seq(Parts)
    BY DEF Parts, Rows
  <1>3. SamplingOrder \in Seq(Values \cup {"ideal"}) BY <1>1 DEF SamplingOrder
  <1>4. RestoreOrder \in Seq(Values \cup {"look", "goal"}) BY <1>1 DEF RestoreOrder
  <1>5. ReadParts \in Seq(Parts) /\ <<"ask">> \in Seq(Parts) /\ <<>> \in Seq(Parts)
    BY DEF ReadParts, Parts, Rows
  <1>6. ASSUME NEW i \in DOMAIN RestoreOrder, RestoreOrder[i] \in {"look", "goal"}
        PROVE  i = Len(RestoreOrder)
    BY <1>1, <1>6, LenProperties DEF RestoreOrder
  <1> QED BY <1>1, <1>2, <1>3, <1>4, <1>5, <1>6

\* The parts P come last in s.
Lasts(s, P) == \A i \in DOMAIN s : s[i] \in P => i = Len(s)

\* What comes last comes last in the rest, and nothing is after it.
LEMMA LastsTail ==
    ASSUME NEW S, NEW s \in Seq(S), s # <<>>, NEW P, Lasts(s, P)
    PROVE  Lasts(Tail(s), P) /\ (Head(s) \in P => Tail(s) = <<>>)
  <1>1. /\ DOMAIN s = 1..Len(s) /\ Len(s) \in Nat \ {0} /\ s[1] = Head(s)
        /\ Tail(s) \in Seq(S) /\ Len(Tail(s)) = Len(s) - 1
        /\ DOMAIN Tail(s) = 1..(Len(s) - 1)
        /\ \A i \in 1..(Len(s) - 1) : Tail(s)[i] = s[i + 1]
    BY LenProperties, EmptySeq, HeadTailProperties
  <1>2. Lasts(Tail(s), P)
    <2> SUFFICES ASSUME NEW i \in DOMAIN Tail(s), Tail(s)[i] \in P PROVE i = Len(Tail(s))
      BY DEF Lasts
    <2>1. i + 1 \in DOMAIN s /\ s[i + 1] \in P BY <1>1
    <2>2. i + 1 = Len(s) BY <2>1 DEF Lasts
    <2> QED BY <1>1, <2>2
  <1>3. ASSUME Head(s) \in P PROVE Tail(s) = <<>>
    <2>1. Len(s) = 1 BY <1>1, <1>3 DEF Lasts
    <2> QED BY <1>1, <2>1, EmptySeq
  <1> QED BY <1>2, <1>3

-----------------------------------------------------------------------------
(* Requests *)

WizardTodo(todo) ==
    todo = <<"ask">> \/ (todo \in Seq(Values \cup {"inserts"}) /\ Lasts(todo, {"inserts"}))

OtherTodo(todo) == todo = <<"ask">> \/ todo \in Seq(Values \cup {"ideal"})

RestoreTodo(todo) ==
    todo \in Seq(Values \cup {"look", "goal"}) /\ Lasts(todo, {"look", "goal"})

\* What a request under way is for and what it still has to write.
CallInv(c) ==
    /\ calls[c].kind = "none" => calls[c] = Quiet
    /\ calls[c].kind # "result" => calls[c].of = None
    /\ calls[c].kind = "result" => /\ calls[c].of \in Sessions
                                   /\ IF calls[c].of \in Wizards THEN WizardTodo(calls[c].todo)
                                      ELSE OtherTodo(calls[c].todo)
    /\ calls[c].kind = "restore" => RestoreTodo(calls[c].todo)
    /\ calls[c].kind \in {"restore", "backup"} => calls[c].data \in [Rows -> Sources]
    /\ calls[c].kind = "backup" => calls[c].todo \in Seq({"values", "ideal"})

CallsInv == TypeOK /\ \A c \in Calls : CallInv(c)

\* A call of the types it should have.
LEMMA CallTypesOf ==
    ASSUME NEW kind \in {"none", "result", "restore", "backup"}, NEW of \in Sessions \cup {None},
           NEW todo \in Seq(Parts), NEW data \in {None} \cup [Rows -> Sources]
    PROVE  /\ Call(kind, of, todo, data) \in CallTypes
           /\ Call(kind, of, todo, data).kind = kind /\ Call(kind, of, todo, data).of = of
           /\ Call(kind, of, todo, data).todo = todo /\ Call(kind, of, todo, data).data = data
  BY DEF Call, CallTypes

\* A request at rest.
LEMMA QuietTypes ==
    /\ Quiet \in CallTypes /\ Quiet.kind = "none" /\ Quiet.of = None
    /\ Quiet.todo = <<>> /\ Quiet.data = None
  BY OrderTypes DEF Quiet, Call, CallTypes

\* A call whose request is under way and the others: what a new value of calls[c] keeps.
LEMMA CallReplaced ==
    ASSUME CallsInv, NEW c \in Calls, NEW k \in CallTypes, calls' = [calls EXCEPT ![c] = k],
           k.kind = "none" => k = Quiet,
           k.kind # "result" => k.of = None,
           k.kind = "result" => /\ k.of \in Sessions
                                /\ IF k.of \in Wizards THEN WizardTodo(k.todo)
                                   ELSE OtherTodo(k.todo),
           k.kind = "restore" => RestoreTodo(k.todo),
           k.kind \in {"restore", "backup"} => k.data \in [Rows -> Sources],
           k.kind = "backup" => k.todo \in Seq({"values", "ideal"})
    PROVE  /\ calls' \in [Calls -> CallTypes] /\ calls'[c] = k
           /\ \A d \in Calls : CallInv(d)'
           /\ \A d \in Calls \ {c} : calls'[d] = calls[d]
  <1>1. /\ calls \in [Calls -> CallTypes] /\ calls'[c] = k
        /\ \A d \in Calls \ {c} : calls'[d] = calls[d]
    BY DEF CallsInv, TypeOK, CallTypes
  <1>2. ASSUME NEW d \in Calls PROVE CallInv(d)'
    <2>1. CASE d = c BY <1>1, <2>1 DEF CallInv
    <2>2. CASE d # c BY <1>1, <2>2 DEF CallInv, CallsInv
    <2> QED BY <2>1, <2>2
  <1> QED BY <1>1, <1>2

\* Questions and answers keep the sessions' types.
LEMMA AnswersTypes ==
    ASSUME TypeOK, NEW s \in Sessions,
           Start(s) \/ Answer(s) \/ \E q \in Questions : AnswerNamed(s, q)
    PROVE  sessions' \in [Sessions -> SessionTypes]
  <1>1. /\ sessions \in [Sessions -> SessionTypes] /\ Length \in Nat \ {0}
    BY SetupAssumption DEF TypeOK, SetupAssumption, SessionTypes
  <1>2. ASSUME NEW q \in Questions PROVE Answered(sessions[s], q) \in SessionTypes
    BY <1>1, <1>2 DEF Answered, SessionTypes, Questions
  <1>3. CASE Start(s) BY <1>1, <1>3 DEF Start, SessionTypes
  <1>4. CASE Answer(s)
    <2>1. sessions[s].at \in Questions
      BY <1>1, <1>4 DEF Answer, Complete, SessionTypes, Questions
    <2> QED BY <1>1, <1>2, <1>4, <2>1 DEF Answer
  <1>5. ASSUME NEW q \in Questions, AnswerNamed(s, q)
        PROVE  sessions' \in [Sessions -> SessionTypes]
    BY <1>1, <1>2, <1>5 DEF AnswerNamed
  <1> QED BY <1>3, <1>4, <1>5

\* What a call has still to write, once it has written the first of it.
LEMMA LeftTypes ==
    ASSUME CallsInv, NEW c \in Calls, calls[c].kind \in {"result", "restore"}, Busy(c),
           Head(calls[c].todo) # "ask"
    PROVE  LET p == Head(calls[c].todo)
               left == Left(c, p)
           IN  /\ p \in Parts /\ left \in Seq(Parts) /\ calls[c].todo \in Seq(Parts)
               /\ calls[c].kind = "result" => IF calls[c].of \in Wizards THEN WizardTodo(left)
                                              ELSE OtherTodo(left)
               /\ calls[c].kind = "restore" => RestoreTodo(left)
               /\ p \in Rows => Source(c, p) \in Sources
               /\ p = "inserts" => calls[c].of \in Wizards /\ left = <<>>
               /\ p = "goal" => calls[c].kind = "restore" /\ left = <<>>
               /\ p \in Values => calls[c].kind = "result" \/ calls[c].data \in [Rows -> Sources]
               /\ p = "look" => calls[c].kind = "restore"
                                /\ left = IF goals = 0 THEN <<"goal">> ELSE <<>>
               /\ p # "look" => left = Tail(calls[c].todo)
  <1> DEFINE todo == calls[c].todo
             p == Head(calls[c].todo)
             left == Left(c, p)
  <1>1. /\ calls[c] \in CallTypes /\ todo \in Seq(Parts) /\ todo # <<>> /\ CallInv(c)
        /\ p \in Parts /\ Tail(todo) \in Seq(Parts)
    <2>1. calls[c] \in CallTypes /\ CallInv(c) BY DEF CallsInv, TypeOK, CallTypes
    <2>2. todo \in Seq(Parts) /\ todo # <<>> BY <2>1 DEF CallTypes, Busy
    <2> QED BY <2>1, <2>2, TodoTypes
  <1>2. Values \cap {"ideal", "inserts", "ask", "look", "goal"} = {}
    BY SetupAssumption DEF SetupAssumption
  <1>3. todo # <<"ask">> BY <1>1
  <1>4. ASSUME calls[c].kind = "result", calls[c].of \in Wizards
        PROVE  /\ p \in Values \cup {"inserts"} /\ Tail(todo) \in Seq(Values \cup {"inserts"})
               /\ Lasts(Tail(todo), {"inserts"}) /\ (p = "inserts" => Tail(todo) = <<>>)
    <2>1. todo \in Seq(Values \cup {"inserts"}) /\ Lasts(todo, {"inserts"})
      BY <1>1, <1>3, <1>4 DEF CallInv, WizardTodo
    <2>2. p \in Values \cup {"inserts"} /\ Tail(todo) \in Seq(Values \cup {"inserts"})
      BY <1>1, <2>1, TodoTypes
    <2>3. Lasts(Tail(todo), {"inserts"}) /\ (p = "inserts" => Tail(todo) = <<>>)
      BY <1>1, <2>1, LastsTail
    <2> QED BY <2>2, <2>3
  <1>5. ASSUME calls[c].kind = "result", calls[c].of \notin Wizards
        PROVE  p \in Values \cup {"ideal"} /\ Tail(todo) \in Seq(Values \cup {"ideal"})
    <2>1. todo \in Seq(Values \cup {"ideal"})
      BY <1>1, <1>3, <1>5 DEF CallInv, OtherTodo
    <2> QED BY <1>1, <2>1, TodoTypes
  <1>6. ASSUME calls[c].kind = "restore"
        PROVE  /\ p \in Values \cup {"look", "goal"}
               /\ Tail(todo) \in Seq(Values \cup {"look", "goal"})
               /\ Lasts(Tail(todo), {"look", "goal"})
               /\ (p \in {"look", "goal"} => Tail(todo) = <<>>)
    <2>1. todo \in Seq(Values \cup {"look", "goal"}) /\ Lasts(todo, {"look", "goal"})
      BY <1>1, <1>6 DEF CallInv, RestoreTodo
    <2>2. p \in Values \cup {"look", "goal"} /\ Tail(todo) \in Seq(Values \cup {"look", "goal"})
      BY <1>1, <2>1, TodoTypes
    <2>3. Lasts(Tail(todo), {"look", "goal"}) /\ (p \in {"look", "goal"} => Tail(todo) = <<>>)
      BY <1>1, <2>1, LastsTail
    <2> QED BY <2>2, <2>3
  <1>7. p # "look" => left = Tail(todo) BY DEF Left
  <1>8. ASSUME p = "look"
        PROVE  /\ calls[c].kind = "restore"
               /\ left = IF goals = 0 THEN <<"goal">> ELSE <<>>
    <2>1. calls[c].kind = "restore" /\ Tail(todo) = <<>>
      BY <1>2, <1>4, <1>5, <1>6, <1>8
    <2>2. <<"goal">> \o <<>> = <<"goal">> OBVIOUS
    <2> QED BY <1>8, <2>1, <2>2 DEF Left
  <1>9. <<"goal">> \in Seq(Values \cup {"look", "goal"}) /\ Lasts(<<"goal">>, {"look", "goal"})
        /\ <<"goal">> \in Seq(Parts) /\ <<>> \in Seq(Parts)
        /\ <<>> \in Seq(Values \cup {"look", "goal"}) /\ Lasts(<<>>, {"look", "goal"})
    BY DEF Lasts, Parts
  <1>10. left \in Seq(Parts) BY <1>1, <1>7, <1>8, <1>9
  <1>11. calls[c].kind = "result" => IF calls[c].of \in Wizards THEN WizardTodo(left)
                                     ELSE OtherTodo(left)
    BY <1>2, <1>4, <1>5, <1>7 DEF WizardTodo, OtherTodo
  <1>12. calls[c].kind = "restore" => RestoreTodo(left)
    BY <1>6, <1>7, <1>8, <1>9 DEF RestoreTodo
  <1>13. p \in Rows => Source(c, p) \in Sources
    BY <1>1 DEF CallInv, Source, Sources
  <1>14. p = "inserts" => calls[c].of \in Wizards /\ left = <<>>
    BY <1>2, <1>4, <1>5, <1>6, <1>7
  <1>15. p = "goal" => calls[c].kind = "restore" /\ left = <<>>
    BY <1>2, <1>4, <1>5, <1>6, <1>7
  <1>16. p \in Values => calls[c].kind = "result" \/ calls[c].data \in [Rows -> Sources]
    BY <1>1 DEF CallInv
  <1> QED BY <1>1, <1>7, <1>8, <1>10, <1>11, <1>12, <1>13, <1>14, <1>15, <1>16

\* What writing a part changes.
LEMMA EffectTypes ==
    ASSUME CallsInv, NEW c \in Calls, NEW p \in Parts, p \in Rows => Source(c, p) \in Sources,
           p = "inserts" => calls[c].of \in Wizards,
           Effect(c, p) \/ UNCHANGED <<rows, inserts, goals>>
    PROVE  /\ rows' \in [Rows -> Sources] /\ inserts' \in [Sessions -> Nat] /\ goals' \in Nat
           /\ \A v \in Rows : v # p => rows'[v] = rows[v]
           /\ p \notin Rows => rows' = rows
           /\ \A s \in Sessions :
                 \/ inserts'[s] = inserts[s]
                 \/ p = "inserts" /\ s = calls[c].of /\ inserts'[s] = inserts[s] + 1
           /\ goals' = goals \/ (p = "goal" /\ goals' = goals + 1)
  <1>1. /\ rows \in [Rows -> Sources] /\ inserts \in [Sessions -> Nat] /\ goals \in Nat
    BY DEF CallsInv, TypeOK
  <1>2. "inserts" \notin Rows /\ "goal" \notin Rows
    BY SetupAssumption DEF SetupAssumption, Rows
  <1>3. CASE UNCHANGED <<rows, inserts, goals>> BY <1>1, <1>3
  <1>4. CASE p \in Rows /\ WriteRow(c, p) BY <1>1, <1>2, <1>4 DEF WriteRow
  <1>5. CASE p = "inserts" /\ InsertAll(c)
    <2>1. calls[c].of \in Sessions BY <1>5 DEF Sessions
    <2> QED BY <1>1, <1>2, <1>5, <2>1 DEF InsertAll
  <1>6. CASE p = "goal" /\ InsertGoal(c) BY <1>1, <1>2, <1>6 DEF InsertGoal
  <1> QED BY <1>3, <1>4, <1>5, <1>6 DEF Effect

\* A row that is written has what the call writes.
LEMMA EffectWrites ==
    ASSUME CallsInv, NEW c \in Calls, NEW p \in Rows, Effect(c, p)
    PROVE  rows'[p] = Source(c, p)
  <1>1. "inserts" \notin Rows /\ "goal" \notin Rows
    BY SetupAssumption DEF SetupAssumption, Rows
  <1> QED BY <1>1 DEF Effect, WriteRow, CallsInv, TypeOK

\* In the beginning nobody has asked for anything.
LEMMA CallsInit == Init => CallsInv
  <1> SUFFICES ASSUME Init PROVE CallsInv OBVIOUS
  <1>1. Fresh \in SessionTypes
    BY SetupAssumption DEF Fresh, Blank, SessionTypes, SetupAssumption, Questions
  <1>2. Quiet \in CallTypes /\ Quiet.kind = "none" /\ Quiet.of = None BY QuietTypes
  <1>3. TypeOK
    BY <1>1, <1>2, SetupAssumption
       DEF Init, TypeOK, SessionTypes, CallTypes, Sources, SetupAssumption
  <1>4. \A c \in Calls : CallInv(c) BY <1>2 DEF Init, CallInv
  <1> QED BY <1>3, <1>4 DEF CallsInv

\* The steps of a call.
CallSteps(c) ==
    \/ \E s \in Sessions : AskResult(c, s)
    \/ Proceed(c) \/ WriteRaises(c) \/ Restore(c) \/ Backup(c) \/ ReadRaises(c)

\* A call that asks the model has nothing else to do yet.
LEMMA AnalyseAsks ==
    ASSUME CallsInv, NEW c \in Calls, Analyse(c)
    PROVE  calls[c].kind = "result" /\ calls[c].todo = <<"ask">>
  <1>1. /\ calls[c] \in CallTypes /\ CallInv(c) /\ calls[c].todo # <<>>
        /\ Head(calls[c].todo) = "ask"
    BY DEF CallsInv, TypeOK, CallTypes, Analyse, Busy
  <1>2. Values \cap {"ideal", "inserts", "ask", "look", "goal"} = {}
    BY SetupAssumption DEF SetupAssumption
  <1>3. CASE calls[c].kind = "none" BY <1>1, <1>3, QuietTypes DEF CallInv
  <1>4. CASE calls[c].kind = "restore"
    <2>1. Head(calls[c].todo) \in Values \cup {"look", "goal"}
      BY <1>1, <1>4, TodoTypes DEF CallInv, RestoreTodo
    <2> QED BY <1>1, <1>2, <2>1
  <1>5. CASE calls[c].kind = "backup"
    <2>1. Head(calls[c].todo) \in {"values", "ideal"}
      BY <1>1, <1>5, TodoTypes DEF CallInv
    <2> QED BY <1>1, <2>1
  <1>6. CASE calls[c].kind = "result"
    <2>1. CASE calls[c].todo \in Seq(Values \cup {"inserts"})
      <3>1. Head(calls[c].todo) \in Values \cup {"inserts"} BY <1>1, <2>1, TodoTypes
      <3> QED BY <1>1, <1>2, <3>1
    <2>2. CASE calls[c].todo \in Seq(Values \cup {"ideal"})
      <3>1. Head(calls[c].todo) \in Values \cup {"ideal"} BY <1>1, <2>2, TodoTypes
      <3> QED BY <1>1, <1>2, <3>1
    <2> QED BY <1>1, <1>6, <2>1, <2>2 DEF CallInv, WizardTodo, OtherTodo
  <1> QED BY <1>1, <1>3, <1>4, <1>5, <1>6 DEF CallTypes

\* What a step of a call makes of the call.
LEMMA CallSteppedTypes ==
    ASSUME CallsInv, NEW c \in Calls, CallSteps(c)
    PROVE  /\ calls' \in [Calls -> CallTypes] /\ \A d \in Calls : CallInv(d)'
           /\ \A d \in Calls \ {c} : calls'[d] = calls[d]
  <1>1. /\ Quiet \in CallTypes /\ Quiet.kind = "none" /\ Quiet.of = None BY QuietTypes
  <1>2. /\ calls[c] \in CallTypes /\ CallInv(c) /\ copy \in [Rows -> Sources]
        /\ rows \in [Rows -> Sources]
    BY DEF CallsInv, TypeOK, CallTypes
  <1>3. CASE calls' = [calls EXCEPT ![c] = Quiet] BY <1>1, <1>3, CallReplaced
  <1>4. ASSUME NEW todo \in Seq(Parts), Proceeds(c, todo),
               calls[c].kind = "result" => IF calls[c].of \in Wizards THEN WizardTodo(todo)
                                           ELSE OtherTodo(todo),
               calls[c].kind = "restore" => RestoreTodo(todo),
               calls[c].kind \in {"result", "restore"}
        PROVE  /\ calls' \in [Calls -> CallTypes] /\ \A d \in Calls : CallInv(d)'
               /\ \A d \in Calls \ {c} : calls'[d] = calls[d]
    <2>1. PICK k : k = Call(calls[c].kind, calls[c].of, todo, calls[c].data) OBVIOUS
    <2>2. /\ k \in CallTypes /\ k.kind = calls[c].kind /\ k.of = calls[c].of /\ k.todo = todo
          /\ k.data = calls[c].data
      BY <1>2, <2>1 DEF Call, CallTypes
    <2>3. calls' = [calls EXCEPT ![c] = k] BY <1>4, <2>1 DEF Proceeds
    <2>4. /\ k.kind # "none"
          /\ k.kind # "result" => k.of = None
          /\ k.kind = "result" => k.of \in Sessions
          /\ k.kind \in {"restore", "backup"} => k.data \in [Rows -> Sources]
      BY <1>2, <1>4, <2>2 DEF CallInv
    <2> QED BY <1>4, <2>2, <2>3, <2>4, CallReplaced
  <1>5. ASSUME NEW s \in Sessions, AskResult(c, s)
        PROVE  /\ calls' \in [Calls -> CallTypes] /\ \A d \in Calls : CallInv(d)'
               /\ \A d \in Calls \ {c} : calls'[d] = calls[d]
    <2>1. PICK todo : todo = IF s \in Samplings THEN SamplingOrder ELSE <<"ask">> OBVIOUS
    <2>2. PICK k : k = Call("result", s, todo, None) OBVIOUS
    <2>3. todo \in Seq(Parts) /\ IF s \in Wizards THEN WizardTodo(todo) ELSE OtherTodo(todo)
      BY <2>1, OrderTypes, SetupAssumption DEF SetupAssumption, WizardTodo, OtherTodo
    <2>4. k \in CallTypes /\ k.kind = "result" /\ k.of = s /\ k.todo = todo
      BY <2>2, <2>3 DEF Call, CallTypes
    <2>5. calls' = [calls EXCEPT ![c] = k] BY <1>5, <2>1, <2>2 DEF AskResult
    <2> QED BY <2>3, <2>4, <2>5, CallReplaced
  <1>6. CASE Analyse(c)
    <2>1. PICK parts \in Analyses :
              Proceeds(c, IF calls[c].of \in Wizards THEN parts ELSE <<>>)
      BY <1>6 DEF Analyse
    <2>2. PICK todo : todo = IF calls[c].of \in Wizards THEN parts ELSE <<>> OBVIOUS
    <2>3. todo \in Seq(Parts) /\ Proceeds(c, todo) BY <2>1, <2>2, OrderTypes
    <2>4. IF calls[c].of \in Wizards THEN WizardTodo(todo) ELSE OtherTodo(todo)
      <3>1. /\ parts \in Seq(Values \cup {"inserts"}) /\ Lasts(parts, {"inserts"})
        BY <2>1, SetupAssumption DEF SetupAssumption, Lasts
      <3> QED BY <2>2, <3>1 DEF WizardTodo, OtherTodo
    <2>5. calls[c].kind = "result" BY <1>6, AnalyseAsks
    <2> QED BY <1>4, <2>3, <2>4, <2>5
  <1>7. CASE WritePart(c)
    <2>1. /\ calls[c].kind \in {"result", "restore"} /\ Busy(c) /\ Head(calls[c].todo) # "ask"
          /\ Proceeds(c, Left(c, Head(calls[c].todo)))
      BY <1>7 DEF WritePart
    <2>2. PICK todo : todo = Left(c, Head(calls[c].todo)) OBVIOUS
    <2>3. /\ todo \in Seq(Parts) /\ Proceeds(c, todo)
          /\ calls[c].kind = "result" => IF calls[c].of \in Wizards THEN WizardTodo(todo)
                                         ELSE OtherTodo(todo)
          /\ calls[c].kind = "restore" => RestoreTodo(todo)
      BY <2>1, <2>2, LeftTypes
    <2> QED BY <1>4, <2>1, <2>3
  <1>8. CASE WriteRaises(c)
    <2>1. CASE calls[c].of \in Wizards
      <3>1. Proceeds(c, <<>>) BY <1>8, <2>1 DEF WriteRaises
      <3>2. calls[c].kind = "result"
        BY <1>2, <2>1, SetupAssumption DEF CallInv, SetupAssumption, Sessions
      <3>3. <<>> \in Seq(Parts) /\ WizardTodo(<<>>) BY DEF WizardTodo, Lasts
      <3> QED BY <1>4, <2>1, <3>1, <3>2, <3>3
    <2>2. CASE calls[c].of \notin Wizards
      BY <1>3, <1>8, <2>2 DEF WriteRaises
    <2> QED BY <2>1, <2>2
  <1>9. CASE Close(c) \/ Restored(c) \/ BackedUp(c) \/ ReadRaises(c)
    BY <1>3, <1>9 DEF Close, Restored, BackedUp, ReadRaises
  <1>10. CASE Restore(c)
    <2>1. PICK k : k = Call("restore", None, RestoreOrder, copy) OBVIOUS
    <2>2. /\ k \in CallTypes /\ k.kind = "restore" /\ k.of = None /\ k.todo = RestoreOrder
          /\ k.data = copy
      BY <1>2, <2>1, OrderTypes DEF Call, CallTypes
    <2>3. RestoreTodo(k.todo) BY <2>2, OrderTypes DEF RestoreTodo, Lasts
    <2>4. calls' = [calls EXCEPT ![c] = k] BY <1>10, <2>1 DEF Restore
    <2> QED BY <1>2, <2>2, <2>3, <2>4, CallReplaced
  <1>11. CASE Backup(c)
    <2>1. PICK k : k = Call("backup", None, ReadParts, copy) OBVIOUS
    <2>2. /\ k \in CallTypes /\ k.kind = "backup" /\ k.of = None /\ k.data = copy
          /\ k.todo \in Seq({"values", "ideal"})
      BY <1>2, <2>1, OrderTypes DEF Call, CallTypes, ReadParts
    <2>3. calls' = [calls EXCEPT ![c] = k] BY <1>11, <2>1 DEF Backup
    <2> QED BY <1>2, <2>2, <2>3, CallReplaced
  <1>12. CASE ReadPart(c)
    <2>1. /\ calls[c].kind = "backup" /\ calls[c].todo # <<>>
          /\ calls[c].todo \in Seq({"values", "ideal"}) /\ calls[c].data \in [Rows -> Sources]
      BY <1>2, <1>12 DEF ReadPart, Busy, CallInv
    <2>2. PICK todo : todo = Tail(calls[c].todo) OBVIOUS
    <2>3. todo \in Seq({"values", "ideal"}) BY <2>1, <2>2, TodoTypes
    <2>4. todo \in Seq(Parts) BY <2>3 DEF Parts, Rows
    <2>5. PICK data : data = [r \in Rows |-> IF r \in RowsOf(Head(calls[c].todo)) THEN rows[r]
                                                ELSE calls[c].data[r]]
      OBVIOUS
    <2>6. data \in [Rows -> Sources] BY <1>2, <2>1, <2>5
    <2>7. PICK k : k = Call("backup", None, todo, data) OBVIOUS
    <2>8. k \in CallTypes /\ k.kind = "backup" /\ k.of = None /\ k.data = data /\ k.todo = todo
      BY <2>4, <2>6, <2>7 DEF Call, CallTypes
    <2>9. calls' = [calls EXCEPT ![c] = k] BY <1>12, <2>2, <2>5, <2>7 DEF ReadPart
    <2> QED BY <2>3, <2>6, <2>8, <2>9, CallReplaced
  <1> QED BY <1>5, <1>6, <1>7, <1>8, <1>9, <1>10, <1>11, <1>12 DEF CallSteps, Proceed

\* The end of a session.
LEMMA GoneTypes ==
    Gone \in SessionTypes /\ Gone.state = "gone" /\ Gone.at = 1 /\ Gone.answered = {}
      /\ Gone.ahead = FALSE
  BY SetupAssumption DEF Gone, Blank, SessionTypes, Questions, SetupAssumption

\* Every step keeps the types, and the requests what they are for.
LEMMA CallsStep ==
    ASSUME CallsInv, [Next]_vars
    PROVE  CallsInv'
  <1>1. /\ sessions \in [Sessions -> SessionTypes] /\ calls \in [Calls -> CallTypes]
        /\ rows \in [Rows -> Sources] /\ copy \in [Rows -> Sources]
        /\ inserts \in [Sessions -> Nat] /\ goals \in Nat
        /\ faults \in 0..MaxFaults /\ asked \in 0..MaxAsked
        /\ overlap \subseteq Sources /\ whole \in Sources \cup {"mixed"}
    BY DEF CallsInv, TypeOK, SessionTypes, CallTypes
  <1>2. MaxFaults \in Nat /\ MaxAsked \in Nat BY SetupAssumption DEF SetupAssumption
  <1>3. Sessions \subseteq Sources /\ "backup" \in Sources BY DEF Sources
  <1>4. CASE UNCHANGED vars
    BY <1>4 DEF vars, CallsInv, TypeOK, CallInv
  <1>5. ASSUME NEW s \in Sessions,
               Start(s) \/ Answer(s) \/ \E q \in Questions : AnswerNamed(s, q)
        PROVE  CallsInv'
    <2>1. sessions' \in [Sessions -> SessionTypes] BY <1>5, AnswersTypes DEF CallsInv
    <2>2. UNCHANGED <<rows, inserts, goals, copy, calls, faults, asked, overlap, whole>>
      BY <1>5 DEF Start, Answer, AnswerNamed
    <2>3. TypeOK' BY <2>1, <2>2 DEF CallsInv, TypeOK, SessionTypes
    <2> QED BY <2>2, <2>3 DEF CallsInv, CallInv
  <1>6. ASSUME NEW c \in Calls, CallSteps(c) PROVE CallsInv'
    <2>1. calls' \in [Calls -> CallTypes] /\ \A d \in Calls : CallInv(d)'
      BY <1>6, CallSteppedTypes
    <2>2. /\ sessions' \in [Sessions -> SessionTypes]
          /\ rows' \in [Rows -> Sources] /\ copy' \in [Rows -> Sources]
          /\ inserts' \in [Sessions -> Nat] /\ goals' \in Nat
          /\ faults' \in 0..MaxFaults /\ asked' \in 0..MaxAsked
          /\ overlap' \subseteq Sources /\ whole' \in Sources \cup {"mixed"}
      <3>1. ASSUME NEW s \in Sessions, AskResult(c, s)
            PROVE  /\ asked' \in 0..MaxAsked /\ overlap' \subseteq Sources
                   /\ UNCHANGED <<sessions, rows, inserts, goals, copy, faults, whole>>
        BY <1>1, <1>2, <1>3, <3>1 DEF AskResult, Asks
      <3>2. CASE Analyse(c) BY <1>1, <3>2 DEF Analyse
      <3>3. CASE WritePart(c) \/ WriteRaises(c)
        <4> DEFINE p == Head(calls[c].todo)
        <4>1. calls[c].kind \in {"result", "restore"} /\ Busy(c) /\ p # "ask"
          BY <3>3 DEF WritePart, WriteRaises
        <4>2. /\ p \in Parts
              /\ p \in Rows => Source(c, p) \in Sources
              /\ p = "inserts" => calls[c].of \in Wizards
          BY <4>1, LeftTypes
        <4>3. Effect(c, p) \/ UNCHANGED <<rows, inserts, goals>>
          BY <3>3 DEF WritePart, WriteRaises
        <4>4. rows' \in [Rows -> Sources] /\ inserts' \in [Sessions -> Nat] /\ goals' \in Nat
          BY <4>2, <4>3, EffectTypes
        <4>5. CASE WritePart(c)
          <5>1. whole' = IF p \in Values THEN Whole(c, p) ELSE whole
            BY <4>5 DEF WritePart
          <5>2. p \in Values => Whole(c, p) \in Sources \cup {"mixed"}
            BY <4>2 DEF Whole, Rows
          <5> QED BY <1>1, <4>4, <4>5, <5>1, <5>2 DEF WritePart
        <4>6. CASE WriteRaises(c) BY <1>1, <1>2, <4>4, <4>6 DEF WriteRaises
        <4> QED BY <3>3, <4>5, <4>6
      <3>4. CASE Close(c)
        <4>1. calls[c].of \in Sessions BY <3>4 DEF Close, CallsInv, CallInv
        <4> QED BY <1>1, <3>4, <4>1, GoneTypes DEF Close
      <3>5. CASE Restored(c) \/ ReadPart(c) BY <1>1, <3>5 DEF Restored, ReadPart
      <3>6. CASE BackedUp(c)
        <4>1. calls[c].data \in [Rows -> Sources] BY <3>6 DEF BackedUp, CallsInv, CallInv
        <4> QED BY <1>1, <3>6, <4>1 DEF BackedUp
      <3>7. CASE Restore(c) BY <1>1, <1>2, <1>3, <3>7 DEF Restore, Asks
      <3>8. CASE Backup(c) BY <1>1, <1>2, <3>8 DEF Backup, Asks
      <3>9. CASE ReadRaises(c) BY <1>1, <1>2, <3>9 DEF ReadRaises
      <3> QED BY <1>1, <1>6, <3>1, <3>2, <3>3, <3>4, <3>5, <3>6, <3>7, <3>8, <3>9
              DEF CallSteps, Proceed
    <2> QED BY <2>1, <2>2 DEF CallsInv, TypeOK, SessionTypes, CallTypes
  <1> QED BY <1>4, <1>5, <1>6 DEF Next, CallSteps

\* The sessions, the requests under way, the rows and the backup a client holds always have
\* their types: a request for a result writes what its session's kind names, in any order
\* the model's analysis has (BootWizard, DecisionSamplingEngine, PersonalityCloneEngine).
THEOREM SetupTypes == Spec => []TypeOK
  <1>1. CallsInv => TypeOK BY DEF CallsInv
  <1> QED BY <1>1, CallsInit, CallsStep, PTL DEF Spec

-----------------------------------------------------------------------------
(* Questions *)

\* A session that never went ahead has answers up to the question it is at.
AnsweredInv ==
    \A s \in Sessions : sessions[s].ahead \/ 1..(sessions[s].at - 1) \subseteq sessions[s].answered

\* Going back or on keeps the answers that were given.
LEMMA AnsweredStep ==
    ASSUME CallsInv, AnsweredInv, [Next]_vars
    PROVE  AnsweredInv'
  <1>1. sessions \in [Sessions -> SessionTypes] BY DEF CallsInv, TypeOK, SessionTypes
  <1>2. CASE sessions' = sessions BY <1>2 DEF AnsweredInv
  <1>3. ASSUME NEW s \in Sessions, NEW q \in Questions,
               sessions' = [sessions EXCEPT ![s] = Answered(sessions[s], q)]
        PROVE  AnsweredInv'
    <2> SUFFICES ASSUME NEW u \in Sessions, ~sessions'[u].ahead
                 PROVE  1..(sessions'[u].at - 1) \subseteq sessions'[u].answered
      BY DEF AnsweredInv
    <2>1. CASE u # s BY <1>1, <1>3, <2>1 DEF AnsweredInv
    <2>2. CASE u = s
      <3>1. sessions'[u] = Answered(sessions[s], q) BY <1>1, <1>3, <2>2
      <3>2. /\ sessions'[u].at = q + 1 /\ sessions'[u].answered = sessions[s].answered \cup {q}
            /\ sessions'[u].ahead = (sessions[s].ahead \/ q > sessions[s].at)
        BY <3>1 DEF Answered
      <3>3. ~sessions[s].ahead /\ ~(q > sessions[s].at) BY <3>2, Zenon
      <3>4. 1..(sessions[s].at - 1) \subseteq sessions[s].answered BY <3>3 DEF AnsweredInv
      <3>5. sessions[s].at \in 1..Length + 1 /\ Length \in Nat /\ q \in 1..Length
        BY <1>1, SetupAssumption DEF SessionTypes, Questions, SetupAssumption
      <3> QED BY <3>2, <3>3, <3>4, <3>5
    <2> QED BY <2>1, <2>2
  <1>4. ASSUME NEW s \in Sessions, Start(s) PROVE AnsweredInv'
    BY <1>1, <1>4 DEF Start, AnsweredInv, SessionTypes
  <1>5. ASSUME NEW s \in Sessions, Answer(s) PROVE AnsweredInv'
    <2>1. sessions[s].at \in 1..Length + 1 /\ Length \in Nat /\ ~(sessions[s].at > Length)
      BY <1>1, <1>5, SetupAssumption DEF Answer, Complete, SessionTypes, SetupAssumption
    <2>2. sessions[s].at \in Questions BY <2>1 DEF Questions
    <2> QED BY <1>3, <1>5, <2>2 DEF Answer
  <1>6. ASSUME NEW s \in Sessions, NEW q \in Questions, AnswerNamed(s, q) PROVE AnsweredInv'
    BY <1>3, <1>6 DEF AnswerNamed
  <1>7. ASSUME NEW c \in Calls, Close(c) PROVE AnsweredInv'
    <2>1. calls[c].of \in Sessions BY <1>7 DEF Close, CallsInv, CallInv
    <2> QED BY <1>1, <1>7, <2>1, GoneTypes DEF Close, AnsweredInv
  <1>8. ASSUME NEW c \in Calls, CallSteps(c), ~Close(c) PROVE sessions' = sessions
    BY <1>8 DEF CallSteps, Proceed, AskResult, Analyse, WritePart, WriteRaises, Restored, ReadPart,
                BackedUp, Restore, Backup, ReadRaises
  <1> QED BY <1>2, <1>4, <1>5, <1>6, <1>7, <1>8 DEF Next, CallSteps, vars

\* However a user goes back over his answers, a session whose questions are over has an
\* answer to each, unless an answer named a question ahead of its turn (SetupSession.answer).
THEOREM CompleteAnswers == Spec => []CompleteIsAnswered
  <1>1. Init => AnsweredInv
    BY SetupAssumption DEF Init, AnsweredInv, Fresh, Blank, SetupAssumption
  <1>2. CallsInv /\ AnsweredInv => CompleteIsAnswered
    <2> SUFFICES ASSUME CallsInv, AnsweredInv, NEW s \in Sessions, Complete(s), ~sessions[s].ahead
                 PROVE  sessions[s].answered = Questions
      BY DEF CompleteIsAnswered
    <2>1. /\ sessions[s].at \in 1..Length + 1 /\ sessions[s].answered \subseteq Questions
          /\ Length \in Nat
      <3>1. sessions[s] \in SessionTypes BY DEF CallsInv, TypeOK, SessionTypes
      <3> QED BY <3>1, SetupAssumption DEF SessionTypes, SetupAssumption
    <2>2. 1..(sessions[s].at - 1) \subseteq sessions[s].answered BY DEF AnsweredInv
    <2>3. sessions[s].at = Length + 1 BY <2>1 DEF Complete
    <2>4. 1..Length \subseteq sessions[s].answered
      <3>1. sessions[s].at - 1 = Length BY <2>1, <2>3
      <3> QED BY <2>2, <3>1
    <2> QED BY <2>1, <2>4 DEF Questions
  <1> QED BY <1>1, <1>2, CallsInit, CallsStep, AnsweredStep, PTL DEF Spec

-----------------------------------------------------------------------------
(* Values *)

\* A request under way still writes the value v.
Awaits(v) == \E c \in Calls : calls[c].kind # "backup" /\ v \in Pending(c)

\* Each value has the source of the whole, or is still to be written.
ValuesInv == whole = "mixed" \/ \A v \in Values : rows[v] = whole \/ Awaits(v)

\* Who awaits a value is a writer.
LEMMA AwaitsWriters ==
    ASSUME NEW v \in Values, NEW c \in Calls, calls[c].kind # "backup", v \in Pending(c)
    PROVE  c \in Writers
  BY DEF Writers

\* A call that is replaced loses nothing that is still to be written.
LEMMA AwaitsStays ==
    ASSUME CallsInv, NEW c \in Calls, CallSteps(c), NEW v, Awaits(v),
           calls[c].kind = "backup" \/ v \notin Pending(c)
             \/ (calls'[c].kind # "backup" /\ v \in Pending(c)')
    PROVE  Awaits(v)'
  <1>1. \A d \in Calls \ {c} : calls'[d] = calls[d] BY CallSteppedTypes
  <1>2. PICK d \in Calls : calls[d].kind # "backup" /\ v \in Pending(d) BY DEF Awaits
  <1>3. CASE d = c BY <1>2, <1>3 DEF Awaits
  <1>4. CASE d # c
    <2>1. calls'[d] = calls[d] BY <1>1, <1>4
    <2>2. calls'[d].kind # "backup" /\ v \in Pending(d)' BY <1>2, <2>1 DEF Pending
    <2> QED BY <2>2 DEF Awaits
  <1> QED BY <1>3, <1>4

\* What is left of a call that goes on.
LEMMA PendingLeft ==
    ASSUME CallsInv, NEW c \in Calls, calls[c].kind \in {"result", "restore"}, Busy(c),
           Head(calls[c].todo) # "ask", Proceeds(c, Left(c, Head(calls[c].todo)))
    PROVE  /\ calls'[c].kind = calls[c].kind
           /\ \A v \in Pending(c) : v # Head(calls[c].todo) => v \in Pending(c)'
           /\ Head(calls[c].todo) \in Pending(c)
  <1> DEFINE todo == calls[c].todo
             p == Head(calls[c].todo)
  <1>1. todo \in Seq(Parts) /\ todo # <<>> /\ calls \in [Calls -> CallTypes]
    BY DEF CallsInv, TypeOK, CallTypes, Busy
  <1>2. Pending(c) = {p} \cup {Tail(todo)[i] : i \in DOMAIN Tail(todo)}
    BY <1>1, TodoTypes DEF Pending
  <1>3. calls'[c].kind = calls[c].kind /\ calls'[c].todo = Left(c, p)
    BY <1>1 DEF Proceeds, Call
  <1>4. CASE p # "look"
    <2>1. calls'[c].todo = Tail(todo) BY <1>3, <1>4 DEF Left
    <2>2. Pending(c)' = {Tail(todo)[i] : i \in DOMAIN Tail(todo)} BY <2>1 DEF Pending
    <2> QED BY <1>2, <1>3, <2>2
  <1>5. CASE p = "look"
    <2>1. calls[c].kind = "restore" BY <1>5, LeftTypes
    <2>2. todo \in Seq(Values \cup {"look", "goal"}) /\ Lasts(todo, {"look", "goal"})
      BY <2>1 DEF CallsInv, CallInv, RestoreTodo
    <2>3. Tail(todo) = <<>> BY <1>1, <1>5, <2>2, LastsTail
    <2>4. Pending(c) = {p} BY <1>2, <2>3
    <2> QED BY <1>3, <2>4
  <1> QED BY <1>4, <1>5

\* What a step of a call keeps when the call writes no value after it.
LEMMA ValuesKept ==
    ASSUME CallsInv, ValuesInv, NEW c \in Calls, CallSteps(c), UNCHANGED <<rows, whole>>,
           calls[c].kind = "backup" \/ Pending(c) \cap Values = {}
    PROVE  ValuesInv'
  <1> SUFFICES ASSUME whole' # "mixed", NEW v \in Values, rows'[v] # whole'
               PROVE  Awaits(v)'
    BY DEF ValuesInv
  <1>1. Awaits(v) BY DEF ValuesInv
  <1>2. calls[c].kind = "backup" \/ v \notin Pending(c) OBVIOUS
  <1> QED BY <1>1, <1>2, AwaitsStays

\* A value that is written has the source of the whole, if there is one, and the others
\* have it or are still to be written.
LEMMA ValuesWritten ==
    ASSUME CallsInv, ValuesInv, NEW c \in Calls, WritePart(c)
    PROVE  ValuesInv'
  <1> DEFINE p == Head(calls[c].todo)
  <1>1. /\ calls[c].kind \in {"result", "restore"} /\ Busy(c) /\ p # "ask"
        /\ Effect(c, p) /\ Proceeds(c, Left(c, p))
        /\ whole' = IF p \in Values THEN Whole(c, p) ELSE whole
    BY DEF WritePart
  <1>2. /\ p \in Parts
        /\ p \in Rows => Source(c, p) \in Sources
        /\ p = "inserts" => calls[c].of \in Wizards
    BY <1>1, LeftTypes
  <1>3. /\ \A v \in Rows : v # p => rows'[v] = rows[v]
        /\ p \in Rows => rows'[p] = Source(c, p)
    <2>1. \A v \in Rows : v # p => rows'[v] = rows[v] BY <1>1, <1>2, EffectTypes
    <2>2. ASSUME p \in Rows PROVE rows'[p] = Source(c, p) BY <1>1, <2>2, EffectWrites
    <2> QED BY <2>1, <2>2
  <1>4. /\ calls'[c].kind # "backup"
        /\ \A v \in Pending(c) : v # p => v \in Pending(c)'
    BY <1>1, PendingLeft
  <1>5. ASSUME NEW v \in Values, v # p, Awaits(v) PROVE Awaits(v)'
    <2>1. CallSteps(c) BY DEF CallSteps, Proceed
    <2> QED BY <1>4, <1>5, <2>1, AwaitsStays
  <1> SUFFICES ASSUME whole' # "mixed", NEW v \in Values, rows'[v] # whole'
               PROVE  Awaits(v)'
    BY DEF ValuesInv
  <1>6. Values \subseteq Rows BY DEF Rows
  <1>7. CASE p \notin Values
    <2>1. whole' = whole /\ rows'[v] = rows[v] BY <1>1, <1>3, <1>6, <1>7
    <2> QED BY <1>5, <1>7, <2>1 DEF ValuesInv
  <1>8. CASE p \in Values
    <2>1. /\ whole' = Source(c, p)
          /\ Values \subseteq Pending(c) \/ whole = Source(c, p)
      BY <1>1, <1>8 DEF Whole
    <2>2. v # p BY <1>3, <1>6, <1>8, <2>1
    <2>3. rows'[v] = rows[v] BY <1>3, <1>6, <2>2
    <2>4. CASE Values \subseteq Pending(c)
      BY <1>4, <2>2, <2>4 DEF Awaits
    <2>5. CASE whole = Source(c, p)
      BY <1>5, <2>1, <2>2, <2>3, <2>5 DEF ValuesInv
    <2> QED BY <2>1, <2>4, <2>5
  <1> QED BY <1>7, <1>8

\* An error leaves the values of no source, unless nobody was writing one.
LEMMA ValuesRaised ==
    ASSUME CallsInv, ValuesInv, NEW c \in Calls, WriteRaises(c)
    PROVE  ValuesInv'
  <1> DEFINE p == Head(calls[c].todo)
  <1> SUFFICES ASSUME whole' # "mixed", NEW v \in Values PROVE rows'[v] = whole'
    BY DEF ValuesInv
  <1>1. /\ calls[c].kind \in {"result", "restore"} /\ Busy(c) /\ p # "ask"
        /\ Effect(c, p) \/ UNCHANGED <<rows, inserts, goals>>
        /\ Writers = {} /\ whole' = whole
    BY DEF WriteRaises
  <1>2. /\ p \in Parts
        /\ p \in Rows => Source(c, p) \in Sources
        /\ p = "inserts" => calls[c].of \in Wizards
    BY <1>1, LeftTypes
  <1>3. p \in Pending(c)
    <2>1. calls[c].todo \in Seq(Parts) /\ calls[c].todo # <<>>
      BY <1>1 DEF CallsInv, TypeOK, CallTypes, Busy
    <2>2. Pending(c) = {p} \cup {Tail(calls[c].todo)[i] : i \in DOMAIN Tail(calls[c].todo)}
      BY <2>1, TodoTypes DEF Pending
    <2> QED BY <2>2
  <1>4. p \notin Values BY <1>1, <1>3, AwaitsWriters
  <1>5. rows'[v] = rows[v] BY <1>1, <1>2, <1>4, EffectTypes DEF Rows
  <1>6. ~Awaits(v) BY <1>1, AwaitsWriters DEF Awaits
  <1> QED BY <1>1, <1>5, <1>6 DEF ValuesInv

\* Every step keeps the values of one source, or says that they are mixed.
LEMMA ValuesStep ==
    ASSUME CallsInv, ValuesInv, [Next]_vars
    PROVE  ValuesInv'
  <1>1. CASE UNCHANGED <<rows, whole, calls>>
    BY <1>1 DEF ValuesInv, Awaits, Pending
  <1>2. ASSUME NEW c \in Calls, CallSteps(c) PROVE ValuesInv'
    <2>1. CASE calls[c] = Quiet /\ UNCHANGED <<rows, whole>>
      <3>1. calls[c].todo = <<>> BY <2>1, QuietTypes
      <3>2. Pending(c) = {} BY <3>1 DEF Pending
      <3> QED BY <1>2, <2>1, <3>2, ValuesKept
    <2>2. CASE ~Busy(c) /\ UNCHANGED <<rows, whole>>
      <3>1. Pending(c) = {} BY <2>2 DEF Pending, Busy
      <3> QED BY <1>2, <2>2, <3>1, ValuesKept
    <2>3. CASE calls[c].kind = "backup" /\ UNCHANGED <<rows, whole>>
      BY <1>2, <2>3, ValuesKept
    <2>4. CASE Analyse(c)
      <3>1. calls[c].todo = <<"ask">> BY <1>2, <2>4, AnalyseAsks
      <3>2. Pending(c) = {"ask"} BY <3>1 DEF Pending
      <3>3. "ask" \notin Values BY SetupAssumption DEF SetupAssumption
      <3> QED BY <1>2, <2>4, <3>2, <3>3, ValuesKept DEF Analyse
    <2>5. CASE WritePart(c) BY <2>5, ValuesWritten
    <2>6. CASE WriteRaises(c) BY <2>6, ValuesRaised
    <2>7. ASSUME NEW s \in Sessions, AskResult(c, s) PROVE ValuesInv'
      BY <2>1, <2>7 DEF AskResult
    <2>8. CASE Restore(c) \/ Backup(c) BY <2>1, <2>8 DEF Restore, Backup
    <2>9. CASE Close(c) \/ Restored(c) BY <2>2, <2>9 DEF Close, Restored
    <2>10. CASE ReadPart(c) \/ BackedUp(c) \/ ReadRaises(c)
      BY <2>3, <2>10 DEF ReadPart, BackedUp, ReadRaises
    <2> QED BY <1>2, <2>4, <2>5, <2>6, <2>7, <2>8, <2>9, <2>10 DEF CallSteps, Proceed
  <1>3. ASSUME NEW s \in Sessions,
               Start(s) \/ Answer(s) \/ \E q \in Questions : AnswerNamed(s, q)
        PROVE  ValuesInv'
    BY <1>1, <1>3 DEF Start, Answer, AnswerNamed
  <1> QED BY <1>1, <1>2, <1>3 DEF Next, CallSteps, vars

\* When nobody is writing them, the values are those of one analysis, vector or backup,
\* if one call wrote them all, undisturbed and without an error
\* (_apply_to_system, save_to_personality, restore).
THEOREM ValuesAgree == Spec => []ValuesOfOneSource
  <1>1. Init => ValuesInv BY DEF Init, ValuesInv, Rows
  <1>2. ValuesInv => ValuesOfOneSource
    <2> SUFFICES ASSUME ValuesInv, whole # "mixed", Writers = {}, NEW v \in Values
                 PROVE  rows[v] = whole
      BY DEF ValuesOfOneSource
    <2>1. ~Awaits(v) BY AwaitsWriters DEF Awaits
    <2> QED BY <2>1 DEF ValuesInv
  <1> QED BY <1>1, <1>2, CallsInit, CallsStep, ValuesStep, PTL DEF Spec

-----------------------------------------------------------------------------
(* Goals and beliefs *)

\* A wizard's session whose results were never asked for at once has at most one request;
\* once its goals and beliefs are inserted, that request has nothing left to write and
\* ends the session.
OnceFor(s) ==
    /\ \A c, d \in Calls : calls[c].of = s /\ calls[d].of = s => c = d
    /\ (\E c \in Calls : calls[c].of = s) => sessions[s].state = "open"
    /\ inserts[s] \in {0, 1}
    /\ inserts[s] = 1 => /\ sessions[s].state # "none"
                         /\ sessions[s].state = "open" => \E c \in Calls : calls[c].of = s
                         /\ \A c \in Calls : calls[c].of = s => calls[c].todo = <<>>

\* Only a wizard inserts.
OnceInv ==
    /\ \A s \in Wizards : s \in overlap \/ OnceFor(s)
    /\ \A s \in Sessions \ Wizards : inserts[s] = 0

\* Restores that were never under way at once insert the goal when there is none.
GoalInv ==
    \/ "backup" \in overlap
    \/ /\ \A c, d \in Calls : calls[c].kind = "restore" /\ calls[d].kind = "restore" => c = d
       /\ goals \in {0, 1}
       /\ \A c \in Calls : calls[c].kind = "restore" /\ "goal" \in Pending(c) => goals = 0

\* What a step of a call inserts.
LEMMA InsertsStep ==
    ASSUME CallsInv, NEW c \in Calls, CallSteps(c), NEW s \in Sessions, inserts'[s] # inserts[s]
    PROVE  /\ WritePart(c) \/ WriteRaises(c)
           /\ Head(calls[c].todo) = "inserts" /\ Left(c, Head(calls[c].todo)) = <<>>
           /\ s = calls[c].of /\ s \in Wizards /\ inserts'[s] = inserts[s] + 1
  <1> DEFINE p == Head(calls[c].todo)
  <1>1. WritePart(c) \/ WriteRaises(c)
    BY DEF CallSteps, Proceed, AskResult, Analyse, Close, Restored, ReadPart, BackedUp,
           Restore, Backup, ReadRaises
  <1>2. /\ calls[c].kind \in {"result", "restore"} /\ Busy(c) /\ p # "ask"
        /\ Effect(c, p) \/ UNCHANGED <<rows, inserts, goals>>
    BY <1>1 DEF WritePart, WriteRaises
  <1>3. /\ p \in Parts
        /\ p \in Rows => Source(c, p) \in Sources
        /\ p = "inserts" => calls[c].of \in Wizards /\ Left(c, p) = <<>>
    BY <1>2, LeftTypes
  <1>4. p = "inserts" /\ s = calls[c].of /\ inserts'[s] = inserts[s] + 1
    BY <1>2, <1>3, EffectTypes
  <1> QED BY <1>1, <1>3, <1>4

\* A step of a call of another session leaves a session and its requests alone.
LEMMA OnceElsewhere ==
    ASSUME CallsInv, NEW c \in Calls, CallSteps(c), NEW s \in Sessions, OnceFor(s),
           calls[c].of # s, calls'[c].of # s
    PROVE  OnceFor(s)'
  <1>1. \A d \in Calls \ {c} : calls'[d] = calls[d] BY CallSteppedTypes
  <1>2. inserts'[s] = inserts[s] BY InsertsStep
  <1>3. sessions'[s] = sessions[s]
    BY DEF CallSteps, Proceed, AskResult, Analyse, WritePart, WriteRaises, Close, Restored,
           ReadPart, BackedUp, Restore, Backup, ReadRaises, CallsInv, TypeOK
  <1>4. \A d \in Calls : /\ calls'[d].of = s <=> calls[d].of = s
                         /\ calls[d].of = s => calls'[d] = calls[d]
    BY <1>1
  <1> QED BY <1>2, <1>3, <1>4 DEF OnceFor

\* The one request of a wizard's session goes on.
LEMMA OnceProceeds ==
    ASSUME CallsInv, NEW c \in Calls, NEW s \in Wizards, OnceFor(s), calls[c].of = s,
           NEW todo \in Seq(Parts), Proceeds(c, todo), sessions' = sessions,
           \/ inserts[s] = 0 /\ inserts'[s] = 0
           \/ inserts[s] = 0 /\ inserts'[s] = 1 /\ todo = <<>>
    PROVE  OnceFor(s)'
  <1>1. /\ calls'[c].of = s /\ calls'[c].todo = todo
        /\ \A d \in Calls \ {c} : calls'[d] = calls[d]
    BY DEF Proceeds, Call, CallsInv, TypeOK
  <1>2. \A d \in Calls : calls[d].of = s => d = c BY DEF OnceFor
  <1>3. \A d \in Calls : calls'[d].of = s <=> d = c BY <1>1, <1>2
  <1>4. sessions'[s].state = "open" BY DEF OnceFor
  <1> QED BY <1>1, <1>3, <1>4 DEF OnceFor

\* A request of a wizard's session never makes it insert twice.
LEMMA OnceHere ==
    ASSUME CallsInv, NEW c \in Calls, CallSteps(c), NEW s \in Wizards, OnceFor(s),
           calls[c].of = s
    PROVE  OnceFor(s)'
  <1>1. /\ calls[c] \in CallTypes /\ CallInv(c) /\ calls[c].kind = "result" /\ s \in Sessions
        /\ sessions \in [Sessions -> SessionTypes]
        /\ s # None
    BY SetupAssumption
       DEF CallsInv, TypeOK, CallTypes, CallInv, Sessions, SetupAssumption, SessionTypes
  <1>2. Busy(c) => inserts[s] = 0 BY DEF OnceFor, Busy
  <1>3. calls[c] # Quiet BY <1>1, QuietTypes
  <1>4. CASE Analyse(c)
    <2>1. PICK parts \in Analyses :
              Proceeds(c, IF calls[c].of \in Wizards THEN parts ELSE <<>>)
      BY <1>4 DEF Analyse
    <2>2. Proceeds(c, parts) /\ parts \in Seq(Parts) BY <2>1, OrderTypes
    <2>3. inserts[s] = 0 /\ inserts' = inserts /\ sessions' = sessions BY <1>2, <1>4 DEF Analyse
    <2> QED BY <2>2, <2>3, OnceProceeds
  <1>5. CASE WritePart(c)
    <2>1. /\ Busy(c) /\ Head(calls[c].todo) # "ask" /\ sessions' = sessions
          /\ Proceeds(c, Left(c, Head(calls[c].todo)))
      BY <1>5 DEF WritePart
    <2>2. Left(c, Head(calls[c].todo)) \in Seq(Parts) BY <1>1, <2>1, LeftTypes
    <2>3. \/ inserts'[s] = inserts[s]
          \/ inserts'[s] = inserts[s] + 1 /\ Left(c, Head(calls[c].todo)) = <<>>
      BY <1>1, InsertsStep
    <2> QED BY <1>2, <2>1, <2>2, <2>3, OnceProceeds
  <1>6. CASE WriteRaises(c)
    <2>1. Busy(c) /\ sessions' = sessions /\ Proceeds(c, <<>>) BY <1>6 DEF WriteRaises
    <2>2. <<>> \in Seq(Parts) BY OrderTypes
    <2>3. inserts'[s] = inserts[s] \/ inserts'[s] = inserts[s] + 1 BY <1>1, InsertsStep
    <2>4. \/ inserts[s] = 0 /\ inserts'[s] = 0
          \/ inserts[s] = 0 /\ inserts'[s] = 1
      BY <1>2, <2>1, <2>3
    <2>5. PICK todo \in Seq(Parts) : todo = <<>> BY <2>2
    <2>6. Proceeds(c, todo) BY <2>1, <2>5
    <2> QED BY <2>1, <2>4, <2>5, <2>6, OnceProceeds
  <1>7. CASE Close(c)
    <2>1. sessions'[s].state = "gone" BY <1>1, <1>7, GoneTypes DEF Close
    <2>2. \A d \in Calls : calls'[d].of # s
      <3>1. calls'[c] = Quiet /\ \A d \in Calls \ {c} : calls'[d] = calls[d]
        BY <1>7 DEF Close, CallsInv, TypeOK
      <3>2. \A d \in Calls : calls[d].of = s => d = c BY DEF OnceFor
      <3> QED BY <1>1, <3>1, <3>2, QuietTypes
    <2>3. inserts' = inserts BY <1>7 DEF Close
    <2> QED BY <2>1, <2>2, <2>3 DEF OnceFor
  <1> QED BY <1>1, <1>3, <1>4, <1>5, <1>6, <1>7
          DEF CallSteps, Proceed, AskResult, Restored, ReadPart, BackedUp, Restore, Backup,
              ReadRaises

\* A result that is asked for when no other is under way is the one of its session.
LEMMA OnceAsked ==
    ASSUME CallsInv, NEW c \in Calls, NEW s \in Wizards, AskResult(c, s), OnceFor(s),
           s \notin overlap'
    PROVE  OnceFor(s)'
  <1>1. \A d \in Calls : calls[d].of # s BY DEF AskResult
  <1>2. inserts[s] = 0 BY <1>1 DEF AskResult, OnceFor
  <1>3. calls'[c].of = s /\ \A d \in Calls \ {c} : calls'[d] = calls[d]
    BY DEF AskResult, Call, CallsInv, TypeOK
  <1>4. sessions'[s].state = "open" /\ inserts'[s] = 0 BY <1>2 DEF AskResult
  <1> QED BY <1>1, <1>3, <1>4 DEF OnceFor

\* What a step of a call makes of its kind and its session.
LEMMA KindStep ==
    ASSUME CallsInv, NEW c \in Calls, CallSteps(c)
    PROVE  /\ \/ calls'[c].of \in {calls[c].of, None}
              \/ \E s \in Sessions : AskResult(c, s)
           /\ calls'[c].kind = "restore" => calls[c].kind = "restore" \/ Restore(c)
  <1>1. CallInv(c) /\ calls \in [Calls -> CallTypes] BY DEF CallsInv, TypeOK, CallTypes
  <1>2. /\ Quiet.of = None /\ Quiet.kind = "none" BY QuietTypes
  <1>3. ASSUME NEW todo, Proceeds(c, todo)
        PROVE  calls'[c].of = calls[c].of /\ calls'[c].kind = calls[c].kind
    BY <1>1, <1>3 DEF Proceeds, Call
  <1>4. CASE calls' = [calls EXCEPT ![c] = Quiet] BY <1>1, <1>2, <1>4
  <1>5. CASE Analyse(c) BY <1>3, <1>5 DEF Analyse
  <1>6. CASE WritePart(c) BY <1>3, <1>6 DEF WritePart
  <1>7. CASE WriteRaises(c) BY <1>3, <1>4, <1>7 DEF WriteRaises
  <1>8. CASE Restore(c) BY <1>1, <1>8 DEF Restore, Call
  <1>9. CASE Backup(c) \/ ReadPart(c) BY <1>1, <1>9 DEF Backup, ReadPart, Call
  <1>10. ASSUME NEW s \in Sessions, AskResult(c, s) PROVE calls'[c].kind # "restore"
    BY <1>1, <1>10 DEF AskResult, Call
  <1> QED BY <1>4, <1>5, <1>6, <1>7, <1>8, <1>9, <1>10
          DEF CallSteps, Proceed, Close, Restored, BackedUp, ReadRaises

\* Every step keeps what is inserted once.
LEMMA OnceStep ==
    ASSUME CallsInv, OnceInv, [Next]_vars
    PROVE  OnceInv'
  <1>1. Wizards \subseteq Sessions BY DEF Sessions
  <1>2. CASE UNCHANGED vars BY <1>2 DEF vars, OnceInv, OnceFor
  <1>3. ASSUME NEW u \in Sessions,
               Start(u) \/ Answer(u) \/ \E q \in Questions : AnswerNamed(u, q)
        PROVE  OnceInv'
    <2>1. UNCHANGED <<inserts, calls, overlap>> BY <1>3 DEF Start, Answer, AnswerNamed
    <2>2. ASSUME NEW s \in Sessions
          PROVE  \/ sessions'[s].state = sessions[s].state
                 \/ sessions[s].state = "none" /\ sessions'[s].state = "open"
      <3>1. sessions \in [Sessions -> SessionTypes] BY DEF CallsInv, TypeOK, SessionTypes
      <3>2. CASE Start(u) BY <3>1, <3>2 DEF Start
      <3>3. CASE Answer(u) BY <3>1, <3>3 DEF Answer, Answered
      <3>4. ASSUME NEW q \in Questions, AnswerNamed(u, q)
            PROVE  sessions'[s].state = sessions[s].state
        BY <3>1, <3>4 DEF AnswerNamed, Answered
      <3> QED BY <1>3, <3>2, <3>3, <3>4
    <2>3. ASSUME NEW s \in Wizards, OnceFor(s) PROVE OnceFor(s)'
      BY <1>1, <2>1, <2>2, <2>3 DEF OnceFor
    <2> QED BY <2>1, <2>3 DEF OnceInv
  <1>4. ASSUME NEW c \in Calls, CallSteps(c) PROVE OnceInv'
    <2>1. ASSUME NEW s \in Sessions \ Wizards PROVE inserts'[s] = 0
      BY <1>4, InsertsStep DEF OnceInv
    <2>2. overlap \subseteq overlap'
      BY <1>4 DEF CallSteps, Proceed, AskResult, Analyse, WritePart, WriteRaises, Close,
                  Restored, ReadPart, BackedUp, Restore, Backup, ReadRaises
    <2>3. ASSUME NEW s \in Wizards, s \notin overlap' PROVE OnceFor(s)'
      <3>1. OnceFor(s) BY <2>2, <2>3 DEF OnceInv
      <3>2. CASE calls[c].of = s BY <1>4, <3>1, <3>2, OnceHere
      <3>3. CASE AskResult(c, s) BY <2>3, <3>1, <3>3, OnceAsked
      <3>4. CASE calls[c].of # s /\ ~AskResult(c, s)
        <4>1. calls'[c].of # s
          <5>1. s # None BY <1>1, SetupAssumption DEF SetupAssumption
          <5>2. calls'[c].of \in {calls[c].of, None} \/ \E u \in Sessions : AskResult(c, u)
            BY <1>4, KindStep
          <5>3. ASSUME NEW u \in Sessions, AskResult(c, u) PROVE calls'[c].of # s
            BY <3>4, <5>3 DEF AskResult, Call, CallsInv, TypeOK
          <5> QED BY <3>4, <5>1, <5>2, <5>3
        <4> QED BY <1>1, <1>4, <3>1, <3>4, <4>1, OnceElsewhere
      <3> QED BY <3>2, <3>3, <3>4
    <2> QED BY <2>1, <2>3 DEF OnceInv
  <1> QED BY <1>2, <1>3, <1>4 DEF Next, CallSteps

\* The restore that has a goal to insert, after a step of it, had it before, or has looked
\* and found none.
LEMMA GoalPending ==
    ASSUME CallsInv, NEW c \in Calls, CallSteps(c), calls'[c].kind = "restore",
           "goal" \in Pending(c)'
    PROVE  /\ goals' = goals
           /\ goals = 0 \/ (calls[c].kind = "restore" /\ "goal" \in Pending(c))
  <1>1. /\ calls[c] \in CallTypes /\ CallInv(c) /\ calls \in [Calls -> CallTypes]
    BY DEF CallsInv, TypeOK, CallTypes
  <1>2. "goal" \notin Values \cup {"look"} BY SetupAssumption DEF SetupAssumption
  <1>3. CASE Restore(c)
    <2>1. calls'[c].todo = RestoreOrder BY <1>1, <1>3 DEF Restore, Call
    <2>2. RestoreOrder \in Seq(Values \cup {"look"})
      BY SetupAssumption DEF SetupAssumption, RestoreOrder
    <2>3. ASSUME NEW i \in DOMAIN RestoreOrder PROVE RestoreOrder[i] \in Values \cup {"look"}
      BY <2>2, LenProperties
    <2> QED BY <1>2, <2>1, <2>3 DEF Pending
  <1>4. CASE WritePart(c)
    <2> DEFINE p == Head(calls[c].todo)
    <2>1. /\ calls[c].kind \in {"result", "restore"} /\ Busy(c) /\ p # "ask"
          /\ Proceeds(c, Left(c, p)) /\ Effect(c, p)
      BY <1>4 DEF WritePart
    <2>2. calls'[c].todo = Left(c, p) /\ calls[c].kind = "restore"
      BY <1>1, <2>1 DEF Proceeds, Call
    <2>3. /\ p \in Parts
          /\ p \in Rows => Source(c, p) \in Sources
          /\ p = "inserts" => calls[c].of \in Wizards
      BY <2>1, LeftTypes
    <2>4. p # "goal"
      <3>1. p = "goal" => Left(c, p) = <<>> BY <2>1, LeftTypes
      <3> QED BY <2>2, <3>1 DEF Pending
    <2>5. goals' = goals BY <2>1, <2>3, <2>4, EffectTypes
    <2>6. CASE p = "look" /\ goals = 0 BY <2>5, <2>6
    <2>7. CASE ~(p = "look" /\ goals = 0)
      <3>1. calls'[c].todo = Tail(calls[c].todo) BY <2>2, <2>7 DEF Left
      <3>2. calls[c].todo \in Seq(Parts) /\ calls[c].todo # <<>>
        BY <1>1, <2>1 DEF CallTypes, Busy
      <3>3. Pending(c) = {p} \cup {Tail(calls[c].todo)[i] : i \in DOMAIN Tail(calls[c].todo)}
        BY <3>2, TodoTypes DEF Pending
      <3>4. Pending(c)' = {Tail(calls[c].todo)[i] : i \in DOMAIN Tail(calls[c].todo)}
        BY <3>1 DEF Pending
      <3> QED BY <2>2, <2>5, <3>3, <3>4
    <2> QED BY <2>6, <2>7
  <1>5. CASE Analyse(c)
    <2>1. calls[c].kind = "result" BY <1>5, AnalyseAsks
    <2> QED BY <1>1, <1>5, <2>1 DEF Analyse, Proceeds, Call
  <1>6. CASE calls' = [calls EXCEPT ![c] = Quiet] BY <1>1, <1>6, QuietTypes
  <1>7. CASE WriteRaises(c)
    <2>1. calls[c].of \notin Wizards
      <3>1. calls[c].of \in Wizards => calls'[c].todo = <<>>
        BY <1>1, <1>7 DEF WriteRaises, Proceeds, Call
      <3> QED BY <3>1 DEF Pending
    <2> QED BY <1>6, <1>7, <2>1 DEF WriteRaises
  <1>8. ~(\E s \in Sessions : AskResult(c, s)) /\ ~Backup(c) /\ ~ReadPart(c)
    BY <1>1 DEF AskResult, Backup, ReadPart, Call
  <1> QED BY <1>3, <1>4, <1>5, <1>6, <1>7, <1>8
          DEF CallSteps, Proceed, Close, Restored, BackedUp, ReadRaises

\* What a step of a call makes of the goals.
LEMMA GoalsStep ==
    ASSUME CallsInv, NEW c \in Calls, CallSteps(c), goals' # goals
    PROVE  calls[c].kind = "restore" /\ "goal" \in Pending(c) /\ goals' = goals + 1
  <1> DEFINE p == Head(calls[c].todo)
  <1>1. WritePart(c) \/ WriteRaises(c)
    BY DEF CallSteps, Proceed, AskResult, Analyse, Close, Restored, ReadPart, BackedUp,
           Restore, Backup, ReadRaises
  <1>2. /\ calls[c].kind \in {"result", "restore"} /\ Busy(c) /\ p # "ask"
        /\ Effect(c, p) \/ UNCHANGED <<rows, inserts, goals>>
    BY <1>1 DEF WritePart, WriteRaises
  <1>3. /\ p \in Parts /\ calls[c].todo \in Seq(Parts)
        /\ p \in Rows => Source(c, p) \in Sources
        /\ p = "inserts" => calls[c].of \in Wizards
        /\ p = "goal" => calls[c].kind = "restore"
    BY <1>2, LeftTypes
  <1>4. p = "goal" /\ goals' = goals + 1 BY <1>2, <1>3, EffectTypes
  <1>5. Pending(c) = {p} \cup {Tail(calls[c].todo)[i] : i \in DOMAIN Tail(calls[c].todo)}
    <2>1. calls[c].todo # <<>> BY <1>2 DEF Busy
    <2> QED BY <1>3, <2>1, TodoTypes DEF Pending
  <1> QED BY <1>3, <1>4, <1>5

\* Every step keeps that a goal is inserted where there is none.
LEMMA GoalStep ==
    ASSUME CallsInv, GoalInv, [Next]_vars
    PROVE  GoalInv'
  <1>1. CASE UNCHANGED <<goals, calls, overlap>> BY <1>1 DEF GoalInv, Pending
  <1>2. ASSUME NEW u \in Sessions,
               Start(u) \/ Answer(u) \/ \E q \in Questions : AnswerNamed(u, q)
        PROVE  GoalInv'
    BY <1>1, <1>2 DEF Start, Answer, AnswerNamed
  <1>3. ASSUME NEW c \in Calls, CallSteps(c) PROVE GoalInv'
    <2> SUFFICES ASSUME "backup" \notin overlap'
                 PROVE  /\ \A d, e \in Calls :
                              calls'[d].kind = "restore" /\ calls'[e].kind = "restore" => d = e
                        /\ goals' \in {0, 1}
                        /\ \A d \in Calls : calls'[d].kind = "restore" /\ "goal" \in Pending(d)'
                                              => goals' = 0
      BY DEF GoalInv
    <2>1. \A d \in Calls \ {c} : calls'[d] = calls[d] BY <1>3, CallSteppedTypes
    <2>2. overlap \subseteq overlap'
      BY <1>3 DEF CallSteps, Proceed, AskResult, Analyse, WritePart, WriteRaises, Close,
                  Restored, ReadPart, BackedUp, Restore, Backup, ReadRaises
    <2>3. /\ \A d, e \in Calls : calls[d].kind = "restore" /\ calls[e].kind = "restore" => d = e
          /\ goals \in {0, 1}
          /\ \A d \in Calls : calls[d].kind = "restore" /\ "goal" \in Pending(d) => goals = 0
      BY <2>2 DEF GoalInv
    <2>4. goals' \in {0, 1} BY <1>3, <2>3, GoalsStep
    <2>5. ASSUME calls'[c].kind = "restore", calls[c].kind # "restore"
          PROVE  \A d \in Calls : calls[d].kind # "restore"
      <3>1. Restore(c) BY <1>3, <2>5, KindStep
      <3> QED BY <3>1 DEF Restore
    <2>6. ASSUME NEW d \in Calls, NEW e \in Calls, calls'[d].kind = "restore",
                 calls'[e].kind = "restore"
          PROVE  d = e
      BY <2>1, <2>3, <2>5, <2>6
    <2>7. ASSUME NEW d \in Calls, calls'[d].kind = "restore", "goal" \in Pending(d)'
          PROVE  goals' = 0
      <3>1. CASE d = c BY <1>3, <2>3, <2>7, <3>1, GoalPending
      <3>2. CASE d # c
        <4>1. calls[d].kind = "restore" /\ "goal" \in Pending(d)
          BY <2>1, <2>7, <3>2 DEF Pending
        <4>2. calls[c].kind = "restore" => FALSE BY <2>3, <3>2, <4>1
        <4> QED BY <1>3, <2>3, <4>1, <4>2, GoalsStep
      <3> QED BY <3>1, <3>2
    <2> QED BY <2>4, <2>6, <2>7
  <1> QED BY <1>1, <1>2, <1>3 DEF Next, CallSteps, vars

\* However often a result is asked for, the goals and beliefs of a session are inserted once,
\* and the goal of a backup too, unless two such requests were under way at once
\* (_apply_to_system, restore).
THEOREM InsertsAreOnce == Spec => []InsertedOnce
  <1>1. Init => OnceInv /\ GoalInv
    <2> SUFFICES ASSUME Init PROVE OnceInv /\ GoalInv OBVIOUS
    <2>1. Wizards \subseteq Sessions /\ None \notin Sessions
      BY SetupAssumption DEF Sessions, SetupAssumption
    <2>2. \A c \in Calls : calls[c].of = None /\ calls[c].kind = "none"
      BY QuietTypes DEF Init
    <2>3. inserts = [s \in Sessions |-> 0] /\ goals = 0 BY DEF Init
    <2> QED BY <2>1, <2>2, <2>3 DEF OnceInv, OnceFor, GoalInv
  <1>2. OnceInv /\ GoalInv => InsertedOnce
    <2> SUFFICES ASSUME OnceInv, GoalInv PROVE InsertedOnce OBVIOUS
    <2>1. ASSUME NEW s \in Sessions, inserts[s] > 1 PROVE s \in overlap
      BY <2>1 DEF OnceInv, OnceFor
    <2>2. ASSUME goals > 1 PROVE "backup" \in overlap BY <2>2 DEF GoalInv
    <2> QED BY <2>1, <2>2 DEF InsertedOnce
  <1> QED BY <1>1, <1>2, CallsInit, CallsStep, OnceStep, GoalStep, PTL DEF Spec
=============================================================================
