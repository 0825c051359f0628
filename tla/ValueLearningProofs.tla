-------------------------- MODULE ValueLearningProofs --------------------------
(***************************************************************************)
(* Theorems about the weights of the values, for any values, levels,       *)
(* callers, ideals and faults.                                             *)
(***************************************************************************)
EXTENDS ValueLearning, TLAPS

CallTypes == [at : Places, kind : Kinds, copy : Weights \cup {None},
              aim : Ideals \cup {None}, todo : SUBSET Values]

\* Who is about to use a copy or an ideal has read one.
HasRead(k) ==
    /\ k.at \in {"keep", "rate", "aim", "rows", "step"} => k.copy \in Weights
    /\ k.at \in {"rows", "step"} => k.aim \in Ideals

TypeInv == TypeOK /\ \A c \in Callers : HasRead(call[c])

\* The bounds of the levels.
LEMMA LevelTypes ==
    /\ MaxWeight \in Nat
    /\ \A w \in 0..MaxWeight, d \in {1, -1} : Adjusted(w, d) \in 0..MaxWeight
    /\ \A w, i \in 0..MaxWeight : Toward(w, i) \in 0..MaxWeight
    /\ \A w \in Weights, v \in Values, n \in 0..MaxWeight : [w EXCEPT ![v] = n] \in Weights
    /\ \A w \in Weights, v \in Values : w[v] \in 0..MaxWeight
    /\ Backup \in Weights /\ Seed \in Weights /\ DefaultIdeal \in Ideals /\ Ideals \subseteq Weights
  <1>1. MaxWeight \in Nat BY LearningAssumption DEF LearningAssumption
  <1>2. \A w \in 0..MaxWeight, d \in {1, -1} : Adjusted(w, d) \in 0..MaxWeight
    BY <1>1 DEF Adjusted
  <1>3. \A w, i \in 0..MaxWeight : Toward(w, i) \in 0..MaxWeight BY <1>1 DEF Toward
  <1> QED BY <1>1, <1>2, <1>3, LearningAssumption DEF Weights, LearningAssumption

\* A coroutine in no call.
LEMMA IdleTypes == Idle \in CallTypes /\ HasRead(Idle) /\ Idle.at = "idle"
  BY DEF Idle, CallTypes, Places, Kinds, HasRead

\* One coroutine's place changes.
LEMMA CallChanges ==
    ASSUME TypeInv, NEW c \in Callers, NEW k \in CallTypes, HasRead(k),
           call' = [call EXCEPT ![c] = k]
    PROVE  /\ call' \in [Callers -> CallTypes] /\ \A d \in Callers : HasRead(call'[d])
           /\ call'[c] = k /\ \A d \in Callers \ {c} : call'[d] = call[d]
  BY DEF TypeInv, TypeOK, CallTypes

\* A coroutine comes to a place with what it has read and has to write.
LEMMA BecomesTypes ==
    ASSUME TypeInv, NEW c \in Callers, NEW p \in Places, NEW w \in Weights \cup {None},
           NEW i \in Ideals \cup {None}, NEW todo \in SUBSET Values,
           p \in {"keep", "rate", "aim", "rows", "step"} => w \in Weights,
           p \in {"rows", "step"} => i \in Ideals,
           Becomes(c, p, w, i, todo)
    PROVE  /\ call' \in [Callers -> CallTypes] /\ \A d \in Callers : HasRead(call'[d])
           /\ call'[c].at = p /\ call'[c].copy = w /\ call'[c].aim = i /\ call'[c].todo = todo
           /\ \A d \in Callers \ {c} : call'[d] = call[d]
  <1>1. PICK k : k = [at |-> p, kind |-> call[c].kind, copy |-> w, aim |-> i, todo |-> todo]
    OBVIOUS
  <1>2. call[c].kind \in Kinds BY DEF TypeInv, TypeOK
  <1>3. k \in CallTypes /\ HasRead(k) BY <1>1, <1>2 DEF CallTypes, HasRead
  <1>4. call' = [call EXCEPT ![c] = k] BY <1>1 DEF Becomes
  <1>5. k.at = p /\ k.copy = w /\ k.aim = i /\ k.todo = todo BY <1>1
  <1> QED BY <1>3, <1>4, <1>5, CallChanges

\* A coroutine goes on, with what it has.
LEMMA GotoTypes ==
    ASSUME TypeInv, NEW c \in Callers, NEW p \in Places, Goto(c, p),
           p \in {"keep", "rate", "aim", "rows", "step"} => call[c].copy \in Weights,
           p \in {"rows", "step"} => call[c].aim \in Ideals
    PROVE  /\ call' \in [Callers -> CallTypes] /\ \A d \in Callers : HasRead(call'[d])
           /\ call'[c].at = p
           /\ \A d \in Callers \ {c} : call'[d] = call[d]
  <1>1. call[c] \in CallTypes /\ call \in [Callers -> CallTypes] BY DEF TypeInv, TypeOK, CallTypes
  <1>2. PICK k : k = [call[c] EXCEPT !.at = p] OBVIOUS
  <1>3. k \in CallTypes /\ HasRead(k) /\ k.at = p BY <1>1, <1>2 DEF CallTypes, HasRead
  <1>4. call' = [call EXCEPT ![c] = k] BY <1>1, <1>2 DEF Goto
  <1> QED BY <1>3, <1>4, CallChanges

\* A coroutine returns.
LEMMA ReturnTypes ==
    ASSUME TypeInv, NEW c \in Callers, Return(c)
    PROVE  /\ call' \in [Callers -> CallTypes] /\ \A d \in Callers : HasRead(call'[d])
           /\ call'[c] = Idle /\ \A d \in Callers \ {c} : call'[d] = call[d]
  BY IdleTypes, CallChanges DEF Return

\* A coroutine that writes its rows has one less, or is done.
LEMMA NextRowTypes ==
    ASSUME TypeInv, NEW c \in Callers, NEW v \in call[c].todo, NextRow(c, v)
    PROVE  /\ call' \in [Callers -> CallTypes] /\ \A d \in Callers : HasRead(call'[d])
           /\ \A d \in Callers \ {c} : call'[d] = call[d]
           /\ \/ call'[c] = Idle /\ call[c].todo = {v}
              \/ /\ call'[c].at = call[c].at /\ call'[c].copy = call[c].copy
                 /\ call'[c].aim = call[c].aim /\ call'[c].todo = call[c].todo \ {v}
  <1>1. CASE Return(c) /\ call[c].todo = {v} BY <1>1, ReturnTypes
  <1>2. CASE call' = [call EXCEPT ![c].todo = call[c].todo \ {v}]
    <2>1. call[c] \in CallTypes /\ call \in [Callers -> CallTypes] /\ HasRead(call[c])
      BY DEF TypeInv, TypeOK, CallTypes
    <2>2. PICK k : k = [call[c] EXCEPT !.todo = call[c].todo \ {v}] OBVIOUS
    <2>3. k \in CallTypes /\ HasRead(k) BY <2>1, <2>2 DEF CallTypes, HasRead
    <2>4. call' = [call EXCEPT ![c] = k] BY <1>2, <2>1, <2>2
    <2>5. /\ k.at = call[c].at /\ k.copy = call[c].copy /\ k.aim = call[c].aim
          /\ k.todo = call[c].todo \ {v}
      BY <2>1, <2>2 DEF CallTypes
    <2> QED BY <2>3, <2>4, <2>5, CallChanges
  <1> QED BY <1>1, <1>2 DEF NextRow

\* The rows others wrote, and the caller's own.
LEMMA TouchTypes ==
    ASSUME TypeInv, NEW c \in Callers, NEW v \in Values, Touch(c, v)
    PROVE  /\ touched' \in [Callers -> SUBSET Values]
           /\ touched'[c] = touched[c] \ {v}
           /\ \A d \in Callers \ {c} :
                 touched'[d] = IF v \in call[d].todo /\ call[d].at = "step"
                               THEN touched[d] \cup {v} ELSE touched[d]
  BY DEF Touch, TypeInv, TypeOK

\* A row that a gradient or another writer writes behind the cache.
LEMMA WriteBehindTypes ==
    ASSUME TypeInv, NEW c \in Callers, NEW v \in Values, NEW w \in 0..MaxWeight,
           WriteBehind(c, v, w)
    PROVE  /\ weight' \in Weights /\ behind' \subseteq Callers \cup {Shared}
           /\ touched' \in [Callers -> SUBSET Values]
  <1>1. weight \in Weights /\ behind \subseteq Callers \cup {Shared} BY DEF TypeInv, TypeOK
  <1>2. weight' \in Weights BY <1>1, LevelTypes DEF WriteBehind
  <1>3. Holders \subseteq Callers \cup {Shared} BY DEF Holders
  <1>4. behind' \subseteq Callers \cup {Shared} BY <1>1, <1>3 DEF WriteBehind
  <1>5. Touch(c, v) BY DEF WriteBehind
  <1> QED BY <1>2, <1>4, <1>5, TouchTypes

\* The rows a gradient writes, and what it writes into them.
LEMMA StepTypes ==
    ASSUME TypeInv, NEW c \in Callers, StepStays(c) \/ StepMoves(c)
    PROVE  \E v \in call[c].todo :
              /\ v \in Values /\ call[c].at = "step" /\ ideal' = ideal
              /\ call[c].copy \in Weights /\ call[c].aim \in Weights
              /\ NextRow(c, v)
              /\ \E w \in 0..MaxWeight :
                    /\ WriteBehind(c, v, w)
                    /\ w = call[c].copy[v] \/ w = Toward(call[c].copy[v], call[c].aim[v])
  <1>1. PICK v \in call[c].todo : \/ StepTo(c, v, call[c].copy[v])
                                  \/ StepTo(c, v, Toward(call[c].copy[v], call[c].aim[v]))
    BY DEF StepStays, StepMoves
  <1>2. v \in Values /\ call[c].at = "step" /\ NextRow(c, v) /\ ideal' = ideal
    BY <1>1 DEF StepTo, TypeInv, TypeOK
  <1>3. call[c].copy \in Weights /\ call[c].aim \in Weights
    BY <1>2, LevelTypes DEF TypeInv, HasRead
  <1>4. PICK w : /\ WriteBehind(c, v, w)
                 /\ w = call[c].copy[v] \/ w = Toward(call[c].copy[v], call[c].aim[v])
    BY <1>1 DEF StepTo
  <1>5. w \in 0..MaxWeight BY <1>2, <1>3, <1>4, LevelTypes
  <1> QED BY <1>2, <1>3, <1>4, <1>5

\* Where a call stands after a step of it.
LEMMA CallSteps ==
    ASSUME TypeInv, NEW c \in Callers,
           (\E k \in Kinds : Begin(c, k)) \/ Continue(c) \/ Raises(c)
    PROVE  /\ call' \in [Callers -> CallTypes] /\ \A d \in Callers : HasRead(call'[d])
           /\ \A d \in Callers \ {c} : call'[d] = call[d]
  <1>1. /\ call[c] \in CallTypes /\ HasRead(call[c]) /\ weight \in Weights /\ ideal \in Ideals
    BY DEF TypeInv, TypeOK, CallTypes
  <1>2. /\ call[c].copy \in Weights \cup {None} /\ call[c].aim \in Ideals \cup {None}
        /\ call[c].todo \in SUBSET Values
    BY <1>1 DEF CallTypes
  <1>3. ASSUME NEW k \in Kinds, Begin(c, k)
        PROVE  /\ call' \in [Callers -> CallTypes] /\ \A d \in Callers : HasRead(call'[d])
               /\ \A d \in Callers \ {c} : call'[d] = call[d]
    <2>1. FirstPlace[k] \in {"fetch", "write", "gather", "profile", "overwrite"}
      BY DEF FirstPlace, Kinds
    <2>2. PICK todo \in SUBSET Values : todo = IF k \in {"sample", "restore"} THEN Values ELSE {}
      OBVIOUS
    <2>3. PICK l : l = [at |-> FirstPlace[k], kind |-> k, copy |-> None, aim |-> None,
                        todo |-> todo]
      OBVIOUS
    <2>4. l \in CallTypes /\ HasRead(l) BY <2>1, <2>3 DEF CallTypes, HasRead, Places
    <2>5. call' = [call EXCEPT ![c] = l] BY <1>3, <2>2, <2>3 DEF Begin
    <2> QED BY <2>4, <2>5, CallChanges
  <1>4. CASE Fetch(c)
    <2>1. Becomes(c, "keep", weight, call[c].aim, call[c].todo) BY <1>4 DEF Fetch
    <2>2. "keep" \in Places BY DEF Places
    <2> QED BY <1>1, <1>2, <2>1, <2>2, BecomesTypes
  <1>5. CASE Keep(c)
    <2>1. Return(c) \/ Becomes(c, "ask", None, call[c].aim, call[c].todo) BY <1>5 DEF Keep
    <2>2. "ask" \in Places /\ "ask" \notin {"keep", "rate", "aim", "rows", "step"} BY DEF Places
    <2>3. CASE Return(c) BY <2>3, ReturnTypes
    <2>4. CASE Becomes(c, "ask", None, call[c].aim, call[c].todo)
      <3>1. PICK w \in Weights \cup {None} : w = None OBVIOUS
      <3> QED BY <1>1, <1>2, <2>2, <2>4, <3>1, BecomesTypes
    <2> QED BY <2>1, <2>3, <2>4
  <1>6. CASE Write(c) \/ NoEvents(c) \/ AskNothing(c) \/ AskChange(c) \/ Learn(c) \/ Profile(c)
             \/ Clear(c) \/ Gather(c)
    <2>1. \/ Return(c)
          \/ \E p \in {"clear", "write", "weigh", "fetch", "ask", "learn", "overwrite"} : Goto(c, p)
      BY <1>6 DEF Write, Clear, Cleared, Gather, NoEvents, AskNothing, AskChange, Learn, Profile
    <2>2. ASSUME NEW p \in {"clear", "write", "weigh", "fetch", "ask", "learn", "overwrite"},
                 Goto(c, p)
          PROVE  /\ call' \in [Callers -> CallTypes] /\ \A d \in Callers : HasRead(call'[d])
                 /\ \A d \in Callers \ {c} : call'[d] = call[d]
      <3>1. p \in Places /\ p \notin {"keep", "rate", "aim", "rows", "step"} BY DEF Places
      <3> QED BY <2>2, <3>1, GotoTypes
    <2> QED BY <2>1, <2>2, ReturnTypes
  <1>7. CASE Weigh(c)
    <2>1. Becomes(c, "rate", weight, call[c].aim, call[c].todo) BY <1>7 DEF Weigh
    <2>2. "rate" \in Places BY DEF Places
    <2> QED BY <1>1, <1>2, <2>1, <2>2, BecomesTypes
  <1>8. CASE Rate(c)
    <2>1. call[c].copy \in Weights BY <1>1, <1>8 DEF Rate, HasRead
    <2>2. Return(c) \/ Goto(c, "aim") BY <1>8 DEF Rate
    <2> QED BY <2>1, <2>2, GotoTypes, ReturnTypes DEF Places
  <1>9. CASE Aim(c)
    <2>1. call[c].copy \in Weights BY <1>1, <1>9 DEF Aim, HasRead
    <2>2. Becomes(c, "rows", call[c].copy, ideal, call[c].todo) BY <1>9 DEF Aim
    <2>3. "rows" \in Places BY DEF Places
    <2> QED BY <1>1, <1>2, <2>1, <2>2, <2>3, BecomesTypes
  <1>10. CASE Rows(c)
    <2>1. call[c].aim \in Ideals BY <1>1, <1>10 DEF Rows, HasRead
    <2>2. PICK far \in SUBSET Values : Return(c) \/ Becomes(c, "step", weight, call[c].aim, far)
      BY <1>10 DEF Rows
    <2>3. "step" \in Places BY DEF Places
    <2>4. CASE Return(c) BY <2>4, ReturnTypes
    <2>5. CASE Becomes(c, "step", weight, call[c].aim, far)
      BY <1>1, <1>2, <2>1, <2>3, <2>5, BecomesTypes
    <2> QED BY <2>2, <2>4, <2>5
  <1>11. CASE StepStays(c) \/ StepMoves(c) BY <1>11, StepTypes, NextRowTypes
  <1>12. CASE Overwrite(c) BY <1>12, NextRowTypes DEF Overwrite
  <1>13. CASE Raises(c) BY <1>13, ReturnTypes DEF Raises
  <1> QED BY <1>3, <1>4, <1>5, <1>6, <1>7, <1>8, <1>9, <1>10, <1>11, <1>12, <1>13 DEF Continue

\* Every step keeps the types and what has been read.
LEMMA TypeStep == TypeInv /\ [Next]_vars => TypeInv'
  <1> SUFFICES ASSUME TypeInv, [Next]_vars PROVE TypeInv' OBVIOUS
  <1>1. /\ weight \in Weights /\ ideal \in Ideals /\ cache \in Weights \cup {None}
        /\ behind \subseteq Callers \cup {Shared} /\ touched \in [Callers -> SUBSET Values]
        /\ call \in [Callers -> CallTypes]
    BY DEF TypeInv, TypeOK, CallTypes
  <1> DEFINE Others == /\ weight' \in Weights /\ ideal' \in Ideals
                       /\ cache' \in Weights \cup {None}
                       /\ behind' \subseteq Callers \cup {Shared}
                       /\ touched' \in [Callers -> SUBSET Values]
  <1>2. ASSUME NEW c \in Callers,
               (\E k \in Kinds : Begin(c, k)) \/ Continue(c) \/ Raises(c)
        PROVE  Others
    <2>1. ASSUME NEW k \in Kinds, Begin(c, k) PROVE Others BY <1>1, <2>1 DEF Begin
    <2>2. CASE Fetch(c) BY <1>1, <2>2 DEF Fetch
    <2>3. CASE Keep(c) BY <1>1, <2>3 DEF Keep, TypeInv, HasRead
    <2>4. CASE Write(c)
      <3>1. PICK v \in Values, w \in 0..MaxWeight :
                weight' = [weight EXCEPT ![v] = w] /\ Touch(c, v)
        <4>1. PICK v \in Values :
                /\ \E w \in IF call[c].kind = "add" THEN 0..MaxWeight
                            ELSE {Adjusted(weight[v], 1), Adjusted(weight[v], -1)} :
                      weight' = [weight EXCEPT ![v] = w]
                /\ Touch(c, v)
          BY <2>4 DEF Write
        <4>2. weight[v] \in 0..MaxWeight BY <1>1, LevelTypes
        <4>3. /\ Adjusted(weight[v], 1) \in 0..MaxWeight
              /\ Adjusted(weight[v], -1) \in 0..MaxWeight
          BY <4>2, LevelTypes
        <4> QED BY <4>1, <4>3
      <3>2. weight' \in Weights BY <1>1, <3>1, LevelTypes
      <3>3. touched' \in [Callers -> SUBSET Values] BY <3>1, TouchTypes
      <3> QED BY <1>1, <2>4, <3>2, <3>3 DEF Write
    <2>5. CASE Clear(c) BY <1>1, <2>5 DEF Clear
    <2>6. CASE Gather(c) \/ NoEvents(c) \/ AskNothing(c) \/ AskChange(c) \/ Learn(c) \/ Weigh(c)
               \/ Rate(c) \/ Aim(c) \/ Rows(c)
      BY <1>1, <2>6 DEF Gather, NoEvents, AskNothing, AskChange, Learn, Weigh, Rate, Aim, Rows
    <2>7. CASE StepStays(c) \/ StepMoves(c)
      <3>1. PICK v \in Values, w \in 0..MaxWeight : WriteBehind(c, v, w) /\ ideal' = ideal
        BY <2>7, StepTypes
      <3>2. cache' = cache BY <3>1 DEF WriteBehind
      <3> QED BY <1>1, <3>1, <3>2, WriteBehindTypes
    <2>8. CASE Profile(c) BY <1>1, <2>8, LevelTypes DEF Profile
    <2>9. CASE Overwrite(c)
      <3>1. PICK v \in call[c].todo : WriteBehind(c, v, Backup[v]) BY <2>9 DEF Overwrite
      <3>2. v \in Values BY <1>1 DEF CallTypes
      <3>3. Backup[v] \in 0..MaxWeight BY <3>2, LevelTypes
      <3>4. cache' = cache /\ ideal' = ideal BY <2>9, <3>1 DEF Overwrite, WriteBehind
      <3> QED BY <1>1, <3>1, <3>2, <3>3, <3>4, WriteBehindTypes
    <2>10. CASE Raises(c)
      <3>1. Holders \subseteq Callers \cup {Shared} BY DEF Holders
      <3> QED BY <1>1, <2>10, <3>1 DEF Raises
    <2> QED BY <1>2, <2>1, <2>2, <2>3, <2>4, <2>5, <2>6, <2>7, <2>8, <2>9, <2>10 DEF Continue
  <1>3. CASE Import
    BY <1>1, <1>3 DEF Import, TypeInv, TypeOK
  <1>4. CASE Crash BY <1>1, <1>4, IdleTypes DEF Crash, TypeInv, TypeOK, CallTypes
  <1>5. CASE UNCHANGED vars BY <1>5 DEF vars, TypeInv, TypeOK
  <1>6. ASSUME NEW c \in Callers,
               (\E k \in Kinds : Begin(c, k)) \/ Continue(c) \/ Raises(c)
        PROVE  TypeInv'
    BY <1>2, <1>6, CallSteps DEF TypeInv, TypeOK, CallTypes
  <1> QED BY <1>3, <1>4, <1>5, <1>6 DEF Next

\* The weights stay within 0.0 and 1.0, in the table, the cache, and every copy, ideal and step
\* of a gradient (adjust_weight's LEAST and GREATEST, _gradient_step).
THEOREM LearningTypes == Spec => []TypeOK
  <1>1. Init => TypeInv
    BY LevelTypes, IdleTypes DEF Init, TypeInv, TypeOK, CallTypes
  <1>2. TypeInv => TypeOK BY DEF TypeInv
  <1> QED BY <1>1, <1>2, TypeStep, PTL DEF Spec

-----------------------------------------------------------------------------
(* Copies *)

\* The cache, if it holds anything, has what the table has, or is left behind.
CacheFollows == cache = None \/ cache = weight \/ Shared \in behind

\* So does what a load has read and is about to keep.
LoadsFollow == \A c \in Callers : call[c].at = "keep" => call[c].copy = weight \/ c \in behind

Clearing == \E c \in Callers : call[c].at = "clear"

\* A step of a call that writes nothing and leaves the loads' copies alone, while nobody is
\* about to clear the cache.
LEMMA CopiesKept ==
    ASSUME TypeInv, NEW c \in Callers, CacheFollows, LoadsFollow,
           \A d \in Callers \ {c} : call'[d] = call[d], call'[c].at # "keep",
           weight' = weight, cache' = cache, behind \ {c} \subseteq behind'
    PROVE  CacheFollows' /\ LoadsFollow'
  <1>1. Shared # c BY LearningAssumption DEF LearningAssumption
  <1>2. CacheFollows' BY <1>1 DEF CacheFollows
  <1>3. ASSUME NEW d \in Callers, call'[d].at = "keep" PROVE call'[d].copy = weight' \/ d \in behind'
    BY <1>3 DEF LoadsFollow
  <1> QED BY <1>2, <1>3 DEF LoadsFollow

\* A row that is written behind the cache leaves every copy behind.
LEMMA CopiesBehind ==
    ASSUME TypeInv, NEW c \in Callers, CacheFollows, LoadsFollow, NEW v \in Values, NEW w,
           WriteBehind(c, v, w),
           \A d \in Callers \ {c} : call'[d] = call[d], call'[c].at # "keep"
    PROVE  CacheFollows' /\ LoadsFollow'
  <1>1. weight \in Weights /\ cache' = cache BY DEF WriteBehind, TypeInv, TypeOK
  <1>2. CASE w = weight[v]
    <2>1. weight' = weight BY <1>1, <1>2 DEF WriteBehind, Weights
    <2>2. behind' = behind BY <1>2 DEF WriteBehind
    <2> QED BY <1>1, <2>1, <2>2, CopiesKept
  <1>3. CASE w # weight[v]
    <2>1. behind' = behind \cup Holders BY <1>3 DEF WriteBehind
    <2>2. CacheFollows' BY <1>1, <2>1 DEF Holders, CacheFollows
    <2>3. ASSUME NEW d \in Callers, call'[d].at = "keep" PROVE d \in behind'
      BY <2>1, <2>3 DEF Holders
    <2> QED BY <2>2, <2>3 DEF LoadsFollow
  <1> QED BY <1>2, <1>3

\* The end of ValueSystem's write: the cache is empty, or the write has left every copy behind.
LEMMA CopiesCleared ==
    ASSUME TypeInv, NEW c \in Callers, Clear(c) \/ (Raises(c) /\ call[c].at = "clear"),
           \A d \in Callers \ {c} : call'[d] = call[d]
    PROVE  CacheFollows' /\ LoadsFollow'
  <1>1. call[c].at = "clear" BY DEF Clear
  <1>2. Shared \notin Callers BY LearningAssumption DEF LearningAssumption
  <1>3. call'[c].at # "keep"
    <2>1. CASE Return(c) BY <2>1, ReturnTypes, IdleTypes
    <2>2. CASE Goto(c, "write") \/ Goto(c, "weigh") BY <2>2 DEF Goto, TypeInv, TypeOK
    <2> QED BY <2>1, <2>2 DEF Clear, Cleared, Raises
  <1>4. ASSUME NEW d \in Callers, call'[d].at = "keep" PROVE d \in behind'
    <2>1. d # c /\ call[d].at = "keep" BY <1>3, <1>4
    <2> QED BY <1>1, <1>2, <2>1 DEF Clear, Raises, Holders
  <1>5. CacheFollows'
    <2>1. CASE Clear(c) BY <2>1 DEF Clear, CacheFollows
    <2>2. CASE Raises(c) BY <1>1, <2>2 DEF Raises, Holders, CacheFollows
    <2> QED BY <2>1, <2>2
  <1> QED BY <1>4, <1>5 DEF LoadsFollow

\* Every step keeps the copies, or is between a write and its clearing.
LEMMA CopyStep ==
    ASSUME TypeInv, CopyAgrees, [Next]_vars
    PROVE  CopyAgrees'
  <1>1. Shared \notin Callers BY LearningAssumption DEF LearningAssumption
  <1>2. ASSUME CacheFollows', LoadsFollow' PROVE CopyAgrees'
    BY <1>2 DEF CopyAgrees, CacheFollows, LoadsFollow
  <1>3. Clearing \/ (CacheFollows /\ LoadsFollow)
    BY DEF CopyAgrees, CacheFollows, LoadsFollow, Clearing
  <1>4. Clearing' => CopyAgrees' BY DEF CopyAgrees, Clearing
  <1>5. ASSUME NEW c \in Callers,
               (\E k \in Kinds : Begin(c, k)) \/ Continue(c) \/ Raises(c)
        PROVE  CopyAgrees'
    <2>1. \A d \in Callers \ {c} : call'[d] = call[d] BY <1>5, CallSteps
    <2>2. CASE Clear(c) \/ (Raises(c) /\ call[c].at = "clear")
      BY <1>2, <2>1, <2>2, CopiesCleared
    <2>3. CASE Write(c)
      <3>1. call'[c].at = "clear" BY <2>3 DEF Write, Goto, TypeInv, TypeOK
      <3> QED BY <1>4, <3>1 DEF Clearing
    <2>4. CASE ~Clear(c) /\ call[c].at = "clear" /\ ~Raises(c)
      BY <1>5, <2>4
         DEF Continue, Begin, Fetch, Keep, Write, Gather, NoEvents, AskNothing, AskChange, Learn,
             Weigh, Rate, Aim, Rows, StepStays, StepMoves, StepTo, Profile, Overwrite
    <2>5. CASE call[c].at # "clear" /\ Clearing
      <3>1. PICK d \in Callers : call[d].at = "clear" BY <2>5 DEF Clearing
      <3>2. call'[d].at = "clear" BY <2>1, <2>5, <3>1
      <3> QED BY <1>4, <3>2 DEF Clearing
    <2>6. CASE call[c].at # "clear" /\ CacheFollows /\ LoadsFollow /\ ~Write(c)
      <3>1. ASSUME call'[c].at # "keep", weight' = weight, cache' = cache,
                   behind \ {c} \subseteq behind'
            PROVE  CopyAgrees'
        BY <1>2, <2>1, <2>6, <3>1, CopiesKept
      <3>2. ASSUME NEW k \in Kinds, Begin(c, k) PROVE CopyAgrees'
        <4>1. call'[c].at # "keep"
          BY <3>2 DEF Begin, FirstPlace, Kinds, TypeInv, TypeOK
        <4> QED BY <3>1, <3>2, <4>1 DEF Begin
      <3>3. CASE Fetch(c)
        <4>1. call'[c].copy = weight /\ weight' = weight /\ cache' = cache /\ behind' = behind \ {c}
          BY <3>3 DEF Fetch, Becomes, TypeInv, TypeOK
        <4>2. CacheFollows' BY <1>1, <2>6, <4>1 DEF CacheFollows
        <4>3. LoadsFollow' BY <2>1, <2>6, <4>1 DEF LoadsFollow
        <4> QED BY <1>2, <4>2, <4>3
      <3>4. CASE Keep(c)
        <4>1. /\ cache' = call[c].copy /\ call[c].at = "keep" /\ weight' = weight
              /\ behind' = (IF c \in behind THEN behind \cup {Shared} ELSE behind \ {Shared}) \ {c}
          BY <3>4 DEF Keep
        <4>2. call[c].copy = weight \/ c \in behind BY <2>6, <4>1 DEF LoadsFollow
        <4>3. CacheFollows' BY <1>1, <4>1, <4>2 DEF CacheFollows
        <4>4. call'[c].at # "keep"
          <5>1. CASE Return(c) BY <5>1, ReturnTypes, IdleTypes
          <5>2. CASE Becomes(c, "ask", None, call[c].aim, call[c].todo)
            BY <5>2 DEF Becomes, TypeInv, TypeOK
          <5> QED BY <3>4, <5>1, <5>2 DEF Keep
        <4>5. ASSUME NEW d \in Callers, call'[d].at = "keep"
              PROVE  call'[d].copy = weight' \/ d \in behind'
          BY <1>1, <2>1, <2>6, <4>1, <4>4, <4>5 DEF LoadsFollow
        <4> QED BY <1>2, <4>3, <4>5 DEF LoadsFollow
      <3>5. CASE Gather(c) \/ NoEvents(c) \/ AskNothing(c) \/ AskChange(c) \/ Learn(c)
                 \/ Weigh(c) \/ Rate(c) \/ Aim(c) \/ Rows(c) \/ Profile(c)
        <4>1. call'[c].at # "keep"
          <5>1. CASE Return(c) BY <5>1, ReturnTypes, IdleTypes
          <5>2. ASSUME NEW p, p # "keep", Goto(c, p) PROVE call'[c].at # "keep"
            BY <5>2 DEF Goto, TypeInv, TypeOK
          <5>3. ASSUME NEW p, p # "keep", NEW w, NEW i, NEW todo, Becomes(c, p, w, i, todo)
                PROVE  call'[c].at # "keep"
            BY <5>3 DEF Becomes, TypeInv, TypeOK
          <5>4. CASE Weigh(c)
            <6>1. Becomes(c, "rate", weight, call[c].aim, call[c].todo) BY <5>4 DEF Weigh
            <6> QED BY <5>3, <6>1
          <5>5. CASE Aim(c)
            <6>1. Becomes(c, "rows", call[c].copy, ideal, call[c].todo) BY <5>5 DEF Aim
            <6> QED BY <5>3, <6>1
          <5>6. CASE Rows(c)
            <6>1. PICK far : Return(c) \/ Becomes(c, "step", weight, call[c].aim, far)
              BY <5>6 DEF Rows
            <6> QED BY <5>1, <5>3, <6>1
          <5>7. CASE Gather(c) BY <5>2, <5>7 DEF Gather
          <5>8. CASE NoEvents(c) \/ Learn(c) BY <5>1, <5>8 DEF NoEvents, Learn
          <5>9. CASE AskNothing(c) \/ AskChange(c) \/ Profile(c)
            BY <5>2, <5>9 DEF AskNothing, AskChange, Profile
          <5>10. CASE Rate(c) BY <5>1, <5>2, <5>10 DEF Rate
          <5> QED BY <3>5, <5>4, <5>5, <5>6, <5>7, <5>8, <5>9, <5>10
        <4> QED BY <3>1, <3>5, <4>1
                DEF Gather, NoEvents, AskNothing, AskChange, Learn, Weigh, Rate, Aim, Rows, Profile
      <3>6. ASSUME NEW v \in call[c].todo, NEW w, WriteBehind(c, v, w), NextRow(c, v),
                   call[c].at # "keep"
            PROVE  CopyAgrees'
        <4>1. v \in Values BY DEF TypeInv, TypeOK
        <4>2. call'[c].at # "keep" BY <3>6, NextRowTypes, IdleTypes
        <4> QED BY <1>2, <2>1, <2>6, <3>6, <4>1, <4>2, CopiesBehind
      <3>7. CASE StepStays(c) \/ StepMoves(c) BY <3>6, <3>7, StepTypes
      <3>8. CASE Overwrite(c) BY <3>6, <3>8 DEF Overwrite
      <3>9. CASE Raises(c)
        <4>1. Return(c) /\ weight' = weight /\ cache' = cache /\ behind' = behind \ {c}
          BY <2>6, <3>9 DEF Raises
        <4>2. call'[c].at # "keep" BY <4>1, ReturnTypes, IdleTypes
        <4> QED BY <3>1, <4>1, <4>2
      <3> QED BY <1>5, <2>6, <3>2, <3>3, <3>4, <3>5, <3>7, <3>8, <3>9, <2>2 DEF Continue
    <2> QED BY <1>3, <2>2, <2>3, <2>4, <2>5, <2>6
  <1>6. CASE Import
    BY <1>6 DEF Import, CopyAgrees
  <1>7. CASE Crash BY <1>2, <1>7, IdleTypes DEF Crash, CacheFollows, LoadsFollow
  <1>8. CASE UNCHANGED vars BY <1>8 DEF vars, CopyAgrees
  <1> QED BY <1>5, <1>6, <1>7, <1>8 DEF Next

\* A copy of the weights is the table's but for the time between a write and its clearing, or
\* when a write left it behind (ValueSystem.load, add, adjust_weight, and the writers that know
\* nothing of its cache).
THEOREM CopiesAgree == Spec => []CopyAgrees
  <1>1. Init => TypeInv /\ CopyAgrees
    BY LevelTypes, IdleTypes DEF Init, TypeInv, TypeOK, CallTypes, CopyAgrees
  <1> QED BY <1>1, TypeStep, CopyStep, PTL DEF Spec

-----------------------------------------------------------------------------
(* The gradient *)

\* A gradient has read every row it has still to write as it is, unless others wrote it since.
ReadAsIs ==
    \A c \in Callers : call[c].at = "step" =>
        \A v \in call[c].todo : call[c].copy[v] = weight[v] \/ v \in touched[c]

\* A row that is written is news to every gradient over it.
LEMMA ReadAsIsTouched ==
    ASSUME TypeInv, ReadAsIs, NEW c \in Callers, NEW v \in Values, NEW w,
           weight' = [weight EXCEPT ![v] = w], Touch(c, v),
           \A d \in Callers \ {c} : call'[d] = call[d],
           \/ call'[c].at # "step"
           \/ /\ call[c].at = "step" /\ call'[c].copy = call[c].copy
              /\ call'[c].todo = call[c].todo \ {v}
    PROVE  ReadAsIs'
  <1> SUFFICES ASSUME NEW d \in Callers, call'[d].at = "step", NEW u \in call'[d].todo
               PROVE  call'[d].copy[u] = weight'[u] \/ u \in touched'[d]
    BY DEF ReadAsIs
  <1>1. /\ touched'[c] = touched[c] \ {v}
        /\ \A e \in Callers \ {c} :
              touched'[e] = IF v \in call[e].todo /\ call[e].at = "step"
                            THEN touched[e] \cup {v} ELSE touched[e]
    BY TouchTypes
  <1>2. \A x \in Values : x # v => weight'[x] = weight[x] BY DEF TypeInv, TypeOK, Weights
  <1>3. CASE d = c
    <2>1. /\ call[c].at = "step" /\ call'[c].copy = call[c].copy /\ u \in call[c].todo /\ u # v
      BY <1>3
    <2>2. u \in Values BY <2>1 DEF TypeInv, TypeOK
    <2> QED BY <1>1, <1>2, <1>3, <2>1, <2>2 DEF ReadAsIs
  <1>4. CASE d # c
    <2>1. call'[d] = call[d] /\ u \in call[d].todo /\ call[d].at = "step" BY <1>4
    <2>2. u \in Values BY <2>1 DEF TypeInv, TypeOK
    <2>3. CASE u = v BY <1>1, <1>4, <2>1, <2>3
    <2>4. CASE u # v
      <3>1. weight'[u] = weight[u] BY <1>2, <2>2, <2>4
      <3>2. call[d].copy[u] = weight[u] \/ u \in touched[d] BY <2>1 DEF ReadAsIs
      <3>3. u \in touched[d] => u \in touched'[d] BY <1>1, <1>4
      <3> QED BY <2>1, <3>1, <3>2, <3>3
    <2> QED BY <2>3, <2>4
  <1> QED BY <1>3, <1>4

\* A step that writes no row and begins no gradient.
LEMMA ReadAsIsKept ==
    ASSUME TypeInv, ReadAsIs, NEW c \in Callers, weight' = weight,
           \A d \in Callers \ {c} : call'[d] = call[d] /\ touched'[d] = touched[d],
           call'[c].at # "step"
    PROVE  ReadAsIs'
  BY DEF ReadAsIs

\* Every step keeps what the gradients have read.
LEMMA ReadAsIsStep ==
    ASSUME TypeInv, ReadAsIs, [Next]_vars
    PROVE  ReadAsIs'
  <1>1. ASSUME NEW c \in Callers,
               (\E k \in Kinds : Begin(c, k)) \/ Continue(c) \/ Raises(c)
        PROVE  ReadAsIs'
    <2>1. \A d \in Callers \ {c} : call'[d] = call[d] BY <1>1, CallSteps
    <2>2. ASSUME weight' = weight, touched' = touched, call'[c].at # "step" PROVE ReadAsIs'
      BY <2>1, <2>2, ReadAsIsKept
    <2>3. ASSUME Return(c) PROVE call'[c].at # "step" BY <2>3, ReturnTypes, IdleTypes
    <2>4. ASSUME NEW p, p # "step", Goto(c, p) PROVE call'[c].at # "step"
      BY <2>4 DEF Goto, TypeInv, TypeOK
    <2>5. ASSUME NEW p, p # "step", NEW w, NEW i, NEW todo, Becomes(c, p, w, i, todo)
          PROVE  call'[c].at # "step"
      BY <2>5 DEF Becomes, TypeInv, TypeOK
    <2>6. ASSUME NEW k \in Kinds, Begin(c, k) PROVE ReadAsIs'
      <3>1. call'[c].at # "step" BY <2>6 DEF Begin, FirstPlace, Kinds, TypeInv, TypeOK
      <3> QED BY <2>2, <2>6, <3>1 DEF Begin
    <2>7. CASE Fetch(c)
      <3>1. Becomes(c, "keep", weight, call[c].aim, call[c].todo) BY <2>7 DEF Fetch
      <3> QED BY <2>2, <2>5, <2>7, <3>1 DEF Fetch
    <2>8. CASE Keep(c)
      <3>1. Return(c) \/ Becomes(c, "ask", None, call[c].aim, call[c].todo) BY <2>8 DEF Keep
      <3>2. call'[c].at # "step" BY <2>3, <2>5, <3>1
      <3> QED BY <2>2, <2>8, <3>2 DEF Keep
    <2>9. CASE Write(c)
      <3>1. PICK v \in Values : /\ \E w : weight' = [weight EXCEPT ![v] = w]
                                /\ Touch(c, v)
        BY <2>9 DEF Write
      <3>2. PICK w : weight' = [weight EXCEPT ![v] = w] BY <3>1
      <3>3. call'[c].at # "step" BY <2>4, <2>9 DEF Write
      <3> QED BY <2>1, <3>1, <3>2, <3>3, ReadAsIsTouched
    <2>10. CASE Clear(c)
      <3>1. call'[c].at # "step" BY <2>3, <2>4, <2>10 DEF Clear, Cleared
      <3> QED BY <2>2, <2>10, <3>1 DEF Clear
    <2>11. CASE Gather(c) \/ AskNothing(c) \/ AskChange(c) \/ Profile(c)
      <3>1. call'[c].at # "step" BY <2>4, <2>11 DEF Gather, AskNothing, AskChange, Profile
      <3> QED BY <2>2, <2>11, <3>1 DEF Gather, AskNothing, AskChange, Profile
    <2>12. CASE NoEvents(c) \/ Learn(c) BY <2>2, <2>3, <2>12 DEF NoEvents, Learn
    <2>13. CASE Weigh(c)
      <3>1. Becomes(c, "rate", weight, call[c].aim, call[c].todo) BY <2>13 DEF Weigh
      <3> QED BY <2>2, <2>5, <2>13, <3>1 DEF Weigh
    <2>14. CASE Rate(c)
      <3>1. call'[c].at # "step" BY <2>3, <2>4, <2>14 DEF Rate
      <3> QED BY <2>2, <2>14, <3>1 DEF Rate
    <2>15. CASE Aim(c)
      <3>1. Becomes(c, "rows", call[c].copy, ideal, call[c].todo) BY <2>15 DEF Aim
      <3> QED BY <2>2, <2>5, <2>15, <3>1 DEF Aim
    <2>16. CASE Rows(c)
      <3>1. weight' = weight /\ touched' = touched BY <2>16 DEF Rows
      <3>2. PICK far : Return(c) \/ Becomes(c, "step", weight, call[c].aim, far)
        BY <2>16 DEF Rows
      <3>3. CASE Return(c) BY <2>2, <2>3, <3>1, <3>3
      <3>4. CASE Becomes(c, "step", weight, call[c].aim, far)
        <4>1. call'[c].copy = weight BY <3>4 DEF Becomes, TypeInv, TypeOK
        <4> QED BY <2>1, <3>1, <4>1 DEF ReadAsIs
      <3> QED BY <3>2, <3>3, <3>4
    <2>17. CASE StepStays(c) \/ StepMoves(c)
      <3>1. PICK v \in call[c].todo : /\ v \in Values /\ call[c].at = "step" /\ NextRow(c, v)
                                      /\ \E w \in 0..MaxWeight : WriteBehind(c, v, w)
        BY <2>17, StepTypes
      <3>2. PICK w : weight' = [weight EXCEPT ![v] = w] /\ Touch(c, v)
        BY <3>1 DEF WriteBehind
      <3>3. \/ call'[c].at # "step"
            \/ /\ call[c].at = "step" /\ call'[c].copy = call[c].copy
               /\ call'[c].todo = call[c].todo \ {v}
        BY <3>1, NextRowTypes, IdleTypes
      <3> QED BY <2>1, <3>1, <3>2, <3>3, ReadAsIsTouched
    <2>18. CASE Overwrite(c)
      <3>1. PICK v \in call[c].todo : /\ weight' = [weight EXCEPT ![v] = Backup[v]] /\ Touch(c, v)
                                      /\ NextRow(c, v) /\ call[c].at = "overwrite"
        BY <2>18 DEF Overwrite, WriteBehind
      <3>2. v \in Values BY DEF TypeInv, TypeOK
      <3>3. call'[c].at # "step" BY <3>1, NextRowTypes, IdleTypes
      <3> QED BY <2>1, <3>1, <3>2, <3>3, ReadAsIsTouched
    <2>19. CASE Raises(c)
      <3>1. call'[c].at # "step" /\ weight' = weight BY <2>3, <2>19 DEF Raises
      <3>2. \A d \in Callers \ {c} : touched'[d] = touched[d]
        BY <2>19 DEF Raises, TypeInv, TypeOK
      <3> QED BY <2>1, <3>1, <3>2, ReadAsIsKept
    <2> QED BY <1>1, <2>6, <2>7, <2>8, <2>9, <2>10, <2>11, <2>12, <2>13, <2>14, <2>15, <2>16,
               <2>17, <2>18, <2>19 DEF Continue
  <1>2. CASE Import BY <1>2 DEF Import, ReadAsIs
  <1>3. CASE Crash BY <1>3, IdleTypes DEF Crash, ReadAsIs
  <1>4. CASE UNCHANGED vars BY <1>4 DEF vars, ReadAsIs
  <1> QED BY <1>1, <1>2, <1>3, <1>4 DEF Next

\* Where a gradient's step takes a row.
LEMMA GradientStep ==
    ASSUME TypeInv, ReadAsIs, NEW c \in Callers, call[c].at = "step", Continue(c),
           NEW v \in call[c].todo, weight'[v] # weight[v], v \notin touched[c]
    PROVE  weight'[v] = Toward(weight[v], call[c].aim[v])
  <1>1. StepStays(c) \/ StepMoves(c)
    BY DEF Continue, Fetch, Keep, Write, Clear, Gather, NoEvents, AskNothing, AskChange, Learn,
           Weigh, Rate, Aim, Rows, Profile, Overwrite
  <1>2. PICK u \in call[c].todo :
            /\ u \in Values
            /\ \E w \in 0..MaxWeight :
                  /\ WriteBehind(c, u, w)
                  /\ w = call[c].copy[u] \/ w = Toward(call[c].copy[u], call[c].aim[u])
    BY <1>1, StepTypes
  <1>3. PICK w : /\ weight' = [weight EXCEPT ![u] = w]
                 /\ w = call[c].copy[u] \/ w = Toward(call[c].copy[u], call[c].aim[u])
    BY <1>2 DEF WriteBehind
  <1>4. weight \in [Values -> 0..MaxWeight] /\ v \in Values BY DEF TypeInv, TypeOK, Weights
  <1>5. u = v /\ weight'[v] = w BY <1>2, <1>3, <1>4
  <1>6. call[c].copy[v] = weight[v] BY DEF ReadAsIs
  <1> QED BY <1>3, <1>5, <1>6

\* A gradient moves a row toward the ideal it read, by a level at most, unless someone else
\* wrote the row after the gradient had read it (apply_gradient_toward_ideal).
THEOREM GradientsApproach == Spec => GradientApproaches
  <1>1. Init => TypeInv /\ ReadAsIs
    BY LevelTypes, IdleTypes DEF Init, TypeInv, TypeOK, CallTypes, ReadAsIs
  <1>2. TypeInv /\ ReadAsIs /\ [Next]_vars =>
          [\A c \in Callers : call[c].at = "step" /\ Continue(c) =>
              \A v \in call[c].todo : weight'[v] # weight[v] =>
                  weight'[v] = Toward(weight[v], call[c].aim[v]) \/ v \in touched[c]]_vars
    BY GradientStep
  <1> QED BY <1>1, <1>2, TypeStep, ReadAsIsStep, PTL DEF Spec, GradientApproaches
=============================================================================
