----------------------------- MODULE ServicesProofs -----------------------------
(***************************************************************************)
(* Proofs about the services around the task pipeline, for any requests,    *)
(* addresses, limits, lengths of time, runs, tables, texts, versions,       *)
(* agents and errors.  In order: what counts against the clock (the token   *)
(* bucket and the login throttle of RequestFront, the limiter of ModelCalls, *)
(* the loops of DailyRounds, the sessions and discussions of Companions),    *)
(* what is written by several statements without a transaction around them  *)
(* (Migrations, MemoryArchive, UserMemories), the chart of OrgChart, and the *)
(* types of all of them together.                                           *)
(***************************************************************************)
EXTENDS MCServices, ProfilesProofs

-----------------------------------------------------------------------------
(* RequestFront: the types *)

\* The constants of a path.
LEMMA PathConstants ==
    ASSUME NEW p \in Limited
    PROVE  /\ Full[p] \in Nat /\ Rate[p] \in Nat /\ Full[p] >= Token
           /\ Token \in Nat \ {0} /\ MaxIdle \in Nat /\ MaxIdle * Rate[p] >= Full[p]
  BY FrontAssumption

\* A bucket that is there is no None and has its fields in range.
LEMMA BucketFields ==
    ASSUME NEW k \in Keys, NEW b \in Buckets(k)
    PROVE  /\ b # None /\ b.tokens \in 0..Full[k[2]] /\ b.idle \in 0..MaxIdle + 1
           /\ Full[k[2]] \in Nat
  <1>1. k[2] \in Limited BY DEF Keys
  <1>2. Full[k[2]] \in Nat /\ MaxIdle \in Nat BY <1>1, PathConstants
  <1> QED BY <1>2, FrontAssumption DEF Buckets

\* What is filled in never exceeds the bucket.
LEMMA RefilledInRange ==
    ASSUME TypeOK, NEW k \in Keys
    PROVE  Refilled(k) \in 0..Full[k[2]]
  <1>1. k[2] \in Limited BY DEF Keys
  <1>2. CASE bucket[k] = None
    BY <1>1, <1>2, PathConstants DEF Refilled
  <1>3. CASE bucket[k] # None
    <2>1. bucket[k] \in Buckets(k) BY <1>3 DEF TypeOK
    <2>2. /\ bucket[k].tokens \in Nat /\ bucket[k].idle \in Nat /\ Rate[k[2]] \in Nat
          /\ Full[k[2]] \in Nat
      BY <1>1, <2>1, BucketFields, PathConstants
    <2>3. bucket[k].tokens + bucket[k].idle * Rate[k[2]] \in Nat BY <2>2
    <2> QED BY <1>3, <2>2, <2>3 DEF Refilled, Capped
  <1> QED BY <1>2, <1>3

\* The failures within the window are a sequence of ages again, no longer than before.
LEMMA RecentIsShorter ==
    ASSUME NEW ages \in Seq(0..Lockout)
    PROVE  /\ Recent(ages) \in Seq(0..Lockout)
           /\ Len(Recent(ages)) <= Len(ages)
  <1>1. /\ Len(ages) \in Nat /\ DOMAIN ages = 1..Len(ages)
        /\ \A i \in 1..Len(ages) : ages[i] \in 0..Lockout
    BY LenProperties
  <1>2. IsFiniteSet(Outdated(ages))
    <2>1. IsFiniteSet(1..Len(ages)) BY <1>1, FS_Interval
    <2>2. Outdated(ages) \subseteq 1..Len(ages) BY <1>1 DEF Outdated
    <2> QED BY <2>1, <2>2, FS_Subset
  <1>3. Cardinality(Outdated(ages)) \in Nat BY <1>2, FS_CardinalityType
  <1> DEFINE first == Cardinality(Outdated(ages)) + 1
  <1>4. first \in Int /\ first >= 1 BY <1>3
  <1>5. \A i \in first..Len(ages) : ages[i] \in 0..Lockout BY <1>1, <1>4
  <1> HIDE DEF first
  <1>6. /\ SubSeq(ages, first, Len(ages)) \in Seq(0..Lockout)
        /\ Len(SubSeq(ages, first, Len(ages)))
              = IF first <= Len(ages) THEN Len(ages) - first + 1 ELSE 0
    BY <1>1, <1>4, <1>5, SubSeqProperties
  <1> QED BY <1>1, <1>4, <1>6 DEF Recent, first

\* The part of TypeOK about the buckets.
BucketsOK == DOMAIN bucket = Keys /\ \A k \in Keys : bucket[k] \in Buckets(k) \cup {None}

\* A request that asks for a key leaves its bucket in range, and the others alone.
LEMMA TakeTypes ==
    ASSUME TypeOK, NEW k \in Keys, Take(k)
    PROVE  BucketsOK' /\ verdict' \in {None} \cup (Keys \X {"pass", "refuse"})
  <1>1. k[2] \in Limited BY DEF Keys
  <1>2. Refilled(k) \in 0..Full[k[2]] BY RefilledInRange
  <1>3. /\ Token \in Nat \ {0} /\ MaxIdle \in Nat /\ Full[k[2]] \in Nat
    BY <1>1, PathConstants
  <1>4. bucket'[k] \in Buckets(k)
    BY <1>2, <1>3 DEF Take, Allowed, Buckets, TypeOK
  <1>5. \A j \in Keys \ {k} : bucket'[j] = bucket[j] BY DEF Take, TypeOK
  <1> QED BY <1>4, <1>5 DEF Take, TypeOK, BucketsOK, Buckets

\* What a request under way is made of.
Slots == [at : {"idle", "inner", "handler", "log", "answered"},
          from : Addresses \cup {None}, path : Paths]

\* The requests under way keep their type through every move.
LEMMA SlotMoves ==
    ASSUME TypeOK, NEW r \in Requests, NEW at \in {"idle", "inner", "handler", "log", "answered"}
    PROVE  /\ Ends(r, at) => req' \in [Requests -> Slots]
           /\ Move(r, at) => req' \in [Requests -> Slots]
           /\ \A a \in Addresses, p \in Paths : Enters(r, a, p) => req' \in [Requests -> Slots]
  <1>1. Idle \in Slots /\ [Idle EXCEPT !.at = at] \in Slots BY DEF Idle, Slots, Paths
  <1>2. req \in [Requests -> Slots] BY DEF TypeOK, Slots
  <1>3. [req[r] EXCEPT !.at = at] \in Slots BY <1>2 DEF Slots
  <1>4. \A a \in Addresses, p \in Paths : [at |-> "inner", from |-> a, path |-> p] \in Slots
    BY DEF Slots
  <1> QED BY <1>1, <1>2, <1>3, <1>4 DEF Ends, Move, Enters

\* The types of the throttle.
ThrottleOK == /\ failures \in [Addresses -> Seq(0..Lockout)]
              /\ locked \in [Addresses -> 0..Lockout \cup {None}]

\* record_failure, record_success and is_locked keep the throttle's types.
LEMMA ThrottleTypes ==
    ASSUME TypeOK, NEW a \in Addresses
    PROVE  /\ RecordFailure(a) => ThrottleOK'
           /\ RecordSuccess(a) => ThrottleOK'
           /\ ForgetOver(a) => ThrottleOK'
  <1>1. Lockout \in Nat \ {0} BY FrontAssumption
  <1>2. failures[a] \in Seq(0..Lockout) BY DEF TypeOK
  <1>3. Append(failures[a], 0) \in Seq(0..Lockout) BY <1>1, <1>2, AppendProperties
  <1>4. Recent(Append(failures[a], 0)) \in Seq(0..Lockout) BY <1>3, RecentIsShorter
  <1>5. <<>> \in Seq(0..Lockout) BY EmptySeq
  <1>6. ASSUME RecordFailure(a) PROVE ThrottleOK'
    BY <1>1, <1>4, <1>6 DEF RecordFailure, ThrottleOK, TypeOK
  <1>7. ASSUME RecordSuccess(a) PROVE ThrottleOK'
    BY <1>5, <1>7 DEF RecordSuccess, ThrottleOK, TypeOK
  <1>8. ASSUME ForgetOver(a) PROVE ThrottleOK'
    BY <1>5, <1>8 DEF ForgetOver, ThrottleOK, TypeOK
  <1> QED BY <1>6, <1>7, <1>8

\* A tick makes everything older, within its bounds; the failures are as many as before.
LEMMA TickTypes ==
    ASSUME TypeOK, Tick
    PROVE  /\ BucketsOK' /\ ThrottleOK'
           /\ \A a \in Addresses : Len(failures'[a]) = Len(failures[a])
  <1>1. Lockout \in Nat \ {0} /\ MaxIdle \in Nat BY FrontAssumption
  <1>2. ASSUME NEW k \in Keys PROVE bucket'[k] \in Buckets(k) \cup {None}
    <2>1. CASE bucket[k] = None BY <2>1 DEF Tick
    <2>2. CASE bucket[k] # None
      <3>1. bucket[k] \in Buckets(k) BY <2>2 DEF TypeOK
      <3>2. bucket[k].idle \in 0..MaxIdle + 1 BY <3>1, BucketFields
      <3>3. Capped(bucket[k].idle + 1, MaxIdle + 1) \in 0..MaxIdle + 1
        BY <1>1, <3>2 DEF Capped
      <3>4. bucket'[k] = [bucket[k] EXCEPT !.idle = Capped(@ + 1, MaxIdle + 1)]
        BY <2>2 DEF Tick
      <3> QED BY <3>1, <3>3, <3>4 DEF Buckets
    <2> QED BY <2>1, <2>2
  <1>3. ASSUME NEW a \in Addresses
        PROVE  failures'[a] \in Seq(0..Lockout) /\ Len(failures'[a]) = Len(failures[a])
    <2> DEFINE Older(i) == Capped(failures[a][i] + 1, Lockout)
    <2>0. failures[a] \in Seq(0..Lockout) BY DEF TypeOK
    <2>1. /\ Len(failures[a]) \in Nat /\ DOMAIN failures[a] = 1..Len(failures[a])
          /\ \A i \in 1..Len(failures[a]) : failures[a][i] \in 0..Lockout
      BY <2>0, LenProperties
    <2>2. \A i \in 1..Len(failures[a]) : Older(i) \in 0..Lockout
      BY <1>1, <2>1 DEF Capped
    <2>3. failures'[a] = [i \in 1..Len(failures[a]) |-> Older(i)]
      BY <2>1 DEF Tick
    <2> HIDE DEF Older
    <2>4. failures'[a] \in Seq(0..Lockout) BY <2>1, <2>2, <2>3, IsASeq
    <2>5. DOMAIN failures'[a] = 1..Len(failures[a]) BY <2>3
    <2>6. DOMAIN failures'[a] = 1..Len(failures'[a]) /\ Len(failures'[a]) \in Nat
      BY <2>4, LenProperties
    <2> QED BY <2>1, <2>4, <2>5, <2>6
  <1>4. ASSUME NEW a \in Addresses PROVE locked'[a] \in 0..Lockout \cup {None}
    BY <1>1 DEF Tick, TypeOK, Locked
  <1>5. DOMAIN bucket' = Keys BY DEF Tick
  <1>6. failures' \in [Addresses -> Seq(0..Lockout)] BY <1>3 DEF Tick
  <1>7. locked' \in [Addresses -> 0..Lockout \cup {None}] BY <1>4 DEF Tick
  <1> QED BY <1>2, <1>3, <1>5, <1>6, <1>7 DEF BucketsOK, ThrottleOK, Buckets

\* Every step of a request, of the cleanup and of the clock keeps the types.
LEMMA FrontTypeStep == TypeOK /\ [Next]_vars => TypeOK'
  <1> SUFFICES ASSUME TypeOK, [Next]_vars PROVE TypeOK' OBVIOUS
  <1> DEFINE BucketsKept == UNCHANGED bucket
             ThrottleKept == UNCHANGED <<failures, locked>>
  <1>a. TypeOK' <=> /\ BucketsOK' /\ ThrottleOK' /\ req' \in [Requests -> Slots]
                    /\ verdict' \in {None} \cup (Keys \X {"pass", "refuse"})
    BY DEF TypeOK, BucketsOK, ThrottleOK, Slots, Buckets, Keys
  <1>b. BucketsKept => BucketsOK' BY DEF TypeOK, BucketsOK, Buckets, Keys
  <1>c. ThrottleKept => ThrottleOK' BY DEF TypeOK, ThrottleOK
  <1>d. Unasked => BucketsOK' /\ verdict' \in {None} \cup (Keys \X {"pass", "refuse"})
    BY <1>b DEF Unasked
  <1>e. UNCHANGED req => req' \in [Requests -> Slots] BY DEF TypeOK, Slots
  <1>1. ASSUME NEW r \in Requests, NEW a \in Addresses, Bypass(r, a) \/ LockOut(r, a)
        PROVE  TypeOK'
    <2>1. req' \in [Requests -> Slots] BY <1>1, SlotMoves DEF Bypass, LockOut, Paths
    <2> QED BY <1>1, <1>a, <1>c, <1>d, <2>1 DEF Bypass, LockOut
  <1>2. ASSUME NEW r \in Requests, NEW a \in Addresses, NEW p \in Limited,
               Redirect(r, a, p) \/ Filter(r, a, p)
        PROVE  TypeOK'
    <2>1. req' \in [Requests -> Slots] BY <1>2, SlotMoves DEF Redirect, Filter
    <2> QED BY <1>2, <1>a, <1>c, <1>d, <2>1 DEF Redirect, Filter
  <1>3. ASSUME NEW r \in Requests, NEW a \in Addresses, NEW p \in Limited, Admit(r, a, p)
        PROVE  TypeOK'
    <2>1. ThrottleOK' BY <1>3, <1>c, ThrottleTypes DEF Admit
    <2>2. req' \in [Requests -> Slots] BY <1>3, SlotMoves DEF Admit, Paths
    <2>3. <<a, p>> \in Keys BY DEF Keys
    <2>4. BucketsOK' /\ verdict' \in {None} \cup (Keys \X {"pass", "refuse"})
      BY <1>3, <1>d, <2>3, TakeTypes DEF Admit
    <2> QED BY <1>a, <2>1, <2>2, <2>4
  <1>4. ASSUME NEW r \in Requests, Proceed(r) PROVE TypeOK'
    <2>1. ASSUME IssueToken(r) \/ RefuseKey(r) PROVE ThrottleOK' /\ req' \in [Requests -> Slots]
      <3>1. req[r].from \in Addresses \cup {None} BY DEF TypeOK
      <3>2. CASE req[r].from \in Addresses
        BY <2>1, <3>2, ThrottleTypes, SlotMoves DEF IssueToken, RefuseKey
      <3>3. CASE req[r].from \notin Addresses
        <4>1. UNCHANGED <<failures>>
          BY <2>1, <3>3 DEF IssueToken, RefuseKey, RecordSuccess, RecordFailure, TypeOK
        <4>2. UNCHANGED <<locked>>
          BY <2>1, <3>3 DEF IssueToken, RefuseKey, RecordSuccess, RecordFailure, TypeOK
        <4> QED BY <1>c, <2>1, <4>1, <4>2, SlotMoves DEF IssueToken, RefuseKey
      <3> QED BY <3>1, <3>2, <3>3
    <2>2. ASSUME Inner(r) \/ Handle(r) \/ HandlerRaises(r) \/ Audit(r)
          PROVE  req' \in [Requests -> Slots] /\ ThrottleOK'
      BY <1>c, <2>2, SlotMoves DEF Inner, Handle, HandlerRaises, Audit
    <2>3. ASSUME Respond(r) PROVE req' \in [Requests -> Slots] /\ ThrottleOK'
      BY <1>c, <2>3 DEF Respond, TypeOK, Slots, Idle, Paths
    <2>4. Unasked
      BY <1>4 DEF Proceed, Inner, IssueToken, RefuseKey, Handle, HandlerRaises, Audit, Respond
    <2> QED BY <1>4, <1>a, <1>d, <2>1, <2>2, <2>3, <2>4 DEF Proceed
  <1>5. CASE Cleanup
    <2>1. BucketsOK' BY <1>5 DEF Cleanup, BucketsOK, TypeOK, Buckets
    <2> QED BY <1>5, <1>a, <1>c, <1>e, <2>1 DEF Cleanup
  <1>6. CASE Tick BY <1>6, <1>a, <1>e, TickTypes DEF Tick
  <1>7. CASE UNCHANGED vars BY <1>7, <1>a, <1>b, <1>c, <1>e DEF vars, TypeOK
  <1> QED BY <1>1, <1>2, <1>3, <1>4, <1>5, <1>6, <1>7 DEF Next

\* At the start nobody has asked.
LEMMA FrontTypeInit == Init => TypeOK
  BY EmptySeq DEF Init, TypeOK, Idle, Paths

\* The front keeps its types, for any addresses, requests and limits: no bucket holds more
\* than it may, however long it was left alone.
THEOREM FrontTypes == Spec => []TypeOK
  BY FrontTypeInit, FrontTypeStep, PTL DEF Spec

-----------------------------------------------------------------------------
(* RequestFront: the login throttle *)

\* Where an address is not locked the failures kept stay below the threshold.
LEMMA UnlockedStep == TypeOK /\ UnlockedBelowThreshold /\ [Next]_vars => UnlockedBelowThreshold'
  <1> SUFFICES ASSUME TypeOK, UnlockedBelowThreshold, [Next]_vars
               PROVE  UnlockedBelowThreshold'
    OBVIOUS
  <1>a. MaxFailures \in Nat \ {0} /\ Lockout \in Nat /\ None \notin Int BY FrontAssumption
  <1>b. Len(<<>>) = 0 BY EmptySeq
  <1>1. ASSUME UNCHANGED <<failures, locked>> PROVE UnlockedBelowThreshold'
    BY <1>1 DEF UnlockedBelowThreshold
  <1>2. ASSUME NEW a \in Addresses, RecordSuccess(a) \/ ForgetOver(a)
        PROVE  UnlockedBelowThreshold'
    BY <1>2, <1>a, <1>b DEF RecordSuccess, ForgetOver, UnlockedBelowThreshold, TypeOK
  <1>3. ASSUME NEW a \in Addresses, RecordFailure(a) PROVE UnlockedBelowThreshold'
    <2> DEFINE recent == Recent(Append(failures[a], 0))
    <2>1. /\ failures' = [failures EXCEPT ![a] = recent]
          /\ locked' = IF Len(recent) >= MaxFailures THEN [locked EXCEPT ![a] = Lockout] ELSE locked
      BY <1>3 DEF RecordFailure
    <2>2. Len(recent) \in Nat
      <3>1. failures[a] \in Seq(0..Lockout) BY DEF TypeOK
      <3>2. Append(failures[a], 0) \in Seq(0..Lockout) BY <1>a, <3>1, AppendProperties
      <3>3. recent \in Seq(0..Lockout) BY <3>2, RecentIsShorter
      <3> QED BY <3>3, LenProperties
    <2> HIDE DEF recent
    <2>3. failures'[a] = recent /\ \A b \in Addresses \ {a} : failures'[b] = failures[b]
      BY <2>1 DEF TypeOK
    <2>4. CASE Len(recent) >= MaxFailures
      <3>1. locked'[a] # None BY <1>a, <2>1, <2>4 DEF TypeOK
      <3>2. \A b \in Addresses \ {a} : locked'[b] = locked[b] BY <2>1, <2>4 DEF TypeOK
      <3> QED BY <2>3, <3>1, <3>2 DEF UnlockedBelowThreshold
    <2>5. CASE ~(Len(recent) >= MaxFailures)
      BY <1>a, <2>1, <2>2, <2>3, <2>5 DEF UnlockedBelowThreshold
    <2> QED BY <2>4, <2>5
  <1>4. CASE Tick
    <2>1. \A a \in Addresses : locked'[a] = None => locked[a] = None
      BY <1>4, <1>a DEF Tick, TypeOK, Locked
    <2>2. \A a \in Addresses : Len(failures'[a]) = Len(failures[a]) BY <1>4, TickTypes
    <2> QED BY <2>1, <2>2 DEF UnlockedBelowThreshold
  <1>5. ASSUME NEW r \in Requests, IssueToken(r) \/ RefuseKey(r) PROVE UnlockedBelowThreshold'
    <2>1. CASE req[r].from \in Addresses
      BY <1>2, <1>3, <1>5, <2>1 DEF IssueToken, RefuseKey
    <2>2. CASE req[r].from \notin Addresses
      <3>1. UNCHANGED <<failures>>
        BY <1>5, <2>2 DEF IssueToken, RefuseKey, RecordSuccess, RecordFailure, TypeOK
      <3>2. UNCHANGED <<locked>>
        BY <1>5, <2>2 DEF IssueToken, RefuseKey, RecordSuccess, RecordFailure, TypeOK
      <3> QED BY <1>1, <3>1, <3>2
    <2> QED BY <2>1, <2>2
  <1>6. ASSUME NEW r \in Requests, NEW a \in Addresses, NEW p \in Limited, Admit(r, a, p)
        PROVE  UnlockedBelowThreshold'
    BY <1>1, <1>2, <1>6 DEF Admit
  <1> QED
    BY <1>1, <1>4, <1>5, <1>6
    DEF Next, vars, Proceed, Bypass, LockOut, Redirect, Filter, Inner, Handle, HandlerRaises,
        Audit, Respond, Cleanup

\* Nobody has failed at the start.
LEMMA UnlockedInit == Init => UnlockedBelowThreshold
  BY EmptySeq, FrontAssumption DEF Init, UnlockedBelowThreshold

\* One failure more than the threshold allows locks at once: an address that is not locked
\* has fewer, for any threshold, window and number of attempts under way.
THEOREM FailuresLock == Spec => []UnlockedBelowThreshold
  BY UnlockedInit, UnlockedStep, FrontTypeInit, FrontTypeStep, PTL DEF Spec

-----------------------------------------------------------------------------
(* RequestFront: the buckets as buckets that are refilled all the time *)

\* A token is taken from what the bucket would hold, or refused for want of one; the buckets
\* of other keys stay as they are.
LEMMA TakeIsRequest ==
    ASSUME TypeOK, NEW k \in Keys, Take(k)
    PROVE  \A j \in Keys : Eager(j)!Next
  <1>1. k[2] \in Limited BY DEF Keys
  <1>2. Refilled(k) \in 0..Full[k[2]] BY RefilledInRange
  <1>3. Token \in Nat \ {0} /\ Full[k[2]] \in Nat /\ Rate[k[2]] \in Nat
    BY <1>1, PathConstants
  <1>4. None # <<k, "pass">> /\ None # <<k, "refuse">>
    BY FrontAssumption DEF Keys
  <1>5. ASSUME NEW n \in 0..Full[k[2]], bucket'[k] = [tokens |-> n, idle |-> 0]
        PROVE  Refilled(k)' = n
    <2>1. [tokens |-> n, idle |-> 0] # None
      BY <1>3, FrontAssumption
    <2>2. Refilled(k)' = Capped(n + 0 * Rate[k[2]], Full[k[2]]) BY <1>5, <2>1 DEF Refilled
    <2> QED BY <1>3, <2>2 DEF Capped
  <1>6. Eager(k)!Next
    <2>1. CASE Allowed(k)
      <3>1. bucket'[k] = [tokens |-> Refilled(k) - Token, idle |-> 0] BY <2>1 DEF Take, TypeOK
      <3>2. Refilled(k) - Token \in 0..Full[k[2]] BY <1>2, <1>3, <2>1 DEF Allowed
      <3>3. Refilled(k)' = Refilled(k) - Token BY <1>5, <3>1, <3>2
      <3>4. Verdict(k)' = "pass" BY <1>4, <2>1 DEF Take, Verdict
      <3> QED BY <2>1, <3>3, <3>4 DEF Allowed, Eager!Next, Eager!Pass
    <2>2. CASE ~Allowed(k)
      <3>1. bucket'[k] = [tokens |-> Refilled(k), idle |-> 0] BY <2>2 DEF Take, TypeOK
      <3>2. Refilled(k)' = Refilled(k) BY <1>2, <1>5, <3>1
      <3>3. Verdict(k)' = "refuse" BY <1>4, <2>2 DEF Take, Verdict
      <3>4. Refilled(k) < Token BY <1>2, <1>3, <2>2 DEF Allowed
      <3> QED BY <3>2, <3>3, <3>4 DEF Eager!Next, Eager!Refuse
    <2> QED BY <2>1, <2>2
  <1>7. ASSUME NEW j \in Keys \ {k} PROVE Eager(j)!Next
    <2>1. bucket'[j] = bucket[j] BY DEF Take, TypeOK
    <2>2. Refilled(j)' = Refilled(j) BY <2>1 DEF Refilled
    <2>3. Verdict(j)' = "none" BY <1>4 DEF Take, Verdict
    <2> QED BY <2>2, <2>3 DEF Eager!Next, Eager!Rest
  <1> QED BY <1>6, <1>7

\* More ticks bring more.
LEMMA Times ==
    ASSUME NEW m \in Nat, NEW n \in Nat, NEW q \in Nat, m >= n
    PROVE  m * q >= n * q
  <1>1. m * q = n * q + (m - n) * q /\ (m - n) * q >= 0 OBVIOUS
  <1>2. m * q \in Int /\ n * q \in Int /\ (m - n) * q \in Int OBVIOUS
  <1> QED BY <1>1, <1>2

\* A bucket older than MaxIdle is full: removing it changes nothing.
LEMMA IdleIsFull ==
    ASSUME TypeOK, NEW k \in Keys, bucket[k] # None, bucket[k].idle >= MaxIdle
    PROVE  Refilled(k) = Full[k[2]]
  <1>1. k[2] \in Limited BY DEF Keys
  <1>2. bucket[k] \in Buckets(k) BY DEF TypeOK
  <1>3. bucket[k].tokens \in Nat /\ bucket[k].idle \in Nat BY <1>2, BucketFields
  <1>4. /\ Full[k[2]] \in Nat /\ Rate[k[2]] \in Nat /\ MaxIdle \in Nat
        /\ MaxIdle * Rate[k[2]] >= Full[k[2]]
    BY <1>1, PathConstants
  <1>5. bucket[k].idle * Rate[k[2]] >= MaxIdle * Rate[k[2]] BY <1>3, <1>4, Times
  <1>6. bucket[k].idle * Rate[k[2]] \in Nat /\ MaxIdle * Rate[k[2]] \in Nat BY <1>3, <1>4
  <1>7. bucket[k].tokens + bucket[k].idle * Rate[k[2]] >= Full[k[2]]
    BY <1>3, <1>4, <1>5, <1>6
  <1>8. Refilled(k) = Capped(bucket[k].tokens + bucket[k].idle * Rate[k[2]], Full[k[2]])
    BY DEF Refilled
  <1>9. PICK sum : sum = bucket[k].tokens + bucket[k].idle * Rate[k[2]] OBVIOUS
  <1>10. sum \in Nat BY <1>3, <1>6, <1>9
  <1>11. sum >= Full[k[2]] /\ Refilled(k) = Capped(sum, Full[k[2]]) BY <1>7, <1>8, <1>9
  <1> QED BY <1>4, <1>10, <1>11 DEF Capped

\* A tick brings every bucket what it brings the one that is refilled all the time.
LEMMA TickIsTick ==
    ASSUME TypeOK, Tick, NEW k \in Keys
    PROVE  Eager(k)!Tick
  <1>1. k[2] \in Limited BY DEF Keys
  <1>2. /\ Full[k[2]] \in Nat /\ Rate[k[2]] \in Nat /\ MaxIdle \in Nat
        /\ MaxIdle * Rate[k[2]] >= Full[k[2]]
    BY <1>1, PathConstants
  <1>3. Verdict(k)' = "none" BY DEF Tick, Verdict
  <1>4. CASE bucket[k] = None
    <2>1. bucket'[k] = None BY <1>4 DEF Tick
    <2>2. Refilled(k) = Full[k[2]] /\ Refilled(k)' = Full[k[2]] BY <1>4, <2>1 DEF Refilled
    <2> QED BY <1>2, <1>3, <2>2 DEF Eager!Tick
  <1>5. CASE bucket[k] # None
    <2>1. bucket[k] \in Buckets(k) BY <1>5 DEF TypeOK
    <2>2. bucket[k].tokens \in 0..Full[k[2]] /\ bucket[k].idle \in 0..MaxIdle + 1
      BY <2>1, BucketFields
    <2>3. bucket'[k] = [bucket[k] EXCEPT !.idle = Capped(@ + 1, MaxIdle + 1)] BY <1>5 DEF Tick
    <2>4. /\ bucket'[k].tokens = bucket[k].tokens
          /\ bucket'[k].idle = Capped(bucket[k].idle + 1, MaxIdle + 1)
      BY <2>1, <2>3 DEF Buckets
    <2>5. bucket'[k] # None
      <3>1. bucket'[k] \in Buckets(k)
        BY <1>2, <2>1, <2>2, <2>3 DEF Buckets, Capped
      <3> QED BY <3>1, BucketFields
    <2>6. Refilled(k) = Capped(bucket[k].tokens + bucket[k].idle * Rate[k[2]], Full[k[2]])
      BY <1>5 DEF Refilled
    <2>7. Refilled(k)' = Capped(bucket'[k].tokens + bucket'[k].idle * Rate[k[2]], Full[k[2]])
      BY <2>5 DEF Refilled
    <2>8. CASE bucket[k].idle >= MaxIdle
      <3>1. Refilled(k) = Full[k[2]] BY <1>5, <2>8, IdleIsFull
      <3>2. bucket'[k].idle >= MaxIdle BY <1>2, <2>2, <2>4, <2>8 DEF Capped
      <3>3. Refilled(k)' = Full[k[2]]
        <4>1. \A b \in Nat : b >= MaxIdle => b * Rate[k[2]] >= MaxIdle * Rate[k[2]]
          BY <1>2, Times
        <4>2. bucket'[k].idle \in Nat BY <1>2, <2>2, <2>4 DEF Capped
        <4>3. bucket'[k].idle * Rate[k[2]] >= Full[k[2]] /\ bucket'[k].idle * Rate[k[2]] \in Nat
          BY <1>2, <3>2, <4>1, <4>2
        <4>4. bucket'[k].tokens + bucket'[k].idle * Rate[k[2]] >= Full[k[2]]
          BY <1>2, <2>2, <2>4, <4>3
        <4> QED BY <1>2, <2>2, <2>4, <2>7, <4>3, <4>4 DEF Capped
      <3> QED BY <1>2, <1>3, <3>1, <3>3 DEF Eager!Tick
    <2>9. CASE bucket[k].idle < MaxIdle
      <3>1. bucket'[k].idle = bucket[k].idle + 1 BY <1>2, <2>2, <2>4, <2>9 DEF Capped
      <3>2. bucket'[k].idle * Rate[k[2]] = bucket[k].idle * Rate[k[2]] + Rate[k[2]]
        BY <1>2, <2>2, <3>1
      <3>3. bucket[k].idle * Rate[k[2]] \in Nat BY <1>2, <2>2
      <3>4. Refilled(k)' = IF Refilled(k) + Rate[k[2]] > Full[k[2]] THEN Full[k[2]]
                           ELSE Refilled(k) + Rate[k[2]]
        BY <1>2, <2>2, <2>4, <2>6, <2>7, <3>2, <3>3 DEF Capped
      <3> QED BY <1>3, <3>4 DEF Eager!Tick
    <2> QED BY <1>2, <2>2, <2>8, <2>9
  <1> QED BY <1>4, <1>5

\* Every step of the front is, for every key, a request, a tick or a rest of its bucket.
LEMMA BucketStep ==
    ASSUME TypeOK, [Next]_vars
    PROVE  \A k \in Keys : Eager(k)!Next \/ UNCHANGED <<Refilled(k), Verdict(k)>>
  <1>1. ASSUME NEW k \in Keys, Unasked PROVE Eager(k)!Next
    BY <1>1 DEF Unasked, Refilled, Verdict, Eager!Next, Eager!Rest
  <1>2. ASSUME NEW r \in Requests, NEW a \in Addresses, NEW p \in Limited, Admit(r, a, p),
               NEW k \in Keys
        PROVE  Eager(k)!Next
    <2>1. <<a, p>> \in Keys BY DEF Keys
    <2> QED BY <1>1, <1>2, <2>1, TakeIsRequest DEF Admit
  <1>3. ASSUME Cleanup, NEW k \in Keys PROVE Eager(k)!Next
    <2>1. MaxIdle \in Nat BY FrontAssumption
    <2>2. Refilled(k)' = Refilled(k)
      <3>1. CASE bucket[k] # None /\ bucket[k].idle > MaxIdle
        <4>1. bucket[k] \in Buckets(k) BY <3>1 DEF TypeOK
        <4>2. bucket[k].idle >= MaxIdle BY <2>1, <3>1, <4>1, BucketFields
        <4>3. Refilled(k) = Full[k[2]] BY <3>1, <4>2, IdleIsFull
        <4>4. bucket'[k] = None BY <1>3, <3>1 DEF Cleanup
        <4> QED BY <4>3, <4>4 DEF Refilled
      <3>2. CASE ~(bucket[k] # None /\ bucket[k].idle > MaxIdle)
        BY <1>3, <3>2 DEF Cleanup, Refilled
      <3> QED BY <3>1, <3>2
    <2> QED BY <1>3, <2>2 DEF Cleanup, Verdict, Eager!Next, Eager!Rest
  <1>4. ASSUME Tick, NEW k \in Keys PROVE Eager(k)!Next
    BY <1>4, TickIsTick DEF Eager!Next
  <1>5. ASSUME UNCHANGED vars, NEW k \in Keys PROVE UNCHANGED <<Refilled(k), Verdict(k)>>
    BY <1>5 DEF vars, Refilled, Verdict
  <1> QED
    BY <1>1, <1>2, <1>3, <1>4, <1>5
    DEF Next, Proceed, Bypass, LockOut, Redirect, Filter, Inner, IssueToken, RefuseKey, Handle,
        HandlerRaises, Audit, Respond

\* A bucket nobody asked for is full.
LEMMA BucketInit == Init => \A k \in Keys : Eager(k)!Init
  BY DEF Init, Refilled, Verdict, Eager!Init

\* The rate limiter, which refills a bucket when it is asked for and from the time since, and
\* which forgets those that were left alone, implements for every key a bucket that is
\* refilled at every tick; for any rates and sizes.
THEOREM FrontLimits == Spec => LimitsAsBucket
  <1>1. TypeOK /\ [Next]_vars
            => [\A k \in Keys : Eager(k)!Next \/ UNCHANGED <<Refilled(k), Verdict(k)>>]_vars
    BY BucketStep
  <1> QED BY BucketInit, <1>1, FrontTypes, PTL DEF Spec, LimitsAsBucket

-----------------------------------------------------------------------------
(* ModelCalls: the limiter of a minute *)

\* What the argument needs of the types, without the bounds of CallsTypeOK.
CallStates == [at : Limiter \cup {"idle", "enter", "ask", "backoff", "produce", "joining"},
               kind : {"none", "plain", "tools", "stream"},
               tries : Nat, read : Nat, left : Nat]

CallTypes ==
    /\ count \in Nat /\ age \in Nat /\ passed \in Nat
    /\ users \in [Users -> CallStates]

\* Every step of a call, a stream and the clock keeps these types.
LEMMA CallTypesStep == CallTypes /\ [CallsNext]_callVars => CallTypes'
  <1> SUFFICES ASSUME CallTypes, [CallsNext]_callVars PROVE CallTypes' OBVIOUS
  <1> USE CallsAssumption DEF CallTypes, CallStates, Limiter
  <1>1. CASE CallsTick
    <2>1. \A u \in Users : users'[u] \in CallStates
      <3> SUFFICES ASSUME NEW u \in Users
                   PROVE  users'[u] \in CallStates
        OBVIOUS
      <3>1. CASE users[u].at = "sleep" /\ users[u].left > 0
        <4>1. users'[u] = [users[u] EXCEPT !.left = @ - 1] BY <1>1, <3>1 DEF CallsTick
        <4>2. users[u].left - 1 \in Nat BY <3>1
        <4> QED BY <4>1, <4>2
      <3>2. CASE ~(users[u].at = "sleep" /\ users[u].left > 0)
        BY <1>1, <3>2 DEF CallsTick
      <3> QED BY <3>1, <3>2
    <2> QED BY <1>1, <2>1 DEF CallsTick
  <1>2. ASSUME NEW u \in Users, NEW kind \in {"plain", "tools", "stream"}, CallModel(u, kind)
        PROVE  CallTypes'
    <2>1. UNCHANGED <<count, age, passed>> BY <1>2 DEF CallModel
    <2>2. users' \in [Users -> CallStates]
      <3>1. users' = [users EXCEPT ![u].at = "enter", ![u].kind = kind] BY <1>2 DEF CallModel
      <3>2. users'[u] = [users[u] EXCEPT !.at = "enter", !.kind = kind] BY <3>1
      <3>3. \A v \in Users \ {u} : users'[v] = users[v] BY <3>1
      <3>4. DOMAIN users' = Users /\ users' = [v \in Users |-> users'[v]] BY <3>1
      <3>5. users[u] \in CallStates BY DEF CallStates
      <3>6. users'[u] \in CallStates BY <3>2, <3>5
      <3>7. \A v \in Users : users'[v] \in CallStates BY <3>3, <3>6
      <3> QED BY <3>4, <3>7
    <2> QED BY <2>1, <2>2
  <1>3. ASSUME NEW u \in Users, LimiterStep(u) PROVE CallTypes'
    <2>1. CASE EnterLimiter(u) BY <2>1 DEF EnterLimiter
    <2>2. CASE LoadCount(u)
      <3>1. users'[u] = [users[u] EXCEPT !.at = "store", !.read = count] BY <2>2 DEF LoadCount
      <3>2. users'[u] \in CallStates BY <3>1
      <3> QED BY <2>2, <3>2 DEF LoadCount
    <2>3. CASE StoreCount(u) BY <2>3 DEF StoreCount, Pass, Remaining
    <2>4. CASE AfterSleep(u) BY <2>4 DEF AfterSleep, FirstOfMinute
    <2>5. CASE StartMinute(u) BY <2>5 DEF StartMinute, Pass
    <2> QED BY <1>3, <2>1, <2>2, <2>3, <2>4, <2>5 DEF LimiterStep
  <1>4. ASSUME NEW u \in Users, Answered(u) \/ AskFails(u) \/ Retry(u) PROVE CallTypes'
    BY <1>4 DEF Answered, AskFails, Retry, FinishCall, NoCall
  <1>5. ASSUME NEW s \in Streams,
               ThreadEnds(s, FALSE) \/ ThreadEnds(s, TRUE) \/ ReadChunk(s) \/ Join(s)
               \/ Chunk(s) \/ ReaderLeaves(s)
        PROVE  CallTypes'
    <2>1. s \in Users BY DEF Users
    <2>2. CASE ThreadEnds(s, FALSE) \/ ThreadEnds(s, TRUE)
      <3>1. users' = [users EXCEPT ![s].at = "joining"] /\ UNCHANGED <<count, age, passed>>
        BY <2>2 DEF ThreadEnds
      <3>2. [users[s] EXCEPT !.at = "joining"] \in CallStates BY <2>1
      <3> QED BY <2>1, <3>1, <3>2
    <2>3. CASE Join(s) BY <2>1, <2>3 DEF Join, NoCall
    <2>4. CASE ReadChunk(s) \/ Chunk(s) \/ ReaderLeaves(s)
      BY <2>4 DEF ReadChunk, Chunk, ReaderLeaves
    <2> QED BY <1>5, <2>2, <2>3, <2>4
  <1>6. CASE UNCHANGED callVars BY <1>6 DEF callVars
  <1> QED BY <1>1, <1>2, <1>3, <1>4, <1>5, <1>6 DEF CallsNext, UserStep, StreamStep

Starting(u) == users[u].at = "start"

\* Where no two calls were in the limiter at once: one call at most is in it, it has read the
\* count as it is, and no more requests have passed than were counted, but while a call that
\* slept has counted itself into a minute it has not begun.
OneAtATime ==
    ~mixed =>
        /\ \A u, v \in Users : Inside(u) /\ Inside(v) => u = v
        /\ \A u \in Users : users[u].at = "store" => users[u].read = count
        /\ passed <= PerMinute
        /\ passed <= count \/ \E u \in Users : Starting(u)

\* Who begins a minute is counted in it, unless another call is about to count itself.
StarterCounted ==
    count = 0 /\ (\E u \in Users : Starting(u))
        => \E v \in Users : users[v].at \in {"load", "store"}

LimiterInv == CallTypes /\ OneAtATime /\ StarterCounted

\* A step that leaves every call's place in the limiter, and what was counted, as it was.
LEMMA OutsideLimiter ==
    ASSUME LimiterInv, UNCHANGED <<count, passed, mixed>>,
           \A u \in Users : /\ users'[u].at = users[u].at \/ (~Inside(u) /\ ~Inside(u)')
                            /\ users'[u].read = users[u].read \/ ~Inside(u)'
    PROVE  (OneAtATime /\ StarterCounted)'
  <1>1. \A u \in Users : /\ Inside(u)' = Inside(u) /\ Starting(u)' = Starting(u)
                         /\ users'[u].at = "store" => users'[u].read = users[u].read
                         /\ users'[u].at \in {"load", "store"} <=> users[u].at \in {"load", "store"}
    BY DEF Inside, Starting, Limiter
  <1>2. OneAtATime'
    BY <1>1 DEF LimiterInv, OneAtATime, Starting, Inside, Limiter
  <1>3. StarterCounted'
    BY <1>1 DEF LimiterInv, StarterCounted
  <1> QED BY <1>2, <1>3

\* Every step keeps the invariant of the limiter: the only ones that disturb it are its own.
LEMMA LimiterInvStep == LimiterInv /\ [CallsNext]_callVars => LimiterInv'
  <1> SUFFICES ASSUME LimiterInv, [CallsNext]_callVars PROVE (OneAtATime /\ StarterCounted)'
    BY CallTypesStep DEF LimiterInv
  <1>a. CallTypes /\ CallTypes' BY CallTypesStep DEF LimiterInv
  <1>b. PerMinute \in Nat \ {0} BY CallsAssumption
  <1>1. ASSUME NEW u \in Users, EnterLimiter(u) PROVE (OneAtATime /\ StarterCounted)'
    <2>1. /\ users'[u].at = "load"
          /\ \A v \in Users \ {u} : users'[v] = users[v]
      BY <1>a, <1>1 DEF EnterLimiter, CallTypes, CallStates
    <2>2. StarterCounted' BY <2>1 DEF StarterCounted
    <2>3. OneAtATime'
      <3> SUFFICES ASSUME ~mixed' PROVE OneAtATime' BY DEF OneAtATime
      <3>1. \A v \in Users \ {u} : ~Inside(v)
        BY <1>1 DEF EnterLimiter
      <3>2. \A v \in Users \ {u} : ~Inside(v)' BY <2>1, <3>1 DEF Inside
      <3>3. \A v \in Users : ~Starting(v)
        BY <1>1, <3>1 DEF EnterLimiter, Starting, Inside, Limiter
      <3>4. CASE age > Minute
        <4>1. count' = 0 /\ passed' = 0 BY <1>1, <3>4 DEF EnterLimiter
        <4> QED BY <1>b, <2>1, <3>2, <4>1 DEF OneAtATime, Inside, Limiter
      <3>5. CASE ~(age > Minute)
        <4>1. count' = count /\ passed' = passed /\ ~mixed BY <1>1, <3>5 DEF EnterLimiter
        <4> QED BY <1>b, <2>1, <3>2, <3>3, <4>1 DEF OneAtATime, Inside, Limiter, LimiterInv
      <3> QED BY <3>4, <3>5
    <2> QED BY <2>2, <2>3
  <1>2. ASSUME NEW u \in Users, LoadCount(u) PROVE (OneAtATime /\ StarterCounted)'
    <2>1. /\ users[u].at = "load" /\ users'[u].at = "store" /\ users'[u].read = count
          /\ \A v \in Users \ {u} : users'[v] = users[v]
          /\ UNCHANGED <<count, passed, mixed>>
      BY <1>a, <1>2 DEF LoadCount, CallTypes, CallStates
    <2>2. \A v \in Users : Inside(v)' = Inside(v) /\ Starting(v)' = Starting(v)
      BY <2>1 DEF Inside, Starting, Limiter
    <2>3. OneAtATime' BY <2>1, <2>2 DEF OneAtATime, LimiterInv
    <2>4. StarterCounted' BY <2>1 DEF StarterCounted
    <2> QED BY <2>3, <2>4
  <1>3. ASSUME NEW u \in Users, StoreCount(u) PROVE (OneAtATime /\ StarterCounted)'
    <2>1. /\ users[u].at = "store" /\ count' = users[u].read + 1 /\ UNCHANGED mixed
          /\ users'[u].at \in {"sleep", "produce", "ask"}
          /\ \A v \in Users \ {u} : users'[v] = users[v]
      BY <1>a, <1>3 DEF StoreCount, Pass, CallTypes, CallStates
    <2>2. StarterCounted'
      <3>1. users[u].read \in Nat BY <1>a DEF CallTypes, CallStates
      <3> QED BY <2>1, <3>1 DEF StarterCounted
    <2>3. OneAtATime'
      <3> SUFFICES ASSUME ~mixed PROVE OneAtATime' BY <2>1 DEF OneAtATime
      <3>1. \A v \in Users \ {u} : ~Inside(v)
        BY <2>1 DEF OneAtATime, LimiterInv, Inside, Limiter
      <3>2. \A v \in Users : ~Starting(v)
        BY <2>1, <3>1 DEF Starting, Inside, Limiter
      <3>3. count' = count + 1 /\ passed <= count /\ passed <= PerMinute
        BY <2>1, <3>2 DEF OneAtATime, LimiterInv
      <3>4. \A v \in Users \ {u} : ~Inside(v)' BY <2>1, <3>1 DEF Inside
      <3>5. passed' <= PerMinute /\ passed' <= count'
        <4>1. CASE TooMany(count')
          BY <1>3, <1>a, <3>3, <4>1 DEF StoreCount, CallTypes, CallStates
        <4>2. CASE ~TooMany(count')
          <5>1. passed' = passed + 1 BY <1>3, <4>2 DEF StoreCount
          <5> QED BY <1>a, <1>b, <3>3, <4>2, <5>1 DEF TooMany, CallTypes, CallStates
        <4> QED BY <4>1, <4>2
      <3> QED BY <2>1, <3>4, <3>5 DEF OneAtATime, Inside, Limiter
    <2> QED BY <2>2, <2>3
  <1>4. ASSUME NEW u \in Users, AfterSleep(u) PROVE (OneAtATime /\ StarterCounted)'
    <2>1. /\ users[u].at = "sleep" /\ users'[u].at = "start" /\ count' = 1
          /\ \A v \in Users \ {u} : users'[v] = users[v]
          /\ UNCHANGED <<passed, mixed>>
      BY <1>a, <1>4 DEF AfterSleep, FirstOfMinute, CallTypes, CallStates
    <2>2. StarterCounted' BY <2>1 DEF StarterCounted
    <2>3. OneAtATime'
      <3>1. \A v \in Users : Inside(v)' = Inside(v)
        BY <2>1 DEF Inside, Limiter
      <3>2. Starting(u)' BY <2>1 DEF Starting
      <3>3. ~mixed => \A v \in Users \ {u} : users'[v].at # "store"
        BY <2>1 DEF OneAtATime, LimiterInv, Inside, Limiter
      <3> QED BY <2>1, <3>1, <3>2, <3>3 DEF OneAtATime, LimiterInv
    <2> QED BY <2>2, <2>3
  <1>5. ASSUME NEW u \in Users, StartMinute(u) PROVE (OneAtATime /\ StarterCounted)'
    <2>1. /\ Starting(u) /\ users'[u].at \in {"produce", "ask"}
          /\ \A v \in Users \ {u} : users'[v] = users[v]
          /\ passed' = 1 /\ mixed' = (\E v \in Users \ {u} : Inside(v)) /\ UNCHANGED count
      BY <1>a, <1>5 DEF StartMinute, Pass, Starting, CallTypes, CallStates
    <2>2. StarterCounted'
      BY <2>1 DEF StarterCounted, LimiterInv, Starting
    <2>3. OneAtATime'
      <3> SUFFICES ASSUME ~mixed' PROVE OneAtATime' BY DEF OneAtATime
      <3>1. \A v \in Users : ~Inside(v)' BY <2>1 DEF Inside, Limiter
      <3>2. count # 0
        BY <2>1 DEF StarterCounted, LimiterInv, Starting, Inside, Limiter
      <3>3. passed' <= count' /\ passed' <= PerMinute
        BY <1>a, <1>b, <2>1, <3>2 DEF CallTypes, CallStates
      <3> QED BY <3>1, <3>3 DEF OneAtATime, Inside, Limiter
    <2> QED BY <2>2, <2>3
  <1>6. CASE CallsTick
    <2>1. \A u \in Users : users'[u].at = users[u].at /\ users'[u].read = users[u].read
      BY <1>6, <1>a DEF CallsTick, CallTypes, CallStates
    <2> QED BY <1>6, <2>1, OutsideLimiter DEF CallsTick
  <1>7. ASSUME NEW u \in Users, NEW kind \in {"plain", "tools", "stream"}, CallModel(u, kind)
        PROVE  (OneAtATime /\ StarterCounted)'
    <2>1. users[u].at = "idle" /\ users'[u].at = "enter" /\ \A v \in Users \ {u} : users'[v] = users[v]
      BY <1>7, <1>a DEF CallModel, NoCall, CallTypes, CallStates
    <2> QED BY <1>7, <2>1, OutsideLimiter DEF CallModel, Inside, Limiter
  <1>8. ASSUME NEW u \in Users, Answered(u) \/ AskFails(u) \/ Retry(u)
        PROVE  (OneAtATime /\ StarterCounted)'
    <2>1. /\ users[u].at \in {"ask", "backoff"} /\ users'[u].at \in {"idle", "enter", "backoff"}
          /\ \A v \in Users \ {u} : users'[v] = users[v]
      BY <1>8, <1>a DEF Answered, AskFails, Retry, FinishCall, NoCall, CallTypes, CallStates
    <2> QED
      BY <1>8, <2>1, OutsideLimiter DEF Answered, AskFails, Retry, Inside, Limiter
  <1>9. ASSUME NEW s \in Streams,
               ThreadEnds(s, FALSE) \/ ThreadEnds(s, TRUE) \/ ReadChunk(s) \/ Join(s)
               \/ Chunk(s) \/ ReaderLeaves(s)
        PROVE  (OneAtATime /\ StarterCounted)'
    <2>1. \A v \in Users : \/ users'[v] = users[v]
                           \/ /\ users[v].at \in {"produce", "joining"}
                              /\ users'[v].at \in {"joining", "idle"}
      <3>1. s \in Users BY DEF Users
      <3>2. CASE ThreadEnds(s, FALSE) \/ ThreadEnds(s, TRUE)
        <4>1. users[s].at = "produce" /\ users' = [users EXCEPT ![s].at = "joining"]
          BY <3>2 DEF ThreadEnds
        <4>2. users'[s].at = "joining" /\ \A v \in Users \ {s} : users'[v] = users[v]
          BY <1>a, <3>1, <4>1 DEF CallTypes, CallStates
        <4> QED BY <4>1, <4>2
      <3>3. CASE Join(s) BY <1>a, <3>1, <3>3 DEF Join, NoCall, CallTypes, CallStates
      <3>4. CASE ReadChunk(s) \/ Chunk(s) \/ ReaderLeaves(s)
        BY <3>4 DEF ReadChunk, Chunk, ReaderLeaves
      <3> QED BY <1>9, <3>2, <3>3, <3>4
    <2>2. UNCHANGED <<count, passed, mixed>>
      BY <1>9 DEF ThreadEnds, ReadChunk, Join, Chunk, ReaderLeaves
    <2> QED BY <2>1, <2>2, OutsideLimiter DEF Inside, Limiter
  <1>10. CASE UNCHANGED callVars
    BY <1>10, OutsideLimiter DEF callVars
  <1> QED
    BY <1>1, <1>2, <1>3, <1>4, <1>5, <1>6, <1>7, <1>8, <1>9, <1>10
    DEF CallsNext, UserStep, StreamStep, LimiterStep

\* At the start nobody is in the limiter.
LEMMA LimiterInvInit == CallsInit => LimiterInv
  BY CallsAssumption
  DEF CallsInit, LimiterInv, CallTypes, CallStates, OneAtATime, StarterCounted, Starting, Inside, Limiter, NoCall

\* The invariant gives the property.
LEMMA LimiterSays == LimiterInv => UnderLimit
  BY DEF LimiterInv, OneAtATime, UnderLimit

\* No more requests pass in a minute than the limit, whatever threads, retries and sleeps
\* there are, as long as no two calls are in the limiter at once.
THEOREM LimiterHolds == CallsSpec => []UnderLimit
  BY LimiterInvInit, LimiterInvStep, LimiterSays, PTL DEF CallsSpec

-----------------------------------------------------------------------------
(* DailyRounds: once a day *)

MailTick == SendHour * Hour

\* The products of the constants, as numbers.
LEMMA DayConstants ==
    /\ Hour \in Nat \ {0} /\ Day \in Nat \ {0} /\ Hour <= Day
    /\ MailTick \in Nat /\ MailTick + Late < Day /\ Late \in Nat
    /\ Interval * Hour \in Nat /\ Interval * Hour >= Hour
  <1>1. /\ Hour \in Nat \ {0} /\ Hours \in Nat \ {0} /\ Interval \in Nat \ {0}
        /\ SendHour \in 0..Hours - 1 /\ Late \in Nat /\ SendHour * Hour + Late < Day
    BY RoundsAssumption
  <1>2. \A m, n \in Nat \ {0} : m * n \in Nat \ {0} /\ m * n >= n
    <2> SUFFICES ASSUME NEW m \in Nat \ {0}, NEW n \in Nat \ {0}
                 PROVE  m * n \in Nat \ {0} /\ m * n >= n
      OBVIOUS
    <2>1. m * n = (m - 1) * n + n /\ (m - 1) * n >= 0 /\ (m - 1) * n \in Int OBVIOUS
    <2> QED BY <2>1
  <1>3. Hour * Hours = Hours * Hour BY <1>1
  <1>4. SendHour * Hour \in Nat BY <1>1
  <1> QED BY <1>1, <1>2, <1>3, <1>4 DEF Day, MailTick

\* What the argument needs of the types.
RoundTypes ==
    /\ now \in 0..Day - 1 /\ mailer \in Int /\ briefed \in Nat /\ rounds \in Nat
    /\ thinker \in [at : {"asleep", "thinking", "briefing"}, day : {"today", "earlier"}, left : Int]

\* The mail loop wakes at the hour of the mail, today or, where it made its round, tomorrow.
MailDue ==
    /\ now + mailer \in {MailTick, MailTick + Day}
    /\ rounds = 0 \/ (rounds = 1 /\ now + mailer = MailTick + Day)

\* Where the thinker briefed today he is at it, or hour 0 is over when he wakes.
BriefedOnce ==
    \/ briefed = 0
    \/ /\ briefed = 1
       /\ \/ thinker.at = "briefing" \/ now >= Hour
          \/ thinker.at = "asleep" /\ now + thinker.left >= Hour

RoundsInv == RoundTypes /\ MailDue /\ BriefedOnce

\* The mail loop's sleep ends at the hour of the mail, today or tomorrow, and not before now.
LEMMA WaitEnds ==
    ASSUME NEW t \in 0..Day - 1
    PROVE  /\ Wait(t) \in Nat
           /\ t + Wait(t) = IF t >= MailTick THEN MailTick + Day ELSE MailTick
  BY DayConstants DEF Wait, MailTick

\* The clock goes on within the day, or comes to the first tick of the next.
LEMMA ClockGoesOn ==
    ASSUME NEW t \in 0..Day - 1
    PROVE  (t + 1) % Day = IF t = Day - 1 THEN 0 ELSE t + 1
  BY DayConstants

\* Hour 0 is the first ticks of the day.
LEMMA FirstHour ==
    ASSUME NEW t \in Nat
    PROVE  t \div Hour = 0 <=> t < Hour
  BY DayConstants

\* Every step keeps what is once a day so: midnight forgets, and a loop that has done its
\* work sleeps past the hour of it.
LEMMA RoundsInvStep == RoundsInv /\ [RoundsNext]_roundsVars => RoundsInv'
  <1> SUFFICES ASSUME RoundsInv, [RoundsNext]_roundsVars PROVE RoundsInv' OBVIOUS
  <1> USE DEF RoundsInv
  <1>a. /\ RoundTypes /\ now \in 0..Day - 1 /\ now \in Nat /\ mailer \in Int
        /\ thinker.left \in Int /\ thinker.at \in {"asleep", "thinking", "briefing"}
    BY DayConstants DEF RoundTypes
  <1>b. /\ Delay \in Nat /\ Longest \in Nat /\ Interval * Hour \in Nat /\ Interval * Hour >= Hour
        /\ Day \in Nat \ {0} /\ Hour \in Nat \ {0} /\ MailTick \in Nat /\ Late \in Nat
        /\ MailTick + Late < Day
    BY RoundsAssumption, DayConstants
  <1>1. CASE RoundsTick
    <2> DEFINE midnight == now = Day - 1
    <2>1. /\ now' = (now + 1) % Day /\ thinker' = Aged(thinker, midnight) /\ mailer' = mailer - 1
          /\ briefed' = IF midnight THEN 0 ELSE briefed
          /\ rounds' = IF midnight THEN 0 ELSE rounds
          /\ mailer > -Late
      BY <1>1 DEF RoundsTick
    <2>2. now' = IF midnight THEN 0 ELSE now + 1 BY <1>a, <2>1, ClockGoesOn
    <2>3. /\ thinker'.left = thinker.left - 1 /\ thinker'.at = thinker.at
          /\ thinker' \in [at : {"asleep", "thinking", "briefing"}, day : {"today", "earlier"}, left : Int]
      <3> DEFINE day == IF midnight /\ thinker.day = "today" THEN "earlier" ELSE thinker.day
      <3>1. thinker' = [thinker EXCEPT !.left = @ - 1, !.day = day] BY <2>1 DEF Aged
      <3>2. day \in {"today", "earlier"} BY DEF RoundTypes
      <3> HIDE DEF day
      <3>3. thinker = [at |-> thinker.at, day |-> thinker.day, left |-> thinker.left]
        BY DEF RoundTypes
      <3>4. thinker' = [at |-> thinker.at, day |-> day, left |-> thinker.left - 1]
        BY <3>1, <3>3
      <3> QED BY <1>a, <3>2, <3>4
    <2>4. RoundTypes' BY <1>a, <1>b, <2>1, <2>2, <2>3 DEF RoundTypes
    <2>5. MailDue'
      <3>1. CASE midnight
        <4>1. now + mailer = MailTick + Day BY <1>a, <1>b, <2>1, <3>1 DEF MailDue
        <4> QED BY <1>a, <1>b, <2>1, <2>2, <3>1, <4>1 DEF MailDue
      <3>2. CASE ~midnight
        <4>1. now' + mailer' = now + mailer BY <1>a, <2>1, <2>2, <3>2
        <4> QED BY <2>1, <3>2, <4>1 DEF MailDue
      <3> QED BY <3>1, <3>2
    <2>6. BriefedOnce'
      <3>1. CASE midnight BY <2>1, <3>1 DEF BriefedOnce
      <3>2. CASE ~midnight
        <4>1. now' = now + 1 /\ now' + thinker'.left = now + thinker.left
          BY <1>a, <2>2, <2>3, <3>2
        <4>2. briefed' = briefed BY <2>1, <3>2
        <4>3. now >= Hour => now' >= Hour BY <1>a, <1>b, <4>1
        <4> QED BY <2>3, <4>1, <4>2, <4>3 DEF BriefedOnce
      <3> QED BY <3>1, <3>2
    <2> QED BY <2>4, <2>5, <2>6
  <1>2. CASE ThinkerWakes
    <2>1. /\ thinker.at = "asleep" /\ thinker.left <= 0
          /\ thinker' = [at |-> "thinking", day |-> "today", left |-> Longest]
          /\ UNCHANGED <<now, mailer, briefed, rounds>>
      BY <1>2 DEF ThinkerWakes
    <2>2. RoundTypes' BY <1>a, <1>b, <2>1 DEF RoundTypes
    <2>3. BriefedOnce' BY <1>a, <1>b, <2>1 DEF BriefedOnce
    <2> QED BY <2>1, <2>2, <2>3 DEF MailDue
  <1>3. CASE SessionEnds
    <2>1. /\ thinker.at = "thinking"
          /\ UNCHANGED <<now, mailer, rounds>>
          /\ IF MidnightHour
             THEN thinker' = [at |-> "briefing", day |-> "today", left |-> Longest]
                  /\ briefed' = briefed + 1
             ELSE thinker' = Resting /\ UNCHANGED briefed
      BY <1>3 DEF SessionEnds
    <2>2. MidnightHour <=> now < Hour BY <1>a, FirstHour DEF MidnightHour
    <2>3. RoundTypes' BY <1>a, <1>b, <2>1 DEF RoundTypes, Resting
    <2>4. BriefedOnce'
      <3>1. CASE MidnightHour
        BY <1>a, <1>b, <2>1, <2>2, <3>1 DEF BriefedOnce
      <3>2. CASE ~MidnightHour
        BY <1>a, <1>b, <2>1, <2>2, <3>2 DEF BriefedOnce
      <3> QED BY <3>1, <3>2
    <2> QED BY <2>1, <2>3, <2>4 DEF MailDue
  <1>4. ASSUME NEW stored \in BOOLEAN, LoopBriefs(stored) PROVE RoundsInv'
    <2>1. /\ thinker' = [at |-> "asleep", day |-> "today", left |-> Interval * Hour]
          /\ UNCHANGED <<now, mailer, briefed, rounds>>
      BY <1>4 DEF LoopBriefs, Resting
    <2>2. RoundTypes' BY <1>a, <1>b, <2>1 DEF RoundTypes
    <2>3. BriefedOnce' BY <1>a, <1>b, <2>1 DEF BriefedOnce
    <2> QED BY <2>1, <2>2, <2>3 DEF MailDue
  <1>5. CASE MailDailyBrief
    <2>1. /\ mailer <= 0 /\ rounds' = rounds + 1 /\ mailer' = Wait(now)
          /\ UNCHANGED <<now, thinker, briefed>>
      BY <1>5 DEF MailDailyBrief
    <2>2. /\ Wait(now) \in Nat
          /\ now + Wait(now) = IF now >= MailTick THEN MailTick + Day ELSE MailTick
      BY <1>a, WaitEnds
    <2>3. now + mailer = MailTick /\ rounds = 0 /\ now >= MailTick
      BY <1>a, <1>b, <2>1 DEF MailDue
    <2>4. RoundTypes' BY <1>a, <2>1, <2>2 DEF RoundTypes
    <2>5. MailDue' BY <2>1, <2>2, <2>3 DEF MailDue
    <2> QED BY <2>1, <2>4, <2>5 DEF BriefedOnce
  <1>6. CASE Reboot
    <2>1. /\ thinker' = [at |-> "asleep", day |-> "today", left |-> Delay] /\ mailer' = Wait(now)
          /\ briefed' = 0 /\ rounds' = 0 /\ UNCHANGED now
      BY <1>6 DEF Reboot
    <2>2. /\ Wait(now) \in Nat
          /\ now + Wait(now) = IF now >= MailTick THEN MailTick + Day ELSE MailTick
      BY <1>a, WaitEnds
    <2>3. RoundTypes' BY <1>a, <1>b, <2>1, <2>2 DEF RoundTypes
    <2> QED BY <2>1, <2>2, <2>3 DEF MailDue, BriefedOnce
  <1>7. ASSUME UNCHANGED <<now, thinker, mailer, briefed, rounds>> PROVE RoundsInv'
    BY <1>7 DEF RoundTypes, MailDue, BriefedOnce
  <1> QED
    BY <1>1, <1>2, <1>3, <1>4, <1>5, <1>6, <1>7
    DEF RoundsNext, roundsVars, LoopStep, AskerStep, GetBrief, PostBrief, ReadBrief, BriefMade

\* At the start both loops are about to wake.
LEMMA RoundsInvInit == RoundsInit => RoundsInv
  <1> SUFFICES ASSUME RoundsInit PROVE RoundsInv OBVIOUS
  <1>1. /\ now \in 0..Day - 1 /\ mailer = Wait(now) /\ briefed = 0 /\ rounds = 0
        /\ thinker = [at |-> "asleep", day |-> "today", left |-> Delay]
    BY DEF RoundsInit
  <1>2. /\ Wait(now) \in Nat
        /\ now + Wait(now) = IF now >= MailTick THEN MailTick + Day ELSE MailTick
    BY <1>1, WaitEnds
  <1>3. Delay \in Nat BY RoundsAssumption
  <1> QED BY <1>1, <1>2, <1>3 DEF RoundsInv, RoundTypes, MailDue, BriefedOnce

\* The invariant gives the property.
LEMMA RoundsSay == RoundsInv => OncePerDay
  BY DEF RoundsInv, RoundTypes, MailDue, BriefedOnce, OncePerDay

\* The thinker briefs and the mail loop makes its round at most once on a day without a start
\* of the server, for any length of the hours, the sessions and the lateness of a sleeper that
\* leaves the hour of the mail within its day.
THEOREM RoundsOncePerDay == RoundsSpec => []OncePerDay
  BY RoundsInvInit, RoundsInvStep, RoundsSay, PTL DEF RoundsSpec

\* What the next steps rely on: the records of the discussions are whole, and no
\* session has an id that is still to be given.
SessionRecord == [id : Nat, idle : Nat, messages : Int]

DiscussionRecord ==
    [status : {"active", "concluded"}, participants : SUBSET Speakers,
     authors : Seq(Speakers), conclusion : {"none", "first", "second"}]

CompanionsInv ==
    /\ discussions \in [DOMAIN discussions -> DiscussionRecord]
    /\ sessions \in [People -> SessionRecord]
    /\ nextSession \in Nat \ {0}
    /\ \A u \in People : sessions[u].id < nextSession

\* Discussions: the records stay whole, and one that is concluded keeps its status and authors.
DiscussionsStay ==
    /\ discussions' \in [DOMAIN discussions' -> DiscussionRecord]
    /\ \A d \in DOMAIN discussions :
          discussions[d].status = "concluded"
            => /\ discussions'[d].status = "concluded"
               /\ discussions'[d].authors = discussions[d].authors

\* Sessions: the ids stay below the next, and an expired session is not used again.
SessionsStay ==
    /\ sessions' \in [People -> SessionRecord] /\ nextSession' \in Nat \ {0}
    /\ \A u \in People : sessions'[u].id < nextSession'
    /\ \A u \in People :
          sessions[u].id # 0 /\ sessions[u].idle > Timeout
            => sessions'[u] = sessions[u] \/ sessions'[u].id # sessions[u].id

\* One call of the discussions' handlers keeps what is concluded as it is.
LEMMA DiscussionsStep ==
    ASSUME CompanionsInv, CompanionsNext
    PROVE  DiscussionsStay
  <1> USE DEF CompanionsInv
  <1>1. ASSUME UNCHANGED discussions PROVE DiscussionsStay
    BY <1>1 DEF DiscussionsStay
  <1>2. ASSUME NEW d \in Topics, NEW invited \in SUBSET Peers, StartDiscussion(d, invited)
        PROVE  DiscussionsStay
    <2> DEFINE new == [status |-> "active", participants |-> {Self} \cup (invited \cap DOMAIN peers),
                       authors |-> <<>>, conclusion |-> "none"]
    <2>1. new \in DiscussionRecord BY DEF DiscussionRecord, Speakers
    <2> QED BY <1>2, <2>1 DEF StartDiscussion, DiscussionsStay
  <1>3. ASSUME NEW d \in Topics, NEW p \in Speakers, AddOpinion(d, p)
        PROVE  DiscussionsStay
    <2>1. discussions[d] \in DiscussionRecord BY <1>3 DEF AddOpinion, Open
    <2>2. Append(discussions[d].authors, p) \in Seq(Speakers) BY <2>1 DEF DiscussionRecord
    <2>3. discussions[d].participants \cup {p} \in SUBSET Speakers BY <2>1 DEF DiscussionRecord
    <2> QED BY <1>3, <2>1, <2>2, <2>3 DEF AddOpinion, Open, DiscussionsStay, DiscussionRecord
  <1>4. ASSUME NEW d \in Topics, NEW c \in {"first", "second"}, Conclude(d, c)
        PROVE  DiscussionsStay
    <2>1. discussions[d] \in DiscussionRecord BY <1>4 DEF Conclude
    <2> QED BY <1>4, <2>1 DEF Conclude, DiscussionsStay, DiscussionRecord
  <1> QED BY <1>1, <1>2, <1>3, <1>4
       DEF CompanionsNext, RegisterPeer, SendMessage, CompanionsTick, UseSession, EndSession

\* One call of the sessions' handlers, or a tick, revives no session.
LEMMA SessionsStep ==
    ASSUME CompanionsInv, CompanionsNext
    PROVE  SessionsStay
  <1> USE CompanionsAssumption DEF CompanionsAssumption, CompanionsInv, SessionRecord
  <1>1. ASSUME UNCHANGED <<sessions, nextSession>> PROVE SessionsStay
    BY <1>1 DEF SessionsStay
  <1>2. CASE CompanionsTick
    BY <1>2 DEF CompanionsTick, SessionsStay
  <1>3. ASSUME NEW u \in People, UseSession(u) PROVE SessionsStay
    <2>1. NoSession \in SessionRecord BY DEF NoSession
    <2>2. CASE sessions[u].id = 0 \/ Expired(u)
      BY <1>3, <2>1, <2>2 DEF UseSession, Expired, SessionsStay, NoSession
    <2>3. CASE ~(sessions[u].id = 0 \/ Expired(u))
      BY <1>3, <2>3 DEF UseSession, Expired, SessionsStay
    <2> QED BY <2>2, <2>3
  <1>4. ASSUME NEW u \in People, EndSession(u) PROVE SessionsStay
    BY <1>4 DEF EndSession, SessionsStay, NoSession
  <1> QED BY <1>1, <1>2, <1>3, <1>4
       DEF CompanionsNext, RegisterPeer, SendMessage, StartDiscussion, AddOpinion, Conclude

\* At the start there is no discussion and no session.
LEMMA CompanionsInvInit == CompanionsInit => CompanionsInv
  BY DEF CompanionsInit, CompanionsInv, NoSession, SessionRecord

\* No call of the two managers takes a record apart or gives an id twice.
LEMMA CompanionsInvStep == CompanionsInv /\ [CompanionsNext]_companionVars => CompanionsInv'
  <1>1. ASSUME CompanionsInv, CompanionsNext PROVE CompanionsInv'
    BY <1>1, DiscussionsStep, SessionsStep DEF CompanionsInv, DiscussionsStay, SessionsStay
  <1>2. ASSUME CompanionsInv, UNCHANGED companionVars PROVE CompanionsInv'
    BY <1>2 DEF CompanionsInv, companionVars
  <1> QED BY <1>1, <1>2

\* The types and the ids, always.
LEMMA CompanionsInvHolds == CompanionsSpec => []CompanionsInv
  <1> QED BY CompanionsInvInit, CompanionsInvStep, PTL DEF CompanionsSpec

\* What is over stays over: a concluded discussion is not reopened and takes no further
\* opinion, an expired session is replaced or removed but never used again (_discussions and
\* _sessions of the two managers).
THEOREM ClosedForGood == CompanionsSpec => ClosedStaysClosed
  <1>1. ASSUME CompanionsInv, CompanionsNext
        PROVE  \A d \in DOMAIN discussions :
                 discussions[d].status = "concluded"
                   => /\ discussions'[d].status = "concluded"
                      /\ discussions'[d].authors = discussions[d].authors
    BY <1>1, DiscussionsStep DEF DiscussionsStay
  <1>2. ASSUME CompanionsInv, CompanionsNext
        PROVE  \A u \in People :
                 sessions[u].id # 0 /\ sessions[u].idle > Timeout
                   => sessions'[u] = sessions[u] \/ sessions'[u].id # sessions[u].id
    BY <1>2, SessionsStep DEF SessionsStay
  <1>3. CompanionsSpec => ConcludedIsClosed
    BY <1>1, CompanionsInvHolds, PTL DEF CompanionsSpec, ConcludedIsClosed
  <1>4. CompanionsSpec => ExpiredNotRevived
    BY <1>2, CompanionsInvHolds, PTL DEF CompanionsSpec, ExpiredNotRevived
  <1> QED BY <1>3, <1>4 DEF ClosedStaysClosed

-----------------------------------------------------------------------------
(* Migrations *)

\* The highest of the first h versions is h.
LEMMA HighestOfFirst ==
    ASSUME NEW h \in Nat
    PROVE  Highest(1..h) = h
  <1>1. CASE h = 0 BY <1>1 DEF Highest
  <1>2. CASE h # 0
    <2>1. h \in 1..h /\ \A w \in 1..h : w <= h BY <1>2
    <2>2. \A v \in 1..h : (\A w \in 1..h : w <= v) => v = h BY <1>2
    <2> QED BY <2>1, <2>2 DEF Highest
  <1> QED BY <1>1, <1>2

Works == [at : {"idle", "read", "mark", "script", "record"}, next : 1..Latest + 1,
          result : {"none", "migrated", "up_to_date", "error", "raised"}]

MigrationTypes ==
    /\ recorded \subseteq Versions /\ repeated \subseteq Versions
    /\ ran \in [Versions -> Nat] /\ work \in [Migrators -> Works]

\* The versions that are recorded are the first ones.
RecordedAreFirst == \E h \in 0..Latest : recorded = 1..h

\* A runner works on the version after a recorded one, and what it is about to record it
\* has run.
WorksInOrder ==
    \A r \in Migrators : work[r].at \in {"script", "record"} =>
        /\ work[r].next \in 2..Latest /\ work[r].next - 1 \in recorded
        /\ work[r].at = "record" => ran[work[r].next] > 0

\* Until every version may have been repeated one runner is at work at most; it works on what
\* is not recorded, and marks the first version only in an empty table.
WorksAlone ==
    \A v \in Versions \ repeated :
        /\ \A r, s \in Migrators : work[r].at # "idle" /\ work[s].at # "idle" => r = s
        /\ \A r \in Migrators :
            /\ work[r].at \in {"script", "record"} /\ work[r].next = v => v \notin recorded
            /\ work[r].at = "mark" => recorded = {}

\* A script that has run is recorded, about to be recorded, or was left without a record.
RanIsKnown ==
    \A v \in Versions : ran[v] > 0 => v \in recorded \cup repeated \/ Holders(v) # {}

MigrationInv ==
    /\ MigrationTypes /\ RecordedAreFirst /\ WorksInOrder /\ WorksAlone /\ RanIsKnown
    /\ \A v \in recorded \ {1} : ran[v] > 0
    /\ SuccessIsLatest /\ RunsOnce

\* Every step of a runner keeps the types.
LEMMA MigrationTypesStep == MigrationInv /\ [MigrationNext]_migrationVars => MigrationTypes'
  <1> SUFFICES ASSUME MigrationInv, [MigrationNext]_migrationVars PROVE MigrationTypes' OBVIOUS
  <1> USE MigrationAssumption
  <1>a. MigrationTypes /\ WorksInOrder BY DEF MigrationInv
  <1>b. Latest \in Nat \ {0} /\ 1 \in Versions /\ \A r \in Runners : r \in Migrators
    BY DEF Versions, Migrators
  <1>c. \A w \in Works, n \in 1..Latest + 1 : [w EXCEPT !.at = "script", !.next = n] \in Works
    BY DEF Works
  <1>d. /\ Ready \in Works /\ [Ready EXCEPT !.at = "read"] \in Works
        /\ \A s \in {"migrated", "up_to_date", "error", "raised"} : [Ready EXCEPT !.result = s] \in Works
    BY <1>b DEF Ready, Works
  <1>0. ASSUME NEW r \in Migrators, NEW at \in {"mark", "record"},
               work' = [work EXCEPT ![r].at = at]
        PROVE  work' \in [Migrators -> Works]
    BY <1>a, <1>0 DEF MigrationTypes, Works
  <1>1. ASSUME NEW r \in Migrators, NEW n \in 1..Latest + 1, Advance(r, n)
        PROVE  work' \in [Migrators -> Works]
    BY <1>a, <1>c, <1>1 DEF Advance, MigrationTypes
  <1>2. ASSUME NEW r \in Migrators, NEW s \in {"migrated", "up_to_date", "error", "raised"}, End(r, s)
        PROVE  work' \in [Migrators -> Works]
    BY <1>a, <1>d, <1>2 DEF End, MigrationTypes
  <1>3. ASSUME NEW r \in Runners, RunMigrations(r) PROVE MigrationTypes'
    BY <1>a, <1>b, <1>d, <1>3 DEF RunMigrations, MigrationTypes
  <1>4. ASSUME NEW r \in Migrators, ReadVersion(r) PROVE MigrationTypes'
    <2>1. PICK h \in 0..Latest : recorded = 1..h BY DEF MigrationInv, RecordedAreFirst
    <2>2. Highest(recorded) = h BY <2>1, <1>b, HighestOfFirst
    <2>3. CASE h = 0
      BY <1>a, <1>0, <1>4, <2>2, <2>3 DEF ReadVersion, MigrationTypes
    <2>4. CASE h # 0 /\ h < Latest
      <3>1. Advance(r, h + 1) BY <1>4, <2>2, <2>4 DEF ReadVersion, Pending
      <3>2. h + 1 \in 1..Latest + 1 BY <1>b, <2>4
      <3> QED BY <1>a, <1>1, <1>4, <3>1, <3>2 DEF ReadVersion, MigrationTypes
    <2>5. CASE h = Latest
      BY <1>a, <1>b, <1>2, <1>4, <2>2, <2>5 DEF ReadVersion, MigrationTypes
    <2> QED BY <1>b, <2>3, <2>4, <2>5
  <1>5. ASSUME NEW r \in Migrators, ReadFails(r) PROVE MigrationTypes'
    BY <1>a, <1>0, <1>5 DEF ReadFails, MigrationTypes
  <1>6. ASSUME NEW r \in Migrators, Mark(r) PROVE MigrationTypes'
    <2>1. CASE Latest > 1
      <3>1. Advance(r, 2) /\ 2 \in 1..Latest + 1 BY <1>b, <1>6, <2>1 DEF Mark
      <3> QED BY <1>a, <1>b, <1>1, <1>6, <3>1 DEF Mark, MigrationTypes
    <2>2. CASE ~(Latest > 1)
      BY <1>a, <1>b, <1>2, <1>6, <2>2 DEF Mark, MigrationTypes
    <2> QED BY <2>1, <2>2
  <1>7. ASSUME NEW r \in Migrators, RunScript(r) PROVE MigrationTypes'
    <2>1. work[r].next \in Versions BY <1>a, <1>b, <1>7 DEF RunScript, MigrationTypes, Works, WorksInOrder, Versions
    <2>2. work' \in [Migrators -> Works] BY <1>0, <1>7 DEF RunScript
    <2> QED BY <1>a, <1>7, <2>1, <2>2 DEF RunScript, MigrationTypes
  <1>8. ASSUME NEW r \in Migrators, Record(r) PROVE MigrationTypes'
    <2>1. work[r].next \in 2..Latest BY <1>a, <1>8 DEF Record, WorksInOrder
    <2>2. recorded' \subseteq Versions /\ UNCHANGED <<ran, repeated>>
      <3>1. work[r].next \in Versions BY <1>b, <2>1 DEF Versions
      <3> QED BY <1>a, <1>8, <3>1 DEF Record, MigrationTypes
    <2>3. work[r].next + 1 \in 1..Latest + 1 BY <1>b, <2>1
    <2>4. \/ End(r, "error") \/ Advance(r, work[r].next + 1) \/ End(r, "migrated")
      BY <1>8 DEF Record
    <2>5. work' \in [Migrators -> Works] BY <1>1, <1>2, <2>3, <2>4
    <2> QED BY <1>a, <2>2, <2>5 DEF MigrationTypes
  <1>9. ASSUME NEW r \in Migrators, MigrationFails(r) PROVE MigrationTypes'
    <2>1. work' \in [Migrators -> Works] BY <1>2, <1>9 DEF MigrationFails, Stops
    <2>2. work[r].at = "record" => work[r].next \in Versions
      BY <1>a, <1>b DEF WorksInOrder, Versions
    <2> QED BY <1>a, <1>9, <2>1, <2>2 DEF MigrationFails, MigrationTypes
  <1>10. CASE Restart
    BY <1>a, <1>d, <1>10 DEF Restart, MigrationTypes
  <1>11. CASE UNCHANGED migrationVars BY <1>a, <1>11 DEF migrationVars, MigrationTypes
  <1> QED
    BY <1>3, <1>4, <1>5, <1>6, <1>7, <1>8, <1>9, <1>10, <1>11 DEF MigrationNext

\* The conjuncts of the invariant without the types.
MigrationFacts ==
    /\ RecordedAreFirst /\ WorksInOrder /\ WorksAlone /\ RanIsKnown
    /\ \A v \in recorded \ {1} : ran[v] > 0
    /\ SuccessIsLatest /\ RunsOnce

\* What End and Advance do to the runner and to the others.
LEMMA EndOrAdvance ==
    ASSUME MigrationTypes, NEW r \in Migrators
    PROVE  /\ \A result : End(r, result) =>
                /\ work'[r].at = "idle" /\ work'[r].result = result
                /\ \A s \in Migrators \ {r} : work'[s] = work[s]
           /\ \A v : Advance(r, v) =>
                /\ work'[r].at = "script" /\ work'[r].next = v /\ work'[r].result = work[r].result
                /\ \A s \in Migrators \ {r} : work'[s] = work[s]
  <1>1. work \in [Migrators -> Works] BY DEF MigrationTypes
  <1>2. ASSUME NEW result, End(r, result)
        PROVE  /\ work'[r].at = "idle" /\ work'[r].result = result
               /\ \A s \in Migrators \ {r} : work'[s] = work[s]
    BY <1>1, <1>2 DEF End, Ready
  <1>3. ASSUME NEW v, Advance(r, v)
        PROVE  /\ work'[r].at = "script" /\ work'[r].next = v /\ work'[r].result = work[r].result
               /\ \A s \in Migrators \ {r} : work'[s] = work[s]
    <2>1. work'[r] = [work[r] EXCEPT !.at = "script", !.next = v] BY <1>1, <1>3 DEF Advance
    <2> QED BY <1>1, <1>3, <2>1 DEF Advance, Works
  <1> QED BY <1>2, <1>3

\* Running, reading and recording keep the facts: what is read last is what is there, until
\* two runners are at work.
LEMMA MigrationFactsStep == MigrationInv /\ [MigrationNext]_migrationVars => MigrationFacts'
  <1> SUFFICES ASSUME MigrationInv, [MigrationNext]_migrationVars PROVE MigrationFacts' OBVIOUS
  <1>a. MigrationTypes /\ MigrationFacts /\ MigrationTypes'
    BY MigrationTypesStep DEF MigrationInv, MigrationFacts
  <1>b. Latest \in Nat \ {0} /\ Starter \in Migrators /\ \A r \in Runners : r \in Migrators
    BY MigrationAssumption DEF Migrators
  <1>c. PICK h \in 0..Latest : recorded = 1..h BY <1>a DEF MigrationFacts, RecordedAreFirst
  <1>d. Highest(recorded) = h BY <1>c, <1>b, HighestOfFirst
  <1>1. ASSUME NEW r \in Runners, RunMigrations(r) PROVE MigrationFacts'
    <2>1. /\ work'[r].at = "read" /\ work'[r].result = "none" /\ work[r].at = "idle"
          /\ \A s \in Migrators \ {r} : work'[s] = work[s]
          /\ UNCHANGED <<recorded, ran>>
          /\ repeated' = IF \E s \in Migrators : work[s].at # "idle" THEN Versions ELSE repeated
      BY <1>a, <1>b, <1>1 DEF RunMigrations, Ready, MigrationTypes
    <2>2. repeated \subseteq repeated' /\ \A v : Holders(v)' = Holders(v)
      BY <1>a, <1>b, <2>1 DEF MigrationTypes, Holders
    <2>3. WorksAlone' BY <1>a, <1>b, <2>1 DEF WorksAlone, MigrationFacts
    <2>4. RanIsKnown' BY <1>a, <2>1, <2>2 DEF RanIsKnown, MigrationFacts
    <2>5. RecordedAreFirst' /\ WorksInOrder' /\ SuccessIsLatest' /\ RunsOnce'
      BY <1>a, <1>b, <2>1, <2>2
      DEF RecordedAreFirst, WorksInOrder, SuccessIsLatest, RunsOnce, MigrationFacts
    <2> QED BY <1>a, <2>1, <2>3, <2>4, <2>5 DEF MigrationFacts
  <1>2. ASSUME NEW r \in Migrators, ReadVersion(r) PROVE MigrationFacts'
    <2>1. /\ work[r].at = "read" /\ UNCHANGED <<recorded, ran, repeated>>
          /\ \A s \in Migrators \ {r} : work'[s] = work[s]
          /\ \/ h = 0 /\ work'[r].at = "mark" /\ work'[r].result = work[r].result
             \/ /\ h # 0 /\ h < Latest /\ work'[r].at = "script" /\ work'[r].next = h + 1
                /\ work'[r].result = work[r].result
             \/ h = Latest /\ work'[r].at = "idle"
      <3>1. CASE h = 0
        BY <1>2, <1>a, <1>d, <3>1 DEF ReadVersion, MigrationTypes, Works
      <3>2. CASE h # 0 /\ h < Latest
        <4>1. Advance(r, h + 1) BY <1>2, <1>d, <3>2 DEF ReadVersion, Pending
        <4> QED BY <1>2, <1>a, <3>2, <4>1, EndOrAdvance DEF ReadVersion
      <3>3. CASE h # 0 /\ ~(h < Latest)
        <4>1. End(r, "up_to_date") BY <1>2, <1>d, <3>3 DEF ReadVersion
        <4> QED BY <1>2, <1>a, <1>b, <3>3, <4>1, EndOrAdvance DEF ReadVersion
      <3> QED BY <3>1, <3>2, <3>3
    <2>2. \A v \in Versions : Holders(v)' = Holders(v) BY <2>1 DEF Holders
    <2>3. WorksInOrder'
      BY <1>a, <1>b, <1>c, <2>1 DEF WorksInOrder, MigrationFacts
    <2>4. WorksAlone'
      BY <1>a, <1>b, <1>c, <2>1 DEF WorksAlone, MigrationFacts
    <2>5. SuccessIsLatest'
      <3>1. CASE h = Latest BY <1>c, <2>1, <3>1 DEF SuccessIsLatest, Versions
      <3>2. CASE h # Latest
        <4>1. \A s \in Migrators : work'[s].result = work[s].result BY <2>1, <3>2
        <4> QED BY <1>a, <2>1, <4>1 DEF SuccessIsLatest, MigrationFacts
      <3> QED BY <3>1, <3>2
    <2>6. RanIsKnown' /\ RecordedAreFirst' /\ RunsOnce'
      BY <1>a, <2>1, <2>2 DEF RanIsKnown, RecordedAreFirst, RunsOnce, MigrationFacts
    <2> QED BY <1>a, <2>1, <2>3, <2>4, <2>5, <2>6 DEF MigrationFacts
  <1>3. ASSUME NEW r \in Migrators, ReadFails(r) PROVE MigrationFacts'
    <2>1. /\ work[r].at = "read" /\ work'[r].at = "mark" /\ work'[r].result = work[r].result
          /\ \A s \in Migrators \ {r} : work'[s] = work[s]
          /\ UNCHANGED <<recorded, ran>> /\ repeated' = Versions
      BY <1>3, <1>a DEF ReadFails, MigrationTypes, Works
    <2>2. WorksInOrder' BY <1>a, <2>1 DEF WorksInOrder, MigrationFacts
    <2>3. WorksAlone' /\ RanIsKnown' /\ RunsOnce' BY <2>1 DEF WorksAlone, RanIsKnown, RunsOnce
    <2>4. SuccessIsLatest'
      <3>1. \A s \in Migrators : work'[s].result = work[s].result BY <2>1
      <3> QED BY <1>a, <2>1, <3>1 DEF SuccessIsLatest, MigrationFacts
    <2> QED BY <1>a, <2>1, <2>2, <2>3, <2>4 DEF MigrationFacts, RecordedAreFirst
  <1>4. ASSUME NEW r \in Migrators, Mark(r) PROVE MigrationFacts'
    <2>1. /\ work[r].at = "mark" /\ recorded' = recorded \cup {1} /\ UNCHANGED <<ran, repeated>>
          /\ \A s \in Migrators \ {r} : work'[s] = work[s]
          /\ \/ /\ Latest > 1 /\ work'[r].at = "script" /\ work'[r].next = 2
                /\ work'[r].result = work[r].result
             \/ Latest = 1 /\ work'[r].at = "idle"
      <3>1. CASE Latest > 1
        <4>1. Advance(r, 2) BY <1>4, <3>1 DEF Mark
        <4> QED BY <1>4, <1>a, <3>1, <4>1, EndOrAdvance DEF Mark
      <3>2. CASE ~(Latest > 1)
        <4>1. End(r, "up_to_date") BY <1>4, <3>2 DEF Mark
        <4> QED BY <1>4, <1>a, <1>b, <3>2, <4>1, EndOrAdvance DEF Mark
      <3> QED BY <3>1, <3>2
    <2>2. PICK k \in 1..Latest : recorded' = 1..k /\ k >= h
      <3>1. CASE h = 0 BY <1>b, <1>c, <2>1, <3>1
      <3>2. CASE h # 0 BY <1>b, <1>c, <2>1, <3>2
      <3> QED BY <3>1, <3>2
    <2>3. WorksInOrder'
      BY <1>a, <1>b, <2>1 DEF WorksInOrder, MigrationFacts
    <2>4. WorksAlone'
      <3> SUFFICES ASSUME NEW v \in Versions \ repeated
                   PROVE  /\ \A q, s \in Migrators :
                                work'[q].at # "idle" /\ work'[s].at # "idle" => q = s
                          /\ \A s \in Migrators :
                                /\ work'[s].at \in {"script", "record"} /\ work'[s].next = v
                                        => v \notin recorded'
                                /\ work'[s].at = "mark" => recorded' = {}
        BY <2>1 DEF WorksAlone
      <3>1. /\ \A s \in Migrators \ {r} : work[s].at = "idle"
            /\ recorded = {}
        BY <1>a, <2>1 DEF WorksAlone, MigrationFacts
      <3> QED BY <1>b, <2>1, <3>1
    <2>5. RanIsKnown'
      <3>1. \A v \in Versions : Holders(v)' = Holders(v) BY <2>1 DEF Holders
      <3> QED BY <1>a, <2>1, <3>1 DEF RanIsKnown, MigrationFacts
    <2>6. SuccessIsLatest'
      <3>1. CASE Latest = 1 BY <2>2, <3>1 DEF SuccessIsLatest, Versions
      <3>2. CASE Latest # 1
        <4>1. \A s \in Migrators : work'[s].result = work[s].result BY <2>1, <3>2
        <4>2. recorded = Versions => recorded' = Versions BY <1>b, <2>1 DEF Versions
        <4> QED BY <1>a, <4>1, <4>2 DEF SuccessIsLatest, MigrationFacts
      <3> QED BY <3>1, <3>2
    <2>7. RecordedAreFirst' /\ RunsOnce' /\ \A v \in recorded' \ {1} : ran'[v] > 0
      BY <1>a, <1>b, <2>1, <2>2 DEF RecordedAreFirst, RunsOnce, MigrationFacts
    <2> QED BY <2>3, <2>4, <2>5, <2>6, <2>7 DEF MigrationFacts
  <1>5. ASSUME NEW r \in Migrators, RunScript(r) PROVE MigrationFacts'
    <2>1. PICK v \in Versions : /\ v = work[r].next /\ work[r].at = "script" /\ v \in 2..Latest
                                /\ v - 1 \in recorded
      BY <1>5, <1>a, <1>b DEF RunScript, MigrationFacts, WorksInOrder, Versions
    <2>2. /\ work'[r].at = "record" /\ work'[r].next = v /\ work'[r].result = work[r].result
          /\ \A s \in Migrators \ {r} : work'[s] = work[s]
          /\ UNCHANGED <<recorded, repeated>>
          /\ ran'[v] = ran[v] + 1 /\ \A w \in Versions \ {v} : ran'[w] = ran[w]
      BY <1>5, <1>a, <2>1 DEF RunScript, MigrationTypes, Works
    <2>3. \A w \in Versions : ran[w] \in Nat /\ ran'[w] >= ran[w]
      BY <1>a, <2>1, <2>2 DEF MigrationTypes
    <2>4. WorksInOrder'
      <3>1. ran'[v] > 0 BY <2>1, <2>2, <2>3
      <3>2. \A s \in Migrators : work[s].at = "record" => work[s].next \in Versions
        BY <1>a, <1>b DEF MigrationFacts, WorksInOrder, Versions
      <3>3. \A w \in Versions : ran[w] > 0 => ran'[w] > 0 BY <1>a, <2>3 DEF MigrationTypes
      <3> QED BY <1>a, <2>1, <2>2, <3>1, <3>2, <3>3 DEF WorksInOrder, MigrationFacts
    <2>5. WorksAlone' BY <1>a, <2>1, <2>2 DEF WorksAlone, MigrationFacts
    <2>6. RanIsKnown'
      <3>1. r \in Holders(v)' BY <2>2 DEF Holders
      <3>2. \A w \in Versions \ {v} : Holders(w)' = Holders(w)
        BY <2>1, <2>2 DEF Holders
      <3> QED BY <1>a, <2>2, <3>1, <3>2 DEF RanIsKnown, MigrationFacts
    <2>7. RunsOnce'
      <3> SUFFICES ASSUME v \notin repeated PROVE ran'[v] <= 1
        BY <1>a, <2>2 DEF RunsOnce, MigrationFacts, MigrationTypes
      <3>1. v \notin recorded
        BY <1>a, <2>1 DEF WorksAlone, MigrationFacts
      <3>2. Holders(v) = {}
        BY <1>a, <2>1 DEF WorksAlone, MigrationFacts, Holders
      <3>3. ran[v] = 0 BY <1>a, <2>1, <3>1, <3>2 DEF RanIsKnown, MigrationFacts, MigrationTypes
      <3> QED BY <2>2, <3>3
    <2>8. SuccessIsLatest'
      <3>1. \A s \in Migrators : work'[s].result = work[s].result BY <2>2
      <3> QED BY <1>a, <2>2, <3>1 DEF SuccessIsLatest, MigrationFacts
    <2>9. \A w \in recorded' \ {1} : ran'[w] > 0
      BY <1>a, <2>2, <2>3 DEF MigrationFacts, MigrationTypes
    <2> QED BY <1>a, <2>2, <2>4, <2>5, <2>6, <2>7, <2>8, <2>9 DEF MigrationFacts, RecordedAreFirst
  <1>6. ASSUME NEW r \in Migrators, Record(r) PROVE MigrationFacts'
    <2>1. PICK v \in Versions : /\ v = work[r].next /\ work[r].at = "record" /\ v \in 2..Latest
                                /\ v - 1 \in recorded /\ ran[v] > 0
      BY <1>6, <1>a, <1>b DEF Record, MigrationFacts, WorksInOrder, Versions
    <2>2. /\ recorded' = recorded \cup {v} /\ UNCHANGED <<ran, repeated>>
          /\ \A s \in Migrators \ {r} : work'[s] = work[s]
          /\ \/ v \in recorded /\ work'[r].at = "idle" /\ work'[r].result = "error"
             \/ /\ v \notin recorded /\ v < Latest /\ work'[r].at = "script"
                /\ work'[r].next = v + 1 /\ work'[r].result = work[r].result
             \/ v \notin recorded /\ v = Latest /\ work'[r].at = "idle" /\ work'[r].result = "migrated"
      <3>1. recorded' = recorded \cup {v} /\ UNCHANGED <<ran, repeated>> BY <1>6, <2>1 DEF Record
      <3>2. CASE v \in recorded
        <4>1. End(r, "error") BY <1>6, <2>1, <3>2 DEF Record
        <4> QED BY <1>a, <3>1, <3>2, <4>1, EndOrAdvance
      <3>3. CASE v \notin recorded /\ v < Latest
        <4>1. Advance(r, v + 1) BY <1>6, <2>1, <3>3 DEF Record
        <4> QED BY <1>a, <3>1, <3>3, <4>1, EndOrAdvance
      <3>4. CASE v \notin recorded /\ v = Latest
        <4>1. End(r, "migrated") BY <1>6, <1>b, <2>1, <3>4 DEF Record
        <4> QED BY <1>a, <3>1, <3>4, <4>1, EndOrAdvance
      <3> QED BY <1>b, <2>1, <3>2, <3>3, <3>4
    <2>3. \/ v \in recorded /\ recorded' = recorded
          \/ v \notin recorded /\ v = h + 1 /\ recorded' = 1..v
      <3>1. v <= h + 1 BY <1>b, <1>c, <2>1
      <3>2. CASE v <= h BY <1>c, <2>1, <2>2, <3>2
      <3>3. CASE v = h + 1 BY <1>b, <1>c, <2>1, <2>2, <3>3
      <3> QED BY <1>b, <2>1, <3>1, <3>2, <3>3
    <2>4. WorksInOrder' BY <1>a, <1>b, <2>1, <2>2 DEF WorksInOrder, MigrationFacts
    <2>5. WorksAlone'
      <3> SUFFICES ASSUME NEW w \in Versions \ repeated
                   PROVE  /\ \A q, s \in Migrators :
                                work'[q].at # "idle" /\ work'[s].at # "idle" => q = s
                          /\ \A s \in Migrators :
                                /\ work'[s].at \in {"script", "record"} /\ work'[s].next = w
                                        => w \notin recorded'
                                /\ work'[s].at = "mark" => recorded' = {}
        BY <2>2 DEF WorksAlone
      <3>1. \A s \in Migrators \ {r} : work[s].at = "idle"
        BY <1>a, <2>1 DEF WorksAlone, MigrationFacts
      <3>2. v \notin recorded => v + 1 \notin recorded' BY <2>1, <2>3
      <3> QED BY <2>2, <3>1, <3>2
    <2>6. RanIsKnown'
      <3>1. \A w \in Versions \ {v} : Holders(w)' = Holders(w)
        BY <2>1, <2>2 DEF Holders
      <3> QED BY <1>a, <2>2, <3>1 DEF RanIsKnown, MigrationFacts
    <2>7. SuccessIsLatest'
      <3>1. CASE v = Latest
        <4>1. recorded' = Versions BY <1>b, <1>c, <2>1, <2>3, <3>1 DEF Versions
        <4> QED BY <4>1 DEF SuccessIsLatest
      <3>2. CASE v # Latest
        <4>1. \A s \in Migrators : work'[s].result \in {"migrated", "up_to_date"}
                                    => work[s].result \in {"migrated", "up_to_date"}
          BY <2>2, <3>2
        <4>2. recorded = Versions => recorded' = Versions BY <2>1, <2>2
        <4> QED BY <1>a, <4>1, <4>2 DEF SuccessIsLatest, MigrationFacts
      <3> QED BY <3>1, <3>2
    <2>8. RecordedAreFirst' /\ RunsOnce' /\ \A w \in recorded' \ {1} : ran'[w] > 0
      BY <1>a, <1>b, <2>1, <2>2, <2>3 DEF RecordedAreFirst, RunsOnce, MigrationFacts
    <2> QED BY <2>4, <2>5, <2>6, <2>7, <2>8 DEF MigrationFacts
  <1>7. ASSUME NEW r \in Migrators, MigrationFails(r) PROVE MigrationFacts'
    <2>1. /\ work[r].at \in {"mark", "script", "record"} /\ UNCHANGED <<recorded, ran>>
          /\ repeated' = IF work[r].at = "record" THEN repeated \cup {work[r].next} ELSE repeated
          /\ work'[r].at = "idle" /\ work'[r].result \in {"raised", "error"}
          /\ \A s \in Migrators \ {r} : work'[s] = work[s]
      <3>1. End(r, IF work[r].at = "mark" THEN "raised" ELSE "error")
        BY <1>7 DEF MigrationFails, Stops
      <3> QED BY <1>7, <1>a, <3>1, EndOrAdvance DEF MigrationFails
    <2>2. WorksInOrder' BY <1>a, <2>1 DEF WorksInOrder, MigrationFacts
    <2>3. WorksAlone' BY <1>a, <2>1 DEF WorksAlone, MigrationFacts
    <2>4. RanIsKnown'
      <3>1. \A w \in Versions : Holders(w)' = Holders(w) \/ w \in repeated'
        BY <2>1 DEF Holders
      <3> QED BY <1>a, <2>1, <3>1 DEF RanIsKnown, MigrationFacts
    <2>5. SuccessIsLatest' BY <1>a, <2>1 DEF SuccessIsLatest, MigrationFacts
    <2> QED BY <1>a, <2>1, <2>2, <2>3, <2>4, <2>5 DEF MigrationFacts, RecordedAreFirst, RunsOnce
  <1>8. CASE Restart
    <2>1. /\ UNCHANGED <<recorded, ran>>
          /\ repeated' = repeated \cup {v \in Versions : Holders(v) # {}}
          /\ work'[Starter].at = "read" /\ work'[Starter].result = "none"
          /\ \A s \in Migrators \ {Starter} : work'[s].at = "idle" /\ work'[s].result = "none"
      BY <1>8, <1>b DEF Restart, Ready
    <2>2. WorksInOrder' /\ WorksAlone' BY <2>1 DEF WorksInOrder, WorksAlone
    <2>3. RanIsKnown' BY <1>a, <2>1 DEF RanIsKnown, MigrationFacts
    <2>4. SuccessIsLatest' BY <2>1 DEF SuccessIsLatest
    <2> QED BY <1>a, <2>1, <2>2, <2>3, <2>4 DEF MigrationFacts, RecordedAreFirst, RunsOnce
  <1>9. CASE UNCHANGED migrationVars
    <2>1. UNCHANGED <<recorded, ran, work, repeated>> BY <1>9 DEF migrationVars
    <2>2. RecordedAreFirst' /\ RunsOnce' BY <1>a, <2>1 DEF MigrationFacts, RecordedAreFirst, RunsOnce
    <2>3. WorksInOrder' /\ WorksAlone' BY <1>a, <2>1 DEF MigrationFacts, WorksInOrder, WorksAlone
    <2>4. RanIsKnown' BY <1>a, <2>1 DEF MigrationFacts, RanIsKnown, Holders
    <2>5. SuccessIsLatest' BY <1>a, <2>1 DEF MigrationFacts, SuccessIsLatest
    <2> QED BY <1>a, <2>1, <2>2, <2>3, <2>4, <2>5 DEF MigrationFacts
  <1> QED
    BY <1>1, <1>2, <1>3, <1>4, <1>5, <1>6, <1>7, <1>8, <1>9 DEF MigrationNext

\* Before the first run the migrations are in order.
LEMMA MigrationInvInit == MigrationInit => MigrationInv
  <1> SUFFICES ASSUME MigrationInit PROVE MigrationInv OBVIOUS
  <1>1. /\ recorded = {} /\ repeated = {} /\ ran = [v \in Versions |-> 0]
        /\ work \in [Migrators -> Works]
        /\ \A r \in Migrators : /\ work[r].at = IF r = Starter THEN "read" ELSE "idle"
                                /\ work[r].result = "none"
    <2>1. /\ Ready \in Works /\ [Ready EXCEPT !.at = "read"] \in Works
          /\ Ready.at = "idle" /\ Ready.result = "none"
          /\ [Ready EXCEPT !.at = "read"].at = "read"
          /\ [Ready EXCEPT !.at = "read"].result = "none"
      <3>1. 1 \in 1..Latest + 1 BY MigrationAssumption
      <3> QED BY <3>1 DEF Ready, Works
    <2>2. work = [r \in Migrators |-> IF r = Starter THEN [Ready EXCEPT !.at = "read"] ELSE Ready]
      BY DEF MigrationInit
    <2>3. ASSUME NEW r \in Migrators
          PROVE  /\ work[r].at = IF r = Starter THEN "read" ELSE "idle"
                 /\ work[r].result = "none" /\ work[r] \in Works
      <3>1. CASE r = Starter BY <2>1, <2>2, <3>1
      <3>2. CASE r # Starter BY <2>1, <2>2, <3>2
      <3> QED BY <3>1, <3>2
    <2>4. work \in [Migrators -> Works] BY <2>2, <2>3
    <2>5. recorded = {} /\ repeated = {} /\ ran = [v \in Versions |-> 0] BY DEF MigrationInit
    <2> QED BY <2>3, <2>4, <2>5
  <1>2. recorded = 1..0 /\ 0 \in 0..Latest
    <2>1. recorded = {} BY <1>1
    <2> QED BY <2>1, MigrationAssumption
  <1>3. MigrationTypes BY <1>1 DEF MigrationTypes
  <1>4. RecordedAreFirst BY <1>2 DEF RecordedAreFirst
  <1>5. recorded = {} /\ \A v \in Versions : ran[v] = 0 BY <1>1
  <1>6. \A r \in Migrators : /\ work[r].at \in {"read", "idle"} /\ work[r].result = "none"
                             /\ work[r].at = "read" => r = Starter
    BY <1>1
  <1>7. WorksInOrder /\ WorksAlone BY <1>6 DEF WorksInOrder, WorksAlone
  <1>8. RanIsKnown /\ RunsOnce BY <1>5 DEF RanIsKnown, RunsOnce
  <1>9. SuccessIsLatest BY <1>6 DEF SuccessIsLatest
  <1> QED BY <1>3, <1>4, <1>5, <1>7, <1>8, <1>9 DEF MigrationInv

\* Every step of a runner, an error or a restart keeps them in order.
LEMMA MigrationInvStep == MigrationInv /\ [MigrationNext]_migrationVars => MigrationInv'
  BY MigrationTypesStep, MigrationFactsStep DEF MigrationInv, MigrationFacts

\* The invariant gives the property: the highest version recorded is their number.
LEMMA MigrationSays == MigrationInv => RecordIsTrue
  <1> SUFFICES ASSUME MigrationInv PROVE RecordIsTrue OBVIOUS
  <1>1. PICK h \in 0..Latest : recorded = 1..h BY DEF MigrationInv, RecordedAreFirst
  <1>2. Highest(recorded) = h BY <1>1, HighestOfFirst, MigrationAssumption
  <1> QED BY <1>1, <1>2 DEF MigrationInv, RecordIsTrue, RecordedWasRun

\* What schema_version says was done: whatever versions, runners, errors and restarts there
\* are, no script is jumped over or run again without a cause, and who reports success leaves
\* the last version.
THEOREM VersionIsTrue == MigrationSpec => []RecordIsTrue
  BY MigrationInvInit, MigrationInvStep, MigrationSays, PTL DEF MigrationSpec

-----------------------------------------------------------------------------
(* MemoryArchive *)

RunStates == [kind : {"none", "archive", "reset"}, todo : Seq(TableNames),
              at : {"none", "count", "insert", "delete", "truncate"}, below : SUBSET Logged]

\* The types of ArchiveTypeOK without the bound of the counters.
ArchiveTypes ==
    /\ log \in [Logged -> {"unwritten", "young", "old", "archived", "truncated"}]
    /\ counted \in [Logged -> Nat]
    /\ runs \in [Runs -> RunStates]
    /\ excused \subseteq Logged

\* What a run has in hand: rows of its table, old ones when they were counted, and nothing
\* where it is not between its count and its DELETE.
InHandOfTable ==
    \A c \in Runs :
        /\ runs[c].at \notin {"insert", "delete"} => runs[c].below = {}
        /\ \A r \in runs[c].below : r[1] = Table(c) /\ log[r] \notin {"unwritten", "young"}

\* What a run is about to delete is counted.
DeletesCounted ==
    \A c \in Runs : runs[c].at = "delete" => \A r \in runs[c].below : counted[r] > 0

\* A row without an excuse is in one hand at most, and not counted before its INSERT; once it
\* is counted it is gone or in the hand of the run that will delete it.
OneHand ==
    \A r \in Logged \ excused :
        /\ \A c, d \in Runs : r \in runs[c].below /\ r \in runs[d].below => c = d
        /\ \A c \in Runs : runs[c].at = "insert" /\ r \in runs[c].below => counted[r] = 0
        /\ counted[r] > 0 => \/ log[r] \in {"archived", "truncated"}
                             \/ \E c \in Runs : runs[c].at = "delete" /\ r \in runs[c].below
        /\ counted[r] <= 1

ArchiveInv == ArchiveTypes /\ InHandOfTable /\ DeletesCounted /\ OneHand /\ ArchivedIsCounted

\* What a run may become keeps its type: at the next table, over, or at its next statement.
LEMMA RunsBecome ==
    ASSUME ArchiveTypes, NEW c \in Runs
    PROVE  /\ NoRun \in RunStates
           /\ \A first \in {"count", "truncate"} :
                /\ Onward(c, first) \in RunStates
                /\ Onward(c, first).below = {}
                /\ Onward(c, first).at \in {first, "none"}
           /\ NoRun.below = {} /\ NoRun.at = "none"
  <1>1. NoRun \in RunStates /\ NoRun.below = {} /\ NoRun.at = "none"
    BY EmptySeq DEF NoRun, RunStates
  <1>2. ASSUME NEW first \in {"count", "truncate"}
        PROVE  /\ Onward(c, first) \in RunStates
               /\ Onward(c, first).below = {}
               /\ Onward(c, first).at \in {first, "none"}
    <2>1. CASE Len(runs[c].todo) > 1
      <3>1. runs[c] \in RunStates /\ runs[c].todo \in Seq(TableNames)
        BY DEF ArchiveTypes, RunStates
      <3>2. runs[c].todo # <<>> BY <2>1, EmptySeq
      <3>3. Tail(runs[c].todo) \in Seq(TableNames) BY <3>1, <3>2, HeadTailProperties
      <3>4. Onward(c, first) = [kind |-> runs[c].kind, todo |-> Tail(runs[c].todo), at |-> first,
                                below |-> {}]
        BY <2>1, <3>1 DEF Onward, RunStates
      <3> QED BY <3>1, <3>3, <3>4 DEF RunStates
    <2>2. CASE ~(Len(runs[c].todo) > 1)
      BY <1>1, <2>2 DEF Onward
    <2> QED BY <2>1, <2>2
  <1> QED BY <1>1, <1>2

\* A run ends, or goes on to its next table, while the rows stay as they are: nothing is lost
\* but what it leaves unfinished.
LEMMA RunsEnd ==
    ASSUME ArchiveInv, NEW cs \in SUBSET Runs, runs' \in [Runs -> RunStates],
           \A c \in cs : runs'[c].below = {} /\ runs'[c].at \in {"none", "count", "truncate"},
           \A c \in Runs \ cs : runs'[c] = runs[c],
           UNCHANGED <<log, counted>>,
           excused' \subseteq Logged,
           excused \subseteq excused',
           \A c \in cs : Unfinished(c) \subseteq excused'
    PROVE  ArchiveInv'
  <1>1. ArchiveTypes' BY DEF ArchiveInv, ArchiveTypes
  <1>2. InHandOfTable' BY DEF ArchiveInv, InHandOfTable, Table
  <1>3. DeletesCounted' BY DEF ArchiveInv, DeletesCounted
  <1>4. OneHand' BY DEF ArchiveInv, OneHand, Unfinished
  <1>5. ArchivedIsCounted' BY DEF ArchiveInv, ArchivedIsCounted
  <1> QED BY <1>1, <1>2, <1>3, <1>4, <1>5 DEF ArchiveInv

\* The same for one run.
LEMMA OneEnds ==
    ASSUME ArchiveInv, NEW c \in Runs, runs' \in [Runs -> RunStates],
           runs'[c].below = {}, runs'[c].at \in {"none", "count", "truncate"},
           \A d \in Runs \ {c} : runs'[d] = runs[d],
           UNCHANGED <<log, counted>>,
           excused' = excused \cup Unfinished(c)
    PROVE  ArchiveInv'
  <1>1. {c} \in SUBSET Runs OBVIOUS
  <1>2. excused \subseteq Logged /\ Unfinished(c) \subseteq Logged
    BY DEF ArchiveInv, ArchiveTypes, RunStates, Unfinished
  <1>3. \A d \in {c} : /\ runs'[d].below = {} /\ runs'[d].at \in {"none", "count", "truncate"}
                       /\ Unfinished(d) \subseteq excused'
    OBVIOUS
  <1> QED BY <1>1, <1>2, <1>3, RunsEnd

\* Every step of a run, an error, a crash and the ageing of the rows keep the invariant.
LEMMA ArchiveInvStep == ArchiveInv /\ [ArchiveNext]_archiveVars => ArchiveInv'
  <1> SUFFICES ASSUME ArchiveInv, [ArchiveNext]_archiveVars PROVE ArchiveInv' OBVIOUS
  <1>a. ArchiveTypes /\ InHandOfTable /\ DeletesCounted /\ OneHand /\ ArchivedIsCounted
    BY DEF ArchiveInv
  <1>b. Scheduler \in Runs /\ \A c \in Archivers : c \in Runs BY DEF Runs
  <1>1. ASSUME NEW r \in Logged, WriteLog(r) \/ Age(r) PROVE ArchiveInv'
    <2>1. /\ log[r] \in {"unwritten", "young"} /\ log'[r] \in {"young", "old"}
          /\ \A x \in Logged \ {r} : log'[x] = log[x]
          /\ log' \in [Logged -> {"unwritten", "young", "old", "archived", "truncated"}]
          /\ UNCHANGED <<counted, runs, excused>>
      BY <1>a, <1>1 DEF WriteLog, Age, ArchiveTypes
    <2>2. ArchiveTypes' BY <1>a, <2>1 DEF ArchiveTypes
    <2>3. InHandOfTable' BY <1>a, <2>1 DEF InHandOfTable, Table, ArchiveTypes, RunStates
    <2>4. DeletesCounted' BY <1>a, <2>1 DEF DeletesCounted
    <2>5. OneHand' BY <1>a, <2>1 DEF OneHand
    <2>6. ArchivedIsCounted' BY <1>a, <2>1 DEF ArchivedIsCounted
    <2> QED BY <2>2, <2>3, <2>4, <2>5, <2>6 DEF ArchiveInv
  <1>2. ASSUME NEW c \in Runs, NEW kind \in {"archive", "reset"}, StartRun(c, kind) PROVE ArchiveInv'
    <2> DEFINE begun == [kind |-> kind, todo |-> Tables,
                         at |-> IF kind = "archive" THEN "count" ELSE "truncate", below |-> {}]
    <2>1. begun \in RunStates BY ArchiveAssumption DEF RunStates
    <2>2. /\ runs[c] = NoRun /\ runs' = [runs EXCEPT ![c] = begun]
          /\ UNCHANGED <<log, counted, excused>>
      BY <1>2 DEF StartRun
    <2>3. begun.below = {} /\ begun.at \in {"count", "truncate"} OBVIOUS
    <2> HIDE DEF begun
    <2>4. /\ runs'[c] = begun /\ runs' \in [Runs -> RunStates]
          /\ \A d \in Runs \ {c} : runs'[d] = runs[d]
      BY <1>a, <2>1, <2>2 DEF ArchiveTypes
    <2>5. Unfinished(c) = {} BY <2>2 DEF NoRun, Unfinished
    <2>6. excused' = excused \cup Unfinished(c) BY <2>2, <2>5
    <2> QED BY <2>2, <2>3, <2>4, <2>6, OneEnds
  <1>3. ASSUME NEW c \in Runs, Count(c) PROVE ArchiveInv'
    <2>1. CASE Old(Table(c)) = {}
      <3>1. /\ runs[c].at = "count" /\ runs' = [runs EXCEPT ![c] = Onward(c, "count")]
            /\ UNCHANGED <<log, counted>> /\ excused' = excused
        BY <1>3, <2>1 DEF Count
      <3>2. /\ runs'[c] = Onward(c, "count") /\ runs' \in [Runs -> RunStates]
            /\ \A d \in Runs \ {c} : runs'[d] = runs[d]
        BY <1>a, <3>1, RunsBecome DEF ArchiveTypes
      <3>3. Unfinished(c) = {} BY <3>1 DEF Unfinished
      <3>4. runs'[c].below = {} /\ runs'[c].at \in {"none", "count", "truncate"}
        BY <1>a, <3>2, RunsBecome
      <3>5. excused' = excused \cup Unfinished(c) BY <3>1, <3>3
      <3> QED BY <3>1, <3>2, <3>4, <3>5, OneEnds
    <2>2. CASE Old(Table(c)) # {}
      <3> DEFINE found == Old(Table(c))
      <3>1. /\ runs[c].at = "count"
            /\ runs' = [runs EXCEPT ![c] = [@ EXCEPT !.at = "insert", !.below = found]]
            /\ UNCHANGED <<log, counted>> /\ excused' = excused \cup (found \cap InHand(c))
        BY <1>3, <2>2 DEF Count
      <3>2. found \subseteq Logged /\ \A r \in found : r[1] = Table(c) /\ log[r] = "old"
        BY DEF Old, Present
      <3>3. /\ runs'[c] = [kind |-> runs[c].kind, todo |-> runs[c].todo, at |-> "insert", below |-> found]
            /\ \A d \in Runs \ {c} : runs'[d] = runs[d]
            /\ DOMAIN runs' = Runs /\ runs' = [d \in Runs |-> runs'[d]]
        BY <1>a, <3>1 DEF ArchiveTypes, RunStates
      <3> HIDE DEF found
      <3>4. runs' \in [Runs -> RunStates]
        <4>1. runs'[c] \in RunStates BY <1>a, <3>2, <3>3 DEF ArchiveTypes, RunStates
        <4>2. \A d \in Runs : runs'[d] \in RunStates BY <1>a, <3>3, <4>1 DEF ArchiveTypes
        <4> QED BY <3>3, <4>2
      <3>5. ArchiveTypes' BY <1>a, <3>1, <3>2, <3>4 DEF ArchiveTypes
      <3>6. InHandOfTable'
        <4>1. runs'[c].todo = runs[c].todo /\ runs'[c].below = found /\ runs'[c].at = "insert"
          BY <3>3
        <4> QED BY <1>a, <3>1, <3>2, <3>3, <4>1 DEF InHandOfTable, Table
      <3>7. DeletesCounted' BY <1>a, <3>1, <3>3 DEF DeletesCounted
      <3>8. OneHand'
        <4> SUFFICES ASSUME NEW r \in Logged \ excused'
                     PROVE  /\ \A d, e \in Runs : r \in runs'[d].below /\ r \in runs'[e].below => d = e
                            /\ \A d \in Runs : runs'[d].at = "insert" /\ r \in runs'[d].below
                                                    => counted[r] = 0
                            /\ counted[r] > 0 => \/ log[r] \in {"archived", "truncated"}
                                                 \/ \E d \in Runs : /\ runs'[d].at = "delete"
                                                                    /\ r \in runs'[d].below
                            /\ counted[r] <= 1
          BY <3>1 DEF OneHand
        <4>1. runs[c].below = {} BY <1>a, <3>1 DEF InHandOfTable
        <4>2. r \notin excused /\ (r \in found => \A d \in Runs \ {c} : r \notin runs[d].below)
          BY <3>1 DEF InHand
        <4>3. r \in found => counted[r] = 0
          BY <1>a, <3>1, <3>2, <4>1, <4>2 DEF OneHand, ArchiveTypes
        <4>4. /\ runs'[c].below = found /\ runs'[c].at = "insert" BY <3>3
        <4> QED BY <1>a, <3>1, <3>3, <4>1, <4>2, <4>3, <4>4 DEF OneHand
      <3>9. ArchivedIsCounted' BY <1>a, <3>1 DEF ArchivedIsCounted
      <3> QED BY <3>5, <3>6, <3>7, <3>8, <3>9 DEF ArchiveInv
    <2> QED BY <2>1, <2>2
  <1>4. ASSUME NEW c \in Runs, InsertSummary(c) PROVE ArchiveInv'
    <2>1. /\ runs[c].at = "insert" /\ UNCHANGED <<log, excused>>
          /\ counted' = [r \in Logged |-> IF r \in runs[c].below THEN counted[r] + 1 ELSE counted[r]]
          /\ runs' = [runs EXCEPT ![c].at = "delete"]
      BY <1>4 DEF InsertSummary
    <2>2. /\ runs'[c].at = "delete" /\ runs'[c].below = runs[c].below /\ runs'[c].todo = runs[c].todo
          /\ \A d \in Runs \ {c} : runs'[d] = runs[d]
          /\ runs' \in [Runs -> RunStates]
      <3>1. runs \in [Runs -> RunStates] BY <1>a DEF ArchiveTypes
      <3>2. runs'[c] = [runs[c] EXCEPT !.at = "delete"] BY <2>1, <3>1
      <3>3. runs'[c] \in RunStates BY <3>1, <3>2 DEF RunStates
      <3>4. runs'[c].at = "delete" /\ runs'[c].below = runs[c].below
            /\ runs'[c].todo = runs[c].todo
        BY <3>1, <3>2 DEF RunStates
      <3> QED BY <2>1, <3>1, <3>3, <3>4
    <2>3. \A r \in Logged : counted[r] \in Nat /\ counted'[r] \in Nat /\ counted'[r] >= counted[r]
      BY <1>a, <2>1 DEF ArchiveTypes
    <2>4. \A r \in Logged : IF r \in runs[c].below THEN counted'[r] = counted[r] + 1
                                                   ELSE counted'[r] = counted[r]
      BY <2>1
    <2>5. \A d \in Runs : runs[d].below \subseteq Logged BY <1>a DEF ArchiveTypes, RunStates
    <2>6. ArchiveTypes' BY <1>a, <2>1, <2>2, <2>3 DEF ArchiveTypes
    <2>7. InHandOfTable' BY <1>a, <2>1, <2>2 DEF InHandOfTable, Table
    <2>8. DeletesCounted' BY <1>a, <2>2, <2>3, <2>4, <2>5 DEF DeletesCounted
    <2>9. OneHand'
      <3> SUFFICES ASSUME NEW r \in Logged \ excused
                   PROVE  /\ \A d, e \in Runs : r \in runs'[d].below /\ r \in runs'[e].below => d = e
                          /\ \A d \in Runs : runs'[d].at = "insert" /\ r \in runs'[d].below
                                                  => counted'[r] = 0
                          /\ counted'[r] > 0 => \/ log[r] \in {"archived", "truncated"}
                                                \/ \E d \in Runs : /\ runs'[d].at = "delete"
                                                                   /\ r \in runs'[d].below
                          /\ counted'[r] <= 1
        BY <2>1 DEF OneHand
      <3>1. CASE r \in runs[c].below
        <4>1. counted[r] = 0 BY <1>a, <2>1, <3>1 DEF OneHand
        <4>2. \A d \in Runs \ {c} : r \notin runs[d].below BY <1>a, <3>1 DEF OneHand
        <4> QED BY <2>2, <2>4, <3>1, <4>1, <4>2
      <3>2. CASE r \notin runs[c].below
        <4>1. counted'[r] = counted[r] BY <2>4, <3>2
        <4> QED BY <1>a, <2>2, <3>2, <4>1 DEF OneHand
      <3> QED BY <3>1, <3>2
    <2>10. ArchivedIsCounted' BY <1>a, <2>1, <2>3 DEF ArchivedIsCounted
    <2> QED BY <2>6, <2>7, <2>8, <2>9, <2>10 DEF ArchiveInv
  <1>5. ASSUME NEW c \in Runs, DeleteOld(c) \/ Truncate(c) PROVE ArchiveInv'
    <2> DEFINE gone == IF runs[c].at = "delete" THEN "archived" ELSE "truncated"
               first == IF runs[c].at = "delete" THEN "count" ELSE "truncate"
    <2>1. /\ runs[c].at \in {"delete", "truncate"} /\ UNCHANGED <<counted, excused>>
          /\ runs' = [runs EXCEPT ![c] = Onward(c, first)]
      BY <1>5 DEF DeleteOld, Truncate
    <2>2. /\ runs'[c].below = {} /\ runs'[c].at \in {"count", "truncate", "none"}
          /\ \A d \in Runs \ {c} : runs'[d] = runs[d]
          /\ runs' \in [Runs -> RunStates]
      BY <1>a, <2>1, RunsBecome DEF ArchiveTypes
    <2>3. PICK out \in SUBSET Logged :
            /\ log' = [r \in Logged |-> IF r \in out THEN gone ELSE log[r]]
            /\ runs[c].at = "delete" => out = runs[c].below \cap Present(Table(c))
      <3>1. CASE DeleteOld(c)
        <4>1. runs[c].at = "delete" /\ runs[c].below \cap Present(Table(c)) \subseteq Logged
          BY <3>1 DEF DeleteOld, Present
        <4> QED BY <3>1, <4>1 DEF DeleteOld, Below
      <3>2. CASE Truncate(c)
        <4>1. runs[c].at = "truncate" /\ Present(Table(c)) \subseteq Logged
          BY <3>2 DEF Truncate, Present
        <4> QED BY <3>2, <4>1 DEF Truncate
      <3> QED BY <1>5, <3>1, <3>2
    <2>4. \A r \in Logged : log'[r] = log[r] \/ log'[r] \in {"archived", "truncated"}
      BY <2>3
    <2>5. ArchiveTypes'
      <3>1. log' \in [Logged -> {"unwritten", "young", "old", "archived", "truncated"}]
        BY <1>a, <2>3 DEF ArchiveTypes
      <3> QED BY <1>a, <2>1, <2>2, <3>1 DEF ArchiveTypes
    <2>6. InHandOfTable'
      <3>1. \A d \in Runs : runs[d].below \subseteq Logged BY <1>a DEF ArchiveTypes, RunStates
      <3> QED BY <1>a, <2>2, <2>4, <3>1 DEF InHandOfTable, Table
    <2>7. DeletesCounted' BY <1>a, <2>1, <2>2 DEF DeletesCounted
    <2>8. OneHand'
      <3> SUFFICES ASSUME NEW r \in Logged \ excused
                   PROVE  /\ \A d, e \in Runs : r \in runs'[d].below /\ r \in runs'[e].below => d = e
                          /\ \A d \in Runs : runs'[d].at = "insert" /\ r \in runs'[d].below
                                                  => counted[r] = 0
                          /\ counted[r] > 0 => \/ log'[r] \in {"archived", "truncated"}
                                               \/ \E d \in Runs : /\ runs'[d].at = "delete"
                                                                  /\ r \in runs'[d].below
                          /\ counted[r] <= 1
        BY <2>1 DEF OneHand
      <3>1. /\ \A d, e \in Runs : r \in runs'[d].below /\ r \in runs'[e].below => d = e
            /\ \A d \in Runs : runs'[d].at = "insert" /\ r \in runs'[d].below => counted[r] = 0
            /\ counted[r] <= 1
        BY <1>a, <2>2 DEF OneHand
      <3>2. runs[c].at = "delete" /\ r \in runs[c].below => log'[r] \in {"archived", "truncated"}
        <4> SUFFICES ASSUME runs[c].at = "delete", r \in runs[c].below
                     PROVE  log'[r] \in {"archived", "truncated"}
          OBVIOUS
        <4>1. r[1] = Table(c) /\ log[r] \in {"old", "archived", "truncated"}
          BY <1>a DEF InHandOfTable, ArchiveTypes
        <4>2. log[r] = "old" => r \in Present(Table(c)) BY <4>1 DEF Present
        <4> QED BY <2>3, <4>1, <4>2
      <3>3. log[r] \in {"archived", "truncated"} => log'[r] \in {"archived", "truncated"} BY <2>4
      <3> QED BY <1>a, <2>2, <3>1, <3>2, <3>3 DEF OneHand
    <2>9. ArchivedIsCounted'
      <3> SUFFICES ASSUME NEW r \in Logged, log'[r] = "archived" PROVE counted[r] > 0
        BY <2>1 DEF ArchivedIsCounted
      <3>1. CASE log[r] = "archived" BY <1>a, <3>1 DEF ArchivedIsCounted
      <3>2. CASE log[r] # "archived"
        <4>1. runs[c].at = "delete" /\ r \in runs[c].below BY <2>3, <3>2
        <4> QED BY <1>a, <4>1 DEF DeletesCounted
      <3> QED BY <3>1, <3>2
    <2> QED BY <2>5, <2>6, <2>7, <2>8, <2>9 DEF ArchiveInv
  <1>6. ASSUME NEW c \in Runs, InsertRefused(c) \/ StatementRaises(c) PROVE ArchiveInv'
    <2>1. PICK next \in {NoRun, Onward(c, "truncate")} : runs' = [runs EXCEPT ![c] = next]
      BY <1>6 DEF InsertRefused, StatementRaises
    <2>2. /\ runs'[c].below = {} /\ runs'[c].at \in {"count", "truncate", "none"}
          /\ \A d \in Runs \ {c} : runs'[d] = runs[d]
          /\ runs' \in [Runs -> RunStates]
      BY <1>a, <2>1, RunsBecome DEF ArchiveTypes
    <2>3. UNCHANGED <<log, counted>> /\ excused' = excused \cup Unfinished(c)
      BY <1>6 DEF InsertRefused, StatementRaises, Unfinished
    <2> QED BY <2>2, <2>3, OneEnds
  <1>7. CASE Crash
    <2>1. /\ runs' = [c \in Runs |-> NoRun] /\ UNCHANGED <<log, counted>>
          /\ excused' = excused \cup UNION {Unfinished(c) : c \in Runs}
      BY <1>7 DEF Crash
    <2>2. \A c \in Runs : Unfinished(c) \subseteq Logged BY <1>a DEF Unfinished, ArchiveTypes, RunStates
    <2>3. /\ runs' \in [Runs -> RunStates]
          /\ \A c \in Runs : runs'[c].below = {} /\ runs'[c].at \in {"none", "count", "truncate"}
      BY <1>a, <1>b, <2>1, RunsBecome
    <2>4. /\ excused' \subseteq Logged /\ excused \subseteq excused'
          /\ \A c \in Runs : Unfinished(c) \subseteq excused'
      BY <1>a, <2>1, <2>2 DEF ArchiveTypes
    <2> QED BY <2>1, <2>3, <2>4, RunsEnd
  <1>8. CASE UNCHANGED archiveVars
    BY <1>8, <1>a
    DEF archiveVars, ArchiveInv, ArchiveTypes, InHandOfTable, Table, DeletesCounted, OneHand,
        ArchivedIsCounted
  <1> QED
    BY <1>b, <1>1, <1>2, <1>3, <1>4, <1>5, <1>6, <1>7, <1>8 DEF ArchiveNext, RunStep, Returns

\* At the start nothing is written and nobody runs.
LEMMA ArchiveInvInit == ArchiveInit => ArchiveInv
  <1> SUFFICES ASSUME ArchiveInit PROVE ArchiveInv OBVIOUS
  <1>1. NoRun \in RunStates /\ NoRun.at = "none" /\ NoRun.below = {}
    BY EmptySeq DEF NoRun, RunStates
  <1>2. \A c \in Runs : runs[c].at = "none" /\ runs[c].below = {} BY <1>1 DEF ArchiveInit
  <1>3. ArchiveTypes BY <1>1 DEF ArchiveInit, ArchiveTypes
  <1> QED
    BY <1>2, <1>3
    DEF ArchiveInit, ArchiveInv, InHandOfTable, DeletesCounted, OneHand, ArchivedIsCounted

\* The invariant gives the property.
LEMMA ArchiveSays == ArchiveInv => ArchivedOnce
  BY DEF ArchiveInv, ArchiveTypes, OneHand, ArchivedOnce, CountedOnce

\* A row the archiver deleted is in a summary, and in one only unless two runs had it in hand
\* at once or a run ended between its summary and its DELETE: for any tables, rows, runs,
\* resets, errors and crashes.
THEOREM RowsArchivedOnce == ArchiveSpec => []ArchivedOnce
  BY ArchiveInvInit, ArchiveInvStep, ArchiveSays, PTL DEF ArchiveSpec

-----------------------------------------------------------------------------
(* UserMemories *)

Memory == [text : Texts, sure : Nat]

Told == [todo : Seq(Memory), at : {"look", "update", "insert"}, found : Nat]

MemoryTypes ==
    /\ nextId \in Nat \ {0}
    /\ DOMAIN memories \subseteq 1..nextId - 1
    /\ \A i \in DOMAIN memories : memories[i] \in Memory
    /\ tellers \in [Tellers -> Told]
    /\ \A c \in Tellers : IF tellers[c].at = "look" THEN tellers[c].found = 0
                                                   ELSE tellers[c].todo # <<>>
    /\ promised \subseteq (1..nextId - 1) \X Memory
    /\ cleared \subseteq 1..nextId - 1

\* Two rows say the same only where two calls had raced.
TextOnce ==
    \A i, j \in DOMAIN memories :
        i # j /\ memories[i].text = memories[j].text => memories[i].text \in raced

\* What a call has looked for and missed is not there until it inserts it, and no other call
\* is about to insert it, unless they raced.
MissedIsMissing ==
    \A c \in Tellers : tellers[c].at = "insert" /\ Fact(c).text \notin raced =>
        /\ \A i \in DOMAIN memories : memories[i].text # Fact(c).text
        /\ \A d \in Tellers : tellers[d].at = "insert" /\ Fact(d).text = Fact(c).text => d = c

\* The row a call is about to update says what the call has to say, or was deleted.
FoundIsIt ==
    \A c \in Tellers : tellers[c].at = "update" =>
        /\ tellers[c].found \in 1..nextId - 1
        /\ IF tellers[c].found \in DOMAIN memories THEN memories[tellers[c].found].text = Fact(c).text
                                                   ELSE tellers[c].found \in cleared

MemoriesInv == MemoryTypes /\ TextOnce /\ MissedIsMissing /\ FoundIsIt /\ ReturnedIsKept

\* What a call has to say is a fact.
LEMMA FactIsMemory ==
    ASSUME MemoryTypes, NEW c \in Tellers, tellers[c].at # "look" PROVE Fact(c) \in Memory
  <1>1. tellers[c].todo \in Seq(Memory) /\ tellers[c].todo # <<>> BY DEF MemoryTypes, Told
  <1> QED BY <1>1, HeadTailProperties DEF Fact

\* After a fact the call is at the look of its next one, or over.
LEMMA AfterAFact ==
    ASSUME MemoryTypes, NEW c \in Tellers, NextFact(c)
    PROVE  /\ tellers' \in [Tellers -> Told] /\ tellers'[c].at = "look" /\ tellers'[c].found = 0
           /\ \A d \in Tellers \ {c} : tellers'[d] = tellers[d]
  <1>1. PICK next \in Told : next.at = "look" /\ next.found = 0 /\ tellers' = [tellers EXCEPT ![c] = next]
    <2>1. Silent \in Told /\ Silent.at = "look" /\ Silent.found = 0 BY EmptySeq DEF Silent, Told
    <2>2. CASE Len(tellers[c].todo) > 1
      <3>1. tellers[c].todo \in Seq(Memory) /\ tellers[c].todo # <<>>
        BY <2>2, EmptySeq DEF MemoryTypes, Told
      <3>2. Tail(tellers[c].todo) \in Seq(Memory) BY <3>1, HeadTailProperties
      <3> DEFINE next == [Silent EXCEPT !.todo = Tail(tellers[c].todo)]
      <3>3. next \in Told /\ next.at = "look" /\ next.found = 0 BY <3>2 DEF Silent, Told
      <3>4. tellers' = [tellers EXCEPT ![c] = next] BY <2>2 DEF NextFact
      <3> QED BY <3>3, <3>4
    <2>3. CASE ~(Len(tellers[c].todo) > 1) BY <2>1, <2>3 DEF NextFact
    <2> QED BY <2>2, <2>3
  <1> QED BY <1>1 DEF MemoryTypes

\* A call that is at its look again, while no row changes, disturbs nothing.
LEMMA LooksAgain ==
    ASSUME MemoriesInv, NEW c \in Tellers, tellers' \in [Tellers -> Told],
           tellers'[c].at = "look", tellers'[c].found = 0,
           \A d \in Tellers \ {c} : tellers'[d] = tellers[d],
           UNCHANGED <<memories, nextId, promised, raced, cleared>>
    PROVE  MemoriesInv'
  <1>1. MemoryTypes' BY DEF MemoriesInv, MemoryTypes
  <1>2. TextOnce' /\ ReturnedIsKept' BY DEF MemoriesInv, TextOnce, ReturnedIsKept
  <1>3. MissedIsMissing' BY DEF MemoriesInv, MissedIsMissing, Fact
  <1>4. FoundIsIt' BY DEF MemoriesInv, FoundIsIt, Fact
  <1> QED BY <1>1, <1>2, <1>3, <1>4 DEF MemoriesInv

\* Every step of a call, and every deletion and reset, keeps the invariant.
LEMMA MemoriesInvStep == MemoriesInv /\ [MemoriesNext]_memoryVars => MemoriesInv'
  <1> SUFFICES ASSUME MemoriesInv, [MemoriesNext]_memoryVars PROVE MemoriesInv' OBVIOUS
  <1>a. MemoryTypes /\ TextOnce /\ MissedIsMissing /\ FoundIsIt /\ ReturnedIsKept
    BY DEF MemoriesInv
  <1>1. ASSUME NEW c \in Tellers, NEW facts \in Extracts, Tell(c, facts) PROVE MemoriesInv'
    <2>1. /\ tellers[c] = Silent /\ tellers' = [tellers EXCEPT ![c].todo = facts]
          /\ UNCHANGED <<memories, nextId, promised, raced, cleared>>
      BY <1>1 DEF Tell
    <2>2. facts \in Seq(Memory) BY MemoriesAssumption DEF Memory
    <2>3. /\ tellers' \in [Tellers -> Told] /\ tellers'[c].at = "look" /\ tellers'[c].found = 0
          /\ \A d \in Tellers \ {c} : tellers'[d] = tellers[d]
      <3>1. tellers \in [Tellers -> Told] BY <1>a DEF MemoryTypes
      <3>2. tellers'[c] = [tellers[c] EXCEPT !.todo = facts] BY <2>1, <3>1
      <3>3. tellers'[c] = [todo |-> facts, at |-> "look", found |-> 0]
        BY <2>1, <3>2 DEF Silent
      <3>4. tellers'[c] \in Told BY <2>2, <3>3 DEF Told
      <3> QED BY <2>1, <3>1, <3>3, <3>4
    <2> QED BY <2>1, <2>3, LooksAgain
  <1>2. ASSUME NEW c \in Tellers, TellRaises(c) PROVE MemoriesInv'
    <2>1. NextFact(c) /\ UNCHANGED <<memories, nextId, promised, raced, cleared>>
      BY <1>2 DEF TellRaises
    <2> QED BY <1>a, <2>1, AfterAFact, LooksAgain
  <1>3. ASSUME NEW c \in Tellers, Look(c) PROVE MemoriesInv'
    <2>1. /\ tellers[c] # Silent /\ tellers[c].at = "look"
          /\ UNCHANGED <<memories, nextId, promised, cleared>>
      BY <1>3 DEF Look
    <2>2. tellers[c].todo # <<>> /\ tellers[c] \in Told /\ tellers[c].found = 0
      BY <1>a, <2>1 DEF MemoryTypes, Told, Silent
    <2>3. CASE Found(c) = {}
      <3>1. /\ tellers' = [tellers EXCEPT ![c].at = "insert"]
            /\ raced' = IF Missing(Fact(c).text) # {} THEN raced \cup {Fact(c).text} ELSE raced
        BY <1>3, <2>3 DEF Look
      <3>2. /\ tellers' \in [Tellers -> Told] /\ tellers'[c].at = "insert"
            /\ tellers'[c].todo = tellers[c].todo
            /\ \A d \in Tellers \ {c} : tellers'[d] = tellers[d]
        BY <1>a, <3>1 DEF MemoryTypes, Told
      <3>3. MemoryTypes' BY <1>a, <2>1, <2>2, <3>2 DEF MemoryTypes
      <3>4. TextOnce' /\ ReturnedIsKept'
        BY <1>a, <2>1, <3>1 DEF TextOnce, ReturnedIsKept
      <3>5. \A d \in Tellers : Fact(d)' = Fact(d) BY <3>2 DEF Fact
      <3>6. FoundIsIt' BY <1>a, <2>1, <3>2, <3>5 DEF FoundIsIt
      <3>7. MissedIsMissing'
        <4>1. \A i \in DOMAIN memories : memories[i].text # Fact(c).text
          BY <2>3 DEF Found, OfText
        <4>2. \A d \in Tellers : /\ tellers[d].at = "insert" /\ Fact(d).text = Fact(c).text
                                 => Fact(c).text \in raced'
          BY <3>1 DEF Missing
        <4>3. raced \subseteq raced' BY <3>1
        <4> QED BY <1>a, <2>1, <3>2, <3>5, <4>1, <4>2, <4>3 DEF MissedIsMissing
      <3> QED BY <3>3, <3>4, <3>6, <3>7 DEF MemoriesInv
    <2>4. CASE Found(c) # {}
      <3>1. PICK i \in Found(c) :
              tellers' = [tellers EXCEPT ![c] = [todo |-> @.todo, at |-> "update", found |-> i]]
        BY <1>3, <2>4 DEF Look
      <3>2. UNCHANGED raced BY <1>3, <2>4 DEF Look
      <3>3. i \in DOMAIN memories /\ memories[i].text = Fact(c).text /\ i \in 1..nextId - 1
        BY <1>a, <3>1 DEF Found, OfText, MemoryTypes
      <3>4. i \in Nat BY <3>3
      <3>5. /\ tellers' \in [Tellers -> Told]
            /\ tellers'[c] = [todo |-> tellers[c].todo, at |-> "update", found |-> i]
            /\ \A d \in Tellers \ {c} : tellers'[d] = tellers[d]
        BY <1>a, <3>1, <3>4 DEF MemoryTypes, Told
      <3>6. MemoryTypes' BY <1>a, <2>1, <2>2, <3>5 DEF MemoryTypes
      <3>7. TextOnce' /\ ReturnedIsKept'
        BY <1>a, <2>1, <3>2 DEF TextOnce, ReturnedIsKept
      <3>8. \A d \in Tellers : Fact(d)' = Fact(d) BY <3>5 DEF Fact
      <3>9. FoundIsIt' BY <1>a, <2>1, <3>3, <3>5, <3>8 DEF FoundIsIt
      <3>10. MissedIsMissing' BY <1>a, <2>1, <3>2, <3>5, <3>8 DEF MissedIsMissing
      <3> QED BY <3>6, <3>7, <3>9, <3>10 DEF MemoriesInv
    <2> QED BY <2>3, <2>4
  <1>4. ASSUME NEW c \in Tellers, Update(c) PROVE MemoriesInv'
    <2> DEFINE x == Fact(c)
               f == tellers[c].found
    <2>1. /\ tellers[c].at = "update" /\ NextFact(c) /\ UNCHANGED <<nextId, raced, cleared>>
          /\ promised' = promised \cup {<<f, x>>}
          /\ memories' = [i \in DOMAIN memories |->
                IF i = f THEN [memories[i] EXCEPT !.sure = Greater(@, x.sure)] ELSE memories[i]]
      BY <1>4 DEF Update
    <2>2. /\ x \in Memory /\ f \in 1..nextId - 1
          /\ IF f \in DOMAIN memories THEN memories[f].text = x.text ELSE f \in cleared
      BY <1>a, <2>1, FactIsMemory DEF FoundIsIt
    <2>3. /\ tellers' \in [Tellers -> Told] /\ tellers'[c].at = "look" /\ tellers'[c].found = 0
          /\ \A d \in Tellers \ {c} : tellers'[d] = tellers[d]
      BY <1>a, <2>1, AfterAFact
    <2> HIDE DEF x, f
    <2>4. /\ DOMAIN memories' = DOMAIN memories
          /\ \A i \in DOMAIN memories :
                /\ memories'[i] \in Memory /\ memories'[i].text = memories[i].text
                /\ memories'[i].sure >= memories[i].sure
                /\ i = f => memories'[i].sure >= x.sure
      <3>1. \A i \in DOMAIN memories \ {f} : memories'[i] = memories[i] /\ memories[i] \in Memory
        BY <1>a, <2>1 DEF MemoryTypes
      <3>2. CASE f \in DOMAIN memories
        <4>1. memories[f] \in Memory /\ memories'[f] = [memories[f] EXCEPT !.sure = Greater(@, x.sure)]
          BY <1>a, <2>1, <3>2 DEF MemoryTypes
        <4>2. /\ Greater(memories[f].sure, x.sure) \in Nat
              /\ Greater(memories[f].sure, x.sure) >= memories[f].sure
              /\ Greater(memories[f].sure, x.sure) >= x.sure
          BY <2>2, <4>1 DEF Greater, Memory
        <4>3. /\ memories'[f] \in Memory /\ memories'[f].text = memories[f].text
              /\ memories'[f].sure = Greater(memories[f].sure, x.sure)
          BY <4>1, <4>2 DEF Memory
        <4> QED BY <2>1, <3>1, <4>2, <4>3 DEF Memory
      <3>3. CASE f \notin DOMAIN memories BY <2>1, <3>1, <3>3 DEF Memory
      <3> QED BY <3>2, <3>3
    <2>5. MemoryTypes' BY <1>a, <2>1, <2>2, <2>3, <2>4 DEF MemoryTypes
    <2>6. TextOnce' BY <1>a, <2>1, <2>4 DEF TextOnce
    <2>7. \A d \in Tellers \ {c} : Fact(d)' = Fact(d) BY <2>3 DEF Fact
    <2>8. MissedIsMissing' BY <1>a, <2>1, <2>3, <2>4, <2>7 DEF MissedIsMissing
    <2>9. FoundIsIt' BY <1>a, <2>1, <2>3, <2>4, <2>7 DEF FoundIsIt
    <2>10. ReturnedIsKept'
      <3>1. ASSUME NEW p \in promised, p[1] \in DOMAIN memories
            PROVE  memories'[p[1]].text = p[2].text /\ memories'[p[1]].sure >= p[2].sure
        <4>1. /\ memories[p[1]].text = p[2].text /\ memories[p[1]].sure >= p[2].sure
              /\ memories[p[1]].sure \in Nat /\ memories'[p[1]].sure \in Nat /\ p[2].sure \in Nat
          BY <1>a, <2>4, <3>1 DEF ReturnedIsKept, MemoryTypes, Memory
        <4> QED BY <2>4, <3>1, <4>1
      <3>2. \A p \in promised : p[1] \notin DOMAIN memories => p[1] \in cleared
        BY <1>a DEF ReturnedIsKept
      <3> QED BY <2>1, <2>2, <2>4, <3>1, <3>2 DEF ReturnedIsKept
    <2> QED BY <2>5, <2>6, <2>8, <2>9, <2>10 DEF MemoriesInv
  <1>5. ASSUME NEW c \in Tellers, Insert(c) PROVE MemoriesInv'
    <2> DEFINE x == Fact(c)
    <2>1. /\ tellers[c].at = "insert" /\ NextFact(c) /\ UNCHANGED <<raced, cleared>>
          /\ nextId' = nextId + 1 /\ promised' = promised \cup {<<nextId, x>>}
          /\ memories' = [i \in DOMAIN memories \cup {nextId} |->
                IF i = nextId THEN x ELSE memories[i]]
      BY <1>5 DEF Insert
    <2>2. x \in Memory BY <1>a, <2>1, FactIsMemory
    <2>3. /\ tellers' \in [Tellers -> Told] /\ tellers'[c].at = "look" /\ tellers'[c].found = 0
          /\ \A d \in Tellers \ {c} : tellers'[d] = tellers[d]
      BY <1>a, <2>1, AfterAFact
    <2>4. /\ nextId \in Nat \ {0} /\ nextId \notin DOMAIN memories
          /\ DOMAIN memories' = DOMAIN memories \cup {nextId}
          /\ memories'[nextId] = x /\ \A i \in DOMAIN memories : memories'[i] = memories[i]
      BY <1>a, <2>1 DEF MemoryTypes
    <2>5. x.text \notin raced =>
            /\ \A i \in DOMAIN memories : memories[i].text # x.text
            /\ \A d \in Tellers : tellers[d].at = "insert" /\ Fact(d).text = x.text => d = c
      BY <1>a, <2>1 DEF MissedIsMissing
    <2>6. \A d \in Tellers \ {c} : Fact(d)' = Fact(d) BY <2>3 DEF Fact
    <2> HIDE DEF x
    <2>7. MemoryTypes' BY <1>a, <2>1, <2>2, <2>3, <2>4 DEF MemoryTypes
    <2>8. TextOnce' BY <1>a, <2>1, <2>4, <2>5 DEF TextOnce
    <2>9. MissedIsMissing' BY <1>a, <2>1, <2>3, <2>4, <2>5, <2>6 DEF MissedIsMissing
    <2>10. FoundIsIt' BY <1>a, <2>1, <2>3, <2>4, <2>6 DEF FoundIsIt, MemoryTypes
    <2>11. ReturnedIsKept'
      <3>1. \A p \in promised : p[1] # nextId BY <1>a, <2>4 DEF MemoryTypes
      <3> QED BY <1>a, <2>1, <2>2, <2>4, <3>1 DEF ReturnedIsKept, Memory
    <2> QED BY <2>7, <2>8, <2>9, <2>10, <2>11 DEF MemoriesInv
  <1>6. ASSUME NEW ids \in SUBSET DOMAIN memories, Clear(ids) PROVE MemoriesInv'
    <2>1. /\ cleared' = cleared \cup ids /\ UNCHANGED <<nextId, tellers, promised, raced>>
          /\ DOMAIN memories' = DOMAIN memories \ ids
          /\ \A i \in DOMAIN memories \ ids : memories'[i] = memories[i]
      BY <1>6 DEF Clear, Without
    <2>2. MemoryTypes' BY <1>a, <2>1 DEF MemoryTypes
    <2>3. TextOnce' BY <1>a, <2>1 DEF TextOnce
    <2>4. MissedIsMissing' BY <1>a, <2>1 DEF MissedIsMissing, Fact
    <2>5. FoundIsIt' BY <1>a, <2>1 DEF FoundIsIt, Fact
    <2>6. ReturnedIsKept' BY <1>a, <2>1 DEF ReturnedIsKept
    <2> QED BY <2>2, <2>3, <2>4, <2>5, <2>6 DEF MemoriesInv
  <1>7. CASE UNCHANGED memoryVars
    BY <1>7, <1>a
    DEF memoryVars, MemoriesInv, MemoryTypes, TextOnce, MissedIsMissing, FoundIsIt, Fact,
        ReturnedIsKept
  <1>8. \A i \in DOMAIN memories : Delete(i) => Clear({i}) BY DEF Delete
  <1>9. Forget => Clear(DOMAIN memories) BY DEF Forget
  <1> QED
    BY <1>1, <1>2, <1>3, <1>4, <1>5, <1>6, <1>7, <1>8, <1>9 DEF MemoriesNext

\* At the start there are no memories.
LEMMA MemoriesInvInit == MemoriesInit => MemoriesInv
  <1> SUFFICES ASSUME MemoriesInit PROVE MemoriesInv OBVIOUS
  <1>1. Silent \in Told /\ Silent.at = "look" /\ Silent.found = 0
    BY EmptySeq DEF Silent, Told
  <1>2. DOMAIN memories = {} BY EmptySeq DEF MemoriesInit
  <1>3. /\ tellers \in [Tellers -> Told]
        /\ \A c \in Tellers : tellers[c].at = "look" /\ tellers[c].found = 0
    BY <1>1 DEF MemoriesInit
  <1>4. nextId = 1 /\ promised = {} /\ cleared = {} BY DEF MemoriesInit
  <1> QED
    BY <1>2, <1>3, <1>4
    DEF MemoriesInv, MemoryTypes, TextOnce, MissedIsMissing, FoundIsIt, ReturnedIsKept

\* Texts that are once among the memories are once in the prompt.
LEMMA PromptSays == MemoriesInv => PromptSaysOnce
  BY DEF MemoriesInv, TextOnce, PromptSaysOnce, Prompted

\* Whatever turns and requests add, whatever fails and whatever is deleted between their look
\* and their write, the prompt says nothing twice that no two calls had missed at once.
THEOREM PromptOnce == MemoriesSpec => []PromptSaysOnce
  BY MemoriesInvInit, MemoriesInvStep, PromptSays, PTL DEF MemoriesSpec

\* The property is a part of the invariant.
LEMMA ReturnSays == MemoriesInv => ReturnedIsKept
  BY DEF MemoriesInv

\* And the id that add returns stands for its text, at least as sure, until a deletion.
THEOREM ReturnedKept == MemoriesSpec => []ReturnedIsKept
  BY MemoriesInvInit, MemoriesInvStep, ReturnSays, PTL DEF MemoriesSpec

-----------------------------------------------------------------------------
(* The types of the services: what the invariants above do not say of them, the *)
(* bounds of the counters and the variables their arguments did not need.      *)

\* The bounds of the counters.
ArchiveBounds == errors \in 0..MaxErrors /\ started \in 0..MaxRuns

\* A run is started and an error met only below its bound.
LEMMA ArchiveBoundsStep == ArchiveBounds /\ [ArchiveNext]_archiveVars => ArchiveBounds'
  <1> SUFFICES ASSUME ArchiveBounds, [ArchiveNext]_archiveVars PROVE ArchiveBounds' OBVIOUS
  <1> USE ArchiveAssumption DEF ArchiveBounds
  <1>1. ASSUME NEW r \in Logged, WriteLog(r) \/ Age(r) PROVE ArchiveBounds'
    BY <1>1 DEF WriteLog, Age
  <1>2. ASSUME NEW c \in Runs, NEW kind, StartRun(c, kind) PROVE ArchiveBounds'
    BY <1>2 DEF StartRun
  <1>3. ASSUME NEW c \in Runs, RunStep(c) PROVE ArchiveBounds'
    BY <1>3 DEF RunStep, Count, InsertSummary, InsertRefused, DeleteOld, Truncate
  <1>4. ASSUME NEW c \in Runs, StatementRaises(c) PROVE ArchiveBounds'
    BY <1>4 DEF StatementRaises
  <1>5. CASE Crash BY <1>5 DEF Crash
  <1>6. CASE UNCHANGED archiveVars BY <1>6 DEF archiveVars
  <1> QED BY <1>1, <1>2, <1>3, <1>4, <1>5, <1>6 DEF ArchiveNext, Returns, Runs

\* The types of the archive.
LEMMA ArchiveTyped == ArchiveInv /\ ArchiveBounds => ArchiveTypeOK
  BY DEF ArchiveInv, ArchiveTypes, RunStates, ArchiveBounds, ArchiveTypeOK

MigrationBounds == broken \in 0..MaxBroken /\ requested \in 0..MaxRequested

\* An error is met and a run requested only below its bound.
LEMMA MigrationBoundsStep == MigrationBounds /\ [MigrationNext]_migrationVars => MigrationBounds'
  <1> SUFFICES ASSUME MigrationBounds, [MigrationNext]_migrationVars PROVE MigrationBounds' OBVIOUS
  <1> USE MigrationAssumption DEF MigrationBounds
  <1>1. ASSUME NEW r \in Runners, RunMigrations(r) PROVE MigrationBounds'
    BY <1>1 DEF RunMigrations
  <1>2. ASSUME NEW r \in Migrators, ReadVersion(r) \/ Mark(r) \/ RunScript(r) \/ Record(r)
        PROVE  MigrationBounds'
    BY <1>2 DEF ReadVersion, Mark, RunScript, Record
  <1>3. ASSUME NEW r \in Migrators, ReadFails(r) \/ MigrationFails(r) PROVE MigrationBounds'
    BY <1>3 DEF ReadFails, MigrationFails
  <1>4. CASE Restart BY <1>4 DEF Restart
  <1>5. CASE UNCHANGED migrationVars BY <1>5 DEF migrationVars
  <1> QED BY <1>1, <1>2, <1>3, <1>4, <1>5 DEF MigrationNext

\* The types of the migrations.
LEMMA MigrationTyped == MigrationInv /\ MigrationBounds => MigrationTypeOK
  BY DEF MigrationInv, MigrationTypes, Works, MigrationBounds, MigrationTypeOK

CompanionBounds ==
    /\ DOMAIN peers \subseteq Peers /\ \A p \in DOMAIN peers : peers[p] \in Nat
    /\ DOMAIN discussions \subseteq Topics
    /\ \A d \in DOMAIN discussions : Len(discussions[d].authors) <= MaxOpinions
    /\ \A u \in People :
        /\ sessions[u].id \in 0..MaxSessions /\ sessions[u].idle \in 0..Timeout + 1
        /\ sessions[u].messages \in 0..MaxSent
    /\ nextSession \in 1..MaxSessions + 1 /\ registrations \in 0..MaxRegistered

\* Counting a message leaves the peers what they are.
LEMMA CountedTypes ==
    ASSUME NEW p, \A q \in DOMAIN peers : peers[q] \in Nat
    PROVE  /\ DOMAIN CountedOf(p) = DOMAIN peers
           /\ \A q \in DOMAIN CountedOf(p) : CountedOf(p)[q] \in Nat
  BY DEF CountedOf

\* The bounds hold at the start.
LEMMA CompanionBoundsInit == CompanionsInit => CompanionBounds
  <1> SUFFICES ASSUME CompanionsInit PROVE CompanionBounds OBVIOUS
  <1>1. \A u \in People : sessions[u] = NoSession BY DEF CompanionsInit
  <1>2. DOMAIN peers = {} /\ DOMAIN discussions = {} BY DEF CompanionsInit
  <1> QED
    BY <1>1, <1>2, CompanionsAssumption DEF CompanionsInit, CompanionBounds, NoSession

\* No call of the managers and no tick leaves the bounds.
LEMMA CompanionBoundsStep ==
    CompanionsInv /\ CompanionBounds /\ [CompanionsNext]_companionVars => CompanionBounds'
  <1> SUFFICES ASSUME CompanionsInv, CompanionBounds, [CompanionsNext]_companionVars
               PROVE  CompanionBounds'
    OBVIOUS
  <1> USE CompanionsAssumption
  <1>a. /\ sessions \in [People -> SessionRecord]
        /\ discussions \in [DOMAIN discussions -> DiscussionRecord]
    BY DEF CompanionsInv
  <1>1. ASSUME NEW p \in Peers, RegisterPeer(p) PROVE CompanionBounds'
    BY <1>1 DEF RegisterPeer, CompanionBounds
  <1>2. ASSUME NEW p \in Peers, SendMessage(p) PROVE CompanionBounds'
    BY <1>2, CountedTypes DEF SendMessage, CompanionBounds
  <1>3. ASSUME NEW d \in Topics, NEW invited \in SUBSET Peers, StartDiscussion(d, invited)
        PROVE  CompanionBounds'
    <2>1. \A e \in DOMAIN discussions' :
             e \in Topics /\ Len(discussions'[e].authors) <= MaxOpinions
      <3>1. Len(<<>>) = 0  OBVIOUS
      <3> QED BY <1>3, <3>1 DEF StartDiscussion, CompanionBounds
    <2>2. UNCHANGED <<peers, sessions, nextSession, registrations>> BY <1>3 DEF StartDiscussion
    <2> QED BY <2>1, <2>2 DEF CompanionBounds
  <1>4. ASSUME NEW d \in Topics, NEW p \in Speakers, AddOpinion(d, p) PROVE CompanionBounds'
    <2>1. /\ d \in DOMAIN discussions /\ Len(discussions[d].authors) < MaxOpinions
          /\ discussions' = [discussions EXCEPT ![d].authors = Append(@, p),
                                                ![d].participants = @ \cup {p}]
          /\ UNCHANGED <<sessions, nextSession, registrations>> /\ peers' = CountedOf(p)
      BY <1>4 DEF AddOpinion, Open
    <2>2. discussions[d].authors \in Seq(Speakers) BY <1>a, <2>1 DEF DiscussionRecord
    <2>3. DOMAIN discussions' = DOMAIN discussions BY <2>1
    <2>4. discussions'[d].authors = Append(discussions[d].authors, p) BY <1>a, <2>1 DEF DiscussionRecord
    <2>5. \A e \in DOMAIN discussions \ {d} : discussions'[e] = discussions[e] BY <2>1
    <2>6. Len(discussions'[d].authors) <= MaxOpinions BY <2>1, <2>2, <2>4
    <2>7. \A e \in DOMAIN discussions' :
             e \in Topics /\ Len(discussions'[e].authors) <= MaxOpinions
      BY <2>3, <2>5, <2>6 DEF CompanionBounds
    <2>8. DOMAIN peers' \subseteq Peers /\ \A q \in DOMAIN peers' : peers'[q] \in Nat
      BY <2>1, CountedTypes DEF CompanionBounds
    <2> QED BY <2>1, <2>7, <2>8 DEF CompanionBounds
  <1>5. ASSUME NEW d \in Topics, NEW conclusion, Conclude(d, conclusion) PROVE CompanionBounds'
    <2>1. /\ discussions' = [discussions EXCEPT ![d].status = "concluded",
                                                ![d].conclusion = conclusion]
          /\ UNCHANGED <<peers, sessions, nextSession, registrations>> /\ d \in DOMAIN discussions
      BY <1>5 DEF Conclude
    <2>2. /\ DOMAIN discussions' = DOMAIN discussions
          /\ discussions'[d].authors = discussions[d].authors
          /\ \A e \in DOMAIN discussions \ {d} : discussions'[e] = discussions[e]
      BY <1>a, <2>1 DEF DiscussionRecord
    <2>3. \A e \in DOMAIN discussions' :
             e \in Topics /\ Len(discussions'[e].authors) <= MaxOpinions
      BY <2>2 DEF CompanionBounds
    <2> QED BY <2>1, <2>3 DEF CompanionBounds
  <1>6. CASE CompanionsTick
    <2>1. /\ UNCHANGED <<peers, discussions, nextSession, registrations>>
          /\ sessions' = [u \in People |->
                IF sessions[u].id # 0 /\ sessions[u].idle <= Timeout
                THEN [sessions[u] EXCEPT !.idle = @ + 1] ELSE sessions[u]]
      BY <1>6 DEF CompanionsTick
    <2>2. ASSUME NEW u \in People
          PROVE  /\ sessions'[u].id \in 0..MaxSessions /\ sessions'[u].idle \in 0..Timeout + 1
                 /\ sessions'[u].messages \in 0..MaxSent
      <3>1. CASE sessions[u].id # 0 /\ sessions[u].idle <= Timeout
        <4>1. sessions'[u] = [sessions[u] EXCEPT !.idle = @ + 1] BY <2>1, <3>1
        <4>2. /\ sessions'[u].idle = sessions[u].idle + 1 /\ sessions'[u].id = sessions[u].id
              /\ sessions'[u].messages = sessions[u].messages
          BY <1>a, <4>1 DEF SessionRecord
        <4> QED BY <3>1, <4>2 DEF CompanionBounds
      <3>2. CASE ~(sessions[u].id # 0 /\ sessions[u].idle <= Timeout)
        BY <2>1, <3>2 DEF CompanionBounds
      <3> QED BY <3>1, <3>2
    <2> QED BY <2>1, <2>2 DEF CompanionBounds
  <1>7. ASSUME NEW u \in People, UseSession(u) PROVE CompanionBounds'
    <2>1. /\ sessions[u].messages < MaxSent /\ nextSession <= MaxSessions
          /\ UNCHANGED <<peers, discussions, registrations>>
      BY <1>7 DEF UseSession
    <2>2. CASE sessions[u].id = 0 \/ Expired(u)
      <3>1. /\ sessions' = [sessions EXCEPT ![u] = [NoSession EXCEPT !.id = nextSession]]
            /\ nextSession' = nextSession + 1
        BY <1>7, <2>2 DEF UseSession
      <3>2. sessions'[u].id = nextSession /\ sessions'[u].idle = 0 /\ sessions'[u].messages = 0
        BY <1>a, <3>1 DEF NoSession
      <3>3. \A v \in People \ {u} : sessions'[v] = sessions[v] BY <1>a, <3>1
      <3> QED BY <2>1, <3>1, <3>2, <3>3 DEF CompanionBounds
    <2>3. CASE ~(sessions[u].id = 0 \/ Expired(u))
      <3>1. /\ sessions' = [sessions EXCEPT ![u].idle = 0, ![u].messages = @ + 1]
            /\ UNCHANGED nextSession
        BY <1>7, <2>3 DEF UseSession
      <3>2. /\ sessions'[u].id = sessions[u].id /\ sessions'[u].idle = 0
            /\ sessions'[u].messages = sessions[u].messages + 1
        BY <1>a, <3>1 DEF SessionRecord
      <3>3. \A v \in People \ {u} : sessions'[v] = sessions[v] BY <1>a, <3>1
      <3>4. /\ sessions[u].id \in 0..MaxSessions /\ sessions[u].messages \in Nat
            /\ MaxSent \in Nat
        BY DEF CompanionBounds
      <3>5. /\ sessions'[u].id \in 0..MaxSessions /\ sessions'[u].idle \in 0..Timeout + 1
            /\ sessions'[u].messages \in 0..MaxSent
        BY <2>1, <3>2, <3>4
      <3>6. \A v \in People :
               /\ sessions'[v].id \in 0..MaxSessions /\ sessions'[v].idle \in 0..Timeout + 1
               /\ sessions'[v].messages \in 0..MaxSent
        BY <3>3, <3>5 DEF CompanionBounds
      <3> QED BY <2>1, <3>1, <3>6 DEF CompanionBounds
    <2> QED BY <2>2, <2>3
  <1>8. ASSUME NEW u \in People, EndSession(u) PROVE CompanionBounds'
    BY <1>a, <1>8 DEF EndSession, NoSession, CompanionBounds
  <1>9. CASE UNCHANGED companionVars BY <1>9 DEF companionVars, CompanionBounds
  <1> QED BY <1>1, <1>2, <1>3, <1>4, <1>5, <1>6, <1>7, <1>8, <1>9 DEF CompanionsNext

\* The types of the companions.
LEMMA CompanionsTyped == CompanionsInv /\ CompanionBounds => CompanionsTypeOK
  <1> SUFFICES ASSUME CompanionsInv, CompanionBounds PROVE CompanionsTypeOK OBVIOUS
  <1>1. \A u \in People : sessions[u] \in [id : 0..MaxSessions, idle : 0..Timeout + 1, messages : 0..MaxSent]
    BY DEF CompanionsInv, CompanionBounds, SessionRecord
  <1>2. sessions \in [People -> [id : 0..MaxSessions, idle : 0..Timeout + 1, messages : 0..MaxSent]]
    BY <1>1 DEF CompanionsInv
  <1> QED
    BY <1>2 DEF CompanionsInv, CompanionBounds, DiscussionRecord, CompanionsTypeOK

MemoryBounds ==
    /\ nextId <= MaxMemories + 1
    /\ \A i \in DOMAIN memories : memories[i] \in Facts
    /\ \A c \in Tellers : tellers[c].todo \in Seq(Facts) /\ tellers[c].found \in 0..MaxMemories
    /\ \A p \in promised : p[2] \in Facts
    /\ raced \subseteq Texts
    /\ lost \in 0..MaxLost /\ told \in 0..MaxTold /\ clearings \in 0..MaxCleared

\* What the rules find are facts.
LEMMA ExtractsAreFacts ==
    ASSUME NEW facts \in Extracts
    PROVE  facts \in Seq(Facts)
  <1>1. facts \in Seq([text : Texts, sure : Nat]) BY MemoriesAssumption
  <1>2. ASSUME NEW i \in DOMAIN facts PROVE facts[i] \in Facts
    <2>1. facts[i] \in [text : Texts, sure : Nat]
      <3>1. i \in 1..Len(facts) BY <1>1, LenProperties
      <3> QED BY <1>1, <3>1, ElementOfSeq
    <2>2. facts[i].sure \in Confidences BY DEF Confidences
    <2> QED BY <2>1, <2>2 DEF Facts
  <1> QED BY <1>1, <1>2

\* What a call has to say is one of its facts.
LEMMA FactIsFact ==
    ASSUME MemoryTypes, MemoryBounds, NEW c \in Tellers, tellers[c].at # "look"
    PROVE  Fact(c) \in Facts /\ Fact(c).text \in Texts
  <1>1. tellers[c].todo \in Seq(Facts) /\ tellers[c].todo # <<>>
    BY DEF MemoryTypes, MemoryBounds
  <1>2. Fact(c) \in Facts BY <1>1, HeadTailProperties DEF Fact
  <1> QED BY <1>2 DEF Facts

\* After a fact a call has facts still.
LEMMA FactsAreLeft ==
    ASSUME MemoryTypes, MemoryBounds, NEW c \in Tellers, NextFact(c)
    PROVE  \A d \in Tellers : tellers'[d].todo \in Seq(Facts) /\ tellers'[d].found \in 0..MaxMemories
  <1>1. \A d \in Tellers \ {c} : tellers'[d] = tellers[d] BY AfterAFact
  <1>2. tellers'[c].found = 0 BY AfterAFact
  <1>3. tellers'[c].todo \in Seq(Facts)
    <2>1. CASE Len(tellers[c].todo) > 1
      <3>1. tellers[c].todo \in Seq(Facts) /\ tellers[c].todo # <<>>
        BY <2>1, EmptySeq DEF MemoryBounds
      <3>2. Tail(tellers[c].todo) \in Seq(Facts) BY <3>1, HeadTailProperties
      <3>3. tellers'[c] = [Silent EXCEPT !.todo = Tail(tellers[c].todo)]
        BY <2>1 DEF NextFact, MemoryTypes
      <3> QED BY <3>2, <3>3 DEF Silent
    <2>2. CASE ~(Len(tellers[c].todo) > 1)
      <3>1. tellers'[c] = Silent BY <2>2 DEF NextFact, MemoryTypes
      <3> QED BY <3>1, EmptySeq DEF Silent
    <2> QED BY <2>1, <2>2
  <1> QED BY <1>1, <1>2, <1>3, MemoriesAssumption DEF MemoryBounds

\* The bounds hold at the start.
LEMMA MemoryBoundsInit == MemoriesInit => MemoryBounds
  <1> SUFFICES ASSUME MemoriesInit PROVE MemoryBounds OBVIOUS
  <1> USE MemoriesAssumption
  <1>1. \A c \in Tellers : tellers[c].todo = <<>> /\ tellers[c].found = 0
    BY DEF MemoriesInit, Silent
  <1>2. /\ nextId = 1 /\ DOMAIN memories = {} /\ promised = {} /\ raced = {}
        /\ lost = 0 /\ told = 0 /\ clearings = 0
    BY DEF MemoriesInit
  <1>3. <<>> \in Seq(Facts) BY EmptySeq
  <1>4. 0 \in 0..MaxMemories /\ 0 \in 0..MaxLost /\ 0 \in 0..MaxTold /\ 0 \in 0..MaxCleared
        /\ 1 <= MaxMemories + 1
    OBVIOUS
  <1> HIDE MemoriesAssumption
  <1>5. \A c \in Tellers : tellers[c].todo \in Seq(Facts) /\ tellers[c].found \in 0..MaxMemories
    BY <1>1, <1>3, <1>4
  <1> QED BY <1>2, <1>4, <1>5 DEF MemoryBounds

\* Every step of a call, and every deletion and reset, keeps the bounds.
LEMMA MemoryBoundsStep == MemoriesInv /\ MemoryBounds /\ [MemoriesNext]_memoryVars => MemoryBounds'
  <1> SUFFICES ASSUME MemoriesInv, MemoryBounds, [MemoriesNext]_memoryVars PROVE MemoryBounds' OBVIOUS
  <1> USE MemoriesAssumption
  <1>a. /\ MemoryTypes /\ FoundIsIt /\ nextId \in Nat \ {0}
        /\ tellers \in [Tellers -> Told] /\ DOMAIN memories \subseteq 1..nextId - 1
    BY DEF MemoriesInv, MemoryTypes
  <1>1. ASSUME NEW c \in Tellers, NEW facts \in Extracts, Tell(c, facts) PROVE MemoryBounds'
    <2>1. /\ tellers' = [tellers EXCEPT ![c].todo = facts] /\ told < MaxTold /\ told' = told + 1
          /\ UNCHANGED <<memories, nextId, promised, raced, cleared, lost, clearings>>
      BY <1>1 DEF Tell
    <2>2. tellers'[c] = [tellers[c] EXCEPT !.todo = facts] BY <1>a, <2>1
    <2>3. tellers'[c].todo = facts /\ tellers'[c].found = tellers[c].found BY <1>a, <2>2 DEF Told
    <2>4. \A d \in Tellers \ {c} : tellers'[d] = tellers[d] BY <1>a, <2>1
    <2>5. \A d \in Tellers :
             tellers'[d].todo \in Seq(Facts) /\ tellers'[d].found \in 0..MaxMemories
      BY <2>3, <2>4, ExtractsAreFacts DEF MemoryBounds
    <2>6. told' \in 0..MaxTold
      <3>1. told \in 0..MaxTold /\ MaxTold \in Nat BY DEF MemoryBounds
      <3>2. told < MaxTold /\ told' = told + 1 BY <2>1
      <3> QED BY ONLY <3>1, <3>2
    <2> QED BY <2>1, <2>5, <2>6 DEF MemoryBounds
  <1>2. ASSUME NEW c \in Tellers, TellRaises(c) PROVE MemoryBounds'
    BY <1>a, <1>2, FactsAreLeft DEF TellRaises, MemoryBounds
  <1>3. ASSUME NEW c \in Tellers, Look(c) PROVE MemoryBounds'
    <2>1. UNCHANGED <<memories, nextId, promised, cleared, lost, told, clearings>> BY <1>3 DEF Look
    <2>2. CASE Found(c) = {}
      <3>1. /\ tellers' = [tellers EXCEPT ![c].at = "insert"]
            /\ raced' = IF Missing(Fact(c).text) # {} THEN raced \cup {Fact(c).text} ELSE raced
        BY <1>3, <2>2 DEF Look
      <3>2. \A d \in Tellers : /\ tellers'[d].todo = tellers[d].todo
                               /\ tellers'[d].found = tellers[d].found
        BY <1>a, <3>1 DEF Told
      <3>3. CASE Missing(Fact(c).text) # {}
        <4>1. PICK d \in Tellers : tellers[d].at = "insert" /\ Fact(d).text = Fact(c).text
          BY <3>3 DEF Missing
        <4>2. Fact(c).text \in Texts BY <1>a, <4>1, FactIsFact
        <4> QED BY <2>1, <3>1, <3>2, <4>2 DEF MemoryBounds
      <3>4. CASE Missing(Fact(c).text) = {} BY <2>1, <3>1, <3>2, <3>4 DEF MemoryBounds
      <3> QED BY <3>3, <3>4
    <2>3. CASE Found(c) # {}
      <3>1. PICK i \in Found(c) :
              tellers' = [tellers EXCEPT ![c] = [todo |-> @.todo, at |-> "update", found |-> i]]
        BY <1>3, <2>3 DEF Look
      <3>2. UNCHANGED raced BY <1>3, <2>3 DEF Look
      <3>3. i \in 1..nextId - 1 BY <1>a, <3>1 DEF Found, OfText
      <3>4. i \in 0..MaxMemories BY <1>a, <3>3 DEF MemoryBounds
      <3>5. /\ tellers'[c].todo = tellers[c].todo /\ tellers'[c].found = i
            /\ \A d \in Tellers \ {c} : tellers'[d] = tellers[d]
        BY <1>a, <3>1
      <3> QED BY <2>1, <3>2, <3>4, <3>5 DEF MemoryBounds
    <2> QED BY <2>2, <2>3
  <1>4. ASSUME NEW c \in Tellers, Update(c) PROVE MemoryBounds'
    <2>1. /\ tellers[c].at = "update" /\ NextFact(c)
          /\ promised' = promised \cup {<<tellers[c].found, Fact(c)>>}
          /\ memories' = [i \in DOMAIN memories |->
                IF i = tellers[c].found THEN [memories[i] EXCEPT !.sure = Greater(@, Fact(c).sure)]
                                        ELSE memories[i]]
          /\ UNCHANGED <<nextId, raced, cleared, lost, told, clearings>>
      BY <1>4 DEF Update
    <2>2. Fact(c) \in Facts BY <1>a, <2>1, FactIsFact
    <2>3. ASSUME NEW i \in DOMAIN memories PROVE memories'[i] \in Facts
      <3>1. memories[i] \in Facts BY DEF MemoryBounds
      <3>2. Greater(memories[i].sure, Fact(c).sure) \in Confidences
        BY <2>2, <3>1 DEF Greater, Facts
      <3>3. [memories[i] EXCEPT !.sure = Greater(memories[i].sure, Fact(c).sure)] \in Facts
        BY <3>1, <3>2 DEF Facts
      <3> QED BY <2>1, <3>1, <3>3
    <2>4. DOMAIN memories' = DOMAIN memories BY <2>1
    <2>5. \A p \in promised' : p[2] \in Facts BY <2>1, <2>2 DEF MemoryBounds
    <2> QED BY <1>a, <2>1, <2>3, <2>4, <2>5, FactsAreLeft DEF MemoryBounds
  <1>5. ASSUME NEW c \in Tellers, Insert(c) PROVE MemoryBounds'
    <2>1. /\ tellers[c].at = "insert" /\ nextId <= MaxMemories /\ NextFact(c) /\ nextId' = nextId + 1
          /\ promised' = promised \cup {<<nextId, Fact(c)>>}
          /\ memories' = [i \in DOMAIN memories \cup {nextId} |->
                IF i = nextId THEN Fact(c) ELSE memories[i]]
          /\ UNCHANGED <<raced, cleared, lost, told, clearings>>
      BY <1>5 DEF Insert
    <2>2. Fact(c) \in Facts BY <1>a, <2>1, FactIsFact
    <2>3. \A i \in DOMAIN memories' : memories'[i] \in Facts BY <2>1, <2>2 DEF MemoryBounds
    <2>4. \A p \in promised' : p[2] \in Facts BY <2>1, <2>2 DEF MemoryBounds
    <2>5. nextId' <= MaxMemories + 1 BY <1>a, <2>1
    <2> QED BY <1>a, <2>1, <2>3, <2>4, <2>5, FactsAreLeft DEF MemoryBounds
  <1>6. ASSUME NEW ids, Clear(ids) PROVE MemoryBounds'
    BY <1>6 DEF Clear, Without, MemoryBounds
  <1>7. CASE UNCHANGED memoryVars BY <1>7 DEF memoryVars, MemoryBounds
  <1> QED
    BY <1>1, <1>2, <1>3, <1>4, <1>5, <1>6, <1>7 DEF MemoriesNext, Delete, Forget

\* The types of the memories.
LEMMA MemoriesTyped == MemoriesInv /\ MemoryBounds => MemoriesTypeOK
  <1> SUFFICES ASSUME MemoriesInv, MemoryBounds PROVE MemoriesTypeOK OBVIOUS
  <1> USE MemoriesAssumption
  <1>1. nextId \in 1..MaxMemories + 1 BY DEF MemoriesInv, MemoryTypes, MemoryBounds
  <1>2. 1..nextId - 1 \subseteq Ids BY <1>1 DEF Ids
  <1>3. promised \subseteq Ids \X Facts
    BY <1>2 DEF MemoriesInv, MemoryTypes, MemoryBounds
  <1>4. ASSUME NEW c \in Tellers, NEW i \in DOMAIN tellers[c].todo
        PROVE  tellers[c].todo[i] \in Facts
    <2>1. tellers[c].todo \in Seq(Facts) BY DEF MemoryBounds
    <2>2. i \in 1..Len(tellers[c].todo) BY <2>1, LenProperties
    <2> QED BY <2>1, <2>2, ElementOfSeq
  <1> QED
    BY <1>1, <1>2, <1>3, <1>4 DEF MemoriesInv, MemoryTypes, Told, MemoryBounds, MemoriesTypeOK

\* Requests; a briefing is made for a day.
Asks == {p \in [at : {"idle", "reading", "briefing"}, day : {"today", "earlier", "latest"},
                left : 0..Longest] : p.at = "briefing" => p.day # "latest"}

RoundBounds ==
    /\ thinker.left \in -Late..Interval * Hour + Delay + Longest
    /\ mailer \in -Late..Day
    /\ briefs \subseteq {"today", "earlier"}
    /\ askers \in [Askers -> Asks]
    /\ mailed \in BOOLEAN /\ restarts \in 0..MaxRestarts

\* What the clock makes of a loop or a request.
LEMMA AgedParts ==
    ASSUME NEW p, NEW at, NEW day, NEW left, NEW midnight \in BOOLEAN,
           p = [at |-> at, day |-> day, left |-> left]
    PROVE  Aged(p, midnight) =
              [at |-> at, day |-> IF midnight /\ day = "today" THEN "earlier" ELSE day,
               left |-> left - 1]
  <1> DEFINE then == IF midnight /\ day = "today" THEN "earlier" ELSE day
  <1>1. p.at = at /\ p.day = day /\ p.left = left  OBVIOUS
  <1>2. Aged(p, midnight) = [p EXCEPT !.left = left - 1, !.day = then]  BY <1>1 DEF Aged
  <1> HIDE DEF then
  <1>3. Aged(p, midnight) = [at |-> at, day |-> then, left |-> left - 1]  BY <1>2
  <1> QED BY <1>3 DEF then

\* A request that is at work stays a request while the clock goes on.
LEMMA AgedAsker ==
    ASSUME NEW p \in Asks, p.left > 0, NEW midnight \in BOOLEAN
    PROVE  Aged(p, midnight) \in Asks
  <1>1. p = [at |-> p.at, day |-> p.day, left |-> p.left]  BY DEF Asks
  <1> DEFINE day == IF midnight /\ p.day = "today" THEN "earlier" ELSE p.day
  <1>2. Aged(p, midnight) = [at |-> p.at, day |-> day, left |-> p.left - 1]  BY <1>1, AgedParts
  <1>3. day \in {"today", "earlier", "latest"} /\ (p.day # "latest" => day # "latest")
    BY DEF Asks
  <1> HIDE DEF day
  <1>4. p.left - 1 \in 0..Longest  BY RoundsAssumption DEF Asks
  <1> QED BY <1>2, <1>3, <1>4 DEF Asks

\* The mail loop sleeps a day at most.
LEMMA WaitBounds ==
    ASSUME NEW t \in 0..Day - 1
    PROVE  Wait(t) \in 0..Day
  <1>1. /\ Wait(t) \in Nat /\ MailTick \in Nat /\ Day \in Nat /\ MailTick < Day /\ t \in Nat
        /\ t + Wait(t) = IF t >= MailTick THEN MailTick + Day ELSE MailTick
    BY WaitEnds, DayConstants
  <1> QED BY <1>1

\* Every step of the loops, the requests and the clock keeps the bounds.
LEMMA RoundBoundsStep == RoundsInv /\ RoundBounds /\ [RoundsNext]_roundsVars => RoundBounds'
  <1> SUFFICES ASSUME RoundsInv, RoundBounds, [RoundsNext]_roundsVars PROVE RoundBounds' OBVIOUS
  <1> DEFINE Lefts == -Late..Interval * Hour + Delay + Longest
  <1>a. /\ Interval * Hour \in Nat /\ Delay \in Nat /\ Longest \in Nat \ {0} /\ Late \in Nat
        /\ Day \in Nat \ {0} /\ MaxRestarts \in Nat
    BY RoundsAssumption, DayConstants
  <1>b. /\ Delay \in Lefts /\ Longest \in Lefts /\ Interval * Hour \in Lefts
    BY ONLY <1>a
  <1>c. /\ now \in 0..Day - 1 /\ mailer \in Int /\ thinker.left \in Int
        /\ thinker.at \in {"asleep", "thinking", "briefing"} /\ thinker.day \in {"today", "earlier"}
        /\ thinker = [at |-> thinker.at, day |-> thinker.day, left |-> thinker.left]
    BY DEF RoundsInv, RoundTypes
  <1>d. /\ thinker.left \in Lefts /\ mailer \in -Late..Day /\ briefs \subseteq {"today", "earlier"}
        /\ askers \in [Askers -> Asks] /\ mailed \in BOOLEAN /\ restarts \in 0..MaxRestarts
    BY DEF RoundBounds
  <1>e. Quiet \in Asks /\ Generating \in Asks BY <1>a DEF Quiet, Generating, Asks
  <1>f. /\ thinker'.left \in Lefts /\ mailer' \in -Late..Day
        /\ briefs' \subseteq {"today", "earlier"} /\ askers' \in [Askers -> Asks]
        /\ mailed' \in BOOLEAN /\ restarts' \in 0..MaxRestarts
        => RoundBounds'
    BY DEF RoundBounds
  <1>g. Wait(now) \in -Late..Day
    <2>1. Wait(now) \in 0..Day BY <1>c, WaitBounds
    <2> QED BY <1>a, <2>1
  <1> HIDE DEF Lefts
  <1>1. CASE RoundsTick
    <2> DEFINE midnight == now = Day - 1
    <2>1. /\ IF Busy(thinker.at) THEN thinker.left > 0 ELSE thinker.left > -Late
          /\ mailer > -Late /\ mailer' = mailer - 1 /\ UNCHANGED restarts
          /\ \A c \in Askers : Busy(askers[c].at) => askers[c].left > 0
          /\ thinker' = Aged(thinker, midnight)
          /\ askers' = [c \in Askers |-> IF Busy(askers[c].at) THEN Aged(askers[c], midnight)
                                                                ELSE askers[c]]
          /\ briefs' = IF midnight /\ briefs # {} THEN {"earlier"} ELSE briefs
          /\ mailed' = (mailed /\ ~midnight)
      BY <1>1 DEF RoundsTick
    <2>2. midnight \in BOOLEAN OBVIOUS
    <2> HIDE DEF midnight
    <2>3. mailer' \in -Late..Day
      <3>1. mailer > -Late /\ mailer' = mailer - 1 BY <2>1
      <3> QED BY <1>a, <1>d, <3>1
    <2>4. thinker'.left = thinker.left - 1
      <3>1. thinker' = Aged(thinker, midnight) BY <2>1
      <3>2. Aged(thinker, midnight).left = thinker.left - 1 BY <1>c, <2>2, AgedParts
      <3> QED BY <3>1, <3>2
    <2>5. thinker.left > -Late BY <1>a, <1>c, <2>1
    <2>6. thinker'.left \in Lefts BY <1>a, <1>d, <2>4, <2>5 DEF Lefts
    <2>7. ASSUME NEW c \in Askers PROVE askers'[c] \in Asks
      <3>1. askers[c] \in Asks BY <1>d
      <3>2. CASE Busy(askers[c].at)
        <4>1. askers'[c] = Aged(askers[c], midnight) /\ askers[c].left > 0 BY <2>1, <3>2
        <4> QED BY <2>2, <3>1, <4>1, AgedAsker
      <3>3. CASE ~Busy(askers[c].at) BY <2>1, <3>1, <3>3
      <3> QED BY <3>2, <3>3
    <2>8. askers' \in [Askers -> Asks]
      <3>1. askers' = [c \in Askers |-> askers'[c]] BY <2>1
      <3> QED BY <2>7, <3>1
    <2>9. briefs' \subseteq {"today", "earlier"} /\ mailed' \in BOOLEAN BY <1>d, <2>1
    <2>10. restarts' \in 0..MaxRestarts BY <1>d, <2>1
    <2> QED BY <1>f, <2>3, <2>6, <2>8, <2>9, <2>10
  <1>2. CASE ThinkerWakes
    BY <1>b, <1>d, <1>f, <1>2 DEF ThinkerWakes
  <1>3. CASE SessionEnds
    <2>1. thinker'.left \in Lefts BY <1>b, <1>3 DEF SessionEnds, Resting
    <2> QED BY <1>d, <1>f, <1>3, <2>1 DEF SessionEnds
  <1>4. ASSUME NEW stored \in BOOLEAN, LoopBriefs(stored) PROVE RoundBounds'
    <2>1. thinker'.left \in Lefts BY <1>b, <1>4 DEF LoopBriefs, Resting
    <2>2. briefs' \subseteq {"today", "earlier"} BY <1>c, <1>d, <1>4 DEF LoopBriefs
    <2> QED BY <1>d, <1>f, <1>4, <2>1, <2>2 DEF LoopBriefs
  <1>5. ASSUME NEW c \in Askers, NEW day \in {"today", "earlier", "latest"}, GetBrief(c, day)
        PROVE  RoundBounds'
    <2>1. [at |-> "reading", day |-> day, left |-> Longest] \in Asks BY <1>a DEF Asks
    <2> QED BY <1>d, <1>f, <1>5, <2>1 DEF GetBrief
  <1>6. ASSUME NEW c \in Askers, PostBrief(c) PROVE RoundBounds'
    BY <1>d, <1>e, <1>f, <1>6 DEF PostBrief
  <1>7. ASSUME NEW c \in Askers, NEW ok \in BOOLEAN, ReadBrief(c, ok) PROVE RoundBounds'
    BY <1>d, <1>e, <1>f, <1>7 DEF ReadBrief
  <1>8. ASSUME NEW c \in Askers, NEW ok \in BOOLEAN, BriefMade(c, ok) PROVE RoundBounds'
    <2>1. /\ askers[c].at = "briefing" /\ askers' = [askers EXCEPT ![c] = Quiet]
          /\ briefs' = (IF ok THEN briefs \cup {askers[c].day} ELSE briefs)
          /\ UNCHANGED <<thinker, mailer, mailed, restarts>>
      BY <1>8 DEF BriefMade
    <2>2. askers[c].day \in {"today", "earlier"} BY <1>d, <2>1 DEF Asks
    <2> QED BY <1>d, <1>e, <1>f, <2>1, <2>2
  <1>9. CASE MailDailyBrief
    BY <1>d, <1>f, <1>g, <1>9 DEF MailDailyBrief
  <1>10. CASE Reboot
    <2>1. restarts' \in 0..MaxRestarts BY <1>a, <1>d, <1>10 DEF Reboot
    <2>2. askers' \in [Askers -> Asks] BY <1>e, <1>10 DEF Reboot
    <2>3. thinker'.left \in Lefts /\ mailer' \in -Late..Day BY <1>b, <1>g, <1>10 DEF Reboot
    <2> QED BY <1>d, <1>f, <1>10, <2>1, <2>2, <2>3 DEF Reboot
  <1>11. CASE UNCHANGED roundsVars BY <1>d, <1>f, <1>11 DEF roundsVars
  <1> QED
    BY <1>1, <1>2, <1>3, <1>4, <1>5, <1>6, <1>7, <1>8, <1>9, <1>10, <1>11
    DEF RoundsNext, LoopStep, AskerStep

\* At the start of the loops the bounds hold.
LEMMA RoundBoundsInit == RoundsInit => RoundBounds
  <1> SUFFICES ASSUME RoundsInit PROVE RoundBounds OBVIOUS
  <1>1. /\ now \in 0..Day - 1 /\ mailer = Wait(now) /\ thinker.left = Delay
        /\ briefs \subseteq {"today", "earlier"} /\ askers = [c \in Askers |-> Quiet]
        /\ mailed = FALSE /\ restarts = 0
    BY DEF RoundsInit
  <1>2. /\ Interval * Hour \in Nat /\ Delay \in Nat /\ Longest \in Nat /\ Late \in Nat
        /\ Day \in Nat /\ MaxRestarts \in Nat /\ Wait(now) \in 0..Day
    BY <1>1, RoundsAssumption, DayConstants, WaitBounds
  <1>3. Delay \in -Late..Interval * Hour + Delay + Longest /\ Wait(now) \in -Late..Day
    BY ONLY <1>2
  <1>4. Quiet \in Asks BY <1>2 DEF Quiet, Asks
  <1>5. askers \in [Askers -> Asks] BY <1>1, <1>4
  <1>6. restarts \in 0..MaxRestarts BY <1>1, <1>2
  <1> QED BY <1>1, <1>3, <1>5, <1>6 DEF RoundBounds

\* The types of the rounds.
LEMMA RoundsTyped == RoundsInv /\ RoundBounds => RoundsTypeOK
  <1> SUFFICES ASSUME RoundsInv, RoundBounds PROVE RoundsTypeOK OBVIOUS
  <1>1. thinker \in [at : {"asleep", "thinking", "briefing"}, day : {"today", "earlier"},
                     left : -Late..Interval * Hour + Delay + Longest]
    BY DEF RoundsInv, RoundTypes, RoundBounds
  <1>2. briefed \in 0..2 /\ rounds \in 0..2
    BY DEF RoundsInv, RoundTypes, MailDue, BriefedOnce
  <1>3. now \in 0..Day - 1 BY DEF RoundsInv, RoundTypes
  <1> QED BY <1>1, <1>2, <1>3 DEF RoundBounds, Asks, RoundsTypeOK

Streamed == [chunks : Seq({"chunk", "error", "end"}), made : 0..Chunks,
             reader : {"reading", "done", "gone"}]

CallBounds ==
    /\ age \in 0..Minute + 1 /\ mixed \in BOOLEAN /\ calls \in 0..MaxCalls
    /\ loop \in Generators \cup {Nobody}
    /\ queue \in [Streams -> Streamed]
    /\ \A u \in Users :
        /\ users[u].tries < Attempts /\ users[u].left <= Minute
        /\ users[u].at \in {"ask", "backoff"} => u \notin Streams

\* The call u is at another place, the others where they were.
Goes(u, at, tries, left) ==
    /\ users'[u].at = at /\ users'[u].tries = tries /\ users'[u].left = left
    /\ \A v \in Users \ {u} : users'[v] = users[v]

\* What such a step has to show.
LEMMA GoesInBounds ==
    ASSUME CallBounds, NEW u \in Users, NEW at, NEW tries, NEW left, Goes(u, at, tries, left),
           tries < Attempts, left <= Minute, at \in {"ask", "backoff"} => u \notin Streams
    PROVE  \A v \in Users :
              /\ users'[v].tries < Attempts /\ users'[v].left <= Minute
              /\ users'[v].at \in {"ask", "backoff"} => v \notin Streams
  BY DEF CallBounds, Goes

\* Every step of a call, a stream and the clock keeps the bounds.
LEMMA CallBoundsStep == CallTypes /\ CallBounds /\ [CallsNext]_callVars => CallBounds'
  <1> SUFFICES ASSUME CallTypes, CallBounds, [CallsNext]_callVars PROVE CallBounds' OBVIOUS
  <1> DEFINE Kept == \A v \in Users :
                        /\ users[v].tries < Attempts /\ users[v].left <= Minute
                        /\ users[v].at \in {"ask", "backoff"} => v \notin Streams
  <1>a. /\ users \in [Users -> CallStates] /\ age \in 0..Minute + 1 /\ age \in Nat
        /\ mixed \in BOOLEAN /\ calls \in 0..MaxCalls /\ loop \in Generators \cup {Nobody}
        /\ queue \in [Streams -> Streamed] /\ Kept
    BY CallsAssumption DEF CallTypes, CallBounds
  <1>b. /\ Minute \in Nat \ {0} /\ Chunks \in Nat /\ MaxCalls \in Nat
        /\ \A u \in Users \ Streams : u \in Generators
        /\ Attempts = 3
    BY CallsAssumption DEF Users, Attempts
  <1>c. /\ age' \in 0..Minute + 1 /\ mixed' \in BOOLEAN /\ calls' \in 0..MaxCalls
        /\ loop' \in Generators \cup {Nobody} /\ queue' \in [Streams -> Streamed] /\ Kept'
        => CallBounds'
    BY DEF CallBounds
  <1>f. \A u \in Users : /\ users[u] \in CallStates /\ users[u].tries < Attempts
                         /\ users[u].left <= Minute
    BY <1>a
  <1>e. ASSUME NEW u \in Users, NEW at, NEW tries, NEW left, Goes(u, at, tries, left),
               tries < Attempts, left <= Minute, at \in {"ask", "backoff"} => u \notin Streams
        PROVE  Kept'
    BY <1>e, GoesInBounds
  <1>g. ASSUME NEW u \in Users, users' = [users EXCEPT ![u] = NoCall] PROVE Kept'
    <2>1. Goes(u, "idle", 0, 0) BY <1>a, <1>g DEF Goes, NoCall
    <2> QED BY <1>b, <1>e, <2>1
  <1>h. ASSUME NEW u \in Users, NEW at, at \notin {"ask", "backoff"} \/ u \notin Streams,
               users' = [users EXCEPT ![u].at = at]
        PROVE  Kept'
    <2>1. Goes(u, at, users[u].tries, users[u].left) BY <1>a, <1>h DEF Goes, CallStates
    <2> QED BY <1>e, <1>f, <1>h, <2>1
  <1>1. CASE CallsTick
    <2>1. /\ age' = (IF age > Minute THEN age ELSE age + 1)
          /\ users' = [u \in Users |->
                IF users[u].at = "sleep" /\ users[u].left > 0
                THEN [users[u] EXCEPT !.left = @ - 1] ELSE users[u]]
          /\ UNCHANGED <<loop, queue, mixed, calls>>
      BY <1>1 DEF CallsTick
    <2>2. age' \in 0..Minute + 1 BY <1>a, <1>b, <2>1
    <2>3. ASSUME NEW v \in Users
          PROVE  /\ users'[v].tries < Attempts /\ users'[v].left <= Minute
                 /\ users'[v].at \in {"ask", "backoff"} => v \notin Streams
      <3>1. CASE users[v].at = "sleep" /\ users[v].left > 0
        <4>1. users'[v] = [users[v] EXCEPT !.left = users[v].left - 1] BY <2>1, <3>1
        <4>2. /\ users'[v].tries = users[v].tries /\ users'[v].at = users[v].at
              /\ users'[v].left = users[v].left - 1 /\ users[v].left \in Nat
          BY <1>f, <4>1 DEF CallStates
        <4> QED BY <1>a, <1>b, <4>2
      <3>2. CASE ~(users[v].at = "sleep" /\ users[v].left > 0) BY <1>a, <2>1, <3>2
      <3> QED BY <3>1, <3>2
    <2> QED BY <1>a, <1>c, <2>1, <2>2, <2>3
  <1> HIDE DEF Kept
  <1>2. ASSUME NEW u \in Users, NEW kind \in {"plain", "tools", "stream"}, CallModel(u, kind)
        PROVE  CallBounds'
    <2>1. /\ users' = [users EXCEPT ![u].at = "enter", ![u].kind = kind]
          /\ calls < MaxCalls /\ calls' = calls + 1 /\ UNCHANGED <<age, mixed>>
      BY <1>2 DEF CallModel
    <2>2. Goes(u, "enter", users[u].tries, users[u].left) BY <1>a, <2>1 DEF Goes, CallStates
    <2>3. Kept' BY <1>e, <1>f, <2>2
    <2>4. calls' \in 0..MaxCalls BY <1>a, <1>b, <2>1
    <2>5. CASE u \in Streams
      <3>1. queue' = [queue EXCEPT ![u] = [NoStream EXCEPT !.reader = "reading"]] /\ UNCHANGED loop
        BY <1>2, <2>5 DEF CallModel
      <3>2. [NoStream EXCEPT !.reader = "reading"] \in Streamed
        <4>1. [NoStream EXCEPT !.reader = "reading"]
                 = [chunks |-> <<>>, made |-> 0, reader |-> "reading"]
          BY DEF NoStream
        <4>2. 0 \in 0..Chunks /\ <<>> \in Seq({"chunk", "error", "end"}) BY <1>b
        <4> QED BY <4>1, <4>2 DEF Streamed
      <3> QED BY <1>a, <1>c, <2>1, <2>3, <2>4, <3>1, <3>2
    <2>6. CASE u \notin Streams
      <3>1. loop' = u /\ UNCHANGED queue BY <1>2, <2>6 DEF CallModel
      <3> QED BY <1>a, <1>b, <1>c, <2>1, <2>3, <2>4, <2>6, <3>1
    <2> QED BY <2>5, <2>6
  <1>3. ASSUME NEW u \in Users, LimiterStep(u) PROVE CallBounds'
    <2>1. ASSUME Pass(u) PROVE Kept'
      <3> DEFINE at == IF u \in Streams THEN "produce" ELSE "ask"
      <3>1. users' = [users EXCEPT ![u].at = at] BY <2>1 DEF Pass
      <3>2. at \notin {"ask", "backoff"} \/ u \notin Streams OBVIOUS
      <3> HIDE DEF at
      <3> QED BY <1>h, <3>1, <3>2
    <2>2. CASE EnterLimiter(u)
      <3>1. users' = [users EXCEPT ![u].at = "load"] BY <2>2 DEF EnterLimiter
      <3>2. Kept' BY <1>h, <3>1
      <3>3. age' \in 0..Minute + 1 BY <1>a, <1>b, <2>2 DEF EnterLimiter
      <3>4. mixed' \in BOOLEAN BY <2>2 DEF EnterLimiter
      <3>5. UNCHANGED <<loop, queue, calls>> BY <2>2 DEF EnterLimiter
      <3> QED BY <1>a, <1>c, <3>2, <3>3, <3>4, <3>5
    <2>3. CASE LoadCount(u)
      <3>1. Goes(u, "store", users[u].tries, users[u].left)
        BY <1>a, <2>3 DEF LoadCount, Goes, CallStates
      <3>2. Kept' BY <1>e, <1>f, <3>1
      <3> QED BY <1>a, <1>c, <2>3, <3>2 DEF LoadCount
    <2>4. CASE StoreCount(u)
      <3>1. Kept'
        <4>1. CASE TooMany(count')
          <5>1. users' = [users EXCEPT ![u].at = "sleep", ![u].left = Remaining]
            BY <2>4, <4>1 DEF StoreCount
          <5>2. Goes(u, "sleep", users[u].tries, Remaining) BY <1>a, <5>1 DEF Goes, CallStates
          <5>3. Remaining <= Minute BY <1>a, <1>b DEF Remaining
          <5> QED BY <1>e, <1>f, <5>2, <5>3
        <4>2. CASE ~TooMany(count') BY <2>1, <2>4, <4>2 DEF StoreCount
        <4> QED BY <4>1, <4>2
      <3>2. UNCHANGED <<age, loop, queue, mixed, calls>> BY <2>4 DEF StoreCount
      <3> QED BY <1>a, <1>c, <3>1, <3>2
    <2>5. CASE AfterSleep(u)
      <3>1. users' = [users EXCEPT ![u].at = "start"] BY <2>5 DEF AfterSleep
      <3>2. Kept' BY <1>h, <3>1
      <3> QED BY <1>a, <1>c, <2>5, <3>2 DEF AfterSleep
    <2>6. CASE StartMinute(u)
      <3>1. Pass(u) /\ age' = 0 /\ UNCHANGED <<loop, queue, calls>> BY <2>6 DEF StartMinute
      <3>2. mixed' \in BOOLEAN BY <2>6 DEF StartMinute
      <3>3. age' \in 0..Minute + 1 BY <1>b, <3>1
      <3> QED BY <1>a, <1>c, <2>1, <3>1, <3>2, <3>3
    <2> QED BY <1>3, <2>2, <2>3, <2>4, <2>5, <2>6 DEF LimiterStep
  <1>4. ASSUME NEW u \in Users, FinishCall(u) PROVE Kept' /\ loop' \in Generators \cup {Nobody}
    BY <1>g, <1>4 DEF FinishCall
  <1>5. ASSUME NEW u \in Users, Answered(u) PROVE CallBounds'
    <2>1. FinishCall(u) /\ UNCHANGED <<age, queue, mixed, calls>> BY <1>5 DEF Answered
    <2> QED BY <1>4, <1>a, <1>c, <2>1
  <1>6. ASSUME NEW u \in Users, AskFails(u) PROVE CallBounds'
    <2>1. users[u].at = "ask" /\ UNCHANGED <<age, queue, mixed, calls>> BY <1>6 DEF AskFails
    <2>2. u \notin Streams BY <1>a, <2>1 DEF Kept
    <2>3. CASE users[u].kind = "tools"
      <3>1. users' = [users EXCEPT ![u].at = "enter", ![u].kind = "plain"] /\ UNCHANGED loop
        BY <1>6, <2>3 DEF AskFails
      <3>2. Goes(u, "enter", users[u].tries, users[u].left) BY <1>a, <3>1 DEF Goes, CallStates
      <3>3. Kept' BY <1>e, <1>f, <3>2
      <3> QED BY <1>a, <1>c, <2>1, <3>1, <3>3
    <2>4. CASE users[u].kind # "tools" /\ LastTry(u)
      <3>1. FinishCall(u) BY <1>6, <2>4 DEF AskFails
      <3> QED BY <1>4, <1>a, <1>c, <2>1, <3>1
    <2>5. CASE users[u].kind # "tools" /\ ~LastTry(u)
      <3>1. /\ users' = [users EXCEPT ![u].at = "backoff", ![u].tries = @ + 1] /\ loop' = Nobody
        BY <1>6, <2>5 DEF AskFails
      <3>2. Goes(u, "backoff", users[u].tries + 1, users[u].left)
        BY <1>a, <3>1 DEF Goes, CallStates
      <3>3. users[u].tries \in Nat /\ users[u].tries + 1 < Attempts
        BY <1>b, <1>f, <2>5 DEF LastTry, CallStates
      <3>4. Kept' BY <1>e, <1>f, <2>2, <3>2, <3>3
      <3> QED BY <1>a, <1>c, <2>1, <3>1, <3>4
    <2> QED BY <2>3, <2>4, <2>5
  <1>7. ASSUME NEW u \in Users, Retry(u) PROVE CallBounds'
    <2>1. users[u].at = "backoff" /\ loop' = u /\ UNCHANGED <<age, queue, mixed, calls>>
      BY <1>7 DEF Retry
    <2>2. u \in Generators BY <1>a, <1>b, <2>1 DEF Kept
    <2>3. users' = [users EXCEPT ![u].at = "enter"] BY <1>7 DEF Retry
    <2>4. Kept' BY <1>h, <2>3
    <2> QED BY <1>a, <1>c, <2>1, <2>2, <2>4
  <1>8. ASSUME NEW s \in Streams, NEW q \in Streamed, queue' = [queue EXCEPT ![s] = q]
        PROVE  queue' \in [Streams -> Streamed]
    BY <1>a, <1>8
  <1>9. ASSUME UNCHANGED users PROVE Kept'
    BY <1>a, <1>9 DEF Kept
  <1>10. ASSUME NEW s \in Streams, Chunk(s) PROVE CallBounds'
    <2>1. /\ queue' = [queue EXCEPT ![s] = [chunks |-> Append(queue[s].chunks, "chunk"),
                                              made |-> queue[s].made + 1, reader |-> queue[s].reader]]
          /\ queue[s].made < Chunks /\ UNCHANGED <<age, users, loop, mixed, calls>>
      BY <1>10 DEF Chunk
    <2>2. queue[s] \in Streamed BY <1>a
    <2>3. Append(queue[s].chunks, "chunk") \in Seq({"chunk", "error", "end"})
      BY <2>2, AppendProperties DEF Streamed
    <2>4. queue[s].made + 1 \in 0..Chunks BY <1>b, <2>1, <2>2 DEF Streamed
    <2>5. [chunks |-> Append(queue[s].chunks, "chunk"), made |-> queue[s].made + 1,
           reader |-> queue[s].reader] \in Streamed
      BY <2>2, <2>3, <2>4 DEF Streamed
    <2> QED BY <1>8, <1>9, <1>a, <1>c, <2>1, <2>5
  <1>11. ASSUME NEW s \in Streams, NEW failed \in BOOLEAN, ThreadEnds(s, failed) PROVE CallBounds'
    <2>1. /\ queue' = [queue EXCEPT ![s].chunks = @ \o EndOfStream(failed)]
          /\ users' = [users EXCEPT ![s].at = "joining"]
          /\ UNCHANGED <<age, loop, mixed, calls>>
      BY <1>11 DEF ThreadEnds
    <2>2. s \in Users BY DEF Users
    <2>3. Kept' BY <1>h, <2>1, <2>2
    <2>4. EndOfStream(failed) \in Seq({"chunk", "error", "end"})
      <3>1. <<"error", "end">> \in Seq({"chunk", "error", "end"}) OBVIOUS
      <3>2. <<"end">> \in Seq({"chunk", "error", "end"}) OBVIOUS
      <3> QED BY <3>1, <3>2 DEF EndOfStream
    <2>5. queue[s] \in Streamed /\ queue[s].chunks \in Seq({"chunk", "error", "end"})
      BY <1>a DEF Streamed
    <2>6. queue[s].chunks \o EndOfStream(failed) \in Seq({"chunk", "error", "end"})
      BY <2>4, <2>5, ConcatProperties
    <2>7. queue' = [queue EXCEPT ![s] = [queue[s] EXCEPT !.chunks = queue[s].chunks \o EndOfStream(failed)]]
      BY <1>a, <2>1
    <2>8. [queue[s] EXCEPT !.chunks = queue[s].chunks \o EndOfStream(failed)] \in Streamed
      BY <2>5, <2>6 DEF Streamed
    <2> QED BY <1>8, <1>a, <1>c, <2>1, <2>3, <2>7, <2>8
  <1>12. ASSUME NEW s \in Streams, ReadChunk(s) PROVE CallBounds'
    <2>1. /\ queue[s].chunks # <<>> /\ UNCHANGED <<age, users, loop, mixed, calls>>
          /\ queue' = [queue EXCEPT ![s] =
                IF Head(queue[s].chunks) = "chunk"
                THEN [queue[s] EXCEPT !.chunks = Tail(queue[s].chunks)]
                ELSE [queue[s] EXCEPT !.chunks = Tail(queue[s].chunks), !.reader = "done"]]
      BY <1>a, <1>12 DEF ReadChunk
    <2>2. queue[s] \in Streamed /\ Tail(queue[s].chunks) \in Seq({"chunk", "error", "end"})
      BY <1>a, <2>1, HeadTailProperties DEF Streamed
    <2>3. /\ [queue[s] EXCEPT !.chunks = Tail(queue[s].chunks)] \in Streamed
          /\ [queue[s] EXCEPT !.chunks = Tail(queue[s].chunks), !.reader = "done"] \in Streamed
      BY <2>2 DEF Streamed
    <2>4. queue' \in [Streams -> Streamed]
      <3>1. CASE Head(queue[s].chunks) = "chunk" BY <1>8, <2>1, <2>3, <3>1
      <3>2. CASE Head(queue[s].chunks) # "chunk" BY <1>8, <2>1, <2>3, <3>2
      <3> QED BY <3>1, <3>2
    <2> QED BY <1>9, <1>a, <1>c, <2>1, <2>4
  <1>13. ASSUME NEW s \in Streams, ReaderLeaves(s) PROVE CallBounds'
    <2>1. /\ queue' = [queue EXCEPT ![s] = [queue[s] EXCEPT !.reader = "gone"]]
          /\ UNCHANGED <<age, users, loop, mixed, calls>>
      BY <1>a, <1>13 DEF ReaderLeaves
    <2>2. [queue[s] EXCEPT !.reader = "gone"] \in Streamed BY <1>a DEF Streamed
    <2> QED BY <1>8, <1>9, <1>a, <1>c, <2>1, <2>2
  <1>14. ASSUME NEW s \in Streams, Join(s) PROVE CallBounds'
    <2>1. /\ s \in Users /\ users' = [users EXCEPT ![s] = NoCall]
          /\ queue' = [queue EXCEPT ![s] = NoStream] /\ UNCHANGED <<age, loop, mixed, calls>>
      BY <1>14 DEF Join, Users
    <2>2. NoStream \in Streamed BY <1>b, EmptySeq DEF NoStream, Streamed
    <2>3. Kept' BY <1>g, <2>1
    <2> QED BY <1>8, <1>a, <1>c, <2>1, <2>2, <2>3
  <1>15. CASE UNCHANGED callVars BY <1>9, <1>a, <1>c, <1>15 DEF callVars
  <1> QED
    BY <1>1, <1>2, <1>3, <1>5, <1>6, <1>7, <1>10, <1>11, <1>12, <1>13, <1>14, <1>15
    DEF CallsNext, UserStep, StreamStep

\* At the start of the calls the bounds hold.
LEMMA CallBoundsInit == CallsInit => CallBounds
  <1> SUFFICES ASSUME CallsInit PROVE CallBounds OBVIOUS
  <1>1. Minute \in Nat /\ Chunks \in Nat /\ MaxCalls \in Nat BY CallsAssumption
  <1>2. NoStream \in Streamed BY <1>1, EmptySeq DEF NoStream, Streamed
  <1>3. \A u \in Users : users[u].tries = 0 /\ users[u].left = 0 /\ users[u].at = "idle"
    BY DEF CallsInit, NoCall
  <1>4. /\ age = 0 /\ mixed = FALSE /\ calls = 0 /\ loop = Nobody
        /\ queue = [s \in Streams |-> NoStream]
    BY DEF CallsInit
  <1>5. queue \in [Streams -> Streamed] BY <1>2, <1>4
  <1>6. \A u \in Users : /\ users[u].tries < Attempts /\ users[u].left <= Minute
                         /\ users[u].at \in {"ask", "backoff"} => u \notin Streams
    BY <1>1, <1>3 DEF Attempts
  <1>7. age \in 0..Minute + 1 /\ calls \in 0..MaxCalls BY <1>1, <1>4
  <1> QED BY <1>4, <1>5, <1>6, <1>7 DEF CallBounds

\* The types of the calls.
LEMMA CallsTyped == CallTypes /\ CallBounds => CallsTypeOK
  <1> SUFFICES ASSUME CallTypes, CallBounds PROVE CallsTypeOK OBVIOUS
  <1>1. \A u \in Users : users[u].tries \in 0..Attempts /\ users[u].left \in 0..Minute
    BY CallsAssumption DEF CallTypes, CallStates, CallBounds, Attempts
  <1> QED BY <1>1 DEF CallTypes, CallStates, CallBounds, Streamed, CallsTypeOK

-----------------------------------------------------------------------------
(* OrgChart: its types and its head *)

\* The chart: an agent has a place from its INSERT on, and who is at the UPDATE is there.
ChartBounds ==
    /\ registry \in [DOMAIN registry -> [level : Levels, parent : Agents \cup {Above}]]
    /\ DOMAIN registry \subseteq Agents /\ IsFiniteSet(DOMAIN registry)
    /\ registrars \in [Registrars -> [at : {"idle", "insert", "update"}, agent : Agents \cup {Above},
                                      level : Levels, parent : Agents \cup {Above}]]
    /\ \A r \in Registrars :
        /\ registrars[r].at # "idle" => registrars[r].agent \in Agents
        /\ registrars[r].at = "update" => registrars[r].agent \in DOMAIN registry
    /\ aborted \subseteq Agents /\ IsFiniteSet(aborted) /\ Cardinality(aborted) <= MaxAborted
    /\ meant \subseteq Agents /\ readable \in BOOLEAN

\* The directors have their places at the start.
LEMMA ChartBoundsInit == ChartInit => ChartBounds
  <1> SUFFICES ASSUME ChartInit PROVE ChartBounds OBVIOUS
  <1>1. IsFiniteSet({}) /\ Cardinality({}) = 0 BY FS_EmptySet
  <1>2. DOMAIN registry = Directors BY DEF ChartInit
  <1>3. registry \in [DOMAIN registry -> [level : Levels, parent : Agents \cup {Above}]]
    BY <1>2 DEF ChartInit, Levels
  <1>4. registrars \in [Registrars -> [at : {"idle", "insert", "update"}, agent : Agents \cup {Above},
                                       level : Levels, parent : Agents \cup {Above}]]
    BY DEF ChartInit, NoAgent, Levels
  <1>5. \A r \in Registrars : registrars[r].at = "idle" BY DEF ChartInit, NoAgent
  <1> QED BY <1>1, <1>2, <1>3, <1>4, <1>5, ChartAssumption DEF ChartInit, ChartBounds

\* A request's record, and the others', after a step.
LEMMA RegistrarsStay ==
    ASSUME ChartBounds, NEW r \in Registrars,
           NEW at \in {"idle", "insert", "update"}, NEW a \in Agents \cup {Above},
           NEW level \in Levels, NEW parent \in Agents \cup {Above},
           registrars' = [registrars EXCEPT ![r] =
               [at |-> at, agent |-> a, level |-> level, parent |-> parent]]
    PROVE  /\ registrars' \in [Registrars -> [at : {"idle", "insert", "update"},
                   agent : Agents \cup {Above}, level : Levels, parent : Agents \cup {Above}]]
           /\ registrars'[r] = [at |-> at, agent |-> a, level |-> level, parent |-> parent]
           /\ \A s \in Registrars : s # r => registrars'[s] = registrars[s]
  BY DEF ChartBounds

\* The same where the request ends.
LEMMA RegistrarEnds ==
    ASSUME ChartBounds, NEW r \in Registrars, registrars' = [registrars EXCEPT ![r] = NoAgent]
    PROVE  /\ registrars' \in [Registrars -> [at : {"idle", "insert", "update"},
                   agent : Agents \cup {Above}, level : Levels, parent : Agents \cup {Above}]]
           /\ registrars'[r] = NoAgent
           /\ \A s \in Registrars : s # r => registrars'[s] = registrars[s]
  <1>1. "idle" \in {"idle", "insert", "update"} /\ Above \in Agents \cup {Above} /\ 0 \in Levels
    BY DEF Levels
  <1>2. NoAgent = [at |-> "idle", agent |-> Above, level |-> 0, parent |-> Above] BY DEF NoAgent
  <1>3. NoAgent \in [at : {"idle", "insert", "update"},
                   agent : Agents \cup {Above}, level : Levels, parent : Agents \cup {Above}]
    BY <1>1, <1>2
  <1> QED BY <1>3 DEF ChartBounds

\* No registration loses an agent or gives a place that is none.
LEMMA ChartBoundsStep == ChartBounds /\ [ChartNext]_orgVars => ChartBounds'
  <1> SUFFICES ASSUME ChartBounds, [ChartNext]_orgVars PROVE ChartBounds' OBVIOUS
  <1> DEFINE Requests0 == [at : {"idle", "insert", "update"}, agent : Agents \cup {Above},
                           level : Levels, parent : Agents \cup {Above}]
  <1>0. \A r \in Registrars : /\ registrars[r] \in Requests0
                              /\ registrars[r] = [at |-> registrars[r].at, agent |-> registrars[r].agent,
                                    level |-> registrars[r].level, parent |-> registrars[r].parent]
    BY DEF ChartBounds
  <1>1. CASE UNCHANGED orgVars BY <1>1 DEF orgVars, ChartBounds
  <1>2. ASSUME NEW r \in Registrars, NEW a \in Agents, NEW level \in Levels,
               NEW parent \in Agents \cup {Above}, AskRegister(r, a, level, parent)
        PROVE  ChartBounds'
    <2>1. registrars' = [registrars EXCEPT ![r] =
             [at |-> "insert", agent |-> a, level |-> level, parent |-> parent]]
      BY <1>2 DEF AskRegister
    <2>2. /\ registrars' \in [Registrars -> Requests0]
          /\ registrars'[r] = [at |-> "insert", agent |-> a, level |-> level, parent |-> parent]
          /\ \A s \in Registrars : s # r => registrars'[s] = registrars[s]
      BY <2>1, RegistrarsStay
    <2> QED BY <1>2, <2>2 DEF AskRegister, ChartBounds
  <1>3. ASSUME NEW r \in Registrars, InsertAgent(r) PROVE ChartBounds'
    <2> DEFINE a == registrars[r].agent
    <2>1. a \in Agents BY <1>3 DEF InsertAgent, ChartBounds
    <2>2. registrars' = [registrars EXCEPT ![r] = [at |-> "update", agent |-> a,
              level |-> registrars[r].level, parent |-> registrars[r].parent]]
      <3>1. registrars' = [registrars EXCEPT ![r] = [registrars[r] EXCEPT !.at = "update"]]
        BY <1>3 DEF InsertAgent
      <3>2. registrars[r] \in Requests0 BY <1>0
      <3>3. [registrars[r] EXCEPT !.at = "update"] = [at |-> "update", agent |-> a,
              level |-> registrars[r].level, parent |-> registrars[r].parent]
        BY <3>2
      <3> QED BY <3>1, <3>3
    <2>3. registrars[r].level \in Levels /\ registrars[r].parent \in Agents \cup {Above} BY <1>0
    <2>4. /\ registrars' \in [Registrars -> Requests0]
          /\ registrars'[r] = [at |-> "update", agent |-> a,
                  level |-> registrars[r].level, parent |-> registrars[r].parent]
          /\ \A s \in Registrars : s # r => registrars'[s] = registrars[s]
      BY <2>1, <2>2, <2>3, RegistrarsStay
    <2>5. DOMAIN registry' = DOMAIN registry \cup {a} /\ IsFiniteSet(DOMAIN registry')
      BY <1>3, FS_AddElement DEF InsertAgent, ChartBounds
    <2>6. registry' \in [DOMAIN registry' -> [level : Levels, parent : Agents \cup {Above}]]
      BY <1>3, <2>5 DEF InsertAgent, ChartBounds, Levels, NoPlace
    <2> QED BY <1>3, <2>1, <2>4, <2>5, <2>6 DEF InsertAgent, ChartBounds
  <1>4. ASSUME NEW r \in Registrars, RefuseAgent(r) PROVE ChartBounds'
    <2>1. registrars' = [registrars EXCEPT ![r] = NoAgent] BY <1>4 DEF RefuseAgent
    <2>2. /\ registrars' \in [Registrars -> Requests0]
          /\ registrars'[r] = NoAgent
          /\ \A s \in Registrars : s # r => registrars'[s] = registrars[s]
      BY <2>1, RegistrarEnds
    <2> QED BY <1>4, <2>2 DEF RefuseAgent, ChartBounds, NoAgent
  <1>5. ASSUME NEW r \in Registrars, PlaceAgent(r) PROVE ChartBounds'
    <2> DEFINE a == registrars[r].agent
    <2>1. a \in Agents /\ a \in DOMAIN registry BY <1>5 DEF PlaceAgent, ChartBounds
    <2>2. /\ registrars' \in [Registrars -> Requests0]
          /\ registrars'[r] = NoAgent
          /\ \A s \in Registrars : s # r => registrars'[s] = registrars[s]
      BY <1>5, RegistrarEnds DEF PlaceAgent
    <2>3. registrars[r].level \in Levels /\ registrars[r].parent \in Agents \cup {Above} BY <1>0
    <2>4. registry' = [registry EXCEPT ![a] =
              [level |-> registrars[r].level, parent |-> registrars[r].parent]]
      BY <1>5 DEF PlaceAgent, Placed
    <2>5. /\ DOMAIN registry' = DOMAIN registry
          /\ registry' \in [DOMAIN registry -> [level : Levels, parent : Agents \cup {Above}]]
      BY <2>1, <2>3, <2>4 DEF ChartBounds
    <2> QED BY <1>5, <2>1, <2>2, <2>5 DEF PlaceAgent, ChartBounds, NoAgent
  <1>6. ASSUME NEW r \in Registrars, AbortRegister(r) PROVE ChartBounds'
    <2> DEFINE a == registrars[r].agent
    <2>1. a \in Agents BY <1>6 DEF AbortRegister, ChartBounds
    <2>2. /\ registrars' \in [Registrars -> Requests0]
          /\ registrars'[r] = NoAgent
          /\ \A s \in Registrars : s # r => registrars'[s] = registrars[s]
      BY <1>6, RegistrarEnds DEF AbortRegister
    <2>3. IsFiniteSet(aborted) /\ aborted' = aborted \cup {a} /\ Cardinality(aborted) < MaxAborted
      BY <1>6 DEF AbortRegister, ChartBounds
    <2>4. IsFiniteSet(aborted') /\ Cardinality(aborted) \in Nat
          /\ Cardinality(aborted') \in {Cardinality(aborted), Cardinality(aborted) + 1}
      BY <2>3, FS_AddElement, FS_CardinalityType
    <2>5. Cardinality(aborted') <= MaxAborted BY <2>3, <2>4, ChartAssumption
    <2> QED BY <1>6, <2>1, <2>2, <2>3, <2>4, <2>5 DEF AbortRegister, ChartBounds, NoAgent
  <1>7. CASE SelectBreaks \/ SelectWorks BY <1>7 DEF SelectBreaks, SelectWorks, ChartBounds
  <1> QED BY <1>1, <1>2, <1>3, <1>4, <1>5, <1>6, <1>7 DEF ChartNext

\* The types of the chart.
LEMMA ChartTyped == ChartBounds => ChartTypeOK
  BY DEF ChartBounds, ChartTypeOK

\* Who has level 0 was placed there, or has his defaults still.
TopAgents == {a \in DOMAIN registry : registry[a].level = 0}

HeadsMeant ==
    \A a \in TopAgents :
        \/ a \in meant \cup aborted
        \/ \E r \in Registrars : registrars[r].at = "update" /\ registrars[r].agent = a

\* The directors of the start are at level 1.
LEMMA HeadsMeantInit == ChartInit => HeadsMeant
  BY DEF ChartInit, HeadsMeant, TopAgents

\* An INSERT puts its agent at level 0 until the UPDATE; one that ends before is in aborted.
LEMMA HeadsMeantStep == ChartBounds /\ HeadsMeant /\ [ChartNext]_orgVars => HeadsMeant'
  <1> SUFFICES ASSUME ChartBounds, HeadsMeant, [ChartNext]_orgVars,
                      NEW a \in DOMAIN registry', registry'[a].level = 0
               PROVE  \/ a \in meant' \cup aborted'
                      \/ \E r \in Registrars : registrars'[r].at = "update" /\ registrars'[r].agent = a
    BY DEF HeadsMeant, TopAgents
  <1> DEFINE Waits(r) == registrars[r].at = "update" /\ registrars[r].agent = a
  <1>0. DOMAIN registrars = Registrars /\ meant \subseteq meant' /\ aborted \subseteq aborted'
    BY DEF ChartBounds, ChartNext, AskRegister, InsertAgent, RefuseAgent, PlaceAgent, AbortRegister,
       SelectBreaks, SelectWorks, orgVars
  <1>1. CASE UNCHANGED orgVars BY <1>1 DEF orgVars, HeadsMeant, TopAgents
  <1>2. ASSUME NEW r \in Registrars, NEW b \in Agents, NEW level \in Levels,
               NEW parent \in Agents \cup {Above}, AskRegister(r, b, level, parent)
        PROVE  \/ a \in meant' \cup aborted'
               \/ \E s \in Registrars : registrars'[s].at = "update" /\ registrars'[s].agent = a
    <2>1. a \in TopAgents /\ registrars[r].at = "idle" BY <1>2 DEF AskRegister, TopAgents, NoAgent
    <2>2. \A s \in Registrars : s # r => registrars'[s] = registrars[s]
      BY <1>0, <1>2 DEF AskRegister
    <2> QED BY <1>0, <2>1, <2>2 DEF HeadsMeant
  <1>3. ASSUME NEW r \in Registrars, InsertAgent(r)
        PROVE  \/ a \in meant' \cup aborted'
               \/ \E s \in Registrars : registrars'[s].at = "update" /\ registrars'[s].agent = a
    <2>1. registrars'[r].at = "update" /\ registrars'[r].agent = registrars[r].agent
      BY <1>3 DEF InsertAgent, ChartBounds
    <2>2. \A s \in Registrars : s # r => registrars'[s] = registrars[s]
      BY <1>0, <1>3 DEF InsertAgent
    <2>3. a # registrars[r].agent => a \in TopAgents BY <1>3 DEF InsertAgent, TopAgents
    <2>4. registrars[r].at = "insert" BY <1>3 DEF InsertAgent
    <2> QED BY <1>0, <2>1, <2>2, <2>3, <2>4 DEF HeadsMeant
  <1>4. ASSUME NEW r \in Registrars, RefuseAgent(r)
        PROVE  \/ a \in meant' \cup aborted'
               \/ \E s \in Registrars : registrars'[s].at = "update" /\ registrars'[s].agent = a
    <2>1. a \in TopAgents /\ registrars[r].at = "insert" BY <1>4 DEF RefuseAgent, TopAgents
    <2>2. \A s \in Registrars : s # r => registrars'[s] = registrars[s]
      BY <1>0, <1>4 DEF RefuseAgent
    <2> QED BY <1>0, <2>1, <2>2 DEF HeadsMeant
  <1>5. ASSUME NEW r \in Registrars, PlaceAgent(r)
        PROVE  \/ a \in meant' \cup aborted'
               \/ \E s \in Registrars : registrars'[s].at = "update" /\ registrars'[s].agent = a
    <2>1. \A s \in Registrars : s # r => registrars'[s] = registrars[s]
      BY <1>0, <1>5 DEF PlaceAgent
    <2>2. registrars[r].agent \in DOMAIN registry BY <1>5 DEF PlaceAgent, ChartBounds
    <2>3. CASE a = registrars[r].agent
      <3>1. registry'[a].level = registrars[r].level BY <1>5, <2>2, <2>3 DEF PlaceAgent, Placed
      <3> QED BY <1>5, <2>3, <3>1 DEF PlaceAgent
    <2>4. CASE a # registrars[r].agent
      <3>1. a \in TopAgents BY <1>5, <2>4 DEF PlaceAgent, Placed, TopAgents
      <3> QED BY <1>0, <2>1, <2>4, <3>1 DEF HeadsMeant
    <2> QED BY <2>3, <2>4
  <1>6. ASSUME NEW r \in Registrars, AbortRegister(r)
        PROVE  \/ a \in meant' \cup aborted'
               \/ \E s \in Registrars : registrars'[s].at = "update" /\ registrars'[s].agent = a
    <2>1. a \in TopAgents BY <1>6 DEF AbortRegister, TopAgents
    <2>2. \A s \in Registrars : s # r => registrars'[s] = registrars[s]
      BY <1>0, <1>6 DEF AbortRegister
    <2>3. registrars[r].agent \in aborted' BY <1>6 DEF AbortRegister
    <2> QED BY <1>0, <2>1, <2>2, <2>3 DEF HeadsMeant
  <1>7. CASE SelectBreaks \/ SelectWorks
    BY <1>7 DEF SelectBreaks, SelectWorks, HeadsMeant, TopAgents
  <1> QED BY <1>1, <1>2, <1>3, <1>4, <1>5, <1>6, <1>7 DEF ChartNext

\* Where there are heads the chart has one of them.
LEMMA HeadOfHeads == ChartBounds /\ Heads # {} => ChartHead \in Heads
  <1> SUFFICES ASSUME ChartBounds, Heads # {} PROVE ChartHead \in Heads OBVIOUS
  <1>1. Heads \subseteq Nat BY ChartAssumption DEF Heads, ChartBounds
  <1>2. \E a \in Heads : \A b \in Heads : a <= b BY <1>1, Least
  <1> QED BY <1>2 DEF ChartHead

\* So the head of the chart was meant to be there, or a registration is to blame.
LEMMA MeantHead == ChartBounds /\ HeadsMeant => HeadIsMeant
  <1> SUFFICES ASSUME ChartBounds, HeadsMeant, readable PROVE HeadIsMeant BY DEF HeadIsMeant
  <1>1. CASE Heads = {} BY <1>1 DEF ChartHead, HeadIsMeant
  <1>2. CASE Heads # {}
    <2>1. ChartHead \in TopAgents BY <1>2, HeadOfHeads DEF Heads, TopAgents, Rows
    <2> QED BY <2>1 DEF HeadsMeant, HeadIsMeant
  <1> QED BY <1>1, <1>2

-----------------------------------------------------------------------------
(* A recursion along a path that ends has a function. *)

\* f is out at the ends, and elsewhere what it is one step on.
IsPath(f, W, next, end, out) == f = [w \in W |-> IF w \in end THEN out[w] ELSE f[next[w]]]

\* A step does not leave Good, but where the path ends.
Stays(Good, W, next, end) == Good \subseteq W /\ \A w \in Good : w \notin end => next[w] \in Good

\* Induction, for a set of numbers.
LEMMA NoLeastFailure ==
    ASSUME NEW Had \in SUBSET Nat, 0 \in Had, \A n \in Nat : n \in Had => n + 1 \in Had
    PROVE  Had = Nat
  <1> SUFFICES ASSUME Nat \ Had # {} PROVE FALSE OBVIOUS
  <1>1. PICK n \in Nat \ Had : \A k \in Nat \ Had : n <= k BY Least
  <1>2. n # 0 /\ n \in Nat OBVIOUS
  <1>3. n - 1 \in Nat BY <1>2
  <1>4. n - 1 \in Had BY <1>1, <1>3
  <1>5. (n - 1) + 1 = n BY <1>2
  <1> QED BY <1>3, <1>4, <1>5

\* Where a number falls with every step there is such a function: the limit of those that are right
\* up to a number, which agree where they both are.
LEMMA PathExists ==
    ASSUME NEW W, NEW m \in [W -> Nat], NEW next \in [W -> W], NEW end, NEW out,
           \A w \in W : w \notin end => m[next[w]] < m[w]
    PROVE  \E f : IsPath(f, W, next, end, out)
  <1> DEFINE Does(f, n) == \A w \in W : m[w] <= n =>
                 f[w] = IF w \in end THEN out[w] ELSE f[next[w]]
             Has(n) == \E f : Does(f, n)
             Some(n) == CHOOSE f : Does(f, n)
  <1>1. \A w \in W : m[w] \in Nat /\ next[w] \in W /\ m[next[w]] \in Nat OBVIOUS
  <1>2. Has(0)
    <2>1. \A w \in W : m[w] <= 0 => w \in end BY <1>1
    <2>2. Does(out, 0) BY <2>1
    <2> QED BY <2>2
  <1>3. ASSUME NEW n \in Nat, Has(n) PROVE Has(n + 1)
    <2>1. PICK f : Does(f, n) BY <1>3
    <2> DEFINE g == [w \in W |-> IF w \in end THEN out[w] ELSE f[next[w]]]
    <2>2. \A w \in W : g[w] = IF w \in end THEN out[w] ELSE f[next[w]] OBVIOUS
    <2> HIDE DEF g
    <2>3. \A w \in W : m[w] <= n => g[w] = f[w] BY <2>1, <2>2
    <2>4. ASSUME NEW w \in W, m[w] <= n + 1, w \notin end PROVE g[w] = g[next[w]]
      <3>1. next[w] \in W /\ m[next[w]] <= n BY <1>1, <2>4
      <3> QED BY <2>2, <2>3, <2>4, <3>1
    <2>5. Does(g, n + 1) BY <2>2, <2>4
    <2> HIDE DEF Does
    <2> QED BY <2>5
  <1>4. \A n \in Nat : Has(n)
    <2> DEFINE Had == {n \in Nat : Has(n)}
    <2>1. 0 \in Had BY <1>2
    <2>2. \A n \in Nat : n \in Had => n + 1 \in Had BY <1>3
    <2> HIDE DEF Has
    <2>3. Had \in SUBSET Nat OBVIOUS
    <2> HIDE DEF Had
    <2>4. Had = Nat BY <2>1, <2>2, <2>3, NoLeastFailure
    <2> USE DEF Had
    <2> QED BY <2>4
  <1>5. \A n \in Nat : Does(Some(n), n)
    <2> HIDE DEF Does
    <2> QED BY <1>4
  <1> DEFINE Agree(n) == \A f, g : Does(f, n) /\ Does(g, n) => \A w \in W : m[w] <= n => f[w] = g[w]
  <1>6. \A n \in Nat : Agree(n)
    <2> DEFINE Had == {n \in Nat : Agree(n)}
    <2>1. 0 \in Had
      <3>1. \A w \in W : m[w] <= 0 => w \in end BY <1>1
      <3> QED BY <3>1
    <2>2. ASSUME NEW n \in Nat, Agree(n) PROVE Agree(n + 1)
      <3> SUFFICES ASSUME NEW f, NEW g, Does(f, n + 1), Does(g, n + 1), NEW w \in W, m[w] <= n + 1
                   PROVE  f[w] = g[w]
        OBVIOUS
      <3>1. Does(f, n) /\ Does(g, n) BY <1>1
      <3>2. \A v \in W : m[v] <= n => f[v] = g[v] BY <2>2, <3>1
      <3>3. w \notin end => next[w] \in W /\ m[next[w]] <= n BY <1>1
      <3> QED BY <3>2, <3>3
    <2> HIDE DEF Agree
    <2>3. Had \in SUBSET Nat OBVIOUS
    <2>4. \A n \in Nat : n \in Had => n + 1 \in Had BY <2>2
    <2> HIDE DEF Had
    <2>5. Had = Nat BY <2>1, <2>3, <2>4, NoLeastFailure
    <2> USE DEF Had
    <2> QED BY <2>5
  <1> DEFINE f == [w \in W |-> Some(m[w])[w]]
  <1>7. \A w \in W : f[w] = Some(m[w])[w] OBVIOUS
  <1> HIDE DEF f, Some
  <1>8. ASSUME NEW w \in W PROVE f[w] = IF w \in end THEN out[w] ELSE f[next[w]]
    <2>1. Does(Some(m[w]), m[w]) BY <1>1, <1>5
    <2>2. Some(m[w])[w] = IF w \in end THEN out[w] ELSE Some(m[w])[next[w]] BY <1>1, <2>1
    <2>3. CASE w \in end BY <1>7, <2>2, <2>3
    <2>4. CASE w \notin end
      <3> DEFINE v == next[w]
      <3>1. v \in W /\ m[v] \in Nat /\ m[v] < m[w] /\ m[w] \in Nat BY <1>1, <2>4
      <3>2. Does(Some(m[w]), m[v]) BY <1>1, <2>1, <3>1
      <3>3. Does(Some(m[v]), m[v]) BY <1>5, <3>1
      <3> HIDE DEF Does, v
      <3>4. Some(m[w])[v] = Some(m[v])[v] BY <1>6, <3>1, <3>2, <3>3
      <3> USE DEF v
      <3> QED BY <1>7, <2>2, <2>4, <3>1, <3>4
    <2> QED BY <2>3, <2>4
  <1>9. DOMAIN f = W /\ f = [w \in W |-> f[w]] BY DEF f
  <1>10. IsPath(f, W, next, end, out) BY <1>8, <1>9 DEF IsPath
  <1> QED BY <1>10

\* What such a function is: what out is where the path ends, and the path does not leave a
\* set that each step stays in.
LEMMA PathEnds ==
    ASSUME NEW W, NEW m \in [W -> Nat], NEW next \in [W -> W], NEW end, NEW out, NEW f,
           \A w \in W : w \notin end => m[next[w]] < m[w],
           IsPath(f, W, next, end, out),
           NEW Good, Stays(Good, W, next, end), NEW start \in Good
    PROVE  \E w \in Good : w \in end /\ f[start] = out[w]
  <1> DEFINE Reaches(w) == \E v \in Good : v \in end /\ f[w] = out[v]
             Fails == {w \in Good : ~ Reaches(w)}
             Left == {m[w] : w \in Fails}
  <1>1. \A w \in W : f[w] = IF w \in end THEN out[w] ELSE f[next[w]] BY DEF IsPath
  <1>a. Good \subseteq W /\ \A w \in Good : w \notin end => next[w] \in Good BY DEF Stays
  <1>2. \A w \in W : m[w] \in Nat OBVIOUS
  <1>3. ASSUME Fails # {} PROVE FALSE
    <2>1. Left # {} /\ Left \in SUBSET Nat BY <1>2, <1>3, <1>a
    <2>2. PICK n \in Left : \A k \in Left : n <= k
      <3> HIDE DEF Left
      <3> QED BY <2>1, Least
    <2>3. PICK w \in Fails : m[w] = n BY <2>2
    <2>4. w \notin end BY <1>1, <1>a, <2>3
    <2>5. next[w] \in Good /\ m[next[w]] < m[w] /\ f[w] = f[next[w]] BY <1>1, <1>a, <2>3, <2>4
    <2>6. next[w] \in Fails BY <2>3, <2>5
    <2>7. m[next[w]] \in Left BY <2>6
    <2>8. next[w] \in W /\ m[next[w]] \in Nat /\ m[w] \in Nat BY <1>2, <1>a, <2>3, <2>5
    <2>9. n <= m[next[w]] BY <2>2, <2>7
    <2> QED BY ONLY <2>3, <2>5, <2>8, <2>9
  <1> QED BY <1>3

-----------------------------------------------------------------------------
(* The order of the agents who report to one. *)

\* How many come before a.
Rank(as, a) == Cardinality({b \in as : Before(b, a)})

\* Whichever query answers, every agent has a row.
LEMMA RowsTyped ==
    ASSUME ChartBounds, NEW a \in DOMAIN registry
    PROVE  Rows[a].level \in Levels /\ Rows[a].parent \in Agents \cup {Above}
  <1>1. CASE readable BY <1>1 DEF Rows, ChartBounds
  <1>2. CASE ~readable
    <2>1. Rows[a] = NoPlace BY <1>2 DEF Rows
    <2> QED BY <2>1 DEF NoPlace, Levels
  <1> QED BY <1>1, <1>2

\* Agents come one before the other, by level and then by name.
LEMMA BeforeOrders ==
    ASSUME ChartBounds, NEW a \in DOMAIN registry, NEW b \in DOMAIN registry
    PROVE  /\ ~ Before(a, a)
           /\ a # b => Before(a, b) \/ Before(b, a)
           /\ \A c \in DOMAIN registry : Before(a, b) /\ Before(b, c) => Before(a, c)
  <1>1. \A c \in DOMAIN registry : c \in Nat /\ Rows[c].level \in Nat
    BY ChartAssumption, RowsTyped DEF ChartBounds, Levels
  <1> QED BY <1>1 DEF Before

\* Who comes before another has a lower rank.
LEMMA RanksRise ==
    ASSUME ChartBounds, NEW as \in SUBSET DOMAIN registry, NEW a \in as, NEW b \in as, Before(a, b)
    PROVE  Rank(as, a) # Rank(as, b)
  <1> DEFINE low == {c \in as : Before(c, a)}
             high == {c \in as : Before(c, b)}
  <1>1. IsFiniteSet(as) BY FS_Subset DEF ChartBounds
  <1>2. IsFiniteSet(low) /\ IsFiniteSet(high)
    <2>1. low \in SUBSET as /\ high \in SUBSET as OBVIOUS
    <2> HIDE DEF low, high
    <2> QED BY <1>1, <2>1, FS_Subset
  <1>3. low \subseteq high BY BeforeOrders
  <1>4. a \in high /\ a \notin low BY BeforeOrders
  <1> HIDE DEF low, high
  <1>6. Cardinality(low) # Cardinality(high)
    <2>1. low \in SUBSET high BY <1>3
    <2> QED BY <1>2, <1>4, <2>1, FS_Subset
  <1> QED BY <1>6 DEF low, high, Rank

\* A set of agents put in order has them all, each at one place.
LEMMA InOrderHasAll ==
    ASSUME ChartBounds, NEW as \in SUBSET DOMAIN registry
    PROVE  /\ InOrder(as) \in Seq(as) /\ Range(InOrder(as)) = as
           /\ Len(InOrder(as)) = Cardinality(as) /\ IsInjective(InOrder(as))
  <1>1. IsFiniteSet(as) /\ Cardinality(as) \in Nat BY FS_Subset, FS_CardinalityType DEF ChartBounds
  <1>a. PICK n \in Nat : n = Cardinality(as) BY <1>1
  <1> DEFINE f == [a \in as |-> Rank(as, a) + 1]
  <1>2. ASSUME NEW a \in as PROVE Rank(as, a) \in 0..n - 1
    <2> DEFINE low == {c \in as : Before(c, a)}
    <2>1. low \in SUBSET (as \ {a}) BY BeforeOrders
    <2>2. IsFiniteSet(as \ {a}) /\ Cardinality(as \ {a}) = n - 1 BY <1>1, <1>a, FS_RemoveElement
    <2> HIDE DEF low
    <2>c. IsFiniteSet(low) /\ Cardinality(low) <= Cardinality(as \ {a}) BY <2>1, <2>2, FS_Subset
    <2>3. IsFiniteSet(low) /\ Cardinality(low) <= n - 1 BY <2>2, <2>c
    <2>4. PICK k \in Nat : k = Cardinality(low) BY <2>3, FS_CardinalityType
    <2>5. k <= n - 1 BY <2>3, <2>4
    <2>6. k \in 0..n - 1 BY <2>5
    <2> QED BY <2>4, <2>6 DEF low, Rank
  <1>3. \A a, b \in as : Rank(as, a) = Rank(as, b) => a = b
    <2> SUFFICES ASSUME NEW a \in as, NEW b \in as, a # b, Rank(as, a) = Rank(as, b) PROVE FALSE OBVIOUS
    <2>1. Before(a, b) \/ Before(b, a) BY BeforeOrders
    <2> QED BY <2>1, RanksRise
  <1>b. \A a \in as : f[a] = Rank(as, a) + 1 /\ f[a] \in 1..n /\ f[a] - 1 = Rank(as, a)
    <2> SUFFICES ASSUME NEW a \in as
                 PROVE  f[a] = Rank(as, a) + 1 /\ f[a] \in 1..n /\ f[a] - 1 = Rank(as, a)
      OBVIOUS
    <2>1. f[a] = Rank(as, a) + 1 OBVIOUS
    <2> HIDE DEF f
    <2>2. PICK k \in 0..n - 1 : Rank(as, a) = k BY <1>2
    <2>3. k + 1 \in 1..n /\ (k + 1) - 1 = k BY <2>2
    <2> QED BY <2>1, <2>2, <2>3
  <1>c. DOMAIN f = as /\ f = [a \in as |-> f[a]] OBVIOUS
  <1> HIDE DEF f
  <1>4. f \in Injection(as, 1..n)
    <2>1. f \in [as -> 1..n] BY <1>b, <1>c
    <2>2. \A a, b \in as : f[a] = f[b] => a = b
      <3> SUFFICES ASSUME NEW a \in as, NEW b \in as, f[a] = f[b] PROVE a = b OBVIOUS
      <3>1. Rank(as, a) = Rank(as, b) BY <1>b
      <3> QED BY <1>3, <3>1
    <2> QED BY <1>c, <2>1, <2>2 DEF Injection, IsInjective
  <1>5. IsFiniteSet(1..n) /\ Cardinality(1..n) = n BY FS_Interval
  <1>6. f \in Surjection(as, 1..n) BY <1>4, <1>5, <1>a, FS_Injection
  <1>7. \A i \in 1..n : \E a \in as : Rank(as, a) = i - 1
    <2>1. \A i \in 1..n : \E a \in as : f[a] = i BY <1>6 DEF Surjection
    <2> QED BY <1>b, <2>1
  <1> DEFINE s == [i \in 1..n |-> CHOOSE a \in as : Rank(as, a) = i - 1]
  <1>8. InOrder(as) = s BY <1>a DEF InOrder, Rank
  <1>9. \A i \in 1..n : s[i] \in as /\ Rank(as, s[i]) = i - 1 BY <1>7
  <1>10. s \in [1..n -> as] BY <1>9
  <1>d. Len(s) = n /\ DOMAIN s = 1..n OBVIOUS
  <1> HIDE DEF s
  <1>e. IsInjective(s)
    <2> SUFFICES ASSUME NEW i \in 1..n, NEW j \in 1..n, s[i] = s[j] PROVE i = j
      BY <1>d DEF IsInjective
    <2>1. i - 1 = j - 1 BY <1>9
    <2> QED BY <2>1
  <1>11. s \in Seq(as) BY <1>10, SeqDef
  <1>12. \A a \in as : \E i \in 1..n : s[i] = a
    <2> SUFFICES ASSUME NEW a \in as PROVE \E i \in 1..n : s[i] = a OBVIOUS
    <2>1. f[a] \in 1..n /\ f[a] - 1 = Rank(as, a) BY <1>b
    <2>2. Rank(as, s[f[a]]) = Rank(as, a) /\ s[f[a]] \in as BY <1>9, <2>1
    <2> QED BY <1>3, <2>1, <2>2
  <1>13. Range(s) = as BY <1>9, <1>10, <1>12 DEF Range
  <1> QED BY <1>8, <1>11, <1>13, <1>a, <1>d, <1>e

-----------------------------------------------------------------------------
(* The chart has whom it should. *)

\* Whom the chart shows below a: nobody, below a worker.
Under(a) == IF Childless(a) THEN {} ELSE Children(a)

\* The reports of an agent are those the chart shows below him.
LEMMA ReportsAreBelow ==
    ASSUME ChartBounds, NEW a \in DOMAIN registry
    PROVE  /\ Reports(a) \in Seq(DOMAIN registry) /\ Range(Reports(a)) = Under(a)
           /\ Len(Reports(a)) \in Nat /\ Len(Reports(a)) <= Cardinality(DOMAIN registry)
           /\ Under(a) \in SUBSET DOMAIN registry /\ IsInjective(Reports(a))
  <1>1. IsFiniteSet(DOMAIN registry) /\ Cardinality(DOMAIN registry) \in Nat
    BY FS_CardinalityType DEF ChartBounds
  <1>2. CASE Childless(a)
    <2>1. Reports(a) = <<>> /\ Under(a) = {} BY <1>2 DEF Reports, Under
    <2>2. Range(<<>>) = {} BY DEF Range
    <2>3. IsInjective(<<>>) BY DEF IsInjective
    <2> QED BY <1>1, <2>1, <2>2, <2>3, EmptySeq
  <1>3. CASE ~ Childless(a)
    <2> DEFINE as == Children(a)
    <2>1. as \in SUBSET DOMAIN registry BY DEF Children
    <2>2. Reports(a) = InOrder(as) /\ Under(a) = as BY <1>3 DEF Reports, Under
    <2> HIDE DEF as
    <2>3. /\ InOrder(as) \in Seq(as) /\ Range(InOrder(as)) = as
          /\ Len(InOrder(as)) = Cardinality(as) /\ IsInjective(InOrder(as))
      BY <2>1, InOrderHasAll
    <2>4. InOrder(as) \in Seq(DOMAIN registry) BY <2>1, <2>3, SeqMonotonic
    <2>5. IsFiniteSet(as) /\ Cardinality(as) <= Cardinality(DOMAIN registry) BY <1>1, <2>1, FS_Subset
    <2>6. Cardinality(as) \in Nat BY <2>5, FS_CardinalityType
    <2> QED BY <2>1, <2>2, <2>3, <2>4, <2>5, <2>6
  <1> QED BY <1>2, <1>3

\* Nobody is among the reports of two.
LEMMA OneParent ==
    \A b, c, d \in DOMAIN registry : d \in Under(b) /\ d \in Under(c) => b = c
  BY DEF Under, Children

\* What one call, for a, does to the walk.
CallDoes(w, a) ==
    /\ a = Head(w.todo) /\ Enter(w) \in Walks
    /\ Tail(w.todo) \in Seq(DOMAIN registry) /\ Len(Tail(w.todo)) = Len(w.todo) - 1
    /\ Range(w.todo) = {a} \cup Range(Tail(w.todo))
    /\ a \in Range(w.chart) =>
          Enter(w) = [todo |-> Tail(w.todo), chart |-> w.chart, empty |-> w.empty + 1]
    /\ a \notin Range(w.chart) =>
          /\ Enter(w).chart = Append(w.chart, a)
          /\ Enter(w).todo = Reports(a) \o Tail(w.todo)
          /\ Enter(w).empty = w.empty
          /\ Range(Enter(w).chart) = Range(w.chart) \cup {a}
          /\ Range(Enter(w).todo) = Under(a) \cup Range(Tail(w.todo))
          /\ Len(Enter(w).todo) = Len(Reports(a)) + Len(Tail(w.todo))

LEMMA EnterDoes ==
    ASSUME ChartBounds, NEW w \in Walks, w.todo # <<>>
    PROVE  \E a \in DOMAIN registry : CallDoes(w, a)
  <1> DEFINE a == Head(w.todo)
             D == DOMAIN registry
  <1>1. w.todo \in Seq(D) /\ w.chart \in Seq(D) /\ w.empty \in Nat BY DEF Walks
  <1>2. a \in D /\ Tail(w.todo) \in Seq(D) /\ Len(Tail(w.todo)) = Len(w.todo) - 1
    BY <1>1, HeadTailProperties
  <1>3. Range(w.todo) = {a} \cup Range(Tail(w.todo))
    <2>1. Len(w.todo) \in Nat \ {0} BY <1>1, EmptySeq
    <2>2. \A i \in 1..Len(w.todo) - 1 : Tail(w.todo)[i] = w.todo[i + 1]
      BY <1>1, <1>2, HeadTailProperties
    <2>3. Range(w.todo) = {w.todo[i] : i \in 1..Len(w.todo)} BY <1>1, RangeEquality
    <2>4. Range(Tail(w.todo)) = {Tail(w.todo)[i] : i \in 1..Len(w.todo) - 1}
      BY <1>2, RangeEquality
    <2>5. a = w.todo[1] BY <1>1
    <2>6. ASSUME NEW i \in 1..Len(w.todo) PROVE w.todo[i] \in {a} \cup Range(Tail(w.todo))
      <3>1. CASE i = 1 BY <2>5, <3>1
      <3>2. CASE i # 1
        <4>1. i - 1 \in 1..Len(w.todo) - 1 /\ (i - 1) + 1 = i BY <2>1, <3>2
        <4>2. Tail(w.todo)[i - 1] = w.todo[i] BY <2>2, <4>1
        <4>3. Tail(w.todo)[i - 1] \in Range(Tail(w.todo)) BY <2>4, <4>1
        <4> QED BY <4>2, <4>3
      <3> QED BY <3>1, <3>2
    <2>7. a \in Range(w.todo)
      <3>1. 1 \in 1..Len(w.todo) BY <2>1
      <3> QED BY <2>3, <2>5, <3>1
    <2>8. ASSUME NEW i \in 1..Len(w.todo) - 1 PROVE Tail(w.todo)[i] \in Range(w.todo)
      <3>1. i + 1 \in 1..Len(w.todo) BY <2>1
      <3> QED BY <2>2, <2>3, <3>1
    <2> QED BY <2>3, <2>4, <2>6, <2>7, <2>8
  <1>4. Enter(w) = IF a \in Range(w.chart) THEN [todo |-> Tail(w.todo), chart |-> w.chart, empty |-> w.empty + 1]
                   ELSE [todo |-> Reports(a) \o Tail(w.todo), chart |-> Append(w.chart, a),
                         empty |-> w.empty]
    BY DEF Enter
  <1> HIDE DEF a
  <1>5. /\ Reports(a) \in Seq(D) /\ Range(Reports(a)) = Under(a) BY <1>2, ReportsAreBelow
  <1>6. /\ Reports(a) \o Tail(w.todo) \in Seq(D)
        /\ Len(Reports(a) \o Tail(w.todo)) = Len(Reports(a)) + Len(Tail(w.todo))
        /\ Range(Reports(a) \o Tail(w.todo)) = Under(a) \cup Range(Tail(w.todo))
    BY <1>2, <1>5, ConcatProperties, RangeConcatenation
  <1>7. Append(w.chart, a) \in Seq(D) BY <1>1, <1>2, AppendProperties
  <1>8. Range(Append(w.chart, a)) = Range(w.chart) \cup {a}
    <2>1. <<a>> \in Seq(D) /\ Append(w.chart, a) = w.chart \o <<a>> BY <1>1, <1>2, AppendIsConcat
    <2>2. Range(<<a>>) = {a} BY DEF Range
    <2>3. Range(w.chart \o <<a>>) = Range(w.chart) \cup Range(<<a>>)
      <3> DEFINE c == w.chart
                 e == <<a>>
      <3>1. c \in Seq(D) /\ e \in Seq(D) BY <1>1, <2>1
      <3> HIDE DEF c, e, D
      <3>2. Range(c \o e) = Range(c) \cup Range(e) BY <3>1, RangeConcatenation
      <3> QED BY <3>2 DEF c, e
    <2> QED BY <2>1, <2>2, <2>3
  <1>9. Enter(w) \in Walks BY <1>1, <1>2, <1>4, <1>6, <1>7 DEF Walks
  <1>10. a \in Range(w.chart) =>
            Enter(w) = [todo |-> Tail(w.todo), chart |-> w.chart, empty |-> w.empty + 1]
    BY <1>4
  <1>11. a \notin Range(w.chart) =>
            /\ Enter(w).chart = Append(w.chart, a)
            /\ Enter(w).todo = Reports(a) \o Tail(w.todo)
            /\ Enter(w).empty = w.empty
    BY <1>4
  <1> HIDE DEF D
  <1>12. a \notin Range(w.chart) =>
              /\ Range(Enter(w).chart) = Range(w.chart) \cup {a}
              /\ Range(Enter(w).todo) = Under(a) \cup Range(Tail(w.todo))
              /\ Len(Enter(w).todo) = Len(Reports(a)) + Len(Tail(w.todo))
    BY <1>6, <1>8, <1>11
  <1> QED BY <1>2, <1>3, <1>9, <1>10, <1>11, <1>12 DEF a, D, CallDoes

\* How far a walk still has to go: less after each call.
Further(w) == Cardinality(DOMAIN registry \ Range(w.chart)) * (Cardinality(DOMAIN registry) + 1)
                 + Len(w.todo)

\* An agent who is entered is one less, and has not more reports than there are agents; one who was
\* entered is passed over.
LEMMA FurtherFalls ==
    ASSUME ChartBounds, NEW w \in Walks
    PROVE  Further(w) \in Nat /\ (w.todo # <<>> => Further(Enter(w)) < Further(w))
  <1> DEFINE D == DOMAIN registry
             rest == D \ Range(w.chart)
  <1>1. IsFiniteSet(D) /\ Cardinality(D) \in Nat BY FS_CardinalityType DEF ChartBounds
  <1>2. \A v \in Walks : Len(v.todo) \in Nat /\ Cardinality(D \ Range(v.chart)) \in Nat
    <2> SUFFICES ASSUME NEW v \in Walks
                 PROVE  Len(v.todo) \in Nat /\ Cardinality(D \ Range(v.chart)) \in Nat
      OBVIOUS
    <2>1. v.todo \in Seq(D) BY DEF Walks
    <2>2. IsFiniteSet(D \ Range(v.chart)) BY <1>1, FS_Difference
    <2> QED BY <2>1, <2>2, LenProperties, FS_CardinalityType
  <1>3. PICK n \in Nat : n = Cardinality(D) BY <1>1
  <1>4. PICK k \in Nat : k = Cardinality(rest) BY <1>2
  <1>5. PICK l \in Nat : l = Len(w.todo) BY <1>2
  <1>6. Further(w) = k * (n + 1) + l BY <1>3, <1>4, <1>5 DEF Further
  <1>7. k * (n + 1) \in Nat OBVIOUS
  <1>8. ASSUME w.todo # <<>> PROVE Further(Enter(w)) < Further(w)
    <2>1. PICK a \in D : CallDoes(w, a)
      BY <1>8, EnterDoes
    <2>2. CASE a \in Range(w.chart)
      <3>1. Enter(w).chart = w.chart /\ Len(Enter(w).todo) = l - 1 BY <1>5, <2>1, <2>2 DEF CallDoes
      <3>2. Further(Enter(w)) = k * (n + 1) + (l - 1) BY <1>3, <1>4, <3>1 DEF Further
      <3> QED BY <1>6, <1>7, <3>2
    <2>3. CASE a \notin Range(w.chart)
      <3>1. D \ Range(Enter(w).chart) = rest \ {a} BY <2>1, <2>3 DEF CallDoes
      <3>2. IsFiniteSet(rest) /\ a \in rest BY <1>1, <2>3, FS_Difference
      <3>3. Cardinality(D \ Range(Enter(w).chart)) = k - 1
        <4> HIDE DEF rest
        <4> QED BY <1>4, <3>1, <3>2, FS_RemoveElement
      <3>4. k - 1 \in Nat BY <1>2, <2>1, <3>3 DEF CallDoes
      <3>5. PICK r \in Nat : r = Len(Reports(a)) /\ r <= n BY <1>3, ReportsAreBelow
      <3>6. Len(Enter(w).todo) = r + (l - 1) BY <1>5, <2>1, <2>3, <3>5 DEF CallDoes
      <3>7. Further(Enter(w)) = (k - 1) * (n + 1) + (r + (l - 1)) BY <1>3, <3>3, <3>6 DEF Further
      <3>8. (k - 1) * (n + 1) = k * (n + 1) - (n + 1) BY <3>4
      <3>9. (k - 1) * (n + 1) + (r + (l - 1)) < k * (n + 1) + l BY <1>7, <3>5, <3>8
      <3> QED BY <1>6, <3>7, <3>9
    <2> QED BY <2>2, <2>3
  <1> QED BY <1>6, <1>7, <1>8

\* What holds all along a walk from a.
Walked(a) ==
    {w \in Walks :
        /\ \A i, j \in 1..Len(w.chart) : w.chart[i] = w.chart[j] => i = j
        /\ Range(w.chart) \cup Range(w.todo) \subseteq Beneath(a)
        /\ a \in Range(w.chart) \cup Range(w.todo)
        /\ \A b \in Range(w.chart) : Under(b) \subseteq Range(w.chart) \cup Range(w.todo)
        /\ \/ w.chart = <<>> /\ w.todo = <<a>>
           \/ w.chart # <<>> /\ w.chart[1] = a}

\* What is beneath an agent has him and is closed, and is within any set that has him and is closed.
LEMMA BeneathHolds ==
    ASSUME ChartBounds, NEW a \in DOMAIN registry
    PROVE  /\ a \in Beneath(a) /\ Beneath(a) \subseteq DOMAIN registry
           /\ \A b \in Beneath(a) : Under(b) \subseteq Beneath(a)
           /\ \A s \in SUBSET DOMAIN registry :
                 a \in s /\ (\A b \in s : Under(b) \subseteq s) => Beneath(a) \subseteq s
  <1>1. \A b \in DOMAIN registry :
           /\ Under(b) = IF Rows[b].level <= 2 THEN Children(b) ELSE {}
           /\ Children(b) \subseteq DOMAIN registry
    <2>1. \A b \in DOMAIN registry : Rows[b].level \in Int BY RowsTyped DEF Levels
    <2> QED BY <2>1 DEF Under, Childless, Children
  <1> DEFINE Closed(s) == a \in s /\ \A b \in s : Rows[b].level <= 2 => Children(b) \subseteq s
             Candidates == {s \in SUBSET DOMAIN registry : Closed(s)}
  <1>2. Beneath(a) = {b \in DOMAIN registry : \A s \in Candidates : b \in s} BY DEF Beneath
  <1>3. \A s \in SUBSET DOMAIN registry :
           s \in Candidates <=> a \in s /\ \A b \in s : Under(b) \subseteq s
    BY <1>1
  <1> HIDE DEF Candidates
  <1>4. ASSUME NEW b \in Beneath(a) PROVE Under(b) \subseteq Beneath(a)
    <2> SUFFICES ASSUME NEW c \in Under(b) PROVE c \in Beneath(a) OBVIOUS
    <2>1. b \in DOMAIN registry BY <1>2
    <2>2. c \in DOMAIN registry BY <1>1, <2>1
    <2>3. ASSUME NEW s \in Candidates PROVE c \in s
      <3>1. s \in SUBSET DOMAIN registry BY <2>3 DEF Candidates
      <3>2. b \in s BY <1>2
      <3> QED BY <1>3, <3>1, <3>2
    <2> QED BY <1>2, <2>2, <2>3
  <1>5. \A s \in Candidates : s \in SUBSET DOMAIN registry /\ a \in s BY <1>3 DEF Candidates
  <1>6. a \in Beneath(a) BY <1>2, <1>5
  <1>7. Beneath(a) \subseteq DOMAIN registry BY <1>2
  <1>8. \A s \in Candidates : Beneath(a) \subseteq s BY <1>2
  <1> QED BY <1>3, <1>4, <1>6, <1>7, <1>8

\* One call keeps the walk what it is.
LEMMA WalkGoesOn ==
    ASSUME ChartBounds, NEW a \in DOMAIN registry, NEW w \in Walked(a), w.todo # <<>>
    PROVE  Enter(w) \in Walked(a)
  <1>1. /\ w \in Walks /\ w.chart \in Seq(DOMAIN registry) /\ w.todo \in Seq(DOMAIN registry)
        /\ \A i, j \in 1..Len(w.chart) : w.chart[i] = w.chart[j] => i = j
        /\ Range(w.chart) \cup Range(w.todo) \subseteq Beneath(a)
        /\ a \in Range(w.chart) \cup Range(w.todo)
        /\ \A c \in Range(w.chart) : Under(c) \subseteq Range(w.chart) \cup Range(w.todo)
        /\ \/ w.chart = <<>> /\ w.todo = <<a>>
           \/ w.chart # <<>> /\ w.chart[1] = a
    BY DEF Walked, Walks
  <1>2. PICK b \in DOMAIN registry : CallDoes(w, b)
    BY <1>1, EnterDoes
  <1>3. CASE b \in Range(w.chart)
    <2>1. Enter(w).chart = w.chart /\ Enter(w).todo = Tail(w.todo) BY <1>2, <1>3 DEF CallDoes
    <2>2. w.chart # <<>>
      <3>1. Range(<<>>) = {} BY DEF Range
      <3> QED BY <1>3, <3>1
    <2>3. Range(w.chart) \cup Range(w.todo) = Range(w.chart) \cup Range(Tail(w.todo))
      BY <1>2, <1>3 DEF CallDoes
    <2> QED BY <1>1, <1>2, <2>1, <2>2, <2>3 DEF Walked, CallDoes
  <1>4. CASE b \notin Range(w.chart)
    <2> DEFINE v == Enter(w)
               l == Len(w.chart)
    <2>0. l \in Nat /\ Range(w.chart) = {w.chart[i] : i \in 1..l}
      BY <1>1, LenProperties, RangeEquality
    <2>1. /\ v.chart = Append(w.chart, b) /\ v \in Walks
          /\ Range(v.chart) = Range(w.chart) \cup {b}
          /\ Range(v.todo) = Under(b) \cup Range(Tail(w.todo))
      BY <1>2, <1>4 DEF CallDoes
    <2> HIDE DEF v
    <2>2. Len(v.chart) = l + 1 /\ (\A i \in 1..l : v.chart[i] = w.chart[i]) /\ v.chart[l + 1] = b
          /\ v.chart # <<>>
      BY <1>1, <2>1, AppendProperties
    <2>3. ASSUME NEW i \in 1..Len(v.chart), NEW j \in 1..Len(v.chart), v.chart[i] = v.chart[j]
          PROVE  i = j
      <3>1. \A k \in 1..l : w.chart[k] # b BY <1>4, <2>0
      <3>2. i \in 1..l \/ i = l + 1 BY <2>0, <2>2
      <3>3. j \in 1..l \/ j = l + 1 BY <2>0, <2>2
      <3> HIDE DEF l
      <3> QED BY <1>1, <2>2, <2>3, <3>1, <3>2, <3>3 DEF l
    <2>4. Under(b) \subseteq Beneath(a) BY <1>1, <1>2, BeneathHolds DEF CallDoes
    <2>5. Range(v.chart) \cup Range(v.todo) = Range(w.chart) \cup Range(w.todo) \cup Under(b)
      BY <1>2, <2>1 DEF CallDoes
    <2>6. Range(v.chart) \cup Range(v.todo) \subseteq Beneath(a) BY <1>1, <2>4, <2>5
    <2>7. a \in Range(v.chart) \cup Range(v.todo) BY <1>1, <2>5
    <2>8. \A c \in Range(v.chart) : Under(c) \subseteq Range(v.chart) \cup Range(v.todo)
      BY <1>1, <2>1, <2>5
    <2>9. v.chart[1] = a
      <3>1. CASE w.chart = <<>>
        <4>1. l = 0 BY <3>1, EmptySeq
        <4>2. b = a BY <1>1, <1>2, <3>1 DEF CallDoes
        <4> QED BY <2>2, <4>1, <4>2
      <3>2. CASE w.chart # <<>>
        <4>1. 1 \in 1..l BY <1>1, <2>0, <3>2, EmptySeq
        <4> QED BY <1>1, <2>2, <3>2, <4>1
      <3> QED BY <3>1, <3>2
    <2> QED BY <2>1, <2>2, <2>3, <2>6, <2>7, <2>8, <2>9 DEF Walked, v
  <1> QED BY <1>3, <1>4

\* What has each of its members once has none of them again after the first.
LEMMA OnceWithoutFirst ==
    ASSUME NEW D, NEW s \in Seq(D), s # <<>>, IsInjective(s)
    PROVE  IsInjective(Tail(s)) /\ Head(s) \notin Range(Tail(s))
  <1>1. Tail(s) \in Seq(D) /\ Len(Tail(s)) = Len(s) - 1 BY HeadTailProperties
  <1>2. \A i \in 1..Len(s) - 1 : Tail(s)[i] = s[i + 1] BY <1>1, HeadTailProperties
  <1>3. Len(s) \in Nat \ {0} /\ DOMAIN s = 1..Len(s) /\ DOMAIN Tail(s) = 1..Len(s) - 1
    BY <1>1, EmptySeq, LenProperties
  <1>4. \A i, j \in 1..Len(s) : s[i] = s[j] => i = j BY <1>3 DEF IsInjective
  <1>5. ASSUME NEW i \in 1..Len(s) - 1, NEW j \in 1..Len(s) - 1, Tail(s)[i] = Tail(s)[j]
        PROVE  i = j
    <2>1. i + 1 \in 1..Len(s) /\ j + 1 \in 1..Len(s) BY <1>3
    <2>2. i + 1 = j + 1 BY <1>2, <1>4, <1>5, <2>1
    <2> QED BY <2>2
  <1>6. ASSUME NEW i \in 1..Len(s) - 1 PROVE Tail(s)[i] # Head(s)
    <2>1. i + 1 \in 1..Len(s) /\ 1 \in 1..Len(s) /\ i + 1 # 1 BY <1>3
    <2>2. Head(s) = s[1] OBVIOUS
    <2> QED BY <1>2, <1>4, <2>1, <2>2
  <1>7. Range(Tail(s)) = {Tail(s)[i] : i \in 1..Len(s) - 1} BY <1>1, RangeEquality
  <1> QED BY <1>3, <1>5, <1>6, <1>7 DEF IsInjective

\* One after the other, two that have nothing in common still have each member once.
LEMMA OnceTogether ==
    ASSUME NEW D, NEW s \in Seq(D), NEW t \in Seq(D), IsInjective(s), IsInjective(t),
           Range(s) \cap Range(t) = {}
    PROVE  IsInjective(s \o t)
  <1> DEFINE k == Len(s)
             l == Len(t)
             u == s \o t
  <1>1. k \in Nat /\ l \in Nat /\ DOMAIN s = 1..k /\ DOMAIN t = 1..l BY LenProperties
  <1>2. u \in Seq(D) /\ Len(u) = k + l BY ConcatProperties
  <1>3. DOMAIN u = 1..k + l BY <1>2, LenProperties
  <1>4. \A i \in 1..k : u[i] = s[i] BY ConcatProperties
  <1>5. \A i \in k + 1..k + l : u[i] = t[i - k] BY <1>1
  <1>6. Range(s) = {s[i] : i \in 1..k} /\ Range(t) = {t[i] : i \in 1..l} BY RangeEquality
  <1>7. \A i, j \in 1..k : s[i] = s[j] => i = j BY <1>1 DEF IsInjective
  <1>8. \A i, j \in 1..l : t[i] = t[j] => i = j BY <1>1 DEF IsInjective
  <1>9. \A i \in 1..k, j \in 1..l : s[i] # t[j] BY <1>6
  <1> HIDE DEF k, l, u
  <1>a. k \in Nat /\ l \in Nat BY <1>1
  <1>b. \A i \in 1..k + l : i \in 1..k \/ (i \in k + 1..k + l /\ i - k \in 1..l) BY ONLY <1>a
  <1>10. ASSUME NEW i \in 1..k + l, NEW j \in 1..k + l, u[i] = u[j] PROVE i = j
    <2>1. i \in 1..k \/ (i \in k + 1..k + l /\ i - k \in 1..l) BY <1>b
    <2>2. j \in 1..k \/ (j \in k + 1..k + l /\ j - k \in 1..l) BY <1>b
    <2>3. CASE i \in 1..k /\ j \in 1..k BY <1>4, <1>7, <1>10, <2>3
    <2>4. CASE i \in k + 1..k + l /\ i - k \in 1..l /\ j \in k + 1..k + l /\ j - k \in 1..l
      <3>1. i - k = j - k BY <1>5, <1>8, <1>10, <2>4
      <3> QED BY <1>1, <3>1
    <2>5. CASE i \in 1..k /\ j \in k + 1..k + l /\ j - k \in 1..l BY <1>4, <1>5, <1>9, <1>10, <2>5
    <2>6. CASE j \in 1..k /\ i \in k + 1..k + l /\ i - k \in 1..l BY <1>4, <1>5, <1>9, <1>10, <2>6
    <2> QED BY <2>1, <2>2, <2>3, <2>4, <2>5, <2>6
  <1> QED BY <1>3, <1>10 DEF IsInjective, u

\* Whether somebody the walk has entered leads back to a.
Leads(w, a) == \E c \in Range(w.chart) : a \in Under(c)

\* Whoever is to be entered, but the first, is there through one agent only, so that only the first
\* can be called a second time, and then once: that is the empty node.
Circled(a) ==
    {w \in Walked(a) :
        /\ IsInjective(w.todo)
        /\ \A b \in Range(w.todo) : b \in Range(w.chart) => b = a
        /\ \A b \in Range(w.chart) : b # a => Leads(w, b)
        /\ w.chart # <<>> => \A b \in Range(w.todo) : Leads(w, b)
        /\ w.empty = IF w.chart # <<>> /\ Leads(w, a) /\ a \notin Range(w.todo) THEN 1 ELSE 0}

\* One call keeps that too.
LEMMA CircleGoesOn ==
    ASSUME ChartBounds, NEW a \in DOMAIN registry, NEW w \in Circled(a), w.todo # <<>>
    PROVE  Enter(w) \in Circled(a)
  <1> DEFINE v == Enter(w)
             rest == Tail(w.todo)
  <1>a. w \in Walked(a) BY DEF Circled
  <1>b. /\ w \in Walks /\ w.chart \in Seq(DOMAIN registry) /\ w.todo \in Seq(DOMAIN registry)
        /\ (w.chart = <<>> /\ w.todo = <<a>>) \/ (w.chart # <<>> /\ w.chart[1] = a)
    BY <1>a DEF Walked, Walks
  <1>c. /\ IsInjective(w.todo)
        /\ \A b \in Range(w.todo) : b \in Range(w.chart) => b = a
        /\ \A b \in Range(w.chart) : b # a => Leads(w, b)
        /\ w.chart # <<>> => \A b \in Range(w.todo) : Leads(w, b)
        /\ w.empty = IF w.chart # <<>> /\ Leads(w, a) /\ a \notin Range(w.todo) THEN 1 ELSE 0
    BY DEF Circled
  <1>2. PICK b \in DOMAIN registry : CallDoes(w, b) BY <1>a, <1>b, <1>c, EnterDoes
  <1>3. v \in Walked(a) BY <1>a, <1>b, <1>c, WalkGoesOn
  <1>4. IsInjective(rest) /\ b \notin Range(rest) /\ rest \in Seq(DOMAIN registry)
        /\ Range(w.todo) = {b} \cup Range(rest)
    BY <1>a, <1>b, <1>c, <1>2, OnceWithoutFirst DEF CallDoes
  <1>5. Range(<<>>) = {} BY DEF Range
  <1>6. w.chart # <<>> => a \in Range(w.chart)
    <2>1. w.chart # <<>> => Len(w.chart) \in Nat \ {0} BY <1>a, <1>b, <1>c, EmptySeq
    <2>2. w.chart # <<>> => 1 \in 1..Len(w.chart) BY <2>1
    <2> QED BY <1>a, <1>b, <1>c, <2>2, RangeEquality
  <1>7. w.chart = <<>> => b = a /\ Range(rest) = {} /\ Range(w.chart) = {}
    <2>1. w.todo = <<a>> => Head(w.todo) = a /\ rest = <<>> OBVIOUS
    <2> QED BY <1>a, <1>b, <1>c, <1>2, <1>5, <2>1 DEF CallDoes
  <1>8. CASE b \in Range(w.chart)
    <2>1. v.chart = w.chart /\ v.todo = rest /\ v.empty = w.empty + 1
      BY <1>2, <1>8 DEF CallDoes
    <2>2. b = a /\ w.chart # <<>> BY <1>a, <1>b, <1>c, <1>4, <1>5, <1>8
    <2>3. Leads(w, a) /\ w.empty = 0 BY <1>a, <1>b, <1>c, <1>4, <2>2
    <2>4. \A c : Leads(v, c) <=> Leads(w, c) BY <2>1 DEF Leads
    <2> HIDE DEF v, rest
    <2>5. v.empty = 1 /\ v.chart # <<>> /\ Leads(v, a) /\ a \notin Range(v.todo)
      BY <1>4, <2>1, <2>2, <2>3, <2>4
    <2> QED BY <1>a, <1>b, <1>c, <1>3, <1>4, <2>1, <2>2, <2>4, <2>5 DEF Circled, v
  <1>9. CASE b \notin Range(w.chart)
    <2>1. /\ v.todo = Reports(b) \o rest /\ v.empty = w.empty /\ v.chart = Append(w.chart, b)
          /\ Range(v.chart) = Range(w.chart) \cup {b} /\ Range(v.todo) = Under(b) \cup Range(rest)
      BY <1>2, <1>9 DEF CallDoes
    <2>2. /\ Reports(b) \in Seq(DOMAIN registry) /\ Range(Reports(b)) = Under(b)
          /\ IsInjective(Reports(b)) /\ Under(b) \subseteq DOMAIN registry
      BY <1>2, ReportsAreBelow
    <2>3. v.chart # <<>> BY <1>a, <1>b, <1>c, <1>2, <2>1, AppendProperties
    <2>4. Range(w.chart) \subseteq DOMAIN registry BY <1>a, <1>b, <1>c, RangeOfSeq
    <2> HIDE DEF v, rest
    <2>5. \A d \in Under(b) : ~ Leads(w, d) BY <1>9, <2>2, <2>4, OneParent DEF Leads
    <2>6. \A c : Leads(v, c) <=> Leads(w, c) \/ c \in Under(b) BY <2>1 DEF Leads
    <2>7. Under(b) \cap Range(rest) = {} BY <1>a, <1>b, <1>c, <1>4, <1>7, <2>5
    <2>8. IsInjective(v.todo) BY <1>4, <2>1, <2>2, <2>7, OnceTogether
    <2>9. \A d \in Range(v.chart) : d # a => Leads(v, d)
      BY <1>a, <1>b, <1>c, <1>4, <1>7, <2>1, <2>6
    <2>10. \A d \in Range(v.todo) : Leads(v, d) BY <1>a, <1>b, <1>c, <1>4, <1>7, <2>1, <2>6
    <2>11. ASSUME NEW d \in Range(v.todo), d \in Range(v.chart), d # a PROVE FALSE
      <3>1. CASE d \in Under(b)
        <4>1. d = b BY <1>a, <1>b, <1>c, <2>1, <2>5, <2>11, <3>1
        <4>2. Leads(w, b) BY <1>a, <1>b, <1>c, <1>4, <1>7, <2>11, <4>1
        <4> QED BY <2>5, <3>1, <4>1, <4>2
      <3>2. CASE d \in Range(rest) BY <1>a, <1>b, <1>c, <1>4, <2>1, <2>11, <3>2
      <3> QED BY <2>1, <2>11, <3>1, <3>2
    <2>12. v.empty = IF v.chart # <<>> /\ Leads(v, a) /\ a \notin Range(v.todo) THEN 1 ELSE 0
      <3>1. CASE w.chart = <<>> BY <1>a, <1>b, <1>c, <1>7, <2>1, <2>6, <3>1 DEF Leads
      <3>2. CASE w.chart # <<>>
        <4>1. a # b BY <1>6, <1>9, <3>2
        <4>2. a \in Range(w.todo) <=> a \in Range(rest) BY <1>4, <4>1
        <4>3. CASE a \in Under(b) BY <1>a, <1>b, <1>c, <2>1, <2>5, <4>3
        <4>4. CASE a \notin Under(b) BY <1>a, <1>b, <1>c, <2>1, <2>3, <2>6, <3>2, <4>2, <4>4
        <4> QED BY <4>3, <4>4
      <3> QED BY <3>1, <3>2
    <2> QED BY <1>3, <2>8, <2>9, <2>10, <2>11, <2>12 DEF Circled, v
  <1> QED BY <1>8, <1>9

\* The walk begins with its agent.
LEMMA WalkBegins ==
    ASSUME ChartBounds, NEW a \in DOMAIN registry
    PROVE  [todo |-> <<a>>, chart |-> <<>>, empty |-> 0] \in Circled(a)
  <1> DEFINE w == [todo |-> <<a>>, chart |-> <<>>, empty |-> 0]
  <1>1. w \in Walks BY DEF Walks
  <1>2. Range(<<>>) = {} /\ Range(<<a>>) = {a} BY DEF Range
  <1>3. Len(<<>>) = 0 BY EmptySeq
  <1>4. a \in Beneath(a) BY BeneathHolds
  <1>5. w \in Walked(a) BY <1>1, <1>2, <1>3, <1>4 DEF Walked
  <1>6. IsInjective(<<a>>) BY DEF IsInjective
  <1> QED BY <1>2, <1>5, <1>6 DEF Circled

\* The chart that is built is that of a walk that has nothing left to do.
LEMMA BuiltIsWalked ==
    ASSUME ChartBounds, NEW a \in DOMAIN registry
    PROVE  \E w \in Circled(a) : w.todo = <<>> /\ BuildNode(a) = w
  <1> DEFINE m == [w \in Walks |-> Further(w)]
             end == {w \in Walks : w.todo = <<>>}
             out == [w \in Walks |-> w]
             next == [w \in Walks |-> IF w.todo = <<>> THEN w ELSE Enter(w)]
             start == [todo |-> <<a>>, chart |-> <<>>, empty |-> 0]
  <1>1. \A w \in Walks : w.todo # <<>> => Enter(w) \in Walks BY EnterDoes DEF CallDoes
  <1>2. m \in [Walks -> Nat] /\ \A w \in Walks : m[w] = Further(w) BY FurtherFalls
  <1>3. next \in [Walks -> Walks] /\ \A w \in Walks : w.todo # <<>> => next[w] = Enter(w) BY <1>1
  <1>4. \A w \in Walks : (w \in end <=> w.todo = <<>>) /\ out[w] = w OBVIOUS
  <1> HIDE DEF m, end, out, next
  <1>5. \A w \in Walks : w \notin end => m[next[w]] < m[w]
    <2> SUFFICES ASSUME NEW w \in Walks, w.todo # <<>> PROVE m[next[w]] < m[w] BY <1>4
    <2>1. Further(Enter(w)) < Further(w) BY FurtherFalls
    <2>2. next[w] = Enter(w) /\ Enter(w) \in Walks BY <1>1, <1>3
    <2> QED BY <1>2, <2>1, <2>2
  <1>6. \E e : IsPath(e, Walks, next, end, out) BY <1>2, <1>3, <1>5, PathExists
  <1>7. \A e : [w \in Walks |-> IF w \in end THEN out[w] ELSE e[next[w]]]
                  = [w \in Walks |-> IF w.todo = <<>> THEN w ELSE e[Enter(w)]]
    BY <1>3, <1>4
  <1>8. Entered = [w \in Walks |-> IF w.todo = <<>> THEN w ELSE Entered[Enter(w)]]
    <2>1. \E e : e = [w \in Walks |-> IF w.todo = <<>> THEN w ELSE e[Enter(w)]]
      BY <1>6, <1>7 DEF IsPath
    <2> QED BY <2>1 DEF Entered
  <1>9. IsPath(Entered, Walks, next, end, out) BY <1>7, <1>8 DEF IsPath
  <1>10. Circled(a) \in SUBSET Walks BY DEF Circled, Walked
  <1>11. \A w \in Circled(a) : w \notin end => next[w] \in Circled(a)
    BY <1>3, <1>4, <1>10, CircleGoesOn
  <1>12. start \in Circled(a) BY WalkBegins
  <1> DEFINE e == Entered
             Good == Circled(a)
  <1>13. IsPath(e, Walks, next, end, out) BY <1>9
  <1>14. Stays(Good, Walks, next, end) /\ start \in Good BY <1>10, <1>11, <1>12 DEF Stays
  <1> HIDE DEF e, Good, start
  <1>15. \E w \in Good : w \in end /\ e[start] = out[w]
    BY <1>2, <1>3, <1>5, <1>13, <1>14, PathEnds
  <1> QED BY <1>4, <1>10, <1>15 DEF BuildNode, e, Good, start

\* A chart that was built has its agent first, and him and all below him once each, and an
\* empty node where somebody below him leads back to him.
LEMMA BuiltIsReach ==
    ASSUME ChartBounds, NEW a \in DOMAIN registry
    PROVE  /\ BuildNode(a).chart \in Seq(DOMAIN registry) /\ BuildNode(a).chart[1] = a
           /\ Range(BuildNode(a).chart) = Beneath(a)
           /\ Len(BuildNode(a).chart) = Cardinality(Beneath(a))
           /\ BuildNode(a).empty = IF Circles(a) THEN 1 ELSE 0
  <1>1. PICK w \in Circled(a) : w.todo = <<>> /\ BuildNode(a) = w BY BuiltIsWalked
  <1> DEFINE c == w.chart
             l == Len(c)
  <1>2. Range(<<>>) = {} BY DEF Range
  <1>3. /\ c \in Seq(DOMAIN registry)
        /\ \A i, j \in 1..l : c[i] = c[j] => i = j
        /\ Range(c) \subseteq Beneath(a) /\ a \in Range(c)
        /\ \A b \in Range(c) : Under(b) \subseteq Range(c)
        /\ \/ c = <<>> /\ <<>> = <<a>>
           \/ c # <<>> /\ c[1] = a
    BY <1>1, <1>2 DEF Circled, Walked, Walks
  <1>4. c[1] = a BY <1>3
  <1> HIDE DEF c
  <1>5. Range(c) \in SUBSET DOMAIN registry BY <1>3, RangeOfSeq
  <1>6. Range(c) = Beneath(a) BY <1>3, <1>5, BeneathHolds
  <1>7. l \in Nat /\ c \in [1..l -> DOMAIN registry] /\ Range(c) = {c[i] : i \in 1..l}
    BY <1>3, LenProperties, RangeEquality
  <1> DEFINE R == Range(c)
  <1>8. c \in [1..l -> R] /\ \A b \in R : \E i \in 1..l : c[i] = b BY <1>7
  <1> HIDE DEF R
  <1>9. c \in Bijection(1..l, R)
    <2>1. DOMAIN c = 1..l BY <1>7
    <2>2. c \in Injection(1..l, R) BY <1>3, <1>8, <2>1 DEF Injection, IsInjective
    <2>3. c \in Surjection(1..l, R) BY <1>8 DEF Surjection
    <2> QED BY <2>2, <2>3 DEF Bijection
  <1>10. IsFiniteSet(1..l) /\ Cardinality(1..l) = l
    <2>1. l \in Nat BY <1>7
    <2> HIDE DEF l
    <2>2. IsFiniteSet(1..l) /\ Cardinality(1..l) = IF 1 > l THEN 0 ELSE l - 1 + 1 BY <2>1, FS_Interval
    <2> QED BY <2>1, <2>2
  <1>11. Cardinality(R) = l
    <2>1. ExistsBijection(1..l, R) BY <1>9 DEF ExistsBijection
    <2> HIDE DEF l
    <2> QED BY <1>10, <2>1, FS_Bijection
  <1>12. w.empty = IF Circles(a) THEN 1 ELSE 0
    <2>1. w.chart # <<>> /\ a \notin Range(w.todo) BY <1>1, <1>2, <1>3 DEF c
    <2>2. w.empty = IF Leads(w, a) THEN 1 ELSE 0 BY <2>1 DEF Circled
    <2>3. \A b \in Beneath(a) : Under(b) = IF Rows[b].level <= 2 THEN Children(b) ELSE {}
      BY BeneathHolds, RowsTyped DEF Under, Childless, Levels
    <2>4. Leads(w, a) <=> Circles(a) BY <1>6, <2>3 DEF Leads, Circles, c
    <2> QED BY <2>2, <2>4
  <1> QED BY <1>1, <1>3, <1>4, <1>6, <1>11, <1>12 DEF R, c

\* Every tree of the chart is that of an agent who is there.
LEMMA TreesBuilt == ChartBounds => \A tree \in Charts : \E a \in DOMAIN registry : tree = BuildNode(a)
  <1> SUFFICES ASSUME ChartBounds, NEW tree \in Charts
               PROVE  \E a \in DOMAIN registry : tree = BuildNode(a)
    OBVIOUS
  <1>1. CASE Heads # {}
    <2>1. ChartHead \in DOMAIN registry BY <1>1, HeadOfHeads DEF Heads
    <2> QED BY <1>1, <2>1 DEF Charts
  <1>2. CASE Heads = {} BY <1>2 DEF Charts
  <1> QED BY <1>1, <1>2

\* So it has him first, and whom it should.
LEMMA ChartsReach == ChartBounds => ChartIsReach
  <1> SUFFICES ASSUME ChartBounds, NEW tree \in Charts
               PROVE  /\ Range(tree.chart) = Beneath(tree.chart[1])
                      /\ Len(tree.chart) = Cardinality(Beneath(tree.chart[1]))
                      /\ tree.empty = IF Circles(tree.chart[1]) THEN 1 ELSE 0
    BY DEF ChartIsReach
  <1>1. PICK a \in DOMAIN registry : tree = BuildNode(a) BY TreesBuilt
  <1> QED BY <1>1, BuiltIsReach

\* Where the places were not read everybody is at the head's level and nobody below another: the
\* one tree is that of the first agent, and he is alone in it.
LEMMA HeadAlone == ChartBounds => HeadIsAlone
  <1> SUFFICES ASSUME ChartBounds, ~readable, NEW tree \in Charts
               PROVE  tree.chart = <<ChartHead>> /\ tree.empty = 0
    BY DEF HeadIsAlone
  <1>1. \A a \in DOMAIN registry : Rows[a].level = 0 /\ Rows[a].parent = Above
    BY DEF Rows, NoPlace
  <1>2. Heads = DOMAIN registry BY <1>1 DEF Heads
  <1>3. DOMAIN registry # {} BY <1>2, TreesBuilt
  <1>4. ChartHead \in DOMAIN registry /\ tree = BuildNode(ChartHead)
    BY <1>2, <1>3, HeadOfHeads DEF Charts
  <1> DEFINE a == ChartHead
             c == tree.chart
  <1>5. \A b \in DOMAIN registry : Children(b) = {}
    <2>1. \A b \in DOMAIN registry : b # Above BY ChartAssumption DEF ChartBounds, Above
    <2> QED BY <1>1, <2>1 DEF Children
  <1> HIDE DEF a
  <1>6. \A b \in DOMAIN registry : Under(b) = {} BY <1>5 DEF Under
  <1>7. Beneath(a) = {a}
    <2>1. {a} \in SUBSET DOMAIN registry BY <1>4 DEF a
    <2>2. \A b \in {a} : Under(b) \subseteq {a} BY <1>4, <1>6 DEF a
    <2>3. a \in DOMAIN registry BY <1>4 DEF a
    <2>4. a \in Beneath(a) BY <2>3, BeneathHolds
    <2>5. Beneath(a) \subseteq {a} BY <2>1, <2>2, <2>3, BeneathHolds
    <2> QED BY <2>4, <2>5
  <1>8. ~ Circles(a)
    <2>1. Beneath(a) \subseteq DOMAIN registry BY <1>4, BeneathHolds DEF a
    <2> QED BY <1>5, <2>1 DEF Circles
  <1>9. /\ c \in Seq(DOMAIN registry) /\ c[1] = a /\ Len(c) = Cardinality({a})
        /\ tree.empty = 0
    BY <1>4, <1>7, <1>8, BuiltIsReach DEF a
  <1>10. Cardinality({a}) = 1 BY FS_Singleton
  <1> HIDE DEF c
  <1>11. c = <<a>> BY <1>9, <1>10
  <1> QED BY <1>9, <1>11 DEF a, c

-----------------------------------------------------------------------------
(* The chart, for every registration that is refused, lost or ends half-way *)

\* Every tree of the chart shows whom it is about and all below him in the rows it was built
\* from, and nobody twice, however the parents are given, with one empty node where they lead
\* back; where the places were read, who stands at the head was registered for it, or his
\* registration is between its two statements or ended there; where they were not, the first
\* agent stands alone: for any agents and requests.
THEOREM ChartMeant == ChartSpec => []ChartIsMeant
  <1>1. ChartBounds /\ HeadsMeant => ChartIsMeant BY ChartsReach, MeantHead, HeadAlone DEF ChartIsMeant
  <1> QED
    BY ChartBoundsInit, ChartBoundsStep, HeadsMeantInit, HeadsMeantStep, <1>1, PTL DEF ChartSpec

-----------------------------------------------------------------------------
(* All the services: what each of them relies on holds while any of them works *)

\* What each service relies on.
ServicesInv ==
    /\ TypeOK /\ UnlockedBelowThreshold
    /\ ArchiveInv /\ ArchiveBounds
    /\ MemoriesInv /\ MemoryBounds
    /\ MigrationInv /\ MigrationBounds
    /\ RoundsInv /\ RoundBounds
    /\ LimiterInv /\ CallBounds
    /\ CompanionsInv /\ CompanionBounds
    /\ ChartBounds /\ HeadsMeant
    /\ LevelsInv /\ RecordsInv

\* Each service starts as it would alone.
LEMMA ServicesInvInit == ServicesInit => ServicesInv
  <1> SUFFICES ASSUME ServicesInit PROVE ServicesInv OBVIOUS
  <1>1. /\ Init /\ ArchiveInit /\ MemoriesInit /\ MigrationInit /\ RoundsInit
        /\ CallsInit /\ CompanionsInit /\ ChartInit /\ ProfilesInit
    BY DEF ServicesInit
  <1>2. ArchiveBounds BY <1>1, ArchiveAssumption DEF ArchiveInit, ArchiveBounds
  <1>3. MigrationBounds BY <1>1, MigrationAssumption DEF MigrationInit, MigrationBounds
  <1>4. MemoryBounds BY <1>1, MemoryBoundsInit
  <1>5. CompanionBounds BY <1>1, CompanionBoundsInit
  <1>6. TypeOK /\ UnlockedBelowThreshold BY <1>1, FrontTypeInit, UnlockedInit
  <1>7. ArchiveInv /\ MemoriesInv /\ MigrationInv /\ RoundsInv /\ RoundBounds
    BY <1>1, ArchiveInvInit, MemoriesInvInit, MigrationInvInit, RoundsInvInit, RoundBoundsInit
  <1>8. LimiterInv /\ CallBounds /\ CompanionsInv
    BY <1>1, LimiterInvInit, CallBoundsInit, CompanionsInvInit
  <1>9. ChartBounds /\ HeadsMeant BY <1>1, ChartBoundsInit, HeadsMeantInit
  <1>10. LevelsInv /\ RecordsInv BY <1>1, LevelsInit, RecordsInit
  <1> QED BY <1>2, <1>3, <1>4, <1>5, <1>6, <1>7, <1>8, <1>9, <1>10 DEF ServicesInv

\* A step of the whole is one of each service, or leaves it as it is.
LEMMA OneAtWork ==
    [ServicesNext]_serviceVars =>
        /\ [Next]_vars /\ [ArchiveNext]_archiveVars /\ [MemoriesNext]_memoryVars
        /\ [MigrationNext]_migrationVars /\ [RoundsNext]_roundsVars /\ [CallsNext]_callVars
        /\ [CompanionsNext]_companionVars /\ [ChartNext]_orgVars /\ [ProfilesNext]_profileVars
  <1> SUFFICES ASSUME [ServicesNext]_serviceVars
               PROVE  /\ [Next]_vars /\ [ArchiveNext]_archiveVars /\ [MemoriesNext]_memoryVars
                      /\ [MigrationNext]_migrationVars /\ [RoundsNext]_roundsVars
                      /\ [CallsNext]_callVars /\ [CompanionsNext]_companionVars
                      /\ [ChartNext]_orgVars /\ [ProfilesNext]_profileVars
    OBVIOUS
  <1>1. CASE UNCHANGED serviceVars BY <1>1 DEF serviceVars, parts
  <1>2. CASE ServicesNext BY <1>2 DEF ServicesNext, At
  <1> QED BY <1>1, <1>2

\* And each keeps its invariant, working or waiting.
LEMMA ServicesInvStep == ServicesInv /\ [ServicesNext]_serviceVars => ServicesInv'
  <1> SUFFICES ASSUME ServicesInv, [ServicesNext]_serviceVars PROVE ServicesInv' OBVIOUS
  <1>1. /\ [Next]_vars /\ [ArchiveNext]_archiveVars /\ [MemoriesNext]_memoryVars
        /\ [MigrationNext]_migrationVars /\ [RoundsNext]_roundsVars /\ [CallsNext]_callVars
        /\ [CompanionsNext]_companionVars /\ [ChartNext]_orgVars /\ [ProfilesNext]_profileVars
    BY OneAtWork
  <1>2. TypeOK' /\ UnlockedBelowThreshold' BY <1>1, FrontTypeStep, UnlockedStep DEF ServicesInv
  <1>3. ArchiveInv' /\ ArchiveBounds' BY <1>1, ArchiveInvStep, ArchiveBoundsStep DEF ServicesInv
  <1>4. MemoriesInv' /\ MemoryBounds' BY <1>1, MemoriesInvStep, MemoryBoundsStep DEF ServicesInv
  <1>5. MigrationInv' /\ MigrationBounds'
    BY <1>1, MigrationInvStep, MigrationBoundsStep DEF ServicesInv
  <1>6. RoundsInv' /\ RoundBounds' BY <1>1, RoundsInvStep, RoundBoundsStep DEF ServicesInv
  <1>7. LimiterInv' /\ CallBounds' BY <1>1, LimiterInvStep, CallBoundsStep DEF ServicesInv, LimiterInv
  <1>8. CompanionsInv' /\ CompanionBounds'
    BY <1>1, CompanionsInvStep, CompanionBoundsStep DEF ServicesInv
  <1>9. ChartBounds' /\ HeadsMeant' BY <1>1, ChartBoundsStep, HeadsMeantStep DEF ServicesInv
  <1>10. LevelsInv' /\ RecordsInv' BY <1>1, LevelsStep, RecordsStep DEF ServicesInv
  <1> QED BY <1>2, <1>3, <1>4, <1>5, <1>6, <1>7, <1>8, <1>9, <1>10 DEF ServicesInv

\* Every service keeps its types, whichever works and whatever the bounds are.
THEOREM ServicesTypes == ServicesSpec => []ServicesTypeOK
  <1>1. ServicesInv => ServicesTypeOK
    BY ArchiveTyped, MemoriesTyped, MigrationTyped, RoundsTyped, CallsTyped, CompanionsTyped,
       ChartTyped, LevelsTyped DEF ServicesInv, LimiterInv, ServicesTypeOK
  <1> QED BY ServicesInvInit, ServicesInvStep, <1>1, PTL DEF ServicesSpec

\* Every safety invariant that the run of the services checks holds of all of them together.
THEOREM ServicesKeep ==
    ServicesSpec => [](/\ UnlockedBelowThreshold /\ ArchivedOnce /\ PromptSaysOnce /\ ReturnedIsKept
                       /\ RecordIsTrue /\ OncePerDay /\ UnderLimit /\ ChartIsMeant
                       /\ RecordsAccount /\ LevelsAsMeant)
  <1>1. ServicesInv => /\ UnlockedBelowThreshold /\ ArchivedOnce /\ PromptSaysOnce
                       /\ ReturnedIsKept /\ RecordIsTrue /\ OncePerDay /\ UnderLimit
                       /\ ChartIsMeant /\ RecordsAccount /\ LevelsAsMeant
    BY ArchiveSays, PromptSays, ReturnSays, MigrationSays, RoundsSay, LimiterSays,
       ChartsReach, MeantHead, HeadAlone, RecordsSay, LevelsSay DEF ServicesInv, ChartIsMeant
  <1> QED BY ServicesInvInit, ServicesInvStep, <1>1, PTL DEF ServicesSpec

\* And so do what the limiter promises of a bucket and what is over staying over: the steps of
\* the whole are those of the front and of the companions, or leave them as they are.
THEOREM ServicesAct == ServicesSpec => LimitsAsBucket /\ ClosedStaysClosed
  <1>1. ServicesInit => \A k \in Keys : Eager(k)!Init BY BucketInit DEF ServicesInit
  <1>2. ServicesInv /\ [ServicesNext]_serviceVars
            => [\A k \in Keys : Eager(k)!Next \/ UNCHANGED <<Refilled(k), Verdict(k)>>]_vars
    BY OneAtWork, BucketStep DEF ServicesInv
  <1>3. ServicesInv /\ [ServicesNext]_serviceVars
            => [\A d \in DOMAIN discussions :
                   discussions[d].status = "concluded"
                     => /\ discussions'[d].status = "concluded"
                        /\ discussions'[d].authors = discussions[d].authors]_companionVars
    BY OneAtWork, DiscussionsStep DEF ServicesInv, DiscussionsStay
  <1>4. ServicesInv /\ [ServicesNext]_serviceVars
            => [\A u \in People :
                   sessions[u].id # 0 /\ sessions[u].idle > Timeout
                     => sessions'[u] = sessions[u] \/ sessions'[u].id # sessions[u].id]_companionVars
    BY OneAtWork, SessionsStep DEF ServicesInv, SessionsStay
  <1>5. ServicesSpec => LimitsAsBucket
    BY ServicesInvInit, ServicesInvStep, <1>1, <1>2, PTL DEF ServicesSpec, LimitsAsBucket
  <1>6. ServicesSpec => ConcludedIsClosed
    BY ServicesInvInit, ServicesInvStep, <1>3, PTL DEF ServicesSpec, ConcludedIsClosed
  <1>7. ServicesSpec => ExpiredNotRevived
    BY ServicesInvInit, ServicesInvStep, <1>4, PTL DEF ServicesSpec, ExpiredNotRevived
  <1> QED BY <1>5, <1>6, <1>7 DEF ClosedStaysClosed
=============================================================================
