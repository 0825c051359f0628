----------------------------- MODULE RequestFront -----------------------------
(***************************************************************************)
(* What a request meets before its handler: the outer middleware (address   *)
(* filter, login throttle, token bucket), the inner one (allowed networks, *)
(* audit log), the check of the key at POST /auth/token and of the token   *)
(* elsewhere.                                                              *)
(*                                                                         *)
(* The code keeps times; the model keeps ages and remaining times, which a *)
(* tick of the clock moves.  An age stops growing where nothing tells it   *)
(* from a greater one.                                                     *)
(***************************************************************************)
EXTENDS Integers, Sequences, FiniteSets

CONSTANTS
    Requests,       \* slots of requests: the most that are under way at once
    Addresses,
    Filtered,       \* addresses IPFilter refuses
    Internal,       \* addresses of INTERNAL_NETWORKS, not limited
    Foreign,        \* addresses outside ALLOWED_NETWORKS
    Token,          \* parts of a token of a bucket
    Full, Rate,     \* by path: parts of a full bucket, parts one tick brings
    MaxIdle,        \* the age at which cleanup removes a bucket
    MaxFailures, Lockout,
    None            \* no bucket, not locked

Limited == {"auth", "api"}          \* first segments of the paths with a bucket
Paths == Limited \cup {"public"}    \* PUBLIC_PATHS and the statistics

ASSUME FrontAssumption ==
    /\ Filtered \subseteq Addresses /\ Internal \subseteq Addresses /\ Foreign \subseteq Addresses
    /\ Token \in Nat \ {0} /\ MaxIdle \in Nat
    /\ Full \in [Limited -> Nat] /\ Rate \in [Limited -> Nat]
    /\ \A p \in Limited : Full[p] >= Token /\ MaxIdle * Rate[p] >= Full[p]
    /\ MaxFailures \in Nat \ {0} /\ Lockout \in Nat \ {0}
    /\ None \notin Int /\ None \notin [tokens : Nat, idle : Nat]
    /\ None \notin (Addresses \X Limited) \X {"pass", "refuse"}

VARIABLES
    bucket,     \* rate_limiter._buckets, by address and segment
    failures,   \* login_throttle._failures: the ages of the failures, oldest first
    locked,     \* login_throttle._locked: the time left, 0 when it is over
    req,        \* the requests under way
    verdict     \* history: the key asked for in the last step, and the answer

vars == <<bucket, failures, locked, req, verdict>>

Idle == [at |-> "idle", from |-> None, path |-> "public"]

Keys == Addresses \X Limited

Buckets(k) == [tokens : 0..Full[k[2]], idle : 0..MaxIdle + 1]

TypeOK ==
    /\ DOMAIN bucket = Keys /\ \A k \in Keys : bucket[k] \in Buckets(k) \cup {None}
    /\ failures \in [Addresses -> Seq(0..Lockout)]
    /\ locked \in [Addresses -> 0..Lockout \cup {None}]
    /\ req \in [Requests -> [at : {"idle", "inner", "handler", "log", "answered"},
                             from : Addresses \cup {None}, path : Paths]]
    /\ verdict \in {None} \cup (Keys \X {"pass", "refuse"})

Init ==
    /\ bucket = [k \in Keys |-> None]
    /\ failures = [a \in Addresses |-> <<>>]
    /\ locked = [a \in Addresses |-> None]
    /\ req = [r \in Requests |-> Idle]
    /\ verdict = None

-----------------------------------------------------------------------------
(* RateLimiter *)

Capped(n, top) == IF n > top THEN top ELSE n

RefilledUncapped(k) ==            \* mutant: without the min
    IF bucket[k] = None THEN Full[k[2]] ELSE bucket[k].tokens + bucket[k].idle * Rate[k[2]]

\* _get_bucket fills in what the time since the last refill has brought.
Refilled(k) ==
    IF bucket[k] = None THEN Full[k[2]]
    ELSE Capped(bucket[k].tokens + bucket[k].idle * Rate[k[2]], Full[k[2]])

Allowed(k) == Refilled(k) >= Token

\* allow stores the refilled bucket, less a token for a request that passes.
Take(k) ==
    /\ bucket' = [bucket EXCEPT ![k] =
          [tokens |-> IF Allowed(k) THEN Refilled(k) - Token ELSE Refilled(k), idle |-> 0]]
    /\ verdict' = <<k, IF Allowed(k) THEN "pass" ELSE "refuse">>

\* cleanup removes what has not been asked for; nothing in the server calls it.
Cleanup ==
    /\ \E k \in Keys : bucket[k] # None /\ bucket[k].idle > MaxIdle
    /\ bucket' = [k \in Keys |-> IF bucket[k] # None /\ bucket[k].idle > MaxIdle
                                 THEN None ELSE bucket[k]]
    /\ UNCHANGED <<failures, locked, req>> /\ verdict' = None

-----------------------------------------------------------------------------
(* LoginThrottle *)

Locked(a) == locked[a] # None /\ locked[a] > 0

\* is_locked forgets a lockout that is over, and the failures that led to it.
ForgetOver(a) ==
    IF locked[a] = 0
    THEN /\ locked' = [locked EXCEPT ![a] = None]
         /\ failures' = [failures EXCEPT ![a] = <<>>]
    ELSE UNCHANGED <<locked, failures>>

Outdated(ages) == {i \in DOMAIN ages : ages[i] >= Lockout}

\* The failures within the window: the oldest come first, so those that are outside it do.
Recent(ages) == SubSeq(ages, Cardinality(Outdated(ages)) + 1, Len(ages))

\* record_failure: the failures within the window count, this one included.
RecordFailure(a) ==
    LET recent == Recent(Append(failures[a], 0))
    IN  /\ failures' = [failures EXCEPT ![a] = recent]
        /\ locked' = IF Len(recent) >= MaxFailures
                     THEN [locked EXCEPT ![a] = Lockout] ELSE locked

RecordSuccess(a) ==
    /\ failures' = [failures EXCEPT ![a] = <<>>]
    /\ locked' = [locked EXCEPT ![a] = None]

-----------------------------------------------------------------------------
(* The lists of addresses *)

Refused(a) == a \in Filtered        \* not IPFilter.is_allowed
Exempt(a) == a \in Internal         \* is_internal
Outside(a) == a \in Foreign         \* not is_ip_allowed

-----------------------------------------------------------------------------
(* A request *)

Unasked == UNCHANGED bucket /\ verdict' = None

Move(r, at) == req' = [req EXCEPT ![r].at = at]

\* The request needs its address and path no more.
Ends(r, at) == req' = [req EXCEPT ![r] = [Idle EXCEPT !.at = at]]

Enters(r, a, p) == req' = [req EXCEPT ![r] = [at |-> "inner", from |-> a, path |-> p]]

\* The outer middleware has no await before it passes the request on.  A public
\* path passes; a plain http request is redirected where https is forced; an
\* address may be filtered or locked.
Bypass(r, a) ==
    /\ req[r].at = "idle"
    /\ Enters(r, a, "public")
    /\ UNCHANGED <<failures, locked>> /\ Unasked

Redirect(r, a, p) ==
    /\ req[r].at = "idle"
    /\ Ends(r, "answered")
    /\ UNCHANGED <<failures, locked>> /\ Unasked

Filter(r, a, p) ==
    /\ req[r].at = "idle" /\ Refused(a)
    /\ Ends(r, "answered")
    /\ UNCHANGED <<failures, locked>> /\ Unasked

LockOut(r, a) ==
    /\ req[r].at = "idle" /\ ~Refused(a) /\ Locked(a)
    /\ Ends(r, "answered")
    /\ UNCHANGED <<failures, locked>> /\ Unasked

Admit(r, a, p) ==
    /\ req[r].at = "idle" /\ ~Refused(a)
    /\ p = "auth" => ~Locked(a)
    /\ IF p = "auth" THEN ForgetOver(a) ELSE UNCHANGED <<locked, failures>>
    /\ IF Exempt(a)
       THEN Enters(r, a, p) /\ Unasked
       ELSE /\ Take(<<a, p>>)
            /\ IF Allowed(<<a, p>>) THEN Enters(r, a, p)
               ELSE Ends(r, "answered")

\* The inner middleware checks the networks, except for some of the public paths.
Inner(r) ==
    /\ req[r].at = "inner"
    /\ \/ Outside(req[r].from) /\ Ends(r, "log")
       \/ (~Outside(req[r].from) \/ req[r].path = "public") /\ Move(r, "handler")
    /\ UNCHANGED <<failures, locked>> /\ Unasked

IssueTokenKeepsCount(r) ==        \* mutant: a success forgets the lock, not the failures
    /\ req[r].at = "handler" /\ req[r].path = "auth"
    /\ locked' = [locked EXCEPT ![req[r].from] = None]
    /\ Ends(r, "log")
    /\ UNCHANGED failures /\ Unasked

\* issue_token, back from reading the body: the key is right or wrong.
IssueToken(r) ==
    /\ req[r].at = "handler" /\ req[r].path = "auth"
    /\ RecordSuccess(req[r].from)
    /\ Ends(r, "log")
    /\ Unasked

RefuseKey(r) ==
    /\ req[r].at = "handler" /\ req[r].path = "auth"
    /\ RecordFailure(req[r].from)
    /\ Ends(r, "log")
    /\ Unasked

\* Any other handler: verify_api_key lets it run or not.
Handle(r) ==
    /\ req[r].at = "handler" /\ req[r].path # "auth"
    /\ Ends(r, "log")
    /\ UNCHANGED <<failures, locked>> /\ Unasked

\* An exception no handler of its own turns into a response passes both
\* middlewares: the client gets a 500, the audit log nothing.
HandlerRaises(r) ==
    /\ req[r].at = "handler"
    /\ Ends(r, "answered")
    /\ UNCHANGED <<failures, locked>> /\ Unasked

\* AuditLogger.log swallows what its INSERT raises: logged or not, the request is answered.
Audit(r) ==
    /\ req[r].at = "log"
    /\ Ends(r, "answered")
    /\ UNCHANGED <<failures, locked>> /\ Unasked

\* The response is on its way; the next request may use the slot.
Respond(r) ==
    /\ req[r].at = "answered"
    /\ req' = [req EXCEPT ![r] = Idle]
    /\ UNCHANGED <<failures, locked>> /\ Unasked

-----------------------------------------------------------------------------
\* The clock.
Tick ==
    /\ bucket' = [k \in Keys |-> IF bucket[k] = None THEN None
                     ELSE [bucket[k] EXCEPT !.idle = Capped(@ + 1, MaxIdle + 1)]]
    /\ failures' = [a \in Addresses |->
          [i \in DOMAIN failures[a] |-> Capped(failures[a][i] + 1, Lockout)]]
    /\ locked' = [a \in Addresses |-> IF Locked(a) THEN locked[a] - 1 ELSE locked[a]]
    /\ UNCHANGED req /\ verdict' = None

Proceed(r) ==
    Inner(r) \/ IssueToken(r) \/ RefuseKey(r) \/ Handle(r) \/ HandlerRaises(r)
    \/ Audit(r) \/ Respond(r)

Next ==
    \/ \E r \in Requests :
        \/ \E a \in Addresses :
            \/ Bypass(r, a) \/ LockOut(r, a)
            \/ \E p \in Limited : Redirect(r, a, p) \/ Filter(r, a, p) \/ Admit(r, a, p)
        \/ Proceed(r)
    \/ Cleanup \/ Tick

Spec == Init /\ [][Next]_vars

-----------------------------------------------------------------------------
(* Properties *)

\* However long a key was left alone, and whether or not its bucket was cleaned up,
\* RateLimiter behaves as a bucket that is refilled all the time: the code refills
\* only when asked, from the age of the bucket.
Verdict(k) == IF verdict # None /\ verdict[1] = k THEN verdict[2] ELSE "none"

Eager(k) == INSTANCE TokenBucket WITH
    Full <- Full[k[2]], Rate <- Rate[k[2]], level <- Refilled(k), verdict <- Verdict(k)

LimitsAsBucket ==
    /\ \A k \in Keys : Eager(k)!Init
    /\ [][\A k \in Keys : Eager(k)!Next \/ UNCHANGED <<Refilled(k), Verdict(k)>>]_vars

\* One failure more than the threshold allows locks at once, whatever successes,
\* expiries and attempts under way there were before.
UnlockedBelowThreshold ==
    \A a \in Addresses : locked[a] = None => Len(failures[a]) < MaxFailures

=============================================================================
