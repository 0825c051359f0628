------------------------------ MODULE TokenBucket ------------------------------
(***************************************************************************)
(* What a rate limiter promises for one key: a bucket that is refilled at   *)
(* every tick of the clock, from which every request that passes takes one *)
(* token; a request is refused only when there is no whole token.           *)
(***************************************************************************)
EXTENDS Integers

CONSTANTS
    Token,      \* parts of a token: what one request takes
    Full,       \* parts in a full bucket
    Rate        \* parts that one tick brings

VARIABLES
    level,      \* parts in the bucket
    verdict     \* on the request of the last step, "none" when it was no request

Init == level = Full /\ verdict = "none"

Pass == level >= Token /\ level' = level - Token /\ verdict' = "pass"

Refuse == level < Token /\ verdict' = "refuse" /\ UNCHANGED level

Tick == level' = (IF level + Rate > Full THEN Full ELSE level + Rate) /\ verdict' = "none"

Rest == UNCHANGED level /\ verdict' = "none"

Next == Pass \/ Refuse \/ Tick \/ Rest

Spec == Init /\ [][Next]_<<level, verdict>>
=============================================================================
