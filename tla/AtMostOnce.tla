------------------------------ MODULE AtMostOnce ------------------------------
(***************************************************************************)
(* What the Redis list of jobs promises: at-most-once delivery.  A job is  *)
(* sent, waits, is taken by one worker, and is over; a fault may end it at *)
(* any stage, and no stage is ever entered twice.                          *)
(***************************************************************************)
CONSTANT Jobs

VARIABLE stage

Init == stage = [j \in Jobs |-> "unsent"]

Step(j, from, to) == stage[j] = from /\ stage' = [stage EXCEPT ![j] = to]

Send(j) == Step(j, "unsent", "waiting")
Take(j) == Step(j, "waiting", "taken")
End(j)  == Step(j, "taken", "over")

\* A fault loses the jobs of S, wherever they are.
Lose(S) == stage' = [j \in Jobs |-> IF j \in S THEN "over" ELSE stage[j]]

Next ==
    \/ \E j \in Jobs : Send(j) \/ Take(j) \/ End(j)
    \/ \E S \in SUBSET Jobs : Lose(S)

Spec == Init /\ [][Next]_stage
=============================================================================
