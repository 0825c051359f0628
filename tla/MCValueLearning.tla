---------------------------- MODULE MCValueLearning ----------------------------
(* Instances of ValueLearning for TLC. *)
EXTENDS ValueLearning, TLC

CONSTANTS honesty, logic, request, scheduler

MCValues == {honesty, logic}
MCCallers == {request, scheduler}

\* The requests, one after the other, do all but consolidate, which the scheduler does.
MCCalls == (request :> {"read", "add", "restore", "sample"}) @@ (scheduler :> {"consolidate"})

Vector(h, l) == (honesty :> h) @@ (logic :> l)

MCDefaultIdeal == Vector(2, 1)
MCIdeals == {MCDefaultIdeal, Vector(0, 2)}
MCBackup == Vector(2, 0)
MCSeed == Vector(0, 1)
=============================================================================
