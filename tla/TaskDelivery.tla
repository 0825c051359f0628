----------------------------- MODULE TaskDelivery -----------------------------
(***************************************************************************)
(* TaskPipeline implements AtMostOnce: where the job of a task is follows  *)
(* from the Redis list, the workers' memories and the request that pushes  *)
(* it.  A task no request has queued yet, or ever will, is unsent.         *)
(***************************************************************************)
EXTENDS TaskPipeline

HeldByWorker == {job[w] : w \in Workers}

Stage(t) ==
    IF t \in Queued THEN "waiting"
    ELSE IF t \in HeldByWorker THEN "taken"
    ELSE IF request[t] \in {"accepted", "refused"} THEN "over"
    ELSE "unsent"

Delivery == INSTANCE AtMostOnce WITH
                Jobs <- Tasks, stage <- [t \in Tasks |-> Stage(t)]

\* Redis, the workers and every fault together deliver a job at most once: it
\* is never taken by a second worker, and never back in the list once taken.
DeliversAtMostOnce == Delivery!Spec
=============================================================================
