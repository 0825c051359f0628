---------------------------- MODULE MCTaskPipeline ----------------------------
(* Instances of TaskPipeline for TLC: tasks 1..n, agents by parity. *)
EXTENDS TaskDelivery, TLC

MCAgents == {"dev", "sales"}

\* Task 1 and 3 are the dev agent's, task 2 is the sales agent's.
MCAgentOf == [t \in Tasks |-> IF t = 2 THEN "sales" ELSE "dev"]

WorkerSymmetry == Permutations(Workers)
=============================================================================
