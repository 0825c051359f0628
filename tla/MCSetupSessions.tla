---------------------------- MODULE MCSetupSessions ---------------------------
(* Instances of SetupSessions for TLC. *)
EXTENDS SetupSessions, TLC

MCValueRows == <<"honesty", "growth">>

\* The default analysis, which has no goals, one with goals and a single value, and one
\* that names the values in another order.
MCAnalyses == {<<"honesty", "growth">>, <<"growth", "inserts">>,
               <<"growth", "honesty", "inserts">>}
=============================================================================
