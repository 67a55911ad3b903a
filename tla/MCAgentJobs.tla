---------------------------- MODULE MCAgentJobs ----------------------------
(* AgentJobs on small instances: one or two jobs, and two place calls that *)
(* may race for one of them.                                               *)
EXTENDS AgentJobs, TLC

EitherAnswer == BOOLEAN    \* what schemas.py allows, and the unit tests send
StepsAlways == {TRUE}      \* what BrowserOrderAgent sends

Symmetry == Permutations(Jobs) \cup Permutations(Places) \cup Permutations(Cancels)
=============================================================================
