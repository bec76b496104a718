-------------------------- MODULE MCExecutorClient --------------------------
(* Two goals of the client, in C++ or Python.                               *)
EXTENDS ExecutorClient

CONSTANTS g1, g2

MCGoals == {g1, g2}

MCClientGoals == {g1, g2}
=============================================================================
