--------------------------- MODULE MCActionHub ------------------------------
(* Instances of ActionHub for TLC.                                         *)
EXTENDS ActionHub, TLC

CONSTANTS e1, e2, p1, p2

MoveAB == [name |-> "move", args |-> <<"r1", "a", "b">>]
MoveBC == [name |-> "move", args |-> <<"r2", "b", "c">>]

\* A plan of two actions that may run at the same time; p1 takes any robot's
\* moves, p2 only those of r2.
MCExecutors  == {e1, e2}
MCPerformers == {p1, p2}
MCAlone      == {p1}
MCActionOf   == (e1 :> MoveAB) @@ (e2 :> MoveBC)
MCNoOrder    == (e1 :> {}) @@ (e2 :> {})
MCManaged    == [p \in MCPerformers |-> "move"]
MCSpecialized == (p1 :> <<>>) @@ (p2 :> <<"r2", "">>)
=============================================================================
