----------------------------- MODULE MCPlanner ------------------------------
(* Two solvers, with one directory or two, and two requests.               *)
EXTENDS Planner

CONSTANTS s1, s2

\* The default directory for both, or one for each.
MCLayouts == {[s \in Solvers |-> "d1"], [s \in Solvers |-> IF s = s1 THEN "d1" ELSE "d2"]}

Entry(s) ==
    [name |-> s, base |-> BaseClass, readable |-> TRUE, typed |-> TRUE,
     importable |-> TRUE, hasClass |-> TRUE, constructs |-> TRUE]

\* The plugin of one solver can be loaded, that of the other cannot.
MCInstalled == {Entry(s1), [Entry(s2) EXCEPT !.importable = FALSE]}
=============================================================================
