------------------------------ MODULE FactBase ------------------------------
(***************************************************************************)
(* What the problem expert promises of its knowledge: things come and go,  *)
(* facts are about things, and a fact does not outlive a thing it is       *)
(* about.  ProblemExpert implements it.                                    *)
(***************************************************************************)
CONSTANTS
    Things,     \* what there may be
    Permanent,  \* the things there always are
    Facts,      \* what may be known
    About,      \* the things each fact is about
    Beginnings  \* [things, facts] it may start again from

VARIABLES things, facts

Init == things = {} /\ facts = {}

\* Things and facts about known things are learned, in any number.
Learn ==
    /\ things' \in SUBSET Things
    /\ facts' \in SUBSET Facts
    /\ things \subseteq things'
    /\ facts \subseteq facts'
    /\ \A f \in facts' \ facts : About[f] \subseteq things' \cup Permanent

\* A thing goes, and whatever is about it.
Forget(t) ==
    /\ things' = things \ {t}
    /\ facts' = {f \in facts : t \notin About[f]}

Retract(f) ==
    /\ facts' = facts \ {f}
    /\ UNCHANGED things

\* All is forgotten, for one of the beginnings.
Restart ==
    \E b \in Beginnings : things' = b.things /\ facts' = b.facts

Next ==
    \/ Learn
    \/ \E t \in Things : Forget(t)
    \/ \E f \in Facts : Retract(f)
    \/ Restart

Spec == Init /\ [][Next]_<<things, facts>>
=============================================================================
