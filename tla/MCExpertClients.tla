-------------------------- MODULE MCExpertClients --------------------------
(* One robot that comes and goes, and the charge of its battery.  Requests *)
(* for predicates and goals are served too, and refused.                   *)
EXTENDS ExpertClients

MCSignature ==
    [battery |-> <<[type |-> "robot", subTypes |-> {}]>>]

Atom(name) == [name |-> name, args |-> <<"r1">>]

MCNames == {"r1"}
MCTypes == {"robot"}
MCConstants == [t \in MCTypes |-> {}]
MCPredicates == {Atom("unknown")}
MCFunctions == {Atom("battery")}
MCGoals == {NoGoal}
MCProblem ==
    [readable |-> TRUE, objects |-> [n \in MCNames |-> "robot"],
     init |-> {}, values |-> [f \in MCFunctions |-> None], goal |-> NoGoal]
MCProblems == {MCProblem}

\* Every method that changes something, and one of those that do not for each
\* way they are served and heard.
MCMethods ==
    {m \in CppMethods : m.dates}
    \cup {CppGetProblem, CppExistPredicate, CppIsGoalSatisfied}
    \cup (PyMethods \cap {py_add_problem_function, py_get_problem})

\* The node has every service that its clients call.
MCServices == {m.service : m \in CppMethods \cup PyMethods}
=============================================================================
