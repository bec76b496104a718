----------------------------- MODULE MCFormulas -----------------------------
(* A robot and a hall: whether it is there, whether it is charged, and how *)
(* much; it is idle, which is derived, when it is neither.                 *)
EXTENDS Formulas

MCNames == {"robot1", "hall"}
MCTypes == {"robot", "room"}
MCConstants == [t \in MCTypes |-> {}]
Slot(type) == [type |-> type, subTypes |-> {}]
MCSignature ==
    [robot_at |-> <<Slot("robot"), Slot("room")>>, charged |-> <<Slot("robot")>>,
     idle |-> <<Slot("robot")>>, battery |-> <<Slot("robot")>>]

Atom(name, args) == [name |-> name, args |-> args]
AtHall == Atom("robot_at", <<"robot1", "hall">>)
Charged == Atom("charged", <<"robot1">>)
IdleAtom == Atom("idle", <<"robot1">>)
Battery == Atom("battery", <<"robot1">>)

MCPredicates == {AtHall, Charged, IdleAtom}
MCFunctions == {Battery}
MCRules == {[head |-> IdleAtom, pos |-> {}, neg |-> {AtHall, Charged}]}

MCStart ==
    [instances |-> [n \in MCNames |-> IF n = "hall" THEN "room" ELSE "robot"],
     predicates |-> {AtHall}, functions |-> [f \in MCFunctions |-> 1], goal |-> NoGoal]

Tree(type, children) == [type |-> type, children |-> children]
P(atom) == [type |-> "PREDICATE", atom |-> atom, children |-> <<>>]
F(atom) == [type |-> "FUNCTION", atom |-> atom, children |-> <<>>]
N(value) == [type |-> "NUMBER", value |-> value, children |-> <<>>]
X(op, l, r) == [type |-> "EXPRESSION", op |-> op, children |-> <<l, r>>]
M(op, l, r) == [type |-> "MODIFIER", op |-> op, children |-> <<l, r>>]
Some(names, f) == [type |-> "EXISTS", vars |-> names, children |-> <<f>>]
Param(name) == [type |-> "PARAMETER", name |-> name, children |-> <<>>]

SomeoneAt == P(Atom("robot_at", <<"?r", "hall">>))

MCConditions == {
    Tree("AND", <<P(AtHall), Not(P(Charged)), X(">=", F(Battery), N(1))>>),
    Tree("OR", <<P(IdleAtom), X("<", X("-", F(Battery), N(1)), N(1))>>),
    Some(<<"?r", "?l">>, Tree("AND", <<P(Atom("robot_at", <<"?r", "?l">>)),
                                       Not(X("=", Param("?r"), Param("?l")))>>)),
    Tree("AND", <<Not(X(">", F(Battery), X("/", N(4), N(2)))),
                  Tree("OR", <<X("<=", X("*", F(Battery), N(2)), N(2)), P(Charged)>>)>>),
    Not(Tree("AND", <<P(AtHall), Tree("OR", <<P(Charged), Not(P(IdleAtom))>>)>>)),
    Not(Some(<<"?r">>, SomeoneAt))}

MCEffects == {
    Tree("AND", <<Not(P(AtHall)), P(Charged), M("increase", F(Battery), N(1))>>),
    Tree("AND", <<M("assign", F(Battery), X("+", F(Battery), N(2))), Not(P(Charged))>>)}
=============================================================================
