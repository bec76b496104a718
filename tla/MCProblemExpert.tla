-------------------------- MODULE MCProblemExpert --------------------------
(* A robot, a room and a dock, which is a constant of a subtype of rooms.  *)
(* The robot is busy while it is at the dock, which no client need say.    *)
EXTENDS ProblemExpert

MCNames == {"robot1", "hall", "dock"}
MCTypes == {"robot", "room", "station"}
MCConstants == [t \in MCTypes |-> IF t = "station" THEN {"dock"} ELSE {}]

Slot(type, subTypes) == [type |-> type, subTypes |-> subTypes]

MCSignature ==
    [robot_at |-> <<Slot("robot", {}), Slot("room", {"station"})>>,
     docked |-> <<Slot("station", {})>>,
     busy |-> <<Slot("robot", {})>>,
     battery |-> <<Slot("robot", {})>>]

Atom(name, args) == [name |-> name, args |-> args]

AtHall == Atom("robot_at", <<"robot1", "hall">>)
AtDock == Atom("robot_at", <<"robot1", "dock">>)
Docked == Atom("docked", <<"dock">>)
Busy == Atom("busy", <<"robot1">>)
NoSuch == Atom("parked", <<"robot1">>)
TooFew == Atom("robot_at", <<"robot1">>)
Battery == Atom("battery", <<"robot1">>)

MCPredicates == {AtHall, AtDock, Docked, Busy, TooFew, NoSuch}
MCFunctions == {Battery}
MCValues == {1, 2}
MCRules == {[head |-> Busy, pos |-> {Docked}, neg |-> {AtHall}]}

Empty == [f \in {} |-> 0]
Charged == [f \in {Battery} |-> 2]
Part(pos, neg, atLeast, nested) ==
    [pos |-> pos, neg |-> neg, atLeast |-> atLeast, nested |-> nested]

Goto == Part({AtHall}, {}, Empty, FALSE)
Leave == Part({Docked}, {AtHall}, Empty, FALSE)
Charge == Part({}, {}, Charged, FALSE)
Either == Part({}, {}, Charged, TRUE)
MCSubgoals == {Goto, Leave, Charge, Either}

Goal(root, parts) == [root |-> root, parts |-> parts]
MCGoals == {Goal("AND", {Goto, Charge}), Goal("AND", {Leave, Either}),
            Goal("OTHER", {Leave}), Goal("AND", {}), Goal("EXISTS", {Goto})}

Problem(readable, objects, init, values, goal) ==
    [readable |-> readable, objects |-> objects, init |-> init,
     values |-> values, goal |-> goal]

Objects == [n \in MCNames |-> CASE n = "robot1" -> "robot"
                                [] n = "hall" -> "room" [] OTHER -> None]
Full == Problem(TRUE, Objects, {AtHall, Docked}, [f \in MCFunctions |-> 1],
                Goal("AND", {Goto}))
Broken == [Full EXCEPT !.readable = FALSE]
MCProblems == {Full, Broken}
MCProblemFile == Full
MCRequestedTypes == {"robot", "station", "vehicle"}
=============================================================================
