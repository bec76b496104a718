--------------------------- MODULE MCDomainExpert ---------------------------
(* A house in two files, and files that go wrong: one with a requirement   *)
(* and one with a type the parser does not know, one without :typing.      *)
EXTENDS DomainExpert

File(name, requirements) ==
    [name |-> name, requirements |-> requirements, types |-> <<>>,
     constants |-> <<>>, predicates |-> {}, functions |-> <<>>, derived |-> <<>>,
     actions |-> <<>>]

Word(name, dash) == [name |-> name, dash |-> dash]

Pred(line, name, params) == [line |-> line, name |-> name, params |-> params]

Action(name, params, uses, durative) ==
    [name |-> name, params |-> params, uses |-> uses, durative |-> durative]

\* (:types robot - object room corridor): the last two have no dash.
House ==
    [File("house", {"strips", "typing"}) EXCEPT
        !.types = <<Word("robot", "object"), Word("room", None), Word("corridor", None)>>,
        !.constants = <<Word("leia", "robot")>>,
        !.predicates = {Pred(2, "robot_at", <<"robot", "room">>)},
        !.functions = <<[name |-> "speed", params |-> <<"robot">>]>>,
        !.actions = <<Action("move", <<"robot", "room">>, {"robot_at", "speed"}, TRUE)>>]

\* (:types kitchen - place gripper): places, the rooms of the house with them.
Kitchen ==
    [File("kitchen", {"typing", "derived-predicates"}) EXCEPT
        !.types = <<Word("kitchen", "place"), Word("gripper", None)>>,
        !.predicates = {Pred(1, "clean", <<"kitchen">>), Pred(3, "robot_at", <<"gripper">>)},
        !.derived = <<[name |-> "robot_at", params |-> <<"gripper">>, uses |-> {"clean"}]>>,
        !.actions = <<Action("cook", <<"kitchen">>, {"clean"}, FALSE),
                      Action("move", <<"kitchen">>, {"clean"}, TRUE)>>]

\* (:types hall - room): after the house, a room is a room is a room.
Annex == [File("annex", {"typing"}) EXCEPT !.types = <<Word("hall", "room")>>]

\* (:types cup object): "object" is declared, and is no longer the root.
Cups == [File("cups", {"typing"}) EXCEPT
            !.types = <<Word("cup", None), Word("object", None)>>]

Windows == [File("windows", {"timed-initial-literals"}) EXCEPT
               !.predicates = {Pred(4, "open", <<>>)}]

Ghosts == [File("ghosts", {}) EXCEPT !.predicates = {Pred(5, "seen", <<"ghost">>)},
               !.functions = <<[name |-> "weight", params |-> <<"ghost">>]>>]

Untyped == [File("untyped", {"strips"}) EXCEPT !.types = <<Word("robot", None)>>]

MCContent ==
    [house |-> House, kitchen |-> Kitchen, annex |-> Annex, cups |-> Cups,
     windows |-> Windows, ghosts |-> Ghosts, untyped |-> Untyped, missing |-> None]

MCModelFiles ==
    {<<>>, <<"house", "kitchen">>, <<"kitchen", "house">>,
     <<"missing", "cups", "house">>, <<"windows", "house">>, <<"house", "ghosts">>,
     <<"house", "annex">>, <<"untyped">>}

MCAsked == {"move", "robot_at"}

MCKnown == {"strips", "typing", "derived-predicates"}

MCNodeServices == NodeServices

\* A method for every service that the node makes, and one for that it does not.
MCMethods ==
    {m \in CppMethods : m.service \in NodeServices} \cup {py_get_domain_constants}
=============================================================================
