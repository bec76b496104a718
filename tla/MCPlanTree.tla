----------------------------- MODULE MCPlanTree -----------------------------
(***************************************************************************)
(* A small house for PlanTree: two robots move between two rooms through a *)
(* door, which a robot in room b closes and opens, and carry an object.    *)
(* The plans are all the sequential ones of at most MaxLength actions: an  *)
(* action finds its requirements when those before it are done.            *)
(***************************************************************************)
EXTENDS PlanTree

CONSTANT MaxLength

Robots == {"r1", "r2"}
Rooms == {"a", "b"}

Move(r, x, y) ==
    [atStart |-> <<<<r, x>>>>, overAll |-> <<<<"door", "open">>>>, atEnd |-> <<>>,
     startAdd |-> {}, startDel |-> {<<r, x>>}, endAdd |-> {<<r, y>>}, endDel |-> {}]

Pick(r, x) ==
    [atStart |-> <<<<"o", x>>>>, overAll |-> <<<<r, x>>>>, atEnd |-> <<>>,
     startAdd |-> {}, startDel |-> {<<"o", x>>}, endAdd |-> {<<"o", r>>}, endDel |-> {}]

Drop(r, x) ==
    [atStart |-> <<<<"o", r>>>>, overAll |-> <<>>, atEnd |-> <<<<r, x>>>>,
     startAdd |-> {}, startDel |-> {}, endAdd |-> {<<"o", x>>}, endDel |-> {<<"o", r>>}]

Give(r, s, x) ==
    [atStart |-> <<<<"o", r>>>>, overAll |-> <<<<r, x>>, <<s, x>>>>, atEnd |-> <<>>,
     startAdd |-> {}, startDel |-> {<<"o", r>>}, endAdd |-> {<<"o", s>>}, endDel |-> {}]

Close(r) ==
    [atStart |-> <<<<"door", "open">>>>, overAll |-> <<<<r, "b">>>>, atEnd |-> <<>>,
     startAdd |-> {}, startDel |-> {<<"door", "open">>},
     endAdd |-> {<<"door", "closed">>}, endDel |-> {}]

Open(r) ==
    [atStart |-> <<<<"door", "closed">>>>, overAll |-> <<<<r, "b">>>>, atEnd |-> <<>>,
     startAdd |-> {}, startDel |-> {<<"door", "closed">>},
     endAdd |-> {<<"door", "open">>}, endDel |-> {}]

Actions ==
    {Move(r, x, y) : <<r, x, y>> \in {m \in Robots \X Rooms \X Rooms : m[2] # m[3]}}
        \cup {Pick(r, x) : <<r, x>> \in Robots \X Rooms}
        \cup {Drop(r, x) : <<r, x>> \in Robots \X Rooms}
        \cup {Give(r, s, x) : <<r, s, x>> \in {m \in Robots \X Robots \X Rooms : m[1] # m[2]}}
        \cup {Close(r) : r \in Robots}
        \cup {Open(r) : r \in Robots}

MCInitially == {<<"r1", "a">>, <<"r2", "b">>, <<"o", "a">>, <<"door", "open">>}

IsPossible(a, state) ==
    /\ ToSet(a.atStart) \subseteq state
    /\ ToSet(a.overAll) \subseteq state \cap AtStart(state, a)
    /\ ToSet(a.atEnd) \subseteq AtStart(state, a)

OneMore(p) ==
    {Append(p, a) : a \in {b \in Actions : IsPossible(b, FoldLeft(Apply, MCInitially, p))}}

\* The sequential plans of k actions.
PlansOf[k \in 0..MaxLength] ==
    IF k = 0 THEN {<<>>} ELSE UNION {OneMore(p) : p \in PlansOf[k - 1]}

MCPlans == UNION {PlansOf[k] : k \in 1..MaxLength}
=============================================================================
