---------------------------- MODULE DerivedGraph ----------------------------
(***************************************************************************)
(* The graph of derived predicates: which rules, predicates and functions  *)
(* the rules and the actions of a domain depend on.  An edge goes from a   *)
(* node to one that needs it.  A rule is a node, so that two rules for the *)
(* same predicate are two nodes; names of parameters do not tell nodes     *)
(* apart.  Of a precondition only the predicates and functions that occur  *)
(* in it matter, negated, quantified or not.                               *)
(***************************************************************************)
EXTENDS Naturals, FiniteSets, FiniteSetsExt

\* Nodes: a predicate or function, a rule for the predicate head, an action.
Atom(name)          == [kind |-> "atom", name |-> name]
Derived(head, needs) == [kind |-> "derived", head |-> head, needs |-> needs]
Action(name, needs) == [kind |-> "action", name |-> name, needs |-> needs]

NoGraph == [edges |-> {}, nodes |-> {}, roots |-> {}, derived |-> {}, actions |-> {}]

Children(g, n) == {e[2] : e \in {f \in g.edges : f[1] = n}}
Parents(g, n)  == {e[1] : e \in {f \in g.edges : f[2] = n}}

AddNode(g, n) ==
    IF n \in g.nodes THEN g
    ELSE [g EXCEPT !.nodes = @ \cup {n},
                   !.roots = IF Parents(g, n) = {} THEN @ \cup {n} ELSE @]

\* The edge itself, and the rules and actions that it makes known.
Link(g, u, v) ==
    LET OfKind(kind) == {n \in {u, v} : n.kind = kind}
    IN  [g EXCEPT !.edges   = @ \cup {<<u, v>>},
                  !.derived = @ \cup OfKind("derived"),
                  !.actions = @ \cup OfKind("action")]

AddEdge(g, u, v) == [AddNode(AddNode(Link(g, u, v), u), v) EXCEPT !.roots = @ \ {v}]

AddEdges(g, edges) == FoldSet(LAMBDA e, h : AddEdge(h, e[1], e[2]), g, edges)

\* What a rule or an action needs is a rule for it, if the graph knows one.
AddEdgeFromPreconditions(g, node) ==
    LET RulesFor(name) == {d \in g.derived : d.head = name}
        Sources(name)  == IF RulesFor(name) = {} THEN {Atom(name)} ELSE RulesFor(name)
    IN  AddEdges(g, (UNION {Sources(name) : name \in node.needs}) \X {node})

\* The constructors from a collection of rules.
GraphOf(rules) ==
    FoldSet(LAMBDA d, g : AddEdgeFromPreconditions(g, d), [NoGraph EXCEPT !.derived = rules], rules)

AppendActions(g, actions) ==
    FoldSet(LAMBDA a, h : AddEdgeFromPreconditions(h, a), g, actions)

\* clear() forgets edges and nodes, and keeps rules and actions.
Clear(g) == [g EXCEPT !.edges = {}, !.nodes = {}, !.roots = {}]

\* What a traversal without dependencies visits: the nodes themselves and all that
\* can be reached from them.
Closure(g, edges, from) ==
    LET reach[i \in Nat] ==
            IF i = 0 THEN from
            ELSE LET last == reach[i - 1] IN last \cup {e[2] : e \in {f \in edges : f[1] \in last}}
    IN  reach[Cardinality(g.nodes)]
Descendants(g, from) == Closure(g, g.edges, from)
Ancestors(g, from)   == Closure(g, {<<e[2], e[1]>> : e \in g.edges}, from)

getSubGraphFromNodes(g, from) ==
    LET visited == Descendants(g, from)
        leaves  == {n \in visited : Children(g, n) = {}}
    IN  AddEdges(FoldSet(LAMBDA n, h : AddNode(h, n), NoGraph, leaves),
                 {e \in g.edges : e[1] \in visited})

\* Mutant of pruneGraphToActions: what the actions need for themselves is enough.
pruneGraphToNeeds(g, actions) ==
    AddEdges(NoGraph, {e \in g.edges : e[2] \in actions})

pruneGraphToActions(g, actions) ==
    AddEdges(NoGraph, {e \in g.edges : e[2] \in Ancestors(g, actions)})
=============================================================================
