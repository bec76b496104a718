----------------------------- MODULE RuleOrder ------------------------------
(***************************************************************************)
(* The methods of State that list the rules of its graph: the traversals   *)
(* of DerivedResolutionGraph step by step, depth first along the edges,    *)
(* waiting for the parents of a node or not, backwards from actions, and   *)
(* Tarjan's algorithm for the components that are recursive.  The sets of  *)
(* the code have no order: whenever one is iterated, any order is possible. *)
(***************************************************************************)
EXTENDS State, Sequences, SequencesExt

Jobs == {"depth first", "waiting", "backwards", "components"}

VARIABLES
    job,            \* which traversal, "none" for none
    from,           \* where it starts, {} for all roots of the graph
    walked,         \* the graph that is traversed
    todo,           \* starts whose own traversal is still to come
    stack,          \* nodes to visit, the next one last
    visited,        \* nodes that have been visited
    listed,         \* the rules, in the order in which they are given out
    frames,         \* calls of strongConnect: node and the children to come
    index, lowlink, \* of the rules that Tarjan's algorithm has met
    path,           \* its stack
    sccs            \* the components found, the latest one last

callVars   == <<job, from, walked>>
walkVars   == <<todo, stack, visited, listed>>
tarjanVars == <<frames, index, lowlink, path, sccs>>
queryVars  == <<callVars, walkVars, tarjanVars>>
allVars    == <<vars, queryVars>>

\* The vectors that hold a set, in the order of its iteration.
Orders(S) == SetToSeqs(S)

\* What a step of the traversal leads to.
Neighbors(n) == IF job = "backwards" THEN Parents(walked, n) ELSE Children(walked, n)

\* Mutant of parentsVisited: one of the parents is enough.
aParentVisited(n) == Parents(walked, n) = {} \/ Parents(walked, n) \cap visited # {}

parentsVisited(n) == Parents(walked, n) \subseteq visited

\* What the methods with root_nodes look at: everything without one.
Selected(g, nodes) == IF nodes = {} THEN g ELSE getSubGraphFromNodes(g, nodes)

QueryInit ==
    /\ Init
    /\ job = "none" /\ from = {} /\ walked = NoGraph
    /\ todo = <<>> /\ stack = <<>> /\ visited = {} /\ listed = <<>>
    /\ frames = <<>> /\ path = <<>> /\ sccs = <<>>
    /\ index = [d \in {} |-> 0] /\ lowlink = index

\* Bound: traversals, which read the graph only, start from states with nothing else.
Bare == objects = {} /\ predicates = {} /\ inferred = {} /\ both = {} /\ decoded = {}

\* Starts are predicates or functions, that of backwards traversals are actions.
Begin ==
    /\ job = "none" /\ pending = {} /\ Bare
    /\ job' \in Jobs
    /\ IF job' = "backwards"
       THEN /\ from' \in SUBSET graph.actions \ {{}} /\ todo' \in Orders(from')
            /\ walked' = graph /\ stack' = <<>>
       ELSE /\ from' \in SUBSET {m \in graph.nodes : m.kind = "atom"}
            /\ walked' = Selected(graph, from') /\ todo' = <<>>
            /\ stack' \in IF job' = "components" THEN {<<>>}
                          ELSE Orders(IF from' = {} THEN walked'.roots ELSE from')
    /\ UNCHANGED <<visited, listed, tarjanVars>>

-----------------------------------------------------------------------------
(* depthFirstTraverse and backtrackTraverse.                               *)

Walks == job \in Jobs \ {"components"}

\* getDerivedPredicatesFromActions: the actions one after the other, and what one of
\* them has visited is not visited again.
NextStart ==
    /\ Walks /\ stack = <<>> /\ todo # <<>>
    /\ stack' = <<Head(todo)>> /\ todo' = Tail(todo)
    /\ UNCHANGED <<callVars, visited, listed, tarjanVars>>

\* A node that is visited already, or that has to wait for a parent.
Skip ==
    /\ Walks /\ stack # <<>>
    /\ Last(stack) \in visited \/ (job = "waiting" /\ ~parentsVisited(Last(stack)))
    /\ stack' = Front(stack)
    /\ UNCHANGED <<callVars, todo, visited, listed, tarjanVars>>

Visit ==
    /\ Walks /\ stack # <<>>
    /\ LET n == Last(stack)
           seen == visited \cup {n}
       IN  /\ n \notin visited /\ (job = "waiting" => parentsVisited(n))
           /\ visited' = seen
           /\ listed' = IF n.kind # "derived" THEN listed
                        ELSE IF job = "backwards" THEN <<n>> \o listed ELSE Append(listed, n)
           /\ \E order \in Orders(Neighbors(n) \ seen) : stack' = Front(stack) \o order
    /\ UNCHANGED <<callVars, todo, tarjanVars>>

-----------------------------------------------------------------------------
(* computeSCCsTarjanDerivedPredicates and strongConnect.                   *)

Met == DOMAIN index
DerivedChildren(d) == {n \in Children(walked, d) : n.kind = "derived"}
Smaller(m, n) == IF m < n THEN m ELSE n

\* The start of strongConnect(d), below the calls in "callers".
Enter(d, callers) ==
    LET with(f) == [e \in Met \cup {d} |-> IF e = d THEN Cardinality(Met) ELSE f[e]]
    IN  /\ index' = with(index) /\ lowlink' = with(lowlink)
        /\ path' = Append(path, d)
        /\ frames' = Append(callers, [node |-> d, left |-> DerivedChildren(d)])

StartComponent ==
    /\ job = "components" /\ frames = <<>>
    /\ \E d \in walked.derived \ Met : Enter(d, frames)
    /\ UNCHANGED <<callVars, walkVars, sccs>>

\* Mutant of LookAtChild: a child that is done counts as if it were on the stack.
LookAtAnyChild ==
    /\ frames # <<>>
    /\ LET top == Last(frames) IN
       \E child \in top.left :
          LET rest == Front(frames) \o <<[top EXCEPT !.left = @ \ {child}]>> IN
          \/ /\ child \notin Met /\ Enter(child, rest)
          \/ /\ child \in Met /\ frames' = rest /\ UNCHANGED <<index, path>>
             /\ lowlink' = [lowlink EXCEPT ![top.node] = Smaller(@, index[child])]
    /\ UNCHANGED <<callVars, walkVars, sccs>>

\* The next child: one that is new, one on the stack, or one that is done.
LookAtChild ==
    /\ frames # <<>>
    /\ LET top == Last(frames) IN
       \E child \in top.left :
          LET rest == Front(frames) \o <<[top EXCEPT !.left = @ \ {child}]>> IN
          \/ /\ child \notin Met /\ Enter(child, rest)
          \/ /\ child \in Met /\ frames' = rest /\ UNCHANGED <<index, path>>
             /\ lowlink' = IF child \in ToSet(path)
                           THEN [lowlink EXCEPT ![top.node] = Smaller(@, index[child])]
                           ELSE lowlink
    /\ UNCHANGED <<callVars, walkVars, sccs>>

\* The end of strongConnect: a root takes its component off the stack, and the caller
\* takes the lowlink over.
Return ==
    /\ frames # <<>> /\ Last(frames).left = {}
    /\ LET d == Last(frames).node
           at == CHOOSE i \in DOMAIN path : path[i] = d
           component == SubSeq(path, at, Len(path))
           isRoot == lowlink[d] = index[d]
       IN  /\ sccs' = IF isRoot THEN Append(sccs, ToSet(component)) ELSE sccs
           /\ path' = IF isRoot THEN SubSeq(path, 1, at - 1) ELSE path
           /\ frames' = Front(frames)
           /\ lowlink' = IF frames' = <<>> THEN lowlink
                         ELSE [lowlink EXCEPT ![Last(frames').node] = Smaller(@, lowlink[d])]
    /\ UNCHANGED <<callVars, walkVars, index>>

\* What State::getDerivedPredicatesSCCs returns.
getDerivedPredicatesSCCs == Reverse(sccs)

Over ==
    /\ frames = <<>> /\ stack = <<>> /\ todo = <<>>
    /\ job = "components" => walked.derived \subseteq Met

\* The list is returned.
Finish ==
    /\ job # "none" /\ Over
    /\ job' = "none" /\ from' = {} /\ walked' = NoGraph
    /\ todo' = <<>> /\ stack' = <<>> /\ visited' = {} /\ listed' = <<>>
    /\ frames' = <<>> /\ path' = <<>> /\ sccs' = <<>>
    /\ index' = [d \in {} |-> 0] /\ lowlink' = index'

Query ==
    Begin \/ NextStart \/ Skip \/ Visit \/ StartComponent \/ LookAtChild \/ Return \/ Finish

\* One method at a time.
QueryNext ==
    \/ Next /\ job = "none" /\ UNCHANGED queryVars
    \/ Query /\ UNCHANGED vars

QuerySpec == QueryInit /\ [][QueryNext]_allVars

-----------------------------------------------------------------------------
(* Properties                                                              *)

\* A node that is in a cycle, or needs one that is.
Recursive(n) == \E m \in Ancestors(walked, {n}) : m \in Ancestors(walked, Parents(walked, m))

Rules(nodes) == {n \in nodes : n.kind = "derived"}

\* A traversal that waits for parents gives no rule before all those it depends on,
\* whatever the order of the sets and of the starts is; and when it is over it has given
\* every rule that can be reached once, but for those that depend on a cycle.
\* The others give every rule once that can be reached, or that the actions depend on.
ListedInOrder ==
    /\ job = "waiting" =>
          \A i \in DOMAIN listed :
              Rules(Ancestors(walked, Parents(walked, listed[i]))) \subseteq
                  {listed[j] : j \in 1 .. i - 1}
    /\ Over /\ Walks =>
          LET reached == IF job = "backwards" THEN Ancestors(walked, from)
                         ELSE Descendants(walked, IF from = {} THEN walked.roots ELSE from)
          IN  /\ IsInjective(listed)
              /\ ToSet(listed) = {d \in Rules(reached) : job = "waiting" => ~Recursive(d)}

\* The components are the classes of rules that depend on one another, and they come
\* in an order in which no rule depends on one of a later component.
ComponentsInOrder ==
    Over /\ job = "components" =>
        LET Class(d) == {e \in walked.derived : d \in Ancestors(walked, {e})
                                             /\ e \in Ancestors(walked, {d})}
        IN  /\ ToSet(sccs) = {Class(d) : d \in walked.derived}
            /\ IsInjective(sccs)
            /\ \A i, j \in DOMAIN sccs :
                  i < j => \A d \in getDerivedPredicatesSCCs[j], e \in getDerivedPredicatesSCCs[i] :
                               d \notin Ancestors(walked, {e})
=============================================================================
