----------------------------- MODULE PlanGraph ------------------------------
(***************************************************************************)
(* SimpleBTBuilder: from a plan to the graph of its actions, and from the  *)
(* graph to the shape of the behavior tree.                                *)
(*                                                                         *)
(* A plan is a sequence of ground actions, and node n of the graph is the  *)
(* n-th of them.  An action is a record of                                 *)
(*   - the sequences atStart, overAll and atEnd of the predicates it       *)
(*     requires;                                                           *)
(*   - the sets startAdd, startDel, endAdd and endDel of its effects.      *)
(* An action without duration has overAll and the effects at end only.     *)
(* A negated requirement is a predicate of its own here, and numeric       *)
(* functions are left out.                                                 *)
(*                                                                         *)
(* A graph is a record of the sequence roots and of functions of the node: *)
(* the sequences in and out of its arcs, in the order of the code's lists, *)
(* and the set of predicates its state.  "built" is the number of nodes it *)
(* has got, and "met" is false if get_graph gives up at the last of them.  *)
(* An arc goes from an earlier action to a later one.                      *)
(***************************************************************************)
EXTENDS Naturals, Sequences, FiniteSets, SequencesExt

AtStart(state, a) == (state \ a.startDel) \cup a.startAdd
AtEnd(state, a)   == (state \ a.endDel) \cup a.endAdd
Apply(state, a)   == AtEnd(AtStart(state, a), a)

Requirements(a) == a.atStart \o a.overAll \o a.atEnd

\* All the requirements are looked for in the state before the action.
IsExecutable(a, state) == ToSet(Requirements(a)) \subseteq state

IsParallelizable(a, state, others) ==
    \A b \in others :
        /\ IsExecutable(b, AtStart(state, a))
        /\ IsExecutable(a, AtStart(state, b))

-----------------------------------------------------------------------------
(* Traversals.                                                             *)

\* The children of the nodes of seq, one list after the other.
Concatenated(f, seq) == FlattenSeq([k \in DOMAIN seq |-> f[seq[k]]])

\* Every node that is reached from the roots, as often as it is reached, but
\* not the current one nor what follows it.
Walk(g, current) ==
    LET below[n \in DOMAIN g.out] ==
            IF n = current THEN <<>> ELSE <<n>> \o Concatenated(below, g.out[n])
    IN  Concatenated(below, g.roots)

Ancestors(g, n) ==
    LET above[m \in DOMAIN g.in] == UNION {above[l] \cup {l} : l \in ToSet(g.in[m])}
    IN  above[n]

WithoutRepetition(seq) ==
    FoldLeft(LAMBDA kept, x : IF Contains(kept, x) THEN kept ELSE Append(kept, x), <<>>, seq)

\* get_state: the effects of the ancestors, each once and after its own ancestors.
StateBefore(plan, initially, g, n) ==
    LET upTo[m \in DOMAIN g.in] == Append(Concatenated(upTo, g.in[m]), m)
    IN  FoldLeft(LAMBDA state, m : Apply(state, plan[m]), initially,
                 WithoutRepetition(Concatenated(upTo, g.in[n])))

-----------------------------------------------------------------------------
(* The graph.                                                              *)

\* Mutant of Supplier: the first node the traversal finds.
FirstSupplier(found) == Head(found)

\* get_node_satisfy returns the last node the traversal finds.
Supplier(found) == Last(found)

\* prune_backwards and the new arc: n waits for parent, and no longer for any
\* ancestor of parent.  The arc is the last of both lists.
Link(g, parent, n) ==
    LET implied == Ancestors(g, parent) \cup {parent}
        out(m) == IF m \in implied THEN SelectSeq(g.out[m], LAMBDA c : c # n) ELSE g.out[m]
    IN  [g EXCEPT !.in[n] = Append(SelectSeq(@, LAMBDA m : m \notin implied), parent),
                  !.out = [m \in DOMAIN @ |->
                               IF m = parent THEN Append(out(m), n) ELSE out(m)]]

\* get_node_satisfy: the nodes whose effects make req true.
Satisfying(plan, g, n, req) ==
    SelectSeq(Walk(g, n), LAMBDA m : req \in Apply(g.state[m], plan[m]) \ g.state[m])

\* get_node_contradict: the nodes n could run in parallel with, but would make
\* impossible as it starts.
Contradicted(plan, g, n) ==
    SelectSeq(Walk(g, n), LAMBDA m :
        /\ IsExecutable(plan[n], g.state[m])
        /\ ~IsExecutable(plan[m], AtStart(g.state[m], plan[n])))

\* get_roots: the longest prefix of the plan whose actions may all start at once.
RootCount(plan, initially) ==
    Cardinality({k \in DOMAIN plan :
        \A n \in 1..k :
            /\ IsExecutable(plan[n], initially)
            /\ IsParallelizable(plan[n], initially, {plan[m] : m \in 1..(n - 1)})})

Roots(plan, initially) ==
    LET count == RootCount(plan, initially) IN
    [roots |-> [n \in 1..count |-> n],
     in    |-> [n \in DOMAIN plan |-> <<>>],
     out   |-> [n \in DOMAIN plan |-> <<>>],
     state |-> [n \in DOMAIN plan |-> initially],
     built |-> count,
     met   |-> TRUE]

\* Mutant of Needed: only the requirements at start are looked for.
NeededAtStart(a) == a.atStart

\* The requirements a node gets arcs for.
Needed(a) == Requirements(a)

\* Arcs from the nodes that satisfy a requirement, then from those contradicted;
\* a requirement nobody satisfies has to hold in the state before the node.
AddNode(plan, initially, g, n) ==
    LET supply(acc, req) ==
            LET found == Satisfying(plan, acc.graph, n, req) IN
            IF found = <<>> THEN [acc EXCEPT !.rest = @ \cup {req}]
                            ELSE [acc EXCEPT !.graph = Link(@, Supplier(found), n)]
        supplied == FoldLeft(supply, [graph |-> g, rest |-> {}], Needed(plan[n]))
        linked == FoldLeft(LAMBDA h, m : Link(h, m, n), supplied.graph,
                           Contradicted(plan, supplied.graph, n))
        before == StateBefore(plan, initially, linked, n)
    IN  [linked EXCEPT !.state[n] = before, !.built = n,
                       !.met = supplied.rest \subseteq before]

GraphOf(plan, initially) ==
    LET root == RootCount(plan, initially)
        upTo[n \in root..Len(plan)] ==
            IF n = root THEN Roots(plan, initially)
            ELSE IF upTo[n - 1].met THEN AddNode(plan, initially, upTo[n - 1], n)
            ELSE upTo[n - 1]
    IN  upTo[Len(plan)]

-----------------------------------------------------------------------------
(* The tree.                                                               *)

\* get_flow_tree reaches the nodes from the roots, and a tick visits them in that
\* order.  prune_forward keeps the first arc by which a node is reached: parent is
\* the set of the one node whose subtree is above, empty for a root.
TreeOf(g) ==
    LET arcs[n \in DOMAIN g.out] ==
            FlattenSeq([k \in DOMAIN g.out[n] |->
                            <<<<n, g.out[n][k]>>>> \o arcs[g.out[n][k]]])
        into(n) == SelectSeq(Concatenated(arcs, g.roots), LAMBDA arc : arc[2] = n)
        order == WithoutRepetition(Walk(g, 0))
    IN  [order |-> order,
         parent |-> [n \in ToSet(order) |-> IF into(n) = <<>> THEN {} ELSE {Head(into(n))[1]}]]
=============================================================================
