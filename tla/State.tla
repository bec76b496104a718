-------------------------------- MODULE State -------------------------------
(***************************************************************************)
(* The class State of plansys2_core: objects, predicates, what has been    *)
(* inferred from rules for derived predicates, and the graph of the rules. *)
(* An inferred predicate is kept as long as a rule has it (a reference     *)
(* count), and retracted with everything that depends on the rule.  One    *)
(* thread calls the methods in any order.                                  *)
(***************************************************************************)
EXTENDS DerivedGraph

CONSTANTS
    Objects,        \* instances and functions
    Ground,         \* ground predicates
    HeadOf,         \* the predicate that each of them is an instance of
    Domains,        \* the sets of rules that a domain may have
    Actions         \* the actions

ASSUME StateAssumption ==
    /\ \A domain \in Domains :
          IsFiniteSet(domain) /\ \A d \in domain : d.kind = "derived" /\ IsFiniteSet(d.needs)
    /\ IsFiniteSet(Actions) /\ \A a \in Actions : a.kind = "action" /\ IsFiniteSet(a.needs)

VARIABLES
    rules,                      \* the rules of the domain
    objects,                    \* instances_ and functions_
    predicates,                 \* predicates_
    inferred,                   \* inferred_predicates_
    union,                      \* union_predicates_inferred_predicates_
    inferredFrom,               \* inferred_predicates_map_: what each rule has inferred
    refcount,                   \* inferred_predicate_refcount_, 0 for no entry
    graph,                      \* derived_predicates_
    pending,                    \* rules that ungroundDerivedPredicate has yet to visit
    decoded,                    \* history: inferred predicates that came with a message
    both,                       \* history: predicates stored and inferred at once
    cleared                     \* history: clearState has emptied the graph

inferredVars == <<inferred, union, inferredFrom, refcount>>
vars == <<rules, objects, predicates, inferredVars, graph, pending, decoded, both, cleared>>

Nothing == [d \in rules |-> {}]
Uncounted == [p \in Ground |-> 0]

\* State().
Init ==
    /\ rules \in Domains
    /\ objects = {} /\ predicates = {} /\ inferred = {} /\ union = {}
    /\ inferredFrom = Nothing /\ refcount = Uncounted
    /\ graph = NoGraph /\ pending = {}
    /\ decoded = {} /\ both = {} /\ cleared = FALSE

\* What has been stored and inferred at once is forgotten when the union is whole.
Remember ==
    both' = (predicates' \cap inferred') \cup
            (IF union' = predicates' \cup inferred' THEN {} ELSE both)

-----------------------------------------------------------------------------
(* Objects, predicates, and what is inferred.                              *)

\* addInstance, addFunction, removeInstance, removeFunction.
ChangeObjects ==
    /\ pending = {}
    /\ \E o \in Objects : objects' \in {objects \cup {o}, objects \ {o}}
    /\ UNCHANGED <<predicates, inferredVars, graph, pending, decoded, cleared>>

\* A predicate that is stored already is not put into the union again.
addPredicate(p) ==
    /\ pending = {} /\ p \notin predicates
    /\ predicates' = predicates \cup {p} /\ union' = union \cup {p}
    /\ UNCHANGED <<objects, inferred, inferredFrom, refcount, graph, pending, decoded, cleared>>

removePredicate(p) ==
    /\ pending = {} /\ p \in predicates
    /\ predicates' = predicates \ {p} /\ union' = union \ {p}
    /\ UNCHANGED <<objects, inferred, inferredFrom, refcount, graph, pending, decoded, cleared>>

\* Mutant of addInferredPredicate: a predicate that is inferred again is counted again.
addInferredPredicateAgain(d, p) ==
    /\ pending = {} /\ HeadOf[p] = d.head
    /\ inferred' = inferred \cup {p} /\ union' = union \cup {p}
    /\ inferredFrom' = [inferredFrom EXCEPT ![d] = @ \cup {p}]
    /\ refcount' = [refcount EXCEPT ![p] = @ + 1]
    /\ UNCHANGED <<objects, predicates, graph, pending, decoded, cleared>>

\* Only a predicate that the rule did not have is counted.
addInferredPredicate(d, p) ==
    /\ pending = {} /\ HeadOf[p] = d.head
    /\ inferred' = inferred \cup {p} /\ union' = union \cup {p}
    /\ inferredFrom' = [inferredFrom EXCEPT ![d] = @ \cup {p}]
    /\ refcount' = IF p \in inferredFrom[d] THEN refcount ELSE [refcount EXCEPT ![p] = @ + 1]
    /\ UNCHANGED <<objects, predicates, graph, pending, decoded, cleared>>

-----------------------------------------------------------------------------
(* Retracting.                                                             *)

\* The predicates whose last reference a rule has.
LastOf(d) == {p \in inferredFrom[d] : refcount[p] = 1}

\* ungroundSingleDerivedPredicate, called for itself or for a node of the traversal.
ungroundSingleDerivedPredicate(d) ==
    /\ d \in pending \/ pending = {}
    /\ refcount' = [p \in Ground |->
           IF p \in inferredFrom[d] /\ refcount[p] > 0 THEN refcount[p] - 1 ELSE refcount[p]]
    /\ inferred' = inferred \ LastOf(d) /\ union' = union \ LastOf(d)
    /\ inferredFrom' = [inferredFrom EXCEPT ![d] = {}]
    /\ pending' = pending \ {d}
    /\ UNCHANGED <<objects, predicates, graph, decoded, cleared>>

\* ungroundDerivedPredicate: the rule, in the graph or not, and all that depend on it.
ungroundDerivedPredicate(d) ==
    /\ pending = {}
    /\ UNCHANGED <<objects, predicates, inferredVars, graph, decoded, cleared>>
    /\ pending' = {n \in Descendants(graph, {d}) : n.kind = "derived"}

\* Mutant of resetInferredPredicates: the union is left as it is.
resetInferredPredicatesOnly ==
    /\ pending = {}
    /\ inferred' = {} /\ inferredFrom' = Nothing /\ refcount' = Uncounted
    /\ decoded' = {}
    /\ UNCHANGED <<objects, predicates, union, graph, pending, cleared>>

\* resetInferredPredicates, initInferredPredicates.
resetInferredPredicates ==
    /\ pending = {}
    /\ union' = predicates /\ inferred' = {}
    /\ inferredFrom' = Nothing /\ refcount' = Uncounted
    /\ decoded' = {}
    /\ UNCHANGED <<objects, predicates, graph, pending, cleared>>

clearPredicates ==
    /\ pending = {}
    /\ predicates' = {} /\ union' = {} /\ inferred' = {}
    /\ inferredFrom' = Nothing /\ refcount' = Uncounted
    /\ decoded' = {}
    /\ UNCHANGED <<objects, graph, pending, cleared>>

clearState ==
    /\ pending = {}
    /\ objects' = {} /\ predicates' = {} /\ union' = {} /\ inferred' = {}
    /\ inferredFrom' = Nothing /\ refcount' = Uncounted
    /\ graph' = Clear(graph) /\ cleared' = TRUE
    /\ decoded' = {} /\ UNCHANGED pending

-----------------------------------------------------------------------------
(* The graph, and the state as a message.                                  *)

setDerivedPredicates ==
    /\ pending = {} /\ graph' = GraphOf(rules) /\ cleared' = FALSE
    /\ UNCHANGED <<objects, predicates, inferredVars, pending, decoded>>

addActionsAndPruneDerived(actions) ==
    /\ pending = {}
    /\ UNCHANGED <<objects, predicates, inferredVars, pending, decoded, cleared>>
    /\ graph' = pruneGraphToActions(AppendActions(graph, actions), actions)

pruneDerivedPredicatesToActions(actions) ==
    /\ pending = {}
    /\ UNCHANGED <<objects, predicates, inferredVars, pending, decoded, cleared>>
    /\ graph' = pruneGraphToActions(graph, actions)

\* A message has what is inferred and the rules, but neither from which rule it was nor
\* the actions of the graph.
getAsMsg == [objects |-> objects, predicates |-> predicates, inferred |-> inferred,
             derived |-> graph.derived]

\* State(getAsMsg()).
Decode ==
    /\ pending = {}
    /\ objects' = getAsMsg.objects
    /\ predicates' = getAsMsg.predicates /\ inferred' = getAsMsg.inferred
    /\ union' = predicates' \cup inferred'
    /\ inferredFrom' = Nothing /\ refcount' = Uncounted
    /\ graph' = GraphOf(getAsMsg.derived) /\ cleared' = FALSE
    /\ decoded' = inferred' /\ UNCHANGED pending

-----------------------------------------------------------------------------
Step ==
    \/ ChangeObjects \/ resetInferredPredicates \/ clearPredicates \/ clearState
    \/ setDerivedPredicates \/ Decode
    \/ \E p \in Ground : addPredicate(p) \/ removePredicate(p)
    \/ \E d \in rules, p \in Ground : addInferredPredicate(d, p)
    \/ \E d \in rules : ungroundSingleDerivedPredicate(d) \/ ungroundDerivedPredicate(d)
    \/ \E actions \in SUBSET Actions :
          addActionsAndPruneDerived(actions) \/ pruneDerivedPredicatesToActions(actions)

Next == Step /\ Remember /\ UNCHANGED rules

Spec == Init /\ [][Next]_vars

-----------------------------------------------------------------------------
(* Properties                                                              *)

\* The rules that have inferred a predicate.
Inferring(p) == {d \in rules : p \in inferredFrom[d]}

TypeOK ==
    /\ rules \in Domains
    /\ predicates \subseteq Ground /\ inferred \subseteq Ground /\ union \subseteq Ground
    /\ inferredFrom \in [rules -> SUBSET Ground]
    /\ refcount \in [Ground -> Nat]
    /\ decoded \subseteq Ground /\ both \subseteq Ground

\* getInferredPredicateRefCount: "from how many derived predicates the inferred
\* predicates was inferred from", whatever has been retracted and in which order.
CountsAreReferences == \A p \in Ground : refcount[p] = Cardinality(Inferring(p))

\* What a rule has inferred is held to be so and counted, and what is held was inferred
\* by a rule that has not been retracted, or came with a message, which does not say by
\* which: that is never retracted.
InferredIsSupported ==
    /\ CountsAreReferences
    /\ \A p \in Ground :
          /\ Inferring(p) # {} => p \in inferred
          /\ p \in inferred => Inferring(p) # {} \/ p \in decoded

\* The union has what is stored or inferred and nothing else, but for predicates that
\* were both: it loses them with the first of the two.
UnionIsWhole ==
    /\ union \subseteq predicates \cup inferred
    /\ (predicates \cup inferred) \ both \subseteq union

\* A predicate that is stored and inferred is remembered.
BothIsRemembered == predicates \cap inferred \subseteq both

\* What is inferred, for whatever reason, is counted and in the union.
StateInv ==
    TypeOK /\ InferredIsSupported /\ UnionIsWhole /\ BothIsRemembered

\* The rules of the domain that actions depend on.
Needed == [domain \in Domains |-> [actions \in SUBSET Actions |->
    {n \in Ancestors(AppendActions(GraphOf(domain), actions), actions) : n.kind = "derived"}]]

\* Cutting the graph down to actions keeps the rules that they depend on and no other,
\* if it still had them: an earlier cut for other actions takes rules away, and
\* clearState takes the edges between rules that it keeps.
CutKeepsNeeded ==
    [][\A actions \in SUBSET Actions :
          ~cleared /\ Needed[rules][actions] \subseteq graph.derived
              /\ addActionsAndPruneDerived(actions) =>
                  graph'.derived = Needed[rules][actions]]_vars
=============================================================================
