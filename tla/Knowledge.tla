----------------------------- MODULE Knowledge -----------------------------
(***************************************************************************)
(* ProblemExpert: what is known of the world, and the operations on it.    *)
(*                                                                         *)
(* An atom is a ground predicate or function, [name, args].  The vectors   *)
(* of the code are sets and functions here: every operation that adds looks*)
(* first whether the element is there, so no vector holds one twice.       *)
(* A subgoal (a child of the root of the goal) keeps the literals and the  *)
(* comparisons in it; "nested" says that the comparisons are below a       *)
(* connective, where getFunctions does not look.  A goal with a quantifier *)
(* in it has the root "EXISTS".                                            *)
(*                                                                         *)
(* An operation returns [success, kb].                                     *)
(***************************************************************************)
EXTENDS Naturals, Sequences

CONSTANTS
    Names,          \* names of instances and constants
    Types,          \* the types of the domain
    Constants,      \* the constants of each type
    Signature,      \* name -> the parameters, [type, subTypes], of the domain
    Predicates,     \* the atoms clients use as predicates, valid or not
    Functions,      \* the atoms clients use as functions, valid or not
    Values,         \* values of functions
    Rules,          \* ground derived predicates, [head, pos, neg]
    Subgoals,       \* [pos, neg, atLeast, nested], see Mentions
    None            \* no type, no value

\* The instances, the predicates, the functions and the goal.
Goals == [root : {"NONE", "AND", "OTHER", "EXISTS"}, parts : SUBSET Subgoals]

NoGoal == [root |-> "NONE", parts |-> {}]

KnowledgeBase ==
    [instances : [Names -> Types \cup {None}],
     predicates : SUBSET Predicates,
     functions : [Functions -> Values \cup {None}],
     goal : Goals]

NoKnowledge ==
    [instances |-> [n \in Names |-> None],
     predicates |-> {},
     functions |-> [f \in Functions |-> None],
     goal |-> NoGoal]

ASSUME KnowledgeAssumption ==
    /\ Constants \in [Types -> SUBSET Names]
    /\ None \notin Types /\ None \notin Values
    /\ Predicates \cap Functions = {}
    /\ \A a \in Predicates \cup Functions : a.args \in Seq(Names)
    /\ \A s \in DOMAIN Signature :
          Signature[s] \in Seq([type : Types, subTypes : SUBSET Types])
    /\ \A g \in Subgoals : /\ g.pos \cup g.neg \subseteq Predicates
                           /\ DOMAIN g.atLeast \subseteq Functions
                           /\ g.nested \in BOOLEAN

Answer(success, kb) == [success |-> success, kb |-> kb]

Uses(atom, name) == \E i \in DOMAIN atom.args : atom.args[i] = name

Known(kb) == {f \in Functions : kb.functions[f] # None}

-----------------------------------------------------------------------------
(* Instances *)

AddInstance(kb, name, type) ==
    IF type \notin Types \/ kb.instances[name] \notin {None, type}
    THEN Answer(FALSE, kb)
    ELSE Answer(TRUE, [kb EXCEPT !.instances[name] = type])

\* Mutant of WithoutPredicates: only the first argument is looked at.
WithoutPredicatesFirst(predicates, name) ==
    {p \in predicates : p.args = <<>> \/ p.args[1] # name}

WithoutPredicates(predicates, name) == {p \in predicates : ~Uses(p, name)}

\* Mutant of WithoutFunctions: functions are kept.
WithoutFunctionsKept(functions, name) == functions

WithoutFunctions(functions, name) ==
    [f \in Functions |-> IF Uses(f, name) THEN None ELSE functions[f]]

\* What getPredicates and getFunctions find in a subgoal.
Mentions(part) ==
    part.pos \cup part.neg \cup (IF part.nested THEN {} ELSE DOMAIN part.atLeast)

\* getSubtrees finds none below a connective other than AND.
Subtrees(goal) == IF goal.root \in {"AND", "EXISTS"} THEN goal.parts ELSE {}

\* There is no goal without a subgoal, and none that begins with a quantifier.
FromSubtrees(parts, root) ==
    IF parts = {} \/ root = "EXISTS" THEN NoGoal ELSE [root |-> root, parts |-> parts]

\* A goal with no subtrees to look at stays as it is.
WithoutSubgoals(goal, name) ==
    LET left == {g \in Subtrees(goal) : \A a \in Mentions(g) : ~Uses(a, name)}
    IN  IF Subtrees(goal) = {} THEN goal ELSE FromSubtrees(left, goal.root)

\* The name need not be one of an instance: what uses it goes in any case.
RemoveInstance(kb, name) ==
    Answer(kb.instances[name] # None,
           [instances |-> [kb.instances EXCEPT ![name] = None],
            predicates |-> WithoutPredicates(kb.predicates, name),
            functions |-> WithoutFunctions(kb.functions, name),
            goal |-> WithoutSubgoals(kb.goal, name)])

-----------------------------------------------------------------------------
(* Predicates, functions and goals *)

Accepts(slot, type) == type = slot.type \/ type \in slot.subTypes

\* An instance of a type of the slot; if there is none, a constant of its type.
IsArgument(instances, slot, name) ==
    IF instances[name] # None THEN Accepts(slot, instances[name])
    ELSE name \in Constants[slot.type]

IsValid(kb, atom) ==
    /\ atom.name \in DOMAIN Signature
    /\ Len(Signature[atom.name]) = Len(atom.args)
    /\ \A i \in DOMAIN atom.args :
          IsArgument(kb.instances, Signature[atom.name][i], atom.args[i])

\* A rule looks at stored predicates only, never at other derived ones.
Fires(kb, rule) ==
    rule.pos \subseteq kb.predicates /\ rule.neg \cap kb.predicates = {}

ExistPredicate(kb, atom) ==
    atom \in kb.predicates \/ \E r \in Rules : r.head = atom /\ Fires(kb, r)

\* What getPredicates lists: derived ones of instances of exactly the type.
GetPredicates(kb) ==
    kb.predicates \cup
    {r.head : r \in {d \in Rules :
        /\ Fires(kb, d)
        /\ \A i \in DOMAIN d.head.args :
              kb.instances[d.head.args[i]] = Signature[d.head.name][i].type}}

AddPredicate(kb, atom) ==
    IF ExistPredicate(kb, atom) THEN Answer(TRUE, kb)
    ELSE IF IsValid(kb, atom)
    THEN Answer(TRUE, [kb EXCEPT !.predicates = @ \cup {atom}])
    ELSE Answer(FALSE, kb)

RemovePredicate(kb, atom) ==
    IF IsValid(kb, atom)
    THEN Answer(TRUE, [kb EXCEPT !.predicates = @ \ {atom}])
    ELSE Answer(FALSE, kb)

UpdateFunction(kb, atom, value) ==
    IF atom \in Known(kb) /\ IsValid(kb, atom)
    THEN Answer(TRUE, [kb EXCEPT !.functions[atom] = value])
    ELSE Answer(FALSE, kb)

AddFunction(kb, atom, value) ==
    IF atom \in Known(kb) THEN UpdateFunction(kb, atom, value)
    ELSE IF IsValid(kb, atom)
    THEN Answer(TRUE, [kb EXCEPT !.functions[atom] = value])
    ELSE Answer(FALSE, kb)

RemoveFunction(kb, atom) ==
    IF IsValid(kb, atom)
    THEN Answer(TRUE, [kb EXCEPT !.functions[atom] = None])
    ELSE Answer(FALSE, kb)

AtomsOf(goal) ==
    UNION {g.pos \cup g.neg \cup DOMAIN g.atLeast : g \in goal.parts}

\* Mutant of IsValidGoal: the atoms of the goal are not looked at.
IsValidGoalAny(kb, goal) == goal.root \in {"AND", "OTHER"}

\* checkPredicateTreeTypes: every atom is valid, and there is no quantifier.
IsValidGoal(kb, goal) ==
    /\ goal.root \in {"AND", "OTHER"}
    /\ \A a \in AtomsOf(goal) : IsValid(kb, a)

SetGoal(kb, goal) ==
    IF IsValidGoal(kb, goal) THEN Answer(TRUE, [kb EXCEPT !.goal = goal])
    ELSE Answer(FALSE, kb)

\* evaluate() looks at stored predicates only.
PartHolds(kb, part) ==
    /\ part.pos \subseteq kb.predicates
    /\ part.neg \cap kb.predicates = {}
    /\ \A f \in DOMAIN part.atLeast :
          f \in Known(kb) /\ kb.functions[f] >= part.atLeast[f]

IsGoalSatisfied(kb, goal) ==
    CASE goal.root = "AND" -> \A g \in goal.parts : PartHolds(kb, g)
      [] goal.root = "OTHER" -> \E g \in goal.parts : PartHolds(kb, g)
      [] OTHER -> FALSE

ClearGoal(kb) == Answer(TRUE, [kb EXCEPT !.goal = NoGoal])

ClearKnowledge(kb) == Answer(TRUE, NoKnowledge)

-----------------------------------------------------------------------------
(* Problems as text, [readable, objects, init, values, goal] *)

\* A constant of the type of the instance is not written as an object.  An
\* empty goal is written as an empty conjunction.
GetProblem(kb) ==
    [readable |-> TRUE,
     objects |-> [n \in Names |->
         IF kb.instances[n] # None /\ n \in Constants[kb.instances[n]]
         THEN None ELSE kb.instances[n]],
     init |-> kb.predicates,
     values |-> kb.functions,
     goal |-> IF kb.goal = NoGoal THEN [NoGoal EXCEPT !.root = "AND"] ELSE kb.goal]

\* The instances once the constants, then the objects, were added where the
\* name is free.
WithConstants(instances) ==
    [n \in Names |->
        IF instances[n] # None THEN instances[n]
        ELSE IF \E t \in Types : n \in Constants[t]
             THEN CHOOSE t \in Types : n \in Constants[t] ELSE None]

WithObjects(instances, objects) ==
    [n \in Names |-> IF instances[n] # None THEN instances[n] ELSE objects[n]]

\* Mutant of AddProblem: the facts are looked at before the objects are known.
AddProblemUnordered(kb, problem) ==
    LET more == [kb EXCEPT !.instances =
                    WithObjects(WithConstants(@), problem.objects)]
    IN  IF ~problem.readable THEN Answer(FALSE, kb)
        ELSE Answer(TRUE, [more EXCEPT
                 !.predicates = @ \cup {p \in problem.init : IsValid(kb, p)}])

\* What is not valid is left out, and the answer is the same.  The facts of a
\* problem are base facts: none of them is the head of a rule.
AddProblem(kb, problem) ==
    IF ~problem.readable THEN Answer(FALSE, kb)
    ELSE LET more == [kb EXCEPT !.instances =
                         WithObjects(WithConstants(@), problem.objects)]
             facts == [more EXCEPT
                 !.predicates = @ \cup {p \in problem.init : IsValid(more, p)},
                 !.functions = [f \in Functions |->
                     IF problem.values[f] # None /\ IsValid(more, f)
                     THEN problem.values[f] ELSE @[f]]]
         IN  Answer(TRUE, SetGoal(facts, problem.goal).kb)
=============================================================================
