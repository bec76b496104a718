--------------------------- MODULE ProblemExpert ---------------------------
(***************************************************************************)
(* ProblemExpertNode: the services of the problem expert, and what it      *)
(* publishes.  A lifecycle node: its services answer in every state, once  *)
(* it was configured; its publishers drop messages unless it is active.    *)
(* The spin thread runs one callback at a time, which is one step.         *)
(***************************************************************************)
EXTENDS Knowledge

CONSTANTS
    RequestedTypes, \* the types in requests for instances, known or not
    RequestedGoals, \* the goals in requests
    Problems,       \* the problems in requests and in the file
    ProblemFile     \* the problem of the parameter problem_file, None if empty

ProblemTexts ==
    [readable : BOOLEAN, objects : [Names -> Types \cup {None}],
     init : SUBSET Predicates, values : [Functions -> Values \cup {None}],
     goal : Goals]

ASSUME RequestAssumption ==
    /\ RequestedGoals \subseteq Goals
    /\ Problems \subseteq ProblemTexts
    /\ ProblemFile = None \/ ProblemFile \in ProblemTexts

VARIABLES
    state,          \* the lifecycle state of the node
    created,        \* is problem_expert_ other than null
    kb,             \* the knowledge of problem_expert_
    outcome,        \* [reply, sent]: the answer of the last callback, and the
                    \* topics it published on
    latched         \* the last knowledge message since the node was activated,
                    \* None if none

vars == <<state, created, kb, outcome, latched>>

Topics == {"update_notify", "knowledge", "problem"}

Silence == [reply |-> "none", sent |-> {}]

Init ==
    /\ state = "unconfigured"
    /\ created = FALSE
    /\ kb = NoKnowledge
    /\ outcome = Silence
    /\ latched = None

-----------------------------------------------------------------------------
(* Lifecycle *)

FirstKnowledge ==
    IF ProblemFile = None THEN NoKnowledge
    ELSE AddProblem(NoKnowledge, ProblemFile).kb

\* A node that is configured again starts with a new expert.
OnConfigure ==
    /\ state = "unconfigured"
    /\ state' = "inactive"
    /\ created' = TRUE
    /\ kb' = FirstKnowledge
    /\ outcome' = Silence
    /\ UNCHANGED latched

OnActivate ==
    /\ state = "inactive"
    /\ state' = "active"
    /\ outcome' = Silence
    /\ latched' = None
    /\ UNCHANGED <<created, kb>>

OnDeactivate ==
    /\ state = "active"
    /\ state' = "inactive"
    /\ outcome' = Silence
    /\ latched' = None
    /\ UNCHANGED <<created, kb>>

\* The expert stays as it is, and answers.
OnCleanup ==
    /\ state = "inactive"
    /\ state' = "unconfigured"
    /\ outcome' = Silence
    /\ UNCHANGED <<created, kb, latched>>

OnShutdown ==
    /\ state # "finalized"
    /\ state' = "finalized"
    /\ outcome' = Silence
    /\ latched' = None
    /\ UNCHANGED <<created, kb>>

-----------------------------------------------------------------------------
(* Services *)

\* get_knowledge_as_msg
Message(base) ==
    [instances |-> {n \in Names : base.instances[n] # None},
     predicates |-> GetPredicates(base),
     functions |-> base.functions,
     goal |-> base.goal]

\* The answer to a request, and the topics published on if it succeeds.
Reply(answer, topics) ==
    LET sent == IF created /\ answer.success /\ state = "active" THEN topics ELSE {}
    IN  /\ kb' = IF created THEN answer.kb ELSE kb
        /\ outcome' = [reply |-> IF ~created THEN "refused"
                                 ELSE IF answer.success THEN "done" ELSE "failed",
                       sent |-> sent]
        /\ latched' = IF "knowledge" \in sent THEN Message(kb') ELSE latched
        /\ UNCHANGED <<state, created>>

AddProblemCallback == \E p \in Problems : Reply(AddProblem(kb, p), Topics)

\* An empty goal is refused here, before the expert sees it.
AddProblemGoalCallback ==
    \E g \in RequestedGoals :
        Reply(IF g.parts = {} THEN Answer(FALSE, kb) ELSE SetGoal(kb, g), Topics)

AddProblemInstanceCallback ==
    \E n \in Names, t \in RequestedTypes : Reply(AddInstance(kb, n, t), Topics)

AddProblemPredicateCallback ==
    \E p \in Predicates : Reply(AddPredicate(kb, p), Topics)

AddProblemFunctionCallback ==
    \E f \in Functions, v \in Values : Reply(AddFunction(kb, f, v), Topics)

RemoveProblemGoalCallback == Reply(ClearGoal(kb), Topics)

ClearProblemKnowledgeCallback == Reply(ClearKnowledge(kb), Topics)

RemoveProblemInstanceCallback ==
    \E n \in Names : Reply(RemoveInstance(kb, n), Topics)

RemoveProblemPredicateCallback ==
    \E p \in Predicates : Reply(RemovePredicate(kb, p), Topics)

\* Mutant of RemoveProblemFunctionCallback: nothing is published.
RemoveProblemFunctionSilently ==
    \E f \in Functions : Reply(RemoveFunction(kb, f), {})

RemoveProblemFunctionCallback ==
    \E f \in Functions : Reply(RemoveFunction(kb, f), {"update_notify"})

UpdateProblemFunctionCallback ==
    \E f \in Functions, v \in Values :
        Reply(UpdateFunction(kb, f, v), {"update_notify"})

\* The queries of instances, predicates, functions, goal and problem: they
\* find what they are asked for or not, and change nothing.
QueryCallback ==
    \/ \E n \in Names : Reply(Answer(kb.instances[n] # None, kb), {})
    \/ \E p \in Predicates : Reply(Answer(p \in kb.predicates, kb), {})
    \/ \E f \in Functions : Reply(Answer(f \in Known(kb), kb), {})
    \/ Reply(Answer(TRUE, kb), {})

\* exist_problem_predicate, which also looks at the rules.
ExistProblemPredicateCallback ==
    \E p \in Predicates : Reply(Answer(ExistPredicate(kb, p), kb), {})

IsProblemGoalSatisfiedCallback ==
    \E g \in RequestedGoals : Reply(Answer(IsGoalSatisfied(kb, g), kb), {})

Service ==
    \/ AddProblemCallback \/ AddProblemGoalCallback
    \/ AddProblemInstanceCallback \/ AddProblemPredicateCallback
    \/ AddProblemFunctionCallback \/ RemoveProblemGoalCallback
    \/ ClearProblemKnowledgeCallback \/ RemoveProblemInstanceCallback
    \/ RemoveProblemPredicateCallback \/ RemoveProblemFunctionCallback
    \/ UpdateProblemFunctionCallback \/ QueryCallback
    \/ ExistProblemPredicateCallback \/ IsProblemGoalSatisfiedCallback

Next ==
    \/ OnConfigure \/ OnActivate \/ OnDeactivate \/ OnCleanup \/ OnShutdown
    \/ Service

Spec == Init /\ [][Next]_vars

-----------------------------------------------------------------------------
States == {"unconfigured", "inactive", "active", "finalized"}

\* Types, for all that follows.
TypeOK ==
    /\ state \in States
    /\ created \in BOOLEAN
    /\ kb \in KnowledgeBase
    /\ outcome \in [reply : {"none", "done", "failed", "refused"},
                    sent : SUBSET Topics]

\* A name an atom may use at a parameter: an instance of an accepted type, or
\* a constant of the type of the parameter, even when an instance of another
\* type has taken its name.
Refers(base, slot, name) ==
    \/ base.instances[name] # None /\ Accepts(slot, base.instances[name])
    \/ name \in Constants[slot.type]

IsGrounded(base, atom) ==
    /\ atom.name \in DOMAIN Signature
    /\ Len(Signature[atom.name]) = Len(atom.args)
    /\ \A i \in DOMAIN atom.args :
          Refers(base, Signature[atom.name][i], atom.args[i])

FactsOf(base) == base.predicates \cup Known(base)

Grounded(base) == \A a \in FactsOf(base) : IsGrounded(base, a)

\* Whatever is added and removed, no stored predicate or function names
\* something that is not known, or not of the type of its parameter: an
\* instance takes what uses it along (removeInvalidPredicates and
\* removeInvalidFunctions), also when it is added again with another type.
ReferencesHold == Grounded(kb)

Shadowed(base) ==
    \E n \in Names, t \in Types :
        n \in Constants[t] /\ base.instances[n] \notin {None, t}

\* A problem that is read from the text getProblem has written is the same
\* problem.  Apart from constants whose names were taken by instances of
\* another type, and from stored predicates that are also derived.
RoundTrip ==
    LET again == AddProblem(NoKnowledge, GetProblem(kb)).kb
    IN  ~Shadowed(kb) /\ (\A r \in Rules : r.head \notin kb.predicates) =>
            /\ again.predicates = kb.predicates
            /\ again.functions = kb.functions
            /\ \A n \in Names : kb.instances[n] # None =>
                                    again.instances[n] = kb.instances[n]

\* The knowledge is what a fact base promises.
ThingsOf(base) == {n \in Names : base.instances[n] # None}

Beginning(base) == [things |-> ThingsOf(base), facts |-> FactsOf(base)]

Facts == INSTANCE FactBase WITH
    Things <- Names,
    Permanent <- UNION {Constants[t] : t \in Types},
    Facts <- Predicates \cup Functions,
    About <- [a \in Predicates \cup Functions |->
                 {a.args[i] : i \in DOMAIN a.args}],
    Beginnings <- {Beginning(NoKnowledge), Beginning(FirstKnowledge)},
    things <- ThingsOf(kb),
    facts <- FactsOf(kb)

\* Every callback is a step of the fact base, or none: whoever asks for what,
\* and in whatever order, facts come with the things they are about and go
\* with them.
ImplementsFactBase == Facts!Spec

=============================================================================
