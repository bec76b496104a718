------------------------ MODULE ProblemExpert_proofs ------------------------
(***************************************************************************)
(* Theorems about ProblemExpert: type correctness, that stored atoms name  *)
(* known things, and that the knowledge implements FactBase.  The three go *)
(* operation by operation: a lemma says what each operation of Knowledge   *)
(* makes of a knowledge base that is well typed and grounded.  Then about  *)
(* ExpertClients, for any clients, methods and services, and for topics    *)
(* that hold any number of messages: what a client has copied is the       *)
(* problem of the node but for what the node leaves out, and no change     *)
(* goes unnoticed.                                                         *)
(***************************************************************************)
EXTENDS ExpertClients, TLAPS

USE KnowledgeAssumption, RequestAssumption

\* A knowledge base that is well typed and whose facts are grounded.
Sound(base) == base \in KnowledgeBase /\ Grounded(base)

\* What an operation may do to the facts, as FactBase sees it.
Learns(base, after) ==
    /\ ThingsOf(base) \subseteq ThingsOf(after)
    /\ FactsOf(base) \subseteq FactsOf(after)

Forgets(base, after, n) ==
    /\ ThingsOf(after) = ThingsOf(base) \ {n}
    /\ FactsOf(after) = {a \in FactsOf(base) : ~Uses(a, n)}

Retracts(base, after, a) ==
    /\ ThingsOf(after) = ThingsOf(base)
    /\ FactsOf(after) = FactsOf(base) \ {a}

\* A valid atom is grounded: an argument that is no instance is a constant.
LEMMA ValidIsGrounded ==
    ASSUME NEW base \in KnowledgeBase, NEW a \in Predicates \cup Functions,
           IsValid(base, a)
    PROVE  IsGrounded(base, a)
  BY DEF IsValid, IsGrounded, IsArgument, Refers

\* Groundedness of an atom survives new instances.
LEMMA GroundedGrows ==
    ASSUME NEW base \in KnowledgeBase, NEW after \in KnowledgeBase,
           \A n \in Names : base.instances[n] # None =>
                                after.instances[n] = base.instances[n],
           NEW a \in Predicates \cup Functions, IsGrounded(base, a)
    PROVE  IsGrounded(after, a)
  <1>1. a.args \in Seq(Names)
    OBVIOUS
  <1>2. \A i \in DOMAIN a.args : a.args[i] \in Names
    BY <1>1
  <1> QED
    BY <1>2 DEF IsGrounded, Refers

\* The facts of a knowledge base are among the atoms.
LEMMA FactsAreAtoms ==
    ASSUME NEW base \in KnowledgeBase
    PROVE  FactsOf(base) \subseteq Predicates \cup Functions
  BY DEF FactsOf, Known, KnowledgeBase

\* Knowledge of nothing refers to nothing.
LEMMA NothingIsSound == Sound(NoKnowledge)
  <1>1. NoGoal \in Goals
    BY DEF NoGoal, Goals
  <1>2. NoKnowledge \in KnowledgeBase
    BY <1>1 DEF NoKnowledge, KnowledgeBase
  <1>3. FactsOf(NoKnowledge) = {}
    BY DEF FactsOf, Known, NoKnowledge
  <1> QED
    BY <1>2, <1>3 DEF Sound, Grounded

\* addInstance keeps all that is known.
LEMMA AddInstanceSound ==
    ASSUME NEW base, Sound(base), NEW n \in Names, NEW t \in RequestedTypes
    PROVE  /\ Sound(AddInstance(base, n, t).kb)
           /\ Learns(base, AddInstance(base, n, t).kb)
  <1> DEFINE after == AddInstance(base, n, t).kb
  <1>1. base \in KnowledgeBase
    BY DEF Sound
  <1>2. CASE t \notin Types \/ base.instances[n] \notin {None, t}
    <2>1. after = base
      BY <1>2 DEF AddInstance, Answer
    <2> QED
      BY <2>1 DEF Sound, Learns
  <1>3. CASE ~(t \notin Types \/ base.instances[n] \notin {None, t})
    <2>1. after = [base EXCEPT !.instances[n] = t]
      BY <1>3 DEF AddInstance, Answer
    <2>2. /\ after \in KnowledgeBase
          /\ after.predicates = base.predicates
          /\ after.functions = base.functions
          /\ after.instances = [base.instances EXCEPT ![n] = t]
      BY <1>1, <1>3, <2>1 DEF KnowledgeBase
    <2>3. FactsOf(after) = FactsOf(base)
      BY <2>2 DEF FactsOf, Known
    <2>4. \A m \in Names : base.instances[m] # None =>
                                after.instances[m] = base.instances[m]
      BY <1>1, <1>3, <2>2 DEF KnowledgeBase
    <2>5. Grounded(after)
      BY <1>1, <2>2, <2>3, <2>4, FactsAreAtoms, GroundedGrows DEF Sound, Grounded
    <2>6. ThingsOf(base) \subseteq ThingsOf(after)
      BY <2>4 DEF ThingsOf
    <2> QED
      BY <2>2, <2>3, <2>5, <2>6 DEF Sound, Learns
  <1> QED
    BY <1>2, <1>3

\* What remains of a goal is a goal.
LEMMA LessGoal ==
    ASSUME NEW goal \in Goals, NEW n \in Names
    PROVE  WithoutSubgoals(goal, n) \in Goals
  BY DEF WithoutSubgoals, Subtrees, FromSubtrees, Goals, NoGoal

\* removeInstance removes what refers to the instance, and no more.
LEMMA RemoveInstanceSound ==
    ASSUME NEW base, Sound(base), NEW n \in Names
    PROVE  /\ Sound(RemoveInstance(base, n).kb)
           /\ Forgets(base, RemoveInstance(base, n).kb, n)
  <1> DEFINE after == RemoveInstance(base, n).kb
  <1>1. base \in KnowledgeBase
    BY DEF Sound
  <1>2. /\ after.instances = [base.instances EXCEPT ![n] = None]
        /\ after.predicates = WithoutPredicates(base.predicates, n)
        /\ after.functions = WithoutFunctions(base.functions, n)
        /\ after.goal = WithoutSubgoals(base.goal, n)
    BY DEF RemoveInstance, Answer
  <1>3. after \in KnowledgeBase
    <2>1. base.goal \in Goals
      BY <1>1 DEF KnowledgeBase
    <2>2. after.goal \in Goals
      BY <1>2, <2>1, LessGoal
    <2>3. after.functions \in [Functions -> Values \cup {None}]
      BY <1>1, <1>2 DEF KnowledgeBase, WithoutFunctions
    <2>4. after.predicates \in SUBSET Predicates
      BY <1>1, <1>2 DEF KnowledgeBase, WithoutPredicates
    <2>5. after.instances \in [Names -> Types \cup {None}]
      BY <1>1, <1>2 DEF KnowledgeBase
    <2> QED
      BY <2>2, <2>3, <2>4, <2>5 DEF KnowledgeBase, RemoveInstance, Answer
  <1>4. ThingsOf(after) = ThingsOf(base) \ {n}
    BY <1>1, <1>2 DEF ThingsOf, KnowledgeBase
  <1>5. FactsOf(after) = {a \in FactsOf(base) : ~Uses(a, n)}
    <2>1. Known(after) = {f \in Known(base) : ~Uses(f, n)}
      BY <1>2 DEF Known, WithoutFunctions
    <2> QED
      BY <1>2, <2>1 DEF FactsOf, WithoutPredicates
  <1>6. Grounded(after)
    <2> SUFFICES ASSUME NEW a \in FactsOf(after)
                 PROVE  IsGrounded(after, a)
      BY DEF Grounded
    <2>1. a \in FactsOf(base) /\ ~Uses(a, n)
      BY <1>5
    <2>2. IsGrounded(base, a)
      BY <2>1 DEF Sound, Grounded
    <2>3. a.args \in Seq(Names)
      BY <1>1, <2>1, FactsAreAtoms
    <2>4. \A i \in DOMAIN a.args : a.args[i] \in Names /\ a.args[i] # n
      BY <2>1, <2>3 DEF Uses
    <2>5. \A m \in Names : m # n => after.instances[m] = base.instances[m]
      BY <1>1, <1>2 DEF KnowledgeBase
    <2> QED
      BY <2>2, <2>4, <2>5 DEF IsGrounded, Refers
  <1> QED
    BY <1>3, <1>4, <1>5, <1>6 DEF Sound, Forgets

\* Same instances and goal, with facts that are grounded: sound.
LEMMA SameThingsSound ==
    ASSUME NEW base, Sound(base), NEW after \in KnowledgeBase,
           after.instances = base.instances,
           \A a \in FactsOf(after) \ FactsOf(base) : IsValid(base, a)
    PROVE  Sound(after) /\ ThingsOf(after) = ThingsOf(base)
  <1>1. base \in KnowledgeBase
    BY DEF Sound
  <1>2. Grounded(after)
    <2> SUFFICES ASSUME NEW a \in FactsOf(after)
                 PROVE  IsGrounded(after, a)
      BY DEF Grounded
    <2>1. a \in Predicates \cup Functions
      BY FactsAreAtoms
    <2>2. IsGrounded(base, a)
      BY <1>1, <2>1, ValidIsGrounded DEF Sound, Grounded
    <2> QED
      BY <1>1, <2>1, <2>2, GroundedGrows
  <1>3. ThingsOf(after) = ThingsOf(base)
    BY DEF ThingsOf
  <1> QED
    BY <1>2, <1>3 DEF Sound

\* addPredicate adds only what refers to known instances.
LEMMA AddPredicateSound ==
    ASSUME NEW base, Sound(base), NEW p \in Predicates
    PROVE  /\ Sound(AddPredicate(base, p).kb)
           /\ Learns(base, AddPredicate(base, p).kb)
  <1> DEFINE after == AddPredicate(base, p).kb
  <1>1. base \in KnowledgeBase
    BY DEF Sound
  <1>2. CASE ExistPredicate(base, p) \/ ~IsValid(base, p)
    <2>1. after = base
      BY <1>2 DEF AddPredicate, Answer
    <2> QED
      BY <2>1 DEF Learns
  <1>3. CASE ~ExistPredicate(base, p) /\ IsValid(base, p)
    <2>1. after = [base EXCEPT !.predicates = base.predicates \cup {p}]
      BY <1>3 DEF AddPredicate, Answer
    <2>2. /\ after \in KnowledgeBase
          /\ after.instances = base.instances
          /\ after.predicates = base.predicates \cup {p}
          /\ after.functions = base.functions
      BY <1>1, <2>1 DEF KnowledgeBase
    <2>3. FactsOf(after) = FactsOf(base) \cup {p}
      BY <2>2 DEF FactsOf, Known
    <2>4. Sound(after) /\ ThingsOf(after) = ThingsOf(base)
      BY <1>3, <2>2, <2>3, SameThingsSound
    <2> QED
      BY <2>3, <2>4 DEF Learns
  <1> QED
    BY <1>2, <1>3

\* removePredicate takes back one fact, or none.
LEMMA RemovePredicateSound ==
    ASSUME NEW base, Sound(base), NEW p \in Predicates
    PROVE  /\ Sound(RemovePredicate(base, p).kb)
           /\ \/ RemovePredicate(base, p).kb = base
              \/ Retracts(base, RemovePredicate(base, p).kb, p)
  <1> DEFINE after == RemovePredicate(base, p).kb
  <1>1. base \in KnowledgeBase
    BY DEF Sound
  <1>2. CASE ~IsValid(base, p)
    BY <1>2 DEF RemovePredicate, Answer
  <1>3. CASE IsValid(base, p)
    <2>1. after = [base EXCEPT !.predicates = base.predicates \ {p}]
      BY <1>3 DEF RemovePredicate, Answer
    <2>2. /\ after \in KnowledgeBase
          /\ after.instances = base.instances
          /\ after.predicates = base.predicates \ {p}
          /\ after.functions = base.functions
      BY <1>1, <2>1 DEF KnowledgeBase
    <2>3. FactsOf(after) = FactsOf(base) \ {p}
      BY <2>2 DEF FactsOf, Known
    <2>4. Sound(after) /\ ThingsOf(after) = ThingsOf(base)
      BY <2>2, <2>3, SameThingsSound
    <2> QED
      BY <2>3, <2>4 DEF Retracts
  <1> QED
    BY <1>2, <1>3

\* A valid function is given a value.
LEMMA SetFunctionSound ==
    ASSUME NEW base, Sound(base), NEW f \in Functions, NEW v \in Values,
           IsValid(base, f)
    PROVE  /\ Sound([base EXCEPT !.functions[f] = v])
           /\ Learns(base, [base EXCEPT !.functions[f] = v])
  <1> DEFINE after == [base EXCEPT !.functions[f] = v]
  <1>1. base \in KnowledgeBase
    BY DEF Sound
  <1>2. /\ after \in KnowledgeBase
        /\ after.instances = base.instances
        /\ after.predicates = base.predicates
        /\ after.functions = [base.functions EXCEPT ![f] = v]
    BY <1>1 DEF KnowledgeBase
  <1>3. FactsOf(after) = FactsOf(base) \cup {f}
    BY <1>1, <1>2 DEF FactsOf, Known, KnowledgeBase
  <1> HIDE DEF after
  <1>4. Sound(after) /\ ThingsOf(after) = ThingsOf(base)
    BY <1>2, <1>3, SameThingsSound
  <1> QED
    BY <1>3, <1>4 DEF Learns, after

\* updateFunction gives a value to a function that is known and valid.
LEMMA UpdateFunctionSound ==
    ASSUME NEW base, Sound(base), NEW f \in Functions, NEW v \in Values
    PROVE  /\ Sound(UpdateFunction(base, f, v).kb)
           /\ Learns(base, UpdateFunction(base, f, v).kb)
  <1>1. Learns(base, base)
    BY DEF Learns
  <1>2. CASE f \in Known(base) /\ IsValid(base, f)
    BY <1>2, SetFunctionSound DEF UpdateFunction, Answer
  <1>3. CASE ~(f \in Known(base) /\ IsValid(base, f))
    BY <1>1, <1>3 DEF UpdateFunction, Answer
  <1> QED
    BY <1>2, <1>3

\* addFunction adds only what refers to known instances.
LEMMA AddFunctionSound ==
    ASSUME NEW base, Sound(base), NEW f \in Functions, NEW v \in Values
    PROVE  /\ Sound(AddFunction(base, f, v).kb)
           /\ Learns(base, AddFunction(base, f, v).kb)
  <1>1. Learns(base, base)
    BY DEF Learns
  <1>2. CASE f \in Known(base)
    BY <1>2, UpdateFunctionSound DEF AddFunction
  <1>3. CASE f \notin Known(base) /\ IsValid(base, f)
    BY <1>3, SetFunctionSound DEF AddFunction, Answer
  <1>4. CASE f \notin Known(base) /\ ~IsValid(base, f)
    BY <1>1, <1>4 DEF AddFunction, Answer
  <1> QED
    BY <1>2, <1>3, <1>4

\* removeFunction takes back one function, or none.
LEMMA RemoveFunctionSound ==
    ASSUME NEW base, Sound(base), NEW f \in Functions
    PROVE  /\ Sound(RemoveFunction(base, f).kb)
           /\ \/ RemoveFunction(base, f).kb = base
              \/ Retracts(base, RemoveFunction(base, f).kb, f)
  <1> DEFINE after == RemoveFunction(base, f).kb
  <1>1. base \in KnowledgeBase
    BY DEF Sound
  <1>2. CASE ~IsValid(base, f)
    BY <1>2 DEF RemoveFunction, Answer
  <1>3. CASE IsValid(base, f)
    <2>1. after = [base EXCEPT !.functions[f] = None]
      BY <1>3 DEF RemoveFunction, Answer
    <2>2. /\ after \in KnowledgeBase
          /\ after.instances = base.instances
          /\ after.predicates = base.predicates
          /\ after.functions = [base.functions EXCEPT ![f] = None]
      BY <1>1, <2>1 DEF KnowledgeBase
    <2>3. FactsOf(after) = FactsOf(base) \ {f}
      <3>1. f \notin base.predicates
        BY <1>1 DEF KnowledgeBase
      <3>2. Known(after) = Known(base) \ {f}
        BY <1>1, <2>2 DEF Known, KnowledgeBase
      <3> QED
        BY <2>2, <3>1, <3>2 DEF FactsOf
    <2>4. Sound(after) /\ ThingsOf(after) = ThingsOf(base)
      BY <2>2, <2>3, SameThingsSound
    <2> QED
      BY <2>3, <2>4 DEF Retracts
  <1> QED
    BY <1>2, <1>3

\* Another goal changes nothing else.
LEMMA OtherGoalSound ==
    ASSUME NEW base, Sound(base), NEW goal \in Goals
    PROVE  /\ Sound([base EXCEPT !.goal = goal])
           /\ ThingsOf([base EXCEPT !.goal = goal]) = ThingsOf(base)
           /\ FactsOf([base EXCEPT !.goal = goal]) = FactsOf(base)
  <1> DEFINE after == [base EXCEPT !.goal = goal]
  <1>1. base \in KnowledgeBase
    BY DEF Sound
  <1>2. /\ after \in KnowledgeBase
        /\ after.instances = base.instances
        /\ after.predicates = base.predicates
        /\ after.functions = base.functions
    BY <1>1 DEF KnowledgeBase
  <1>3. FactsOf(after) = FactsOf(base)
    BY <1>2 DEF FactsOf, Known
  <1> QED
    BY <1>2, <1>3, SameThingsSound

\* setGoal leaves instances and facts as they are.
LEMMA SetGoalSound ==
    ASSUME NEW base, Sound(base), NEW goal \in Goals
    PROVE  /\ Sound(SetGoal(base, goal).kb)
           /\ ThingsOf(SetGoal(base, goal).kb) = ThingsOf(base)
           /\ FactsOf(SetGoal(base, goal).kb) = FactsOf(base)
  BY OtherGoalSound DEF SetGoal, Answer

\* clearGoal leaves instances and facts as they are.
LEMMA ClearGoalSound ==
    ASSUME NEW base, Sound(base)
    PROVE  /\ Sound(ClearGoal(base).kb)
           /\ ThingsOf(ClearGoal(base).kb) = ThingsOf(base)
           /\ FactsOf(ClearGoal(base).kb) = FactsOf(base)
  <1>1. NoGoal \in Goals
    BY DEF NoGoal, Goals
  <1> QED
    BY <1>1, OtherGoalSound DEF ClearGoal, Answer

\* Instances are added where the name is free; the facts that are then valid
\* are stored.
LEMMA AddProblemSound ==
    ASSUME NEW base, Sound(base), NEW problem \in ProblemTexts
    PROVE  /\ Sound(AddProblem(base, problem).kb)
           /\ Learns(base, AddProblem(base, problem).kb)
  <1> DEFINE known == WithObjects(WithConstants(base.instances), problem.objects)
             more == [base EXCEPT !.instances = known]
             facts == [more EXCEPT
                 !.predicates = more.predicates \cup
                                    {p \in problem.init : IsValid(more, p)},
                 !.functions = [f \in Functions |->
                     IF problem.values[f] # None /\ IsValid(more, f)
                     THEN problem.values[f] ELSE more.functions[f]]]
  <1>1. base \in KnowledgeBase
    BY DEF Sound
  <1>2. CASE ~problem.readable
    BY <1>2 DEF AddProblem, Answer, Learns
  <1>3. CASE problem.readable
    <2>1. /\ WithConstants(base.instances) \in [Names -> Types \cup {None}]
          /\ \A n \in Names : base.instances[n] # None =>
                 WithConstants(base.instances)[n] = base.instances[n]
      BY <1>1 DEF WithConstants, KnowledgeBase
    <2>2. /\ known \in [Names -> Types \cup {None}]
          /\ \A n \in Names : base.instances[n] # None =>
                                    known[n] = base.instances[n]
      <3>1. problem.objects \in [Names -> Types \cup {None}]
        BY DEF ProblemTexts
      <3> QED
        BY <2>1, <3>1 DEF WithObjects
    <2> HIDE DEF known
    <2>3. /\ more \in KnowledgeBase
          /\ more.instances = known
          /\ more.predicates = base.predicates
          /\ more.functions = base.functions
      BY <1>1, <2>2 DEF KnowledgeBase
    <2>4. FactsOf(more) = FactsOf(base)
      BY <2>3 DEF FactsOf, Known
    <2>5. Sound(more)
      BY <1>1, <2>2, <2>3, <2>4, FactsAreAtoms, GroundedGrows DEF Sound, Grounded
    <2>6. ThingsOf(base) \subseteq ThingsOf(more)
      BY <2>2, <2>3 DEF ThingsOf
    <2> HIDE DEF more
    <2>7. /\ problem.init \subseteq Predicates
          /\ problem.values \in [Functions -> Values \cup {None}]
          /\ problem.goal \in Goals
      BY DEF ProblemTexts
    <2>8. /\ facts \in KnowledgeBase
          /\ facts.instances = more.instances
          /\ facts.predicates = more.predicates \cup
                                    {p \in problem.init : IsValid(more, p)}
          /\ facts.functions = [f \in Functions |->
                     IF problem.values[f] # None /\ IsValid(more, f)
                     THEN problem.values[f] ELSE more.functions[f]]
      BY <2>3, <2>7 DEF KnowledgeBase
    <2> HIDE DEF facts
    <2>9. /\ FactsOf(more) \subseteq FactsOf(facts)
          /\ \A a \in FactsOf(facts) \ FactsOf(more) : IsValid(more, a)
      BY <2>3, <2>7, <2>8 DEF FactsOf, Known, KnowledgeBase
    <2>10. Sound(facts) /\ ThingsOf(facts) = ThingsOf(more)
      BY <2>5, <2>8, <2>9, SameThingsSound
    <2>11. AddProblem(base, problem).kb = SetGoal(facts, problem.goal).kb
      BY <1>3 DEF AddProblem, Answer, facts, more, known
    <2> QED
      BY <2>4, <2>6, <2>7, <2>9, <2>10, <2>11, SetGoalSound DEF Learns
  <1> QED
    BY <1>2, <1>3

\* What the node knows after its first activation is sound.
LEMMA FirstIsSound == Sound(FirstKnowledge)
  BY NothingIsSound, AddProblemSound DEF FirstKnowledge

-----------------------------------------------------------------------------
\* What the callbacks do to the knowledge, one disjunct per kind of change.
Change ==
    \/ kb' = kb
    \/ kb' = FirstKnowledge \/ kb' = NoKnowledge
    \/ Learns(kb, kb')
    \/ \E n \in Names : Forgets(kb, kb', n)
    \/ \E a \in Predicates \cup Functions : Retracts(kb, kb', a)
    \/ ThingsOf(kb') = ThingsOf(kb) /\ FactsOf(kb') = FactsOf(kb)

SoundInv == TypeOK /\ Grounded(kb)

\* An answer of the node is of its declared type.
LEMMA ReplyTypes ==
    ASSUME NEW answer, NEW topics \in SUBSET Topics, TypeOK, Reply(answer, topics)
    PROVE  /\ state' \in States
           /\ created' \in BOOLEAN
           /\ outcome' \in [reply : {"none", "done", "failed", "refused"},
                            sent : SUBSET Topics]
           /\ kb' = IF created THEN answer.kb ELSE kb
  BY DEF Reply, TypeOK

\* Whatever the callback, the knowledge stays sound and changes in one of
\* those ways.
LEMMA StepSound ==
    SoundInv /\ Next => SoundInv' /\ Change
  <1> SUFFICES ASSUME SoundInv, Next
               PROVE  SoundInv' /\ Change
    OBVIOUS
  <1> DEFINE typed == /\ state' \in States
                      /\ created' \in BOOLEAN
                      /\ outcome' \in [reply : {"none", "done", "failed", "refused"},
                                       sent : SUBSET Topics]
  <1>1. Sound(kb)
    BY DEF SoundInv, Sound, TypeOK
  <1>2. SUFFICES typed /\ Sound(kb') /\ Change
    BY DEF SoundInv, Sound, TypeOK
  <1>3. TypeOK
    BY DEF SoundInv
  <1>4. {} \in SUBSET Topics /\ {"update_notify"} \in SUBSET Topics
    BY DEF Topics
  <1>5. CASE OnConfigure
    BY <1>3, <1>5, FirstIsSound
    DEF OnConfigure, TypeOK, States, Silence, Change
  <1>6. CASE OnActivate \/ OnDeactivate \/ OnCleanup \/ OnShutdown
    BY <1>1, <1>3, <1>6
    DEF OnActivate, OnDeactivate, OnCleanup, OnShutdown, TypeOK, States, Silence,
        Change
  <1>7. CASE AddProblemCallback
    <2>1. PICK p \in Problems : Reply(AddProblem(kb, p), Topics)
      BY <1>7 DEF AddProblemCallback
    <2>2. p \in ProblemTexts
      OBVIOUS
    <2> QED
      BY <1>1, <1>3, <2>1, <2>2, ReplyTypes, AddProblemSound DEF Change
  <1>8. CASE AddProblemGoalCallback
    <2>1. PICK g \in RequestedGoals :
             Reply(IF g.parts = {} THEN Answer(FALSE, kb) ELSE SetGoal(kb, g), Topics)
      BY <1>8 DEF AddProblemGoalCallback
    <2>2. g \in Goals
      OBVIOUS
    <2>3. CASE g.parts = {}
      BY <1>1, <1>3, <2>1, <2>3, ReplyTypes DEF Change, Answer
    <2>4. CASE g.parts # {}
      <3>1. Reply(SetGoal(kb, g), Topics)
        BY <2>1, <2>4
      <3> QED
        BY <1>1, <1>3, <2>2, <3>1, ReplyTypes, SetGoalSound DEF Change
    <2> QED
      BY <2>3, <2>4
  <1>9. CASE AddProblemInstanceCallback
    <2>1. PICK n \in Names, t \in RequestedTypes : Reply(AddInstance(kb, n, t), Topics)
      BY <1>9 DEF AddProblemInstanceCallback
    <2> QED
      BY <1>1, <1>3, <2>1, ReplyTypes, AddInstanceSound DEF Change
  <1>10. CASE AddProblemPredicateCallback
    <2>1. PICK p \in Predicates : Reply(AddPredicate(kb, p), Topics)
      BY <1>10 DEF AddProblemPredicateCallback
    <2> QED
      BY <1>1, <1>3, <2>1, ReplyTypes, AddPredicateSound DEF Change
  <1>11. CASE AddProblemFunctionCallback
    <2>1. PICK f \in Functions, v \in Values : Reply(AddFunction(kb, f, v), Topics)
      BY <1>11 DEF AddProblemFunctionCallback
    <2> QED
      BY <1>1, <1>3, <2>1, ReplyTypes, AddFunctionSound DEF Change
  <1>12. CASE RemoveProblemGoalCallback
    BY <1>1, <1>3, <1>12, ReplyTypes, ClearGoalSound
    DEF Change, RemoveProblemGoalCallback
  <1>13. CASE ClearProblemKnowledgeCallback
    BY <1>1, <1>3, <1>13, ReplyTypes, NothingIsSound
    DEF Change, ClearProblemKnowledgeCallback, ClearKnowledge, Answer
  <1>14. CASE RemoveProblemInstanceCallback
    <2>1. PICK n \in Names : Reply(RemoveInstance(kb, n), Topics)
      BY <1>14 DEF RemoveProblemInstanceCallback
    <2> QED
      BY <1>1, <1>3, <2>1, ReplyTypes, RemoveInstanceSound DEF Change
  <1>15. CASE RemoveProblemPredicateCallback
    <2>1. PICK p \in Predicates : Reply(RemovePredicate(kb, p), Topics)
      BY <1>15 DEF RemoveProblemPredicateCallback
    <2> QED
      BY <1>1, <1>3, <2>1, ReplyTypes, RemovePredicateSound DEF Change
  <1>16. CASE RemoveProblemFunctionCallback
    <2>1. PICK f \in Functions : Reply(RemoveFunction(kb, f), {"update_notify"})
      BY <1>16 DEF RemoveProblemFunctionCallback
    <2> QED
      BY <1>1, <1>3, <1>4, <2>1, ReplyTypes, RemoveFunctionSound DEF Change
  <1>17. CASE UpdateProblemFunctionCallback
    <2>1. PICK f \in Functions, v \in Values :
             Reply(UpdateFunction(kb, f, v), {"update_notify"})
      BY <1>17 DEF UpdateProblemFunctionCallback
    <2> QED
      BY <1>1, <1>3, <1>4, <2>1, ReplyTypes, UpdateFunctionSound DEF Change
  <1>18. CASE QueryCallback \/ ExistProblemPredicateCallback
              \/ IsProblemGoalSatisfiedCallback
    <2>1. \E success : Reply(Answer(success, kb), {})
      BY <1>18 DEF QueryCallback, ExistProblemPredicateCallback,
                   IsProblemGoalSatisfiedCallback
    <2>2. PICK success : Reply(Answer(success, kb), {})
      BY <2>1
    <2> QED
      BY <1>1, <1>3, <1>4, <2>2, ReplyTypes DEF Change, Answer
  <1> QED
    BY <1>5, <1>6, <1>7, <1>8, <1>9, <1>10, <1>11, <1>12, <1>13, <1>14, <1>15,
       <1>16, <1>17, <1>18
    DEF Next, Service

\* The knowledge is sound in every reachable state.
LEMMA SoundInvariant == Spec => []SoundInv
  <1>1. Init => SoundInv
    <2>1. Silence \in [reply : {"none", "done", "failed", "refused"}, sent : SUBSET Topics]
      BY DEF Silence
    <2> QED
      BY <2>1, NothingIsSound DEF Init, SoundInv, Sound, TypeOK, States
  <1>2. SoundInv /\ [Next]_vars => SoundInv'
    <2> SUFFICES ASSUME SoundInv, [Next]_vars
                 PROVE  SoundInv'
      OBVIOUS
    <2>1. CASE Next
      BY <2>1, StepSound
    <2>2. CASE UNCHANGED vars
      BY <2>2 DEF vars, SoundInv, TypeOK
    <2> QED
      BY <2>1, <2>2
  <1> QED
    BY <1>1, <1>2, PTL DEF Spec

\* The node's state stays well typed (TypeOK of ProblemExpert).
THEOREM TypeCorrect == Spec => []TypeOK
  BY SoundInvariant, PTL DEF SoundInv

\* Whatever clients add and remove, stored atoms name known things of the
\* types of their parameters: removeInstance takes along what uses it.
THEOREM ReferencesCorrect == Spec => []ReferencesHold
  BY SoundInvariant, PTL DEF SoundInv, ReferencesHold

\* A grounded atom is about instances and constants only.
LEMMA GroundedIsAbout ==
    ASSUME NEW base \in KnowledgeBase, NEW a \in Predicates \cup Functions,
           IsGrounded(base, a), NEW i \in DOMAIN a.args
    PROVE  a.args[i] \in ThingsOf(base) \cup UNION {Constants[t] : t \in Types}
  <1> DEFINE Slots == [type : Types, subTypes : SUBSET Types]
             slots == Signature[a.name]
  <1>1. a.args \in Seq(Names) /\ slots \in Seq(Slots) /\ Len(slots) = Len(a.args)
    BY DEF IsGrounded
  <1>2. a.args[i] \in Names /\ i \in 1 .. Len(slots)
    BY <1>1
  <1>3. Signature[a.name][i].type \in Types
    <2> HIDE DEF slots, Slots
    <2>1. slots[i] \in Slots
      BY <1>1, <1>2
    <2> QED
      BY <2>1 DEF slots, Slots
  <1> QED
    BY <1>2, <1>3 DEF IsGrounded, Refers, ThingsOf

\* The knowledge of the node implements FactBase: every callback adds facts
\* about known things, removes one fact, removes a thing with all the facts
\* about it, starts again, or does nothing to them.
THEOREM KnowledgeIsFactBase == Spec => ImplementsFactBase
  <1> DEFINE About == [a \in Predicates \cup Functions |->
                          {a.args[i] : i \in DOMAIN a.args}]
             Permanent == UNION {Constants[t] : t \in Types}
  <1>1. Init => Facts!Init
    BY DEF Init, Facts!Init, ThingsOf, FactsOf, Known, NoKnowledge
  <1>2. SoundInv /\ SoundInv' /\ Change => [Facts!Next]_<<ThingsOf(kb), FactsOf(kb)>>
    <2> SUFFICES ASSUME SoundInv, SoundInv', Change
                 PROVE  \/ Facts!Next
                        \/ UNCHANGED <<ThingsOf(kb), FactsOf(kb)>>
      OBVIOUS
    <2>1. /\ kb \in KnowledgeBase /\ kb' \in KnowledgeBase
          /\ Grounded(kb')
      BY DEF SoundInv, TypeOK
    <2>2. /\ FactsOf(kb) \subseteq Predicates \cup Functions
          /\ FactsOf(kb') \subseteq Predicates \cup Functions
          /\ ThingsOf(kb') \subseteq Names
      BY <2>1, FactsAreAtoms DEF ThingsOf
    <2>3. CASE kb' = kb \/ (ThingsOf(kb') = ThingsOf(kb) /\ FactsOf(kb') = FactsOf(kb))
      BY <2>3
    <2>4. CASE kb' = FirstKnowledge \/ kb' = NoKnowledge
      BY <2>4 DEF Facts!Next, Facts!Restart, Beginning
    <2>5. CASE Learns(kb, kb')
      <3>1. \A f \in FactsOf(kb') : About[f] \subseteq ThingsOf(kb') \cup Permanent
        BY <2>1, <2>2, GroundedIsAbout DEF Grounded
      <3> QED
        BY <2>2, <2>5, <3>1 DEF Learns, Facts!Next, Facts!Learn
    <2>6. CASE \E n \in Names : Forgets(kb, kb', n)
      <3>1. PICK n \in Names : Forgets(kb, kb', n)
        BY <2>6
      <3>2. \A a \in FactsOf(kb) : Uses(a, n) <=> n \in About[a]
        BY <2>2 DEF Uses
      <3>3. FactsOf(kb') = {a \in FactsOf(kb) : n \notin About[a]}
        BY <3>1, <3>2 DEF Forgets
      <3> QED
        BY <3>1, <3>3 DEF Forgets, Facts!Next, Facts!Forget
    <2>7. CASE \E a \in Predicates \cup Functions : Retracts(kb, kb', a)
      BY <2>7 DEF Retracts, Facts!Next, Facts!Retract
    <2> QED
      BY <2>3, <2>4, <2>5, <2>6, <2>7 DEF Change
  <1>3. SoundInv /\ [Next]_vars => [Facts!Next]_<<ThingsOf(kb), FactsOf(kb)>>
    <2>1. SoundInv /\ Next => [Facts!Next]_<<ThingsOf(kb), FactsOf(kb)>>
      BY <1>2, StepSound
    <2>2. UNCHANGED vars => UNCHANGED <<ThingsOf(kb), FactsOf(kb)>>
      BY DEF vars
    <2> QED
      BY <2>1, <2>2
  <1> QED
    BY <1>1, <1>3, SoundInvariant, PTL DEF Spec, ImplementsFactBase, Facts!Spec
-----------------------------------------------------------------------------
(* A problem that is written and read again                                *)

\* The domain gives a constant one type.  The parser does not look, and takes the
\* type that comes first for the instance it makes of the constant.
OneTypeEach == \A t, u \in Types : Constants[t] \cap Constants[u] # {} => t = u

\* The instances that are there once the text of a knowledge base is read.
AreReadAgain(base) ==
    WithObjects(WithConstants(NoKnowledge.instances), GetProblem(base).objects)

\* What was an instance is one again, and what was a constant is an instance of its
\* type.
LEMMA InstancesAreReadAgain ==
    ASSUME OneTypeEach, NEW base \in KnowledgeBase, ~Shadowed(base), NEW n \in Names
    PROVE  /\ base.instances[n] # None => AreReadAgain(base)[n] = base.instances[n]
           /\ \A t \in Types :
                 base.instances[n] = None /\ n \in Constants[t] => AreReadAgain(base)[n] = t
  <1> DEFINE first == WithConstants(NoKnowledge.instances)
  <1>1. base.instances[n] \in Types \cup {None}
    BY DEF KnowledgeBase
  <1>2. \A t \in Types : n \in Constants[t] => first[n] = t
    <2> SUFFICES ASSUME NEW t \in Types, n \in Constants[t]
                 PROVE  first[n] = t
      OBVIOUS
    <2>1. first[n] = CHOOSE u \in Types : n \in Constants[u]
      BY DEF WithConstants, NoKnowledge
    <2>2. PICK u \in Types : first[n] = u /\ n \in Constants[u]
      BY <2>1
    <2> QED BY <2>2 DEF OneTypeEach
  <1>3. (\A t \in Types : n \notin Constants[t]) => first[n] = None
    BY DEF WithConstants, NoKnowledge
  <1>4. AreReadAgain(base)[n] =
            IF first[n] # None THEN first[n] ELSE GetProblem(base).objects[n]
    BY DEF AreReadAgain, WithObjects
  <1>5. GetProblem(base).objects[n] =
            IF base.instances[n] # None /\ n \in Constants[base.instances[n]]
            THEN None ELSE base.instances[n]
    BY DEF GetProblem
  <1> HIDE DEF first
  <1>6. ASSUME base.instances[n] # None
        PROVE  AreReadAgain(base)[n] = base.instances[n]
    <2>1. CASE \E t \in Types : n \in Constants[t]
      BY <1>1, <1>2, <1>4, <1>6, <2>1 DEF Shadowed
    <2>2. CASE \A t \in Types : n \notin Constants[t]
      BY <1>1, <1>3, <1>4, <1>5, <1>6, <2>2
    <2> QED BY <2>1, <2>2
  <1>7. ASSUME NEW t \in Types, n \in Constants[t]
        PROVE  AreReadAgain(base)[n] = t
    BY <1>2, <1>4, <1>7 DEF Shadowed
  <1> QED BY <1>6, <1>7

\* A grounded atom is valid once the text is read.
LEMMA FactsAreReadAgain ==
    ASSUME OneTypeEach, NEW base \in KnowledgeBase, ~Shadowed(base),
           NEW more, more.instances = AreReadAgain(base),
           NEW a \in Predicates \cup Functions, IsGrounded(base, a)
    PROVE  IsValid(more, a)
  <1> DEFINE Slots == [type : Types, subTypes : SUBSET Types]
             slots == Signature[a.name]
  <1>1. a.args \in Seq(Names) /\ slots \in Seq(Slots) /\ Len(slots) = Len(a.args)
        /\ a.name \in DOMAIN Signature
    BY DEF IsGrounded
  <1>2. ASSUME NEW i \in DOMAIN a.args
        PROVE  IsArgument(more.instances, slots[i], a.args[i])
    <2> HIDE DEF Slots, slots
    <2>1. a.args[i] \in Names /\ slots[i] \in Slots
      BY <1>1, <1>2
    <2>2. slots[i].type \in Types
      BY <2>1 DEF Slots
    <2>3. Refers(base, slots[i], a.args[i])
      BY <1>2 DEF IsGrounded, slots
    <2>4. None \notin Types
      OBVIOUS
    <2>5. CASE base.instances[a.args[i]] # None /\ Accepts(slots[i], base.instances[a.args[i]])
      BY <2>1, <2>5, InstancesAreReadAgain DEF IsArgument
    <2>6. CASE base.instances[a.args[i]] = None /\ a.args[i] \in Constants[slots[i].type]
      BY <2>1, <2>2, <2>4, <2>6, InstancesAreReadAgain DEF IsArgument, Accepts
    <2>7. CASE base.instances[a.args[i]] # None /\ a.args[i] \in Constants[slots[i].type]
      <3>1. base.instances[a.args[i]] = slots[i].type
        BY <2>1, <2>2, <2>7 DEF Shadowed
      <3> QED BY <2>1, <2>7, <3>1, InstancesAreReadAgain DEF IsArgument, Accepts
    <2> QED BY <2>3, <2>5, <2>6, <2>7 DEF Refers
  <1> QED BY <1>1, <1>2 DEF IsValid

\* For a domain that gives each constant one type, getProblem and addProblem keep
\* the problem: every predicate and function is valid when it is read again, and
\* every instance is there.
THEOREM TextIsReadAgain == OneTypeEach => (Spec => []RoundTrip)
  <1> SUFFICES ASSUME OneTypeEach PROVE Spec => []RoundTrip
    OBVIOUS
  <1>1. SoundInv => RoundTrip
    <2> SUFFICES ASSUME SoundInv, ~Shadowed(kb)
                 PROVE  LET again == AddProblem(NoKnowledge, GetProblem(kb)).kb
                        IN  /\ again.predicates = kb.predicates
                            /\ again.functions = kb.functions
                            /\ \A n \in Names : kb.instances[n] # None =>
                                                    again.instances[n] = kb.instances[n]
      BY DEF RoundTrip
    <2> DEFINE text == GetProblem(kb)
               more == [NoKnowledge EXCEPT !.instances = AreReadAgain(kb)]
               facts == [more EXCEPT
                 !.predicates = more.predicates \cup {p \in text.init : IsValid(more, p)},
                 !.functions = [f \in Functions |->
                     IF text.values[f] # None /\ IsValid(more, f)
                     THEN text.values[f] ELSE more.functions[f]]]
               again == AddProblem(NoKnowledge, text).kb
    <2>1. kb \in KnowledgeBase /\ Grounded(kb)
      BY DEF SoundInv, TypeOK
    <2>2. text.readable /\ text.init = kb.predicates /\ text.values = kb.functions
      BY DEF GetProblem
    <2>3. /\ more.instances = AreReadAgain(kb) /\ more.predicates = {}
          /\ more.functions = [f \in Functions |-> None]
      BY DEF NoKnowledge
    <2>4. again = SetGoal(facts, text.goal).kb
      BY <2>2 DEF AddProblem, Answer, AreReadAgain
    <2>5. /\ facts.instances = more.instances
          /\ facts.predicates = more.predicates \cup {p \in text.init : IsValid(more, p)}
          /\ facts.functions = [f \in Functions |->
                     IF text.values[f] # None /\ IsValid(more, f)
                     THEN text.values[f] ELSE more.functions[f]]
      BY DEF NoKnowledge
    <2> HIDE DEF text, facts, more
    <2>6. /\ again.instances = facts.instances /\ again.predicates = facts.predicates
          /\ again.functions = facts.functions
      BY <2>4 DEF SetGoal, Answer
    <2>7. \A a \in FactsOf(kb) : IsValid(more, a)
      BY <2>1, <2>3, FactsAreAtoms, FactsAreReadAgain DEF Grounded
    <2>8. again.predicates = kb.predicates
      BY <2>2, <2>3, <2>5, <2>6, <2>7 DEF FactsOf
    <2>9. again.functions = kb.functions
      BY <2>1, <2>2, <2>3, <2>5, <2>6, <2>7 DEF FactsOf, Known, KnowledgeBase
    <2>10. \A n \in Names : kb.instances[n] # None => again.instances[n] = kb.instances[n]
      BY <2>1, <2>3, <2>5, <2>6, InstancesAreReadAgain
    <2> QED BY <2>8, <2>9, <2>10 DEF text
  <1> QED BY <1>1, SoundInvariant, PTL

-----------------------------------------------------------------------------
(* The node does what it does alone                                        *)

\* Calls, messages and answers leave the knowledge of the node alone.
LEMMA NodeSteps == [ClientNext]_allVars => [Next]_vars
  <1> SUFFICES ASSUME [ClientNext]_allVars PROVE [Next]_vars
    OBVIOUS
  <1>1. ASSUME NEW service, Callback(service)
        PROVE  Service
    BY <1>1 DEF Callback, Service
  <1>2. CASE Serve \/ ServeAnother \/ Transition
    BY <1>1, <1>2 DEF Serve, ServeAnother, Transition, Next
  <1>3. CASE ReceiveProblem \/ ReceiveUpdate \/ Complete \/ Call
    BY <1>3 DEF ReceiveProblem, ReceiveUpdate, Complete, Call, Aside
  <1>4. CASE UNCHANGED allVars
    BY <1>4 DEF allVars
  <1> QED BY <1>2, <1>3, <1>4 DEF ClientNext, Aside

\* The node that serves clients implements the node alone, and with it FactBase.
THEOREM ServesAsNode == ClientSpec => Spec
  <1>1. ClientInit => Init
    BY DEF ClientInit
  <1> QED BY <1>1, NodeSteps, PTL DEF ClientSpec, Spec

-----------------------------------------------------------------------------
(* What the node publishes                                                 *)

\* A node that publishes has an active state, and publishes on what its callback
\* names.
LEMMA ReplyTells ==
    ASSUME NEW answer, NEW topics, Reply(answer, topics)
    PROVE  /\ kb' = kb \/ kb' = answer.kb
           /\ state = "active" /\ outcome'.reply = "done" => outcome'.sent = topics
  BY DEF Reply

\* Only functions differ.
SameButFunctions(base, after) == [after EXCEPT !.functions = base.functions] = base

\* Removing a function and giving it a value change only functions.
LEMMA OnlyFunctionsChange ==
    ASSUME NEW base \in KnowledgeBase, NEW f, NEW v
    PROVE  /\ SameButFunctions(base, RemoveFunction(base, f).kb)
           /\ SameButFunctions(base, UpdateFunction(base, f, v).kb)
  <1>1. /\ SameButFunctions(base, base)
        /\ \A w : SameButFunctions(base, [base EXCEPT !.functions[f] = w])
    BY DEF SameButFunctions, KnowledgeBase
  <1> QED BY <1>1 DEF RemoveFunction, UpdateFunction, Answer

\* Whatever changes the knowledge is told to those who listen, but for what the
\* node leaves out.
LEMMA ChangeIsTold ==
    ASSUME kb \in KnowledgeBase, Next, kb' # kb,
           state = "active", outcome'.reply = "done"
    PROVE  /\ "update_notify" \in outcome'.sent
           /\ "problem" \in outcome'.sent \/ SameButFunctions(kb, kb')
  <1>1. ASSUME NEW answer, Reply(answer, Topics)
        PROVE  outcome'.sent = Topics
    BY <1>1, ReplyTells
  <1>2. ASSUME NEW answer, Reply(answer, {"update_notify"})
        PROVE  outcome'.sent = {"update_notify"} /\ kb' = answer.kb
    BY <1>2, ReplyTells
  <1>3. ASSUME NEW success, Reply(Answer(success, kb), {})
        PROVE  FALSE
    BY <1>3, ReplyTells DEF Answer
  <1>4. ~(OnConfigure \/ OnActivate \/ OnDeactivate \/ OnCleanup \/ OnShutdown)
    BY DEF OnConfigure, OnActivate, OnDeactivate, OnCleanup, OnShutdown
  <1>5. ~(QueryCallback \/ ExistProblemPredicateCallback \/ IsProblemGoalSatisfiedCallback)
    BY <1>3 DEF QueryCallback, ExistProblemPredicateCallback, IsProblemGoalSatisfiedCallback
  <1>6. CASE RemoveProblemFunctionCallback \/ UpdateProblemFunctionCallback
    BY <1>2, <1>6, OnlyFunctionsChange
       DEF RemoveProblemFunctionCallback, UpdateProblemFunctionCallback
  <1>7. CASE outcome'.sent = Topics
    BY <1>7 DEF Topics
  <1>8. CASE \/ AddProblemCallback \/ AddProblemGoalCallback \/ AddProblemInstanceCallback
             \/ AddProblemPredicateCallback \/ AddProblemFunctionCallback
             \/ RemoveProblemGoalCallback \/ ClearProblemKnowledgeCallback
             \/ RemoveProblemInstanceCallback \/ RemoveProblemPredicateCallback
    BY <1>1, <1>7, <1>8
       DEF AddProblemCallback, AddProblemGoalCallback, AddProblemInstanceCallback,
           AddProblemPredicateCallback, AddProblemFunctionCallback, RemoveProblemGoalCallback,
           ClearProblemKnowledgeCallback, RemoveProblemInstanceCallback,
           RemoveProblemPredicateCallback
  <1> QED BY <1>4, <1>5, <1>6, <1>8 DEF Next, Service

\* What getProblem writes is the text of a problem.
LEMMA TextIsText ==
    ASSUME NEW base \in KnowledgeBase
    PROVE  GetProblem(base) \in ProblemTexts
  <1>1. [NoGoal EXCEPT !.root = "AND"] \in Goals
    BY DEF NoGoal, Goals
  <1>2. GetProblem(base).objects \in [Names -> Types \cup {None}]
    BY DEF GetProblem, KnowledgeBase
  <1>3. GetProblem(base).goal \in Goals
    BY <1>1 DEF GetProblem, KnowledgeBase
  <1> QED BY <1>2, <1>3 DEF GetProblem, ProblemTexts, KnowledgeBase

-----------------------------------------------------------------------------
(* The copy of a client                                                    *)

\* A step of the node keeps the copy as current as it was.
LEMMA DeliverKeeps ==
    ASSUME CopyInv, kb \in KnowledgeBase, kb' \in KnowledgeBase, Next, Deliver
    PROVE  CopyInv'
  <1>0. inbox \in Seq(ProblemTexts) /\ notices \in Nat /\ dated \in BOOLEAN
    BY DEF CopyInv
  <1>1. /\ inbox' = IF "problem" \in outcome'.sent THEN Append(inbox, GetProblem(kb'))
                    ELSE inbox
        /\ notices' = IF "update_notify" \in outcome'.sent THEN notices + 1 ELSE notices
        /\ dated' = (dated /\ kb' = kb)
        /\ exempt' = (exempt \cup LeftOut) \ outcome'.sent
        /\ cached' = cached
    BY DEF Deliver
  <1>2. inbox' \in Seq(ProblemTexts) /\ notices' \in Nat /\ dated' \in BOOLEAN
    BY <1>0, <1>1, TextIsText
  <1>3. ASSUME kb' # kb
        PROVE  /\ "update_notify" \in outcome'.sent \cup LeftOut
               /\ "problem" \in outcome'.sent \cup LeftOut
    BY <1>3, ChangeIsTold DEF LeftOut, SameButFunctions
  <1>4. ChangesAreNoticed'
    BY <1>0, <1>1, <1>3 DEF CopyInv, ChangesAreNoticed
  <1>5. LastTextIsCurrent'
    <2>1. CASE "problem" \in outcome'.sent
      BY <1>0, <1>1, <2>1 DEF LastTextIsCurrent
    <2>2. CASE "problem" \notin outcome'.sent
      BY <1>1, <1>3, <2>2 DEF CopyInv, LastTextIsCurrent, CacheIsCurrent
    <2> QED BY <2>1, <2>2
  <1> QED BY <1>2, <1>4, <1>5 DEF CopyInv

\* Whatever the client and the node do, the copy stays as current.
LEMMA CopyInvNext ==
    ASSUME CopyInv, SoundInv, SoundInv', [ClientNext]_allVars
    PROVE  CopyInv'
  <1>0. inbox \in Seq(ProblemTexts) /\ notices \in Nat /\ dated \in BOOLEAN
        /\ LastTextIsCurrent /\ ChangesAreNoticed
    BY DEF CopyInv
  <1>1. CASE Serve \/ ServeAnother \/ Transition
    <2>1. Next /\ Deliver
      BY <1>1 DEF Serve, ServeAnother, Transition, Callback, Service, Next
    <2> QED BY <2>1, DeliverKeeps DEF SoundInv, TypeOK
  <1>2. CASE ReceiveProblem
    <2>1. /\ inbox # <<>> /\ inbox' = Tail(inbox)
          /\ cached' = [text |-> Head(inbox), by |-> "message"]
          /\ UNCHANGED <<kb, notices, dated, exempt>>
      BY <1>2 DEF ReceiveProblem, vars
    <2>2. CASE Tail(inbox) = <<>>
      <3>1. Len(Tail(inbox)) = Len(inbox) - 1 /\ Len(inbox) \in Nat
        BY <1>0, <2>1
      <3>2. Len(<<>>) = 0
        OBVIOUS
      <3>3. \A s : s = <<>> => Len(s) = 0
        BY <3>2
      <3>4. Len(Tail(inbox)) = 0
        BY <2>2, <3>3, Zenon
      <3>5. Len(inbox) = 1
        BY <3>1, <3>4
      <3> QED BY <1>0, <2>1, <2>2, <3>5
              DEF CopyInv, LastTextIsCurrent, CacheIsCurrent, ChangesAreNoticed
    <2>3. CASE Tail(inbox) # <<>>
      <3>1. inbox'[Len(inbox')] = inbox[Len(inbox)] /\ inbox' \in Seq(ProblemTexts)
        BY <1>0, <2>1, <2>3
      <3> QED BY <1>0, <2>1, <2>3, <3>1 DEF CopyInv, LastTextIsCurrent, ChangesAreNoticed
    <2> QED BY <2>2, <2>3
  <1>3. CASE ReceiveUpdate
    <2>1. notices' \in Nat /\ dated' = TRUE /\ UNCHANGED <<kb, inbox, cached, exempt>>
      BY <1>0, <1>3 DEF ReceiveUpdate, vars
    <2> QED BY <1>0, <2>1 DEF CopyInv, LastTextIsCurrent, CacheIsCurrent, ChangesAreNoticed
  <1>4. CASE Complete
    <2>1. /\ UNCHANGED <<kb, inbox, notices, exempt>>
          /\ dated' \in BOOLEAN /\ (dated => dated')
          /\ cached' = cached \/ cached'.by = "answer"
      BY <1>4 DEF Complete, vars
    <2> QED BY <1>0, <2>1 DEF CopyInv, LastTextIsCurrent, CacheIsCurrent, ChangesAreNoticed
  <1>5. CASE UNCHANGED <<kb, copyVars>>
    BY <1>0, <1>5 DEF copyVars, CopyInv, LastTextIsCurrent, CacheIsCurrent, ChangesAreNoticed
  <1> QED BY <1>1, <1>2, <1>3, <1>4, <1>5 DEF ClientNext, Call, Aside, vars, allVars

\* Of what waits and what was copied last, the latest is current.
THEOREM CopyInvCorrect == ClientSpec => []CopyInv
  <1>1. ClientInit => CopyInv
    BY DEF ClientInit, CopyInv, LastTextIsCurrent, CacheIsCurrent, ChangesAreNoticed
  <1> QED BY <1>1, CopyInvNext, ServesAsNode, SoundInvariant, PTL DEF ClientSpec

\* getProblem(true), from a message and with none on its way, is the problem of the
\* node (publish_problem and the subscription of the client).
THEOREM CopyIsCurrent == ClientSpec => []CacheIsCurrent
  <1>1. CopyInv => CacheIsCurrent
    BY DEF CopyInv, LastTextIsCurrent, CacheIsCurrent
  <1> QED BY <1>1, CopyInvCorrect, PTL

\* getUpdateTime() is later than the last change, or a notice of it is on its way.
THEOREM NoChangeIsMissed == ClientSpec => []ChangesAreNoticed
  <1>1. CopyInv => ChangesAreNoticed
    BY DEF CopyInv
  <1> QED BY <1>1, CopyInvCorrect, PTL
=============================================================================
