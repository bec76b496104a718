------------------------------ MODULE Formulas ------------------------------
(***************************************************************************)
(* Conditions and effects as trees: how the executor evaluates, applies and*)
(* restores them through its client of the problem expert, how they are    *)
(* evaluated on a copy of the state, and what is written of them as text.  *)
(*                                                                         *)
(* evaluate() is not atomic: it asks the problem expert once for every leaf*)
(* and others change the knowledge in between.  The recursion is replayed  *)
(* here from the answers it has had so far: it either comes to its end or  *)
(* to the next call.                                                       *)
(*                                                                         *)
(* A tree is [type, children, ...]; the atoms of a quantified tree have    *)
(* variables for arguments.  Numbers are whole, and quotients exact.       *)
(***************************************************************************)
EXTENDS Knowledge, Integers, SequencesExt

CONSTANTS
    Conditions,     \* trees that are checked
    Effects,        \* trees that are applied
    Start,          \* the knowledge at the beginning
    Assigned,       \* values that others give to functions
    MaxJobs,        \* bound: checks and effects of the executor
    MaxChanges,     \* bound: changes by other clients
    MaxLost         \* bound: calls without an answer in time

ASSUME FormulasAssumption ==
    /\ Start \in KnowledgeBase
    /\ MaxJobs \in Nat /\ MaxChanges \in Nat /\ MaxLost \in Nat

VARIABLES
    kb,             \* what the problem expert knows
    job,            \* what the executor is doing, [kind, tree, answers]
    applied,        \* the effect whose at_start_effects_applied is set
    said,           \* what the last job returned, [kind, tree, success, truth]
    base,           \* history: kb when the effect in hand was begun
    seen,           \* history: what kb has been since the job began
    touched,        \* history: atoms that others have changed since base
    lost,           \* history: what a call had no answer for, see Check, Apply
    jobs, changes, losses

vars == <<kb, job, applied, said, base, seen, touched, lost, jobs, changes, losses>>

NoTree == [type |-> "NONE", children |-> <<>>]
NoJob == [kind |-> "none", tree |-> NoTree, answers |-> <<>>]
Said(kind, tree, success, truth) ==
    [kind |-> kind, tree |-> tree, success |-> success, truth |-> truth]

-----------------------------------------------------------------------------
(* evaluate: the calls and the result, [left, call, success, truth, value],*)
(* where left are the answers that are not used yet                        *)

Call(do, atom, value) == [do |-> do, atom |-> atom, value |-> value]
NoCall == Call("none", None, None)

Returns(left, success, truth, value) ==
    [left |-> left, call |-> NoCall, success |-> success, truth |-> truth, value |-> value]

Asks(call) ==
    [left |-> <<>>, call |-> call, success |-> FALSE, truth |-> FALSE, value |-> 0]

Compare(op, l, r) ==
    CASE op = ">=" -> l >= r
      [] op = ">" -> l > r
      [] op = "<=" -> l <= r
      [] op = "<" -> l < r
      [] op = "=" -> l = r

Comparisons == {">=", ">", "<=", "<", "="}

Arithmetic(op, l, r) ==
    CASE op = "+" -> l + r
      [] op = "-" -> l - r
      [] op = "*" -> l * r
      [] op = "/" -> l \div r

Modified(op, l, r) ==
    CASE op = "assign" -> r
      [] op = "increase" -> Arithmetic("+", l, r)
      [] op = "decrease" -> Arithmetic("-", l, r)
      [] op = "scale-up" -> Arithmetic("*", l, r)
      [] op = "scale-down" -> Arithmetic("/", l, r)

DividesByZero(op, r) == op \in {"/", "scale-down"} /\ r = 0

IsName(f) == f.type \in {"CONSTANT", "PARAMETER"}

\* An equation is one of two names or of two numbers as they are written: a
\* function is neither.
IsEquation(f) ==
    \/ IsName(f.children[1]) /\ IsName(f.children[2])
    \/ f.children[1].type = "NUMBER" /\ f.children[2].type = "NUMBER"

\* replace_children_param: variables by names.
RECURSIVE Replace(_, _)
Replace(f, names) ==
    LET With(a) == IF a \in DOMAIN names THEN names[a] ELSE a
        inside == [f EXCEPT !.children = [i \in DOMAIN @ |-> Replace(@[i], names)]]
    IN  IF f.type \in {"PREDICATE", "FUNCTION"}
        THEN [inside EXCEPT !.atom.args = [i \in DOMAIN @ |-> With(@[i])]]
        ELSE IF f.type = "PARAMETER" THEN [inside EXCEPT !.name = With(@)]
        ELSE inside

\* cart_product: every choice of instances for the variables of a quantifier.
Bindings(variables, instances) == [Range(variables) -> instances]

Grounded(f, instances) ==
    {Replace(f.children[1], names) : names \in Bindings(f.vars, instances)}

RECURSIVE Evaluate(_, _, _, _), EvaluateAll(_, _, _, _), EvaluateFirst(_, _, _, _)

\* The children one after the other, all of them.
EvaluateAll(fs, negate, apply, answers) ==
    IF fs = <<>> THEN [left |-> answers, call |-> NoCall, results |-> <<>>]
    ELSE LET first == Evaluate(Head(fs), negate, apply, answers) IN
         IF first.call # NoCall THEN [left |-> <<>>, call |-> first.call, results |-> <<>>]
         ELSE LET others == EvaluateAll(Tail(fs), negate, apply, first.left)
              IN  [others EXCEPT !.results = <<first>> \o @]

\* Mutant of EvaluateFirst: the last one decides.
RECURSIVE EvaluateLast(_, _, _, _)
EvaluateLast(fs, negate, apply, answers) ==
    IF fs = <<>> THEN Returns(answers, TRUE, FALSE, 0)
    ELSE LET first == Evaluate(Head(fs), negate, apply, answers)
         IN  IF first.call # NoCall \/ Len(fs) = 1 THEN first
             ELSE EvaluateLast(Tail(fs), negate, apply, first.left)

\* The trees one after the other, until one is true.
EvaluateFirst(fs, negate, apply, answers) ==
    IF fs = <<>> THEN Returns(answers, TRUE, FALSE, 0)
    ELSE LET first == Evaluate(Head(fs), negate, apply, answers)
         IN  IF first.call # NoCall \/ first.truth THEN first
             ELSE EvaluateFirst(Tail(fs), negate, apply, first.left)

\* NOT turns the leaves round, not the connectives above them.
Evaluate(f, negate, apply, answers) ==
    LET all == EvaluateAll(f.children, negate, apply, answers)
        done == \A i \in DOMAIN all.results : all.results[i].success
        truths == {all.results[i].truth : i \in DOMAIN all.results}
        l == all.results[1].value
        r == all.results[2].value
        Leaf(call, Result(_)) ==
            IF answers = <<>> THEN Asks(call) ELSE Result(Head(answers))
        rest == Tail(answers)
    IN
    CASE f.type = "NONE" -> Returns(answers, TRUE, TRUE, 0)
      [] f.type = "AND" ->
            IF all.call # NoCall THEN Asks(all.call)
            ELSE Returns(all.left, done, FALSE \notin truths, 0)
      [] f.type = "OR" ->
            IF all.call # NoCall THEN Asks(all.call)
            ELSE Returns(all.left, done, TRUE \in truths, 0)
      [] f.type = "NOT" -> Evaluate(f.children[1], ~negate, apply, answers)
      [] f.type = "PREDICATE" /\ apply ->
            LET Result(answer) == Returns(rest, answer, ~negate, 0)
            IN  Leaf(Call(IF negate THEN "remove" ELSE "add", f.atom, None), Result)
      [] f.type = "PREDICATE" /\ ~apply ->
            LET Result(answer) == Returns(rest, TRUE, negate # answer, 0)
            IN  Leaf(Call("exist", f.atom, None), Result)
      [] f.type = "FUNCTION" ->
            LET Result(answer) ==
                    Returns(rest, answer # None, FALSE, IF answer = None THEN 0 ELSE answer)
            IN  Leaf(Call("get", f.atom, None), Result)
      [] f.type = "EXPRESSION" ->
            IF all.call # NoCall THEN Asks(all.call)
            ELSE IF ~done \/ (f.op = "=" /\ ~IsEquation(f)) \/ DividesByZero(f.op, r)
            THEN Returns(all.left, FALSE, FALSE, 0)
            ELSE IF f.op \notin Comparisons
            THEN Returns(all.left, TRUE, FALSE, Arithmetic(f.op, l, r))
            ELSE IF IsName(f.children[1])
            THEN Returns(all.left, TRUE, negate # (f.children[1].name = f.children[2].name), 0)
            ELSE Returns(all.left, TRUE, negate # Compare(f.op, l, r), 0)
      [] f.type = "MODIFIER" ->
            IF all.call # NoCall THEN Asks(all.call)
            ELSE IF ~done \/ DividesByZero(f.op, r) THEN Returns(all.left, FALSE, FALSE, 0)
            ELSE IF ~apply THEN Returns(all.left, TRUE, FALSE, Modified(f.op, l, r))
            ELSE IF all.left = <<>>
            THEN Asks(Call("update", f.children[1].atom, Modified(f.op, l, r)))
            ELSE Returns(Tail(all.left), TRUE, FALSE, Modified(f.op, l, r))
      [] f.type = "NUMBER" -> Returns(answers, TRUE, TRUE, f.value)
      [] IsName(f) -> Returns(answers, TRUE, TRUE, 0)
      [] f.type = "EXISTS" ->
            IF answers = <<>> THEN Asks(Call("instances", None, None))
            ELSE EvaluateFirst(SetToSeq(Grounded(f, Head(answers))), negate, apply, rest)

-----------------------------------------------------------------------------
(* The answers of the problem expert, and those of a copy of the state     *)

Instances(k) == {n \in Names : k.instances[n] # None}
GetFunction(k, f) == k.functions[f]

\* [answer, kb]
Serve(call, k) ==
    LET Is(answer) == [answer |-> answer, kb |-> k]
        Of(result) == [answer |-> result.success, kb |-> result.kb]
    IN
    CASE call.do = "exist" -> Is(ExistPredicate(k, call.atom))
      [] call.do = "get" -> Is(GetFunction(k, call.atom))
      [] call.do = "instances" -> Is(Instances(k))
      [] call.do = "add" -> Of(AddPredicate(k, call.atom))
      [] call.do = "remove" -> Of(RemovePredicate(k, call.atom))
      [] call.do = "update" -> Of(UpdateFunction(k, call.atom, call.value))

\* Mutant of Failure: a change without an answer counts as done.
FailureIgnored(call) ==
    CASE call.do = "get" -> None
      [] call.do = "instances" -> {}
      [] OTHER -> TRUE

\* What the methods of the client return when the time is over.
Failure(call) ==
    CASE call.do = "get" -> None
      [] call.do = "instances" -> {}
      [] OTHER -> FALSE

\* The instances of a copy are those that its predicates name.
Named(s) == UNION {Range(p.args) : p \in s.predicates}

\* Mutant of ServeCopy: what is to be erased stays.
ServeCopyKeeps(call, s) ==
    LET Is(answer) == [answer |-> answer, kb |-> s]
        Becomes(s2) == [answer |-> TRUE, kb |-> s2]
    IN
    CASE call.do = "exist" -> Is(call.atom \in s.predicates)
      [] call.do = "get" -> Is(s.functions[call.atom])
      [] call.do = "instances" -> Is(Named(s))
      [] call.do = "add" -> Becomes([s EXCEPT !.predicates = @ \cup {call.atom}])
      [] call.do = "remove" -> Becomes(s)
      [] call.do = "update" -> Becomes([s EXCEPT !.functions[call.atom] = call.value])

\* use_state: vectors of predicates and of functions, where nothing is looked
\* at but the atom.
ServeCopy(call, s) ==
    LET Is(answer) == [answer |-> answer, kb |-> s]
        Becomes(s2) == [answer |-> TRUE, kb |-> s2]
    IN
    CASE call.do = "exist" -> Is(call.atom \in s.predicates)
      [] call.do = "get" -> Is(s.functions[call.atom])
      [] call.do = "instances" -> Is(Named(s))
      [] call.do = "add" -> Becomes([s EXCEPT !.predicates = @ \cup {call.atom}])
      [] call.do = "remove" -> Becomes([s EXCEPT !.predicates = @ \ {call.atom}])
      [] call.do = "update" -> Becomes([s EXCEPT !.functions[call.atom] = call.value])

RECURSIVE OnCopy(_, _, _, _)
OnCopy(f, apply, s, answers) ==
    LET w == Evaluate(f, FALSE, apply, answers)
        served == ServeCopy(w.call, s)
    IN  IF w.call = NoCall THEN [success |-> w.success, truth |-> w.truth, kb |-> s]
        ELSE OnCopy(f, apply, served.kb, Append(answers, served.answer))

\* The copy that the executor makes before it plans ahead.
Copy(k) == [predicates |-> GetPredicates(k), functions |-> k.functions]

CheckCopy(f, k) == OnCopy(f, FALSE, Copy(k), <<>>).truth
ApplyToCopy(f, k) == OnCopy(f, TRUE, Copy(k), <<>>).kb

-----------------------------------------------------------------------------
(* toString and fromString: the tree that is read from what was written.   *)
(* Here a negation does turn the connectives round.                        *)

\* Text that is read as something else, or not at all.
Unreadable == [type |-> "UNREADABLE", children |-> <<>>]
Not(f) == [type |-> "NOT", children |-> <<f>>]

IsSum(f) == f.type = "EXPRESSION" /\ f.op \notin Comparisons

\* Any word in a comparison is read as a function; a variable is none.
IsReadAsFunction(f) == IsName(f) /\ f.name \in Names

\* A negated comparison of sums has a parenthesis too many.
IsMisread(f, negate) ==
    f.type = "EXPRESSION" /\ \E i \in DOMAIN f.children :
        \/ IsReadAsFunction(f.children[i])
        \/ negate /\ IsSum(f.children[i])

\* The type of a predicate is not known right below a quantifier.
IsRefused(f) == f.type = "EXISTS" /\ f.children[1].type = "PREDICATE"

\* Mutant of Written: the connectives stay as they are.
RECURSIVE WrittenAsIs(_, _)
WrittenAsIs(f, negate) ==
    LET parts(n) == [i \in DOMAIN f.children |-> WrittenAsIs(f.children[i], n)]
    IN
    CASE f.type = "NOT" -> WrittenAsIs(f.children[1], ~negate)
      [] f.type \in {"PREDICATE", "EXPRESSION", "EXISTS"} /\ negate -> Not(f)
      [] f.type \in {"AND", "OR"} -> [f EXCEPT !.children = parts(negate)]
      [] OTHER -> f

\* A connective under a negation.
Turned(type, negate) ==
    IF ~negate THEN type ELSE IF type = "AND" THEN "OR" ELSE "AND"

Negated(f, negate) == IF negate THEN Not(f) ELSE f

\* A node is read if its children are.
Read(f, children) ==
    IF Unreadable \in Range(children) \/ IsRefused(f) THEN Unreadable
    ELSE [f EXCEPT !.children = children]

RECURSIVE Written(_, _)
Written(f, negate) ==
    LET parts(n) == [i \in DOMAIN f.children |-> Written(f.children[i], n)]
        inside == Read(f, parts(FALSE))
    IN
    CASE f.type \in {"AND", "OR"} ->
            Read([f EXCEPT !.type = Turned(@, negate)], parts(negate))
      [] f.type = "NOT" -> Written(f.children[1], ~negate)
      [] f.type = "EXISTS" -> IF inside = Unreadable THEN inside ELSE Negated(inside, negate)
      [] f.type \in {"EXPRESSION", "PREDICATE"} ->
            IF IsMisread(f, negate) THEN Unreadable ELSE Negated(f, negate)

-----------------------------------------------------------------------------
(* The executor *)

Working == job.kind # "none"

Now == Evaluate(job.tree, job.kind = "restore", job.kind # "check", job.answers)

Init ==
    /\ kb = Start
    /\ job = NoJob
    /\ applied = NoTree
    /\ said = Said("none", NoTree, TRUE, TRUE)
    /\ base = Start
    /\ seen = {}
    /\ touched = {}
    /\ lost = {}
    /\ jobs = 0 /\ changes = 0 /\ losses = 0

Begin(kind, tree) ==
    /\ ~Working /\ jobs < MaxJobs
    /\ jobs' = jobs + 1
    /\ job' = [kind |-> kind, tree |-> tree, answers |-> <<>>]
    /\ said' = Said("none", NoTree, TRUE, TRUE)
    /\ UNCHANGED <<kb, changes, losses>>

Check(c) ==
    /\ Begin("check", c)
    /\ seen' = {kb}
    /\ lost' = lost \ {"check"}
    /\ UNCHANGED <<applied, base, touched>>

\* The effect counts as applied from here on.
Apply(e) ==
    /\ applied = NoTree
    /\ Begin("apply", e)
    /\ applied' = e
    /\ base' = kb
    /\ touched' = {}
    /\ lost' = {}
    /\ seen' = {}

\* RestoreAtStartEffect: the effect is applied once more, negated.
Restore ==
    /\ applied # NoTree
    /\ Begin("restore", applied)
    /\ applied' = NoTree
    /\ UNCHANGED <<base, seen, touched, lost>>

\* The action has ended well: its effect is there to stay.
Forget ==
    /\ ~Working /\ applied # NoTree
    /\ applied' = NoTree
    /\ said' = Said("none", NoTree, TRUE, TRUE)
    /\ UNCHANGED <<kb, job, base, seen, touched, lost, jobs, changes, losses>>

Answered(answer) == job' = [job EXCEPT !.answers = Append(@, answer)]
See == seen' = IF job.kind = "check" THEN seen \cup {kb'} ELSE seen

Step ==
    /\ Working
    /\ LET now == Now
           served == Serve(now.call, kb)
       IN  now.call # NoCall /\ kb' = served.kb /\ Answered(served.answer)
    /\ UNCHANGED <<applied, said, base, seen, touched, lost, jobs, changes, losses>>

\* There is no answer in time, whether the call is served or not.
StepLost ==
    /\ Working /\ losses < MaxLost
    /\ LET now == Now
       IN  /\ now.call # NoCall
           /\ kb' \in {kb, Serve(now.call, kb).kb}
           /\ Answered(Failure(now.call))
    /\ losses' = losses + 1
    /\ lost' = lost \cup {IF job.kind = "check" THEN "check" ELSE "effect"}
    /\ UNCHANGED <<applied, said, base, seen, touched, jobs, changes>>

Return ==
    /\ Working
    /\ LET now == Now
       IN  now.call = NoCall /\ said' = Said(job.kind, job.tree, now.success, now.truth)
    /\ job' = NoJob
    /\ UNCHANGED <<kb, applied, base, seen, touched, lost, jobs, changes, losses>>

-----------------------------------------------------------------------------
(* Other clients *)

\* Atoms that are not what they were, or may no more be changed.
ChangedAtoms(k1, k2) ==
    {p \in Predicates : (p \in k1.predicates) # (p \in k2.predicates)}
    \cup {f \in Functions : k1.functions[f] # k2.functions[f]}
    \cup {a \in Predicates \cup Functions : IsValid(k1, a) # IsValid(k2, a)}

Others(result) ==
    /\ changes < MaxChanges
    /\ result.kb # kb
    /\ changes' = changes + 1
    /\ kb' = result.kb
    /\ touched' = touched \cup ChangedAtoms(kb, kb')
    /\ See
    /\ UNCHANGED <<job, applied, said, base, lost, jobs, losses>>

Interfere ==
    \/ \E p \in Predicates : Others(AddPredicate(kb, p)) \/ Others(RemovePredicate(kb, p))
    \/ \E f \in Functions :
        \/ Others(RemoveFunction(kb, f))
        \/ \E v \in Assigned : Others(AddFunction(kb, f, v))
    \/ \E n \in Names : Others(RemoveInstance(kb, n))

Next ==
    \/ \E c \in Conditions : Check(c)
    \/ \E e \in Effects : Apply(e)
    \/ Restore \/ Forget \/ Step \/ StepLost \/ Return
    \/ Interfere

Spec == Init /\ [][Next]_vars
-----------------------------------------------------------------------------
(* What trees mean, whoever evaluates them                                 *)

\* The values that a number may have had in the states S, None if it is unknown.
RECURSIVE Numbers(_, _)
Numbers(f, S) ==
    CASE f.type = "NUMBER" -> {f.value}
      [] f.type = "FUNCTION" -> {k.functions[f.atom] : k \in S}
      [] f.type = "EXPRESSION" ->
            {IF None \in {n[1], n[2]} \/ DividesByZero(f.op, n[2]) THEN None
             ELSE Arithmetic(f.op, n[1], n[2]) :
                n \in Numbers(f.children[1], S) \X Numbers(f.children[2], S)}

\* Did a condition have this truth, if each of its leaves may be looked at in
\* another of the states S?  In a single state, that is its meaning.
RECURSIVE May(_, _, _)
May(f, truth, S) ==
    LET pairs == Numbers(f.children[1], S) \X Numbers(f.children[2], S)
        Decides(n, t) == None \notin {n[1], n[2]} /\ Compare(f.op, n[1], n[2]) = t
    IN
    CASE f.type = "AND" /\ truth -> \A i \in DOMAIN f.children : May(f.children[i], TRUE, S)
      [] f.type = "AND" /\ ~truth -> \E i \in DOMAIN f.children : May(f.children[i], FALSE, S)
      [] f.type = "OR" /\ truth -> \E i \in DOMAIN f.children : May(f.children[i], TRUE, S)
      [] f.type = "OR" /\ ~truth -> \A i \in DOMAIN f.children : May(f.children[i], FALSE, S)
      [] f.type = "NOT" -> May(f.children[1], ~truth, S)
      [] f.type = "PREDICATE" -> \E k \in S : ExistPredicate(k, f.atom) = truth
      [] f.type = "EXPRESSION" /\ IsName(f.children[1]) ->
            (f.children[1].name = f.children[2].name) = truth
      [] f.type = "EXPRESSION" /\ ~IsName(f.children[1]) -> \E n \in pairs : Decides(n, truth)
      [] f.type = "EXISTS" /\ truth ->
            \E k \in S : \E g \in Grounded(f, Instances(k)) : May(g, TRUE, S)
      [] f.type = "EXISTS" /\ ~truth ->
            \E k \in S : \A g \in Grounded(f, Instances(k)) : May(g, FALSE, S)

\* The nodes of a tree, from the root.
RECURSIVE Nodes(_)
Nodes(f) == <<f>> \o FlattenSeq([i \in DOMAIN f.children |-> Nodes(f.children[i])])

HasNode(f, Is(_)) == LET nodes == Nodes(f) IN \E i \in DOMAIN nodes : Is(nodes[i])

\* Trees whose negations are right above a leaf.
Plain(f) ==
    LET Odd(g) == g.type = "NOT" /\ g.children[1].type \notin {"PREDICATE", "EXPRESSION"}
    IN  ~HasNode(f, Odd)

\* A number of the condition that is not known decides nothing.
Decided(f, S) ==
    LET Unknown(g) == g.type = "FUNCTION" /\ \E k \in S : k.functions[g.atom] = None
    IN  ~HasNode(f, Unknown)

Quantified(f) == LET Is(g) == g.type = "EXISTS" IN HasNode(f, Is)

Parts(e) == Range(e.children)
Adds(e) == {g.atom : g \in {h \in Parts(e) : h.type = "PREDICATE"}}
Deletes(e) == {g.children[1].atom : g \in {h \in Parts(e) : h.type = "NOT"}}
Modifiers(e) == {g \in Parts(e) : g.type = "MODIFIER"}
Reads(g, atoms) ==
    LET In(h) == h.type = "FUNCTION" /\ h.atom \in atoms IN HasNode(g, In)

\* All of the effect at once, as far as its atoms are valid.
Effect(e, k) ==
    [k EXCEPT
      !.predicates = (@ \ {p \in Deletes(e) : IsValid(k, p)})
                     \cup {p \in Adds(e) : IsValid(k, p)},
      !.functions = [f \in Functions |->
          IF \E m \in Modifiers(e) : m.children[1].atom = f
          THEN LET m == CHOOSE m \in Modifiers(e) : m.children[1].atom = f
                   n == CHOOSE n \in Numbers(m.children[2], {k}) : TRUE
               IN  IF None \in {k.functions[f], n} \/ DividesByZero(m.op, n) THEN k.functions[f]
                   ELSE Modified(m.op, k.functions[f], n)
          ELSE k.functions[f]]]

Stored == Predicates \ {r.head : r \in Rules}

\* A derived predicate of an object that is not known exists but is not listed.
AllListed(k) == \A p \in Predicates : ExistPredicate(k, p) => p \in GetPredicates(k)

-----------------------------------------------------------------------------
(* Properties                                                              *)

\* A check may tell of a state that never was, since others change the knowledge
\* between its calls; but what it says of each leaf was so at some time while it
\* was under way, unless a call had no answer (evaluate, existPredicate,
\* getFunction, getInstances).  Undisturbed, it says what the condition means.
CheckIsExplained ==
    said.kind = "check" /\ "check" \notin lost /\ Plain(said.tree) /\ Decided(said.tree, seen) =>
        May(said.tree, said.truth, seen)

\* Once an effect has been applied, whatever others have not touched is as if it
\* had been applied at once: all of it, and nothing else.  If a call had no
\* answer that is still so of the predicates when apply returns true (apply,
\* addPredicate, removePredicate, updateFunction).
AppliedAtOnce ==
    said.kind = "apply" =>
        LET due == Effect(said.tree, base)
            \* atoms that others decide
            theirs == touched \cup {m.children[1].atom :
                                     m \in {n \in Modifiers(said.tree) : Reads(n, touched)}}
        IN  /\ "effect" \notin lost \/ said.success =>
                 \A p \in Stored \ theirs : p \in kb.predicates <=> p \in due.predicates
            /\ "effect" \notin lost =>
                 \A f \in Functions \ theirs : kb.functions[f] = due.functions[f]

\* To restore an effect at start brings its predicates back, if it had changed all
\* of those that it names; numbers do not come back (RestoreAtStartEffect).
RestoreUndoes ==
    /\ said.kind = "restore" /\ "effect" \notin lost
    /\ Adds(said.tree) \cap base.predicates = {} /\ Deletes(said.tree) \subseteq base.predicates
    => \A p \in Stored \ touched : p \in kb.predicates <=> p \in base.predicates

\* An effect is applied wholly and taken back wholly, whatever others do meanwhile.
AppliedIsWhole == AppliedAtOnce /\ RestoreUndoes

\* What the executor foresees on a copy of the state is what it then finds, and
\* what becomes of the state when it applies an effect, as long as nobody else
\* changes anything and nothing is derived of an unknown object
\* (get_ordered_subgoals, SimpleBTBuilder).
ForeseenIsDone ==
    /\ said.kind = "check" /\ "check" \notin lost /\ ~Quantified(said.tree) =>
         \A k \in seen :
            seen = {k} /\ AllListed(k) => CheckCopy(said.tree, k) = said.truth
    /\ said.kind = "apply" /\ "effect" \notin lost /\ touched = {} /\ said.success =>
         LET foreseen == ApplyToCopy(said.tree, base)
         IN  /\ foreseen.predicates \cap Stored = kb.predicates \cap Stored
             /\ foreseen.functions = kb.functions

\* What is read from the text of a condition means what the condition means: the
\* planner, which is given the text of a goal, pursues the goal that was set
\* (toString, fromString).
TextKeepsMeaning ==
    ~Working => \A c \in Conditions :
        Written(c, FALSE) # Unreadable /\ Decided(c, {kb}) =>
            May(Written(c, FALSE), TRUE, {kb}) = May(c, TRUE, {kb})
=============================================================================
