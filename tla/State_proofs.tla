---------------------------- MODULE State_proofs ----------------------------
(***************************************************************************)
(* Theorems about State and RuleOrder: the reference counts, what is       *)
(* inferred and the union; the graph of the rules and what a cut keeps of  *)
(* it; the order in which the traversals list the rules; their components. *)
(***************************************************************************)
EXTENDS RuleOrder, FiniteSetTheorems, WellFoundedInduction, SequenceTheorems, TLAPS

-----------------------------------------------------------------------------
(* Inferred predicates.  The methods that list the rules read the state and *)
(* nothing else, so that all of this holds with them as well.              *)

\* Some rules have inferred a predicate, a finite number of them (inferred_predicates_map_).
LEMMA InferringIsFinite ==
    ASSUME StateInv, NEW p
    PROVE  IsFiniteSet(Inferring(p)) /\ Cardinality(Inferring(p)) \in Nat
  <1>1. IsFiniteSet(rules)
    BY StateAssumption DEF StateInv, TypeOK
  <1>2. Inferring(p) \subseteq rules
    BY DEF Inferring
  <1> QED BY <1>1, <1>2, FS_Subset, FS_CardinalityType

\* The initial state, State(), is sound.
LEMMA StateInvInit == Init => StateInv
  <1> SUFFICES ASSUME Init PROVE StateInv
    OBVIOUS
  <1>1. \A p \in Ground : Inferring(p) = {}
    BY DEF Init, Inferring, Nothing
  <1>2. CountsAreReferences
    BY <1>1, FS_EmptySet DEF Init, CountsAreReferences, Uncounted
  <1> QED
    BY <1>1, <1>2 DEF Init, StateInv, TypeOK, InferredIsSupported, UnionIsWhole, BothIsRemembered,
       Nothing, Uncounted

\* A step that forgets what rules have inferred forgets the counts with it
\* (resetInferredPredicates, clearPredicates, clearState, State(getAsMsg())).
LEMMA ForgettingKeepsCounts ==
    ASSUME inferredFrom' = Nothing, refcount' = Uncounted, rules' = rules
    PROVE  CountsAreReferences' /\ \A p \in Ground : Inferring(p)' = {}
  <1>1. \A p \in Ground : Inferring(p)' = {}
    BY DEF Inferring, Nothing
  <1> QED BY <1>1, FS_EmptySet DEF CountsAreReferences, Uncounted

\* addInferredPredicate counts a rule once.
LEMMA AddingCounts ==
    ASSUME StateInv, NEW d \in rules, NEW p \in Ground, addInferredPredicate(d, p),
           rules' = rules
    PROVE  /\ CountsAreReferences' /\ refcount' \in [Ground -> Nat]
           /\ Inferring(p)' = Inferring(p) \cup {d}
           /\ \A q \in Ground \ {p} : Inferring(q)' = Inferring(q)
  <1> USE DEF StateInv, TypeOK, InferredIsSupported
  <1>1. /\ Inferring(p)' = Inferring(p) \cup {d}
        /\ \A q \in Ground \ {p} : Inferring(q)' = Inferring(q)
    BY DEF addInferredPredicate, Inferring
  <1>2. refcount' \in [Ground -> Nat]
    BY DEF addInferredPredicate
  <1>3. ASSUME NEW q \in Ground PROVE refcount'[q] = Cardinality(Inferring(q)')
    <2>1. CASE q # p
      BY <1>1, <2>1 DEF addInferredPredicate, CountsAreReferences
    <2>2. CASE q = p /\ d \in Inferring(p)
      BY <1>1, <2>2 DEF addInferredPredicate, CountsAreReferences, Inferring
    <2>3. CASE q = p /\ d \notin Inferring(p)
      <3>1. Cardinality(Inferring(p) \cup {d}) = Cardinality(Inferring(p)) + 1
        BY <2>3, InferringIsFinite, FS_AddElement
      <3>2. refcount'[p] = refcount[p] + 1
        BY <2>3 DEF addInferredPredicate, Inferring
      <3> QED BY <1>1, <2>3, <3>1, <3>2 DEF CountsAreReferences
    <2> QED BY <2>1, <2>2, <2>3
  <1> QED BY <1>1, <1>2, <1>3 DEF CountsAreReferences

\* ungroundSingleDerivedPredicate takes one reference from each predicate of the rule,
\* and forgets those that nobody else refers to.
LEMMA RetractingCounts ==
    ASSUME StateInv, NEW d \in rules, ungroundSingleDerivedPredicate(d),
           rules' = rules
    PROVE  /\ CountsAreReferences' /\ refcount' \in [Ground -> Nat]
           /\ \A p \in Ground : Inferring(p)' = Inferring(p) \ {d}
           /\ LastOf(d) = {p \in Ground : Inferring(p) = {d}}
  <1> USE DEF StateInv, TypeOK, InferredIsSupported
  <1>1. \A p \in Ground : Inferring(p)' = Inferring(p) \ {d}
    BY DEF ungroundSingleDerivedPredicate, Inferring
  <1>2. ASSUME NEW p \in Ground
        PROVE /\ refcount'[p] \in Nat
              /\ refcount'[p] = Cardinality(Inferring(p) \ {d})
              /\ p \in LastOf(d) <=> Inferring(p) = {d}
    <2>1. refcount[p] = Cardinality(Inferring(p)) /\ IsFiniteSet(Inferring(p)) /\ refcount[p] \in Nat
      BY InferringIsFinite DEF CountsAreReferences
    <2>2. d \in Inferring(p) <=> p \in inferredFrom[d]
      BY DEF Inferring
    <2>3. CASE d \notin Inferring(p)
      <3>1. Inferring(p) \ {d} = Inferring(p)
        BY <2>3
      <3>2. refcount'[p] = refcount[p] /\ p \notin LastOf(d)
        BY <2>2, <2>3 DEF ungroundSingleDerivedPredicate, LastOf
      <3> QED BY <2>1, <2>3, <3>1, <3>2
    <2>4. CASE d \in Inferring(p)
      <3>1. /\ IsFiniteSet(Inferring(p) \ {d})
            /\ Cardinality(Inferring(p) \ {d}) = Cardinality(Inferring(p)) - 1
        BY <2>1, <2>4, FS_RemoveElement
      <3>2. Cardinality(Inferring(p) \ {d}) \in Nat
        BY <3>1, FS_CardinalityType
      <3>3. refcount[p] > 0 /\ refcount'[p] = refcount[p] - 1
        BY <2>1, <2>2, <2>4, <3>1, <3>2 DEF ungroundSingleDerivedPredicate
      <3>4. p \in LastOf(d) <=> Cardinality(Inferring(p) \ {d}) = 0
        BY <2>1, <2>2, <2>4, <3>1 DEF LastOf
      <3>5. Cardinality(Inferring(p) \ {d}) = 0 <=> Inferring(p) \ {d} = {}
        BY <3>1, FS_EmptySet
      <3> QED BY <2>1, <2>4, <3>1, <3>2, <3>3, <3>4, <3>5
    <2> QED BY <2>3, <2>4
  <1>3. refcount' \in [Ground -> Nat]
    BY <1>2 DEF ungroundSingleDerivedPredicate
  <1>4. LastOf(d) = {p \in Ground : Inferring(p) = {d}}
    BY <1>2 DEF LastOf
  <1> QED BY <1>1, <1>2, <1>3, <1>4 DEF CountsAreReferences

\* Remember has both as long as the union may lack them.
LEMMA RememberedCovers ==
    ASSUME Remember, predicates' \subseteq Ground, inferred' \subseteq Ground, both \subseteq Ground,
           union' \subseteq predicates' \cup inferred',
           (predicates' \cup inferred') \ (both \cup (predicates' \cap inferred')) \subseteq union'
    PROVE  UnionIsWhole' /\ BothIsRemembered' /\ both' \subseteq Ground
  BY DEF Remember, UnionIsWhole, BothIsRemembered

\* Each method keeps the invariant.
LEMMA StateInvNext == StateInv /\ [Next]_vars => StateInv'
  <1> SUFFICES ASSUME StateInv, [Next]_vars PROVE StateInv'
    OBVIOUS
  <1> USE DEF StateInv, TypeOK
  <1>1. CASE UNCHANGED vars
    BY <1>1 DEF vars, inferredVars, CountsAreReferences, InferredIsSupported, UnionIsWhole,
       BothIsRemembered, Inferring
  <1>2. ASSUME Remember, rules' = rules, UNCHANGED <<predicates, inferredVars, decoded>> PROVE StateInv'
    <2>1. UnionIsWhole' /\ BothIsRemembered' /\ both' \subseteq Ground
      BY <1>2, RememberedCovers DEF inferredVars, UnionIsWhole, BothIsRemembered
    <2> QED BY <1>2, <2>1 DEF inferredVars, CountsAreReferences, InferredIsSupported, Inferring
  <1>3. ASSUME Remember, rules' = rules, NEW p \in Ground, addPredicate(p) PROVE StateInv'
    <2>1. UnionIsWhole' /\ BothIsRemembered' /\ both' \subseteq Ground
      BY <1>3, RememberedCovers DEF addPredicate, UnionIsWhole, BothIsRemembered
    <2> QED BY <1>3, <2>1 DEF addPredicate, CountsAreReferences, InferredIsSupported, Inferring
  <1>4. ASSUME Remember, rules' = rules, NEW p \in Ground, removePredicate(p) PROVE StateInv'
    <2>1. UnionIsWhole' /\ BothIsRemembered' /\ both' \subseteq Ground
      BY <1>4, RememberedCovers DEF removePredicate, UnionIsWhole, BothIsRemembered
    <2> QED BY <1>4, <2>1 DEF removePredicate, CountsAreReferences, InferredIsSupported, Inferring
  <1>5. ASSUME Remember, rules' = rules, NEW d \in rules, NEW p \in Ground, addInferredPredicate(d, p)
        PROVE  StateInv'
    <2>1. UnionIsWhole' /\ BothIsRemembered' /\ both' \subseteq Ground
      BY <1>5, RememberedCovers DEF addInferredPredicate, UnionIsWhole, BothIsRemembered
    <2>2. ASSUME NEW q \in Ground
          PROVE  /\ Inferring(q)' # {} => q \in inferred'
                 /\ q \in inferred' => Inferring(q)' # {} \/ q \in decoded'
      <3>1. inferred' = inferred \cup {p} /\ decoded' = decoded
        BY <1>5 DEF addInferredPredicate
      <3>2. CASE q = p
        BY <1>5, <3>1, <3>2, AddingCounts
      <3>3. CASE q # p
        <4>1. Inferring(q)' = Inferring(q)
          BY <1>5, <3>3, AddingCounts
        <4> QED BY <3>1, <3>3, <4>1 DEF InferredIsSupported
      <3> QED BY <3>2, <3>3
    <2>3. InferredIsSupported'
      BY <1>5, <2>2, AddingCounts DEF InferredIsSupported
    <2> QED BY <1>5, <2>1, <2>3, AddingCounts DEF addInferredPredicate
  <1>6. ASSUME Remember, rules' = rules, NEW d \in rules, ungroundSingleDerivedPredicate(d) PROVE StateInv'
    <2>1. /\ inferred' = inferred \ LastOf(d) /\ union' = union \ LastOf(d)
          /\ predicates' = predicates /\ decoded' = decoded
          /\ inferredFrom' \in [rules -> SUBSET Ground]
      BY <1>6 DEF ungroundSingleDerivedPredicate
    <2>2. LastOf(d) \subseteq inferred
      BY <1>6, RetractingCounts DEF InferredIsSupported
    <2>3. UnionIsWhole' /\ BothIsRemembered' /\ both' \subseteq Ground
      <3>1. /\ union' \subseteq predicates' \cup inferred'
            /\ (predicates' \cup inferred') \ (both \cup (predicates' \cap inferred')) \subseteq union'
        BY <2>1, <2>2 DEF UnionIsWhole, BothIsRemembered
      <3> QED BY <1>6, <2>1, <3>1, RememberedCovers
    <2>4. ASSUME NEW p \in Ground
          PROVE  /\ Inferring(p)' # {} => p \in inferred'
                 /\ p \in inferred' => Inferring(p)' # {} \/ p \in decoded'
      <3>1. Inferring(p)' = Inferring(p) \ {d} /\ (p \in LastOf(d) <=> Inferring(p) = {d})
        BY <1>6, RetractingCounts
      <3> QED BY <2>1, <3>1 DEF InferredIsSupported
    <2>5. InferredIsSupported'
      BY <1>6, <2>4, RetractingCounts DEF InferredIsSupported
    <2> QED BY <1>6, <2>1, <2>3, <2>5, RetractingCounts
  <1>7. ASSUME Remember, rules' = rules, inferredFrom' = Nothing, refcount' = Uncounted, inferred' \subseteq decoded',
               decoded' \subseteq Ground,
               predicates' \subseteq Ground, union' = predicates' \cup inferred'
        PROVE  StateInv'
    <2>1. UnionIsWhole' /\ BothIsRemembered' /\ both' \subseteq Ground
      BY <1>7, RememberedCovers
    <2>2. InferredIsSupported'
      BY <1>7, ForgettingKeepsCounts DEF InferredIsSupported
    <2> QED BY <1>7, <2>1, <2>2, ForgettingKeepsCounts DEF Nothing, Uncounted
  <1>8. ASSUME Remember, rules' = rules, resetInferredPredicates PROVE StateInv'
    BY <1>7, <1>8 DEF resetInferredPredicates
  <1>9. ASSUME Remember, rules' = rules, clearPredicates \/ clearState PROVE StateInv'
    BY <1>7, <1>9 DEF clearPredicates, clearState
  <1>10. ASSUME Remember, rules' = rules, Decode PROVE StateInv'
    BY <1>7, <1>10 DEF Decode, getAsMsg
  <1>11. ASSUME Remember, rules' = rules, ChangeObjects \/ setDerivedPredicates PROVE StateInv'
    BY <1>2, <1>11 DEF ChangeObjects, setDerivedPredicates
  <1>12. ASSUME Remember, rules' = rules, NEW d \in rules, ungroundDerivedPredicate(d) PROVE StateInv'
    BY <1>2, <1>12 DEF ungroundDerivedPredicate
  <1>13. ASSUME Remember, rules' = rules, NEW actions \in SUBSET Actions,
                addActionsAndPruneDerived(actions) \/ pruneDerivedPredicatesToActions(actions)
         PROVE  StateInv'
    BY <1>2, <1>13 DEF addActionsAndPruneDerived, pruneDerivedPredicatesToActions
  <1> QED
    BY <1>1, <1>3, <1>4, <1>5, <1>6, <1>8, <1>9, <1>10, <1>11, <1>12, <1>13
    DEF Next, Step

\* What is inferred is counted and supported, and the union whole, in every state that
\* the methods of State can reach.
THEOREM StateInvCorrect == Spec => []StateInv
  BY StateInvInit, StateInvNext, PTL DEF Spec

\* getInferredPredicateRefCount is the number of rules that have inferred a predicate.
THEOREM CountsAreRight == Spec => []CountsAreReferences
  <1>1. StateInv => CountsAreReferences
    BY DEF StateInv, InferredIsSupported
  <1> QED BY <1>1, StateInvCorrect, PTL

\* A predicate is inferred as long as a rule has it, and no longer, unless it came with
\* a message (addInferredPredicate, ungroundSingleDerivedPredicate).
THEOREM InferredHasRule == Spec => []InferredIsSupported
  <1>1. StateInv => InferredIsSupported
    BY DEF StateInv
  <1> QED BY <1>1, StateInvCorrect, PTL

\* getUnionPredicatesInferredPredicates is the union, but for predicates that were both.
THEOREM UnionIsRight == Spec => []UnionIsWhole
  <1>1. StateInv => UnionIsWhole
    BY DEF StateInv
  <1> QED BY <1>1, StateInvCorrect, PTL

\* The state with the methods that list its rules behaves like the state alone
\* (getDerivedPredicatesDepthFirst and the like change nothing).
THEOREM QueriesOnlyRead == QuerySpec => Spec
  <1>1. QueryInit => Init
    BY DEF QueryInit
  <1>2. [QueryNext]_allVars => [Next]_vars
    BY DEF QueryNext, allVars
  <1> QED BY <1>1, <1>2, PTL DEF QuerySpec, Spec

-----------------------------------------------------------------------------
(* Graphs.  What the code adds edge by edge is given in closed form, and what *)
(* a traversal visits as the least closed set.                              *)

\* A set of numbers has a least one: what stands in for induction over the rounds of a
\* traversal.
LEMMA LeastNatural ==
    ASSUME NEW T \in SUBSET Nat, T # {}
    PROVE \E n \in T : \A m \in T : n <= m
  <1> DEFINE R == {p \in Nat \X Nat : p[1] < p[2]}
  <1>1. IsWellFoundedOn(R, Nat)
    BY NatLessThanWellFounded DEF OpToRel
  <1>2. \A m, n \in Nat : m < n => <<m, n>> \in R
    OBVIOUS
  <1> HIDE DEF R
  <1>3. PICK n \in T : \A m \in T : ~(<<m, n>> \in R)
    BY <1>1, WFMin
  <1>4. ASSUME NEW m \in T PROVE n <= m
    <2>1. m \in Nat /\ n \in Nat
      OBVIOUS
    <2>2. ~(m < n)
      BY <1>2, <1>3, <2>1, Zenon
    <2> QED BY <2>1, <2>2
  <1> QED BY <1>4

\* A set of subsets of a finite set has a smallest one: what stands in for induction over
\* the collections that the code iterates.
LEMMA SmallestSet ==
    ASSUME NEW S, IsFiniteSet(S), NEW T \in SUBSET SUBSET S, T # {}
    PROVE \E X \in T : \A Y \in T : Y \subseteq X => Y = X
  <1> DEFINE R == StrictSubsetOrdering(S)
  <1>1. IsWellFoundedOn(R, SUBSET S)
    BY FS_FiniteSubsetsOfFinite, FS_StrictSubsetOrderingWellFounded
  <1>2. \A X, Y \in SUBSET S : X \subseteq Y /\ X # Y => <<X, Y>> \in R
    BY DEF StrictSubsetOrdering
  <1> HIDE DEF R
  <1>3. PICK X \in T : \A Y \in T : ~(<<Y, X>> \in R)
    BY <1>1, WFMin
  <1> QED BY <1>2, <1>3

\* What is reached in at most i steps, and one step more.
After(edges, X) == X \cup {e[2] : e \in {f \in edges : f[1] \in X}}
Reach(edges, start) ==
    CHOOSE reach : reach = [i \in Nat |-> IF i = 0 THEN start ELSE After(edges, reach[i - 1])]

\* The traversal of DerivedResolutionGraph is the sequence of its rounds.
LEMMA ClosureIsReach ==
    ASSUME NEW g, NEW edges, NEW start
    PROVE  Closure(g, edges, start) = Reach(edges, start)[Cardinality(g.nodes)]
  BY DEF Closure, Reach, After

\* Each round of a traversal follows the edges once more.
LEMMA ReachSteps ==
    ASSUME NEW edges, NEW start
    PROVE  /\ Reach(edges, start)[0] = start
           /\ \A i \in Nat : Reach(edges, start)[i + 1] = After(edges, Reach(edges, start)[i])
  <1> DEFINE V == start \cup {e[2] : e \in edges}
             Joined(m, n) == m = n \/ \E e \in edges : e[1] = m /\ e[2] = n
             IsWalk(p, i) == p[0] \in start /\ \A j \in 1 .. i : Joined(p[j - 1], p[j])
             Walk(i, n) == \E p \in [0 .. i -> V] : IsWalk(p, i) /\ p[i] = n
             seen == [i \in Nat |-> {n \in V : Walk(i, n)}]
  <1>1. {n \in V : Walk(0, n)} = start
    <2>1. ASSUME NEW n \in start PROVE Walk(0, n)
      <3> DEFINE p == [j \in 0 .. 0 |-> n]
      <3>1. p \in [0 .. 0 -> V] /\ p[0] = n /\ IsWalk(p, 0)
        OBVIOUS
      <3> HIDE DEF p
      <3> QED BY <3>1
    <2> QED BY <2>1
  <1>2. ASSUME NEW i \in Nat
        PROVE  {n \in V : Walk(i + 1, n)} = After(edges, {n \in V : Walk(i, n)})
    <2>1. ASSUME NEW n \in V, Walk(i + 1, n)
          PROVE  \E m \in V : Walk(i, m) /\ Joined(m, n)
      <3>1. PICK p \in [0 .. i + 1 -> V] : IsWalk(p, i + 1) /\ p[i + 1] = n
        BY <2>1
      <3> DEFINE q == [j \in 0 .. i |-> p[j]]
      <3>2. q \in [0 .. i -> V] /\ \A j \in 0 .. i : q[j] = p[j]
        OBVIOUS
      <3>3. p[0] \in start /\ (\A j \in 1 .. i : Joined(p[j - 1], p[j])) /\ Joined(p[i], n)
        <4>1. i + 1 \in 1 .. i + 1 /\ (i + 1) - 1 = i /\ (\A j \in 1 .. i : j \in 1 .. i + 1)
          OBVIOUS
        <4> QED BY <3>1, <4>1
      <3> HIDE DEF q
      <3>4. IsWalk(q, i)
        <4>1. q[0] \in start
          BY <3>2, <3>3
        <4>2. \A j \in 1 .. i : q[j - 1] = p[j - 1] /\ q[j] = p[j]
          BY <3>2
        <4> QED BY <3>3, <4>1, <4>2
      <3>5. q[i] \in V /\ q[i] = p[i]
        BY <3>2
      <3> QED BY <3>2, <3>3, <3>4, <3>5
    <2>2. ASSUME NEW m \in V, NEW n \in V, Walk(i, m), Joined(m, n)
          PROVE  Walk(i + 1, n)
      <3>1. PICK p \in [0 .. i -> V] : IsWalk(p, i) /\ p[i] = m
        BY <2>2
      <3> DEFINE q == [j \in 0 .. i + 1 |-> IF j = i + 1 THEN n ELSE p[j]]
      <3>2. q \in [0 .. i + 1 -> V] /\ q[i + 1] = n /\ \A j \in 0 .. i : q[j] = p[j]
        OBVIOUS
      <3> HIDE DEF q
      <3>3. IsWalk(q, i + 1)
        <4>1. q[0] \in start
          BY <3>1, <3>2
        <4>2. ASSUME NEW j \in 1 .. i + 1 PROVE Joined(q[j - 1], q[j])
          <5>1. CASE j = i + 1
            <6>1. q[j - 1] = m /\ q[j] = n
              BY <3>1, <3>2, <5>1
            <6> QED BY <2>2, <6>1
          <5>2. CASE j # i + 1
            <6>1. j \in 1 .. i /\ q[j - 1] = p[j - 1] /\ q[j] = p[j]
              BY <3>2, <5>2
            <6> QED BY <3>1, <6>1
          <5> QED BY <5>1, <5>2
        <4> QED BY <4>1, <4>2
      <3> QED BY <3>2, <3>3
    <2> HIDE DEF Walk
    <2>3. \A n : n \in After(edges, {m \in V : Walk(i, m)}) <=>
                     n \in V /\ \E m \in V : Walk(i, m) /\ Joined(m, n)
      BY DEF After
    <2> QED BY <2>1, <2>2, <2>3
  <1>3. seen = [i \in Nat |-> IF i = 0 THEN start ELSE After(edges, seen[i - 1])]
    <2> HIDE DEF Walk
    <2>1. ASSUME NEW i \in Nat
          PROVE  {n \in V : Walk(i, n)} = IF i = 0 THEN start ELSE After(edges, seen[i - 1])
      <3>1. CASE i = 0
        BY <1>1, <3>1
      <3>2. CASE i # 0
        <4>1. i - 1 \in Nat /\ (i - 1) + 1 = i
          BY <3>2
        <4> QED BY <1>2, <3>2, <4>1
      <3> QED BY <3>1, <3>2
    <2> QED BY <2>1
  <1> HIDE DEF seen
  <1>4. Reach(edges, start) =
            [i \in Nat |-> IF i = 0 THEN start ELSE After(edges, Reach(edges, start)[i - 1])]
    BY <1>3 DEF Reach
  <1> DEFINE R == Reach(edges, start)
  <1> HIDE DEF R
  <1>5. R = [i \in Nat |-> IF i = 0 THEN start ELSE After(edges, R[i - 1])]
    BY <1>4 DEF R
  <1>6. R[0] = start /\ \A i \in Nat : R[i + 1] = After(edges, R[i])
    <2>1. \A i \in Nat : R[i] = IF i = 0 THEN start ELSE After(edges, R[i - 1])
      BY <1>5
    <2>2. \A i \in Nat : i + 1 \in Nat /\ i + 1 # 0 /\ (i + 1) - 1 = i
      OBVIOUS
    <2> QED BY <2>1, <2>2
  <1> QED BY <1>6 DEF R

\* A set that edges do not lead out of.
IsClosed(edges, X) == \A e \in edges : e[1] \in X => e[2] \in X

\* A traversal stays inside whatever has its start and is closed under the edges.
LEMMA ReachIsLeast ==
    ASSUME NEW edges, NEW start, NEW X, start \subseteq X, IsClosed(edges, X), NEW i \in Nat
    PROVE  Reach(edges, start)[i] \subseteq X
  <1> DEFINE R == Reach(edges, start)
             bad == {j \in Nat : ~(R[j] \subseteq X)}
  <1> HIDE DEF R
  <1>1. R[0] = start /\ \A j \in Nat : R[j + 1] = After(edges, R[j])
    BY ReachSteps DEF R
  <1>2. ASSUME bad # {} PROVE FALSE
    <2>1. PICK j \in bad : \A k \in bad : j <= k
      BY <1>2, LeastNatural
    <2>2. j \in Nat /\ j # 0
      BY <1>1
    <2>3. j - 1 \in Nat /\ (j - 1) + 1 = j /\ ~(j <= j - 1)
      BY <2>2
    <2>4. R[j - 1] \subseteq X
      BY <2>1, <2>3
    <2>5. After(edges, R[j - 1]) \subseteq X
      BY <2>4 DEF After, IsClosed
    <2>6. R[j] = After(edges, R[j - 1])
      BY <1>1, <2>3
    <2> QED BY <2>1, <2>5, <2>6
  <1>3. R[i] \subseteq X
    BY <1>2
  <1> QED BY <1>3 DEF R

\* A traversal visits its start.
LEMMA ReachGrows ==
    ASSUME NEW edges, NEW start, NEW i \in Nat
    PROVE  start \subseteq Reach(edges, start)[i]
  <1> DEFINE R == Reach(edges, start)
             bad == {j \in Nat : ~(start \subseteq R[j])}
  <1> HIDE DEF R
  <1>1. R[0] = start /\ \A j \in Nat : R[j + 1] = After(edges, R[j])
    BY ReachSteps DEF R
  <1>2. ASSUME bad # {} PROVE FALSE
    <2>1. PICK j \in bad : \A k \in bad : j <= k
      BY <1>2, LeastNatural
    <2>2. j \in Nat /\ j # 0
      BY <1>1
    <2>3. j - 1 \in Nat /\ (j - 1) + 1 = j /\ ~(j <= j - 1)
      BY <2>2
    <2>4. start \subseteq R[j - 1]
      BY <2>1, <2>3
    <2>5. R[j] = After(edges, R[j - 1])
      BY <1>1, <2>3
    <2> QED BY <2>1, <2>4, <2>5 DEF After
  <1>3. start \subseteq R[i]
    BY <1>2
  <1> QED BY <1>3 DEF R

\* Each round of a traversal visits another node of the graph, or there is none to visit.
LEMMA ReachFills ==
    ASSUME NEW edges, NEW start, NEW nodes, IsFiniteSet(nodes), \A e \in edges : e[2] \in nodes,
           NEW i \in Nat
    PROVE  \/ IsClosed(edges, Reach(edges, start)[i])
           \/ Cardinality(Reach(edges, start)[i] \cap nodes) >= i
  <1> DEFINE R == Reach(edges, start)
             Full(j) == IsClosed(edges, R[j]) \/ Cardinality(R[j] \cap nodes) >= j
             bad == {j \in Nat : ~Full(j)}
  <1> HIDE DEF R
  <1>1. R[0] = start /\ \A j \in Nat : R[j + 1] = After(edges, R[j])
    BY ReachSteps DEF R
  <1>2. \A j \in Nat : IsFiniteSet(R[j] \cap nodes) /\ Cardinality(R[j] \cap nodes) \in Nat
    <2>1. \A X : X \cap nodes \subseteq nodes
      OBVIOUS
    <2> QED BY <2>1, FS_Subset, FS_CardinalityType
  <1>3. ASSUME bad # {} PROVE FALSE
    <2>1. PICK j \in bad : \A k \in bad : j <= k
      BY <1>3, LeastNatural
    <2>2. j \in Nat /\ j # 0
      BY <1>2
    <2>3. j - 1 \in Nat /\ (j - 1) + 1 = j /\ ~(j <= j - 1)
      BY <2>2
    <2>4. Full(j - 1)
      BY <2>1, <2>3
    <2>5. R[j] = After(edges, R[j - 1])
      BY <1>1, <2>3
    <2>6. CASE IsClosed(edges, R[j - 1])
      <3>1. R[j] = R[j - 1]
        BY <2>5, <2>6 DEF After, IsClosed
      <3> QED BY <2>1, <2>6, <3>1
    <2>7. CASE ~IsClosed(edges, R[j - 1])
      <3>1. PICK e \in edges : e[1] \in R[j - 1] /\ e[2] \notin R[j - 1]
        BY <2>7 DEF IsClosed
      <3> DEFINE A == R[j - 1] \cap nodes
      <3>2. e[2] \in nodes /\ e[2] \notin A /\ A \cup {e[2]} \subseteq R[j] \cap nodes
        BY <2>5, <3>1 DEF After
      <3>3. Cardinality(A) >= j - 1
        BY <2>4, <2>7
      <3>4. Cardinality(A \cup {e[2]}) = Cardinality(A) + 1
        BY <1>2, <2>3, <3>2, FS_AddElement
      <3>5. Cardinality(A \cup {e[2]}) <= Cardinality(R[j] \cap nodes)
        BY <1>2, <2>2, <3>2, FS_Subset
      <3>6. Cardinality(A) \in Nat
        BY <1>2, <2>3
      <3>7. Cardinality(R[j] \cap nodes) \in Nat
        BY <1>2, <2>2
      <3>8. Cardinality(R[j] \cap nodes) >= j
        BY <2>2, <3>3, <3>4, <3>5, <3>6, <3>7
      <3> QED BY <2>1, <3>8
    <2> QED BY <2>6, <2>7
  <1>4. Full(i)
    BY <1>3
  <1> QED BY <1>4 DEF R

\* What depthFirstTraverse visits is the least set that has the start and is closed under
\* the edges: the rounds are enough for every graph.
LEMMA ClosureIsLeastClosed ==
    ASSUME NEW g, NEW edges, NEW start, IsFiniteSet(g.nodes), \A e \in edges : e[2] \in g.nodes
    PROVE  /\ start \subseteq Closure(g, edges, start)
           /\ IsClosed(edges, Closure(g, edges, start))
           /\ \A X : start \subseteq X /\ IsClosed(edges, X) => Closure(g, edges, start) \subseteq X
  <1> DEFINE N == Cardinality(g.nodes)
             R == Reach(edges, start)[N]
  <1>1. N \in Nat
    BY FS_CardinalityType
  <1>2. start \subseteq R
    BY <1>1, ReachGrows
  <1>3. \A X : start \subseteq X /\ IsClosed(edges, X) => R \subseteq X
    BY <1>1, ReachIsLeast
  <1>4. IsClosed(edges, R)
    <2>1. CASE Cardinality(R \cap g.nodes) >= N
      <3>1. R \cap g.nodes \subseteq g.nodes
        OBVIOUS
      <3>2. R \cap g.nodes = g.nodes
        <4>1. /\ Cardinality(R \cap g.nodes) \in Nat
              /\ Cardinality(R \cap g.nodes) = N => R \cap g.nodes = g.nodes
              /\ Cardinality(R \cap g.nodes) <= N
          BY <3>1, FS_Subset, FS_CardinalityType
        <4> QED BY <1>1, <2>1, <4>1
      <3> QED BY <3>2 DEF IsClosed
    <2>2. CASE ~(Cardinality(R \cap g.nodes) >= N)
      BY <1>1, <2>2, ReachFills
    <2> QED BY <2>1, <2>2
  <1> QED BY <1>2, <1>3, <1>4, ClosureIsReach

\* The graph as a value, and what makes it one.
GraphWith(edges, nodes, roots, derived, actions) ==
    [edges |-> edges, nodes |-> nodes, roots |-> roots, derived |-> derived, actions |-> actions]
IsGraph(g) == g = GraphWith(g.edges, g.nodes, g.roots, g.derived, g.actions)

\* A graph is its five fields.
LEMMA Fields ==
    ASSUME NEW edges, NEW nodes, NEW roots, NEW derived, NEW actions
    PROVE  LET g == GraphWith(edges, nodes, roots, derived, actions)
           IN  /\ IsGraph(g) /\ g.edges = edges /\ g.nodes = nodes /\ g.roots = roots
               /\ g.derived = derived /\ g.actions = actions
  BY DEF GraphWith, IsGraph

\* addNode: a node is known once, as a root if nothing leads to it.
LEMMA AddNodeFields ==
    ASSUME NEW g, IsGraph(g), NEW n
    PROVE  AddNode(g, n) =
               GraphWith(g.edges, g.nodes \cup {n},
                         IF n \notin g.nodes /\ Parents(g, n) = {} THEN g.roots \cup {n} ELSE g.roots,
                         g.derived, g.actions)
  <1>1. CASE n \in g.nodes
    <2>1. g.nodes \cup {n} = g.nodes
      BY <1>1
    <2> QED BY <1>1, <2>1 DEF AddNode, IsGraph
  <1>2. CASE n \notin g.nodes
    BY <1>2 DEF AddNode, IsGraph, GraphWith
  <1> QED BY <1>1, <1>2

\* Rules, actions or other nodes.
OfKind(kind, nodes) == {n \in nodes : n.kind = kind}

\* The insertion of an edge tells the rules and the actions from the other nodes.
LEMMA LinkFields ==
    ASSUME NEW g, IsGraph(g), NEW u, NEW v
    PROVE  Link(g, u, v) =
               GraphWith(g.edges \cup {<<u, v>>}, g.nodes, g.roots,
                         g.derived \cup OfKind("derived", {u, v}),
                         g.actions \cup OfKind("action", {u, v}))
  <1> DEFINE l == Link(g, u, v)
  <1>1. l = [g EXCEPT !.edges   = g.edges \cup {<<u, v>>},
                      !.derived = g.derived \cup OfKind("derived", {u, v}),
                      !.actions = g.actions \cup OfKind("action", {u, v})]
    BY DEF Link, OfKind
  <1> QED BY <1>1 DEF IsGraph, GraphWith

\* addEdge: both ends are known, and the second one is no root any more.
LEMMA AddEdgeFields ==
    ASSUME NEW g, IsGraph(g), NEW u, NEW v
    PROVE  AddEdge(g, u, v) =
               GraphWith(g.edges \cup {<<u, v>>}, g.nodes \cup {u, v},
                         (IF u \notin g.nodes /\ Parents(g, u) = {} THEN g.roots \cup {u} ELSE g.roots) \ {v},
                         g.derived \cup OfKind("derived", {u, v}),
                         g.actions \cup OfKind("action", {u, v}))
  <1> DEFINE l == Link(g, u, v)
             a == AddNode(l, u)
             b == AddNode(a, v)
  <1>1. /\ IsGraph(l) /\ l.edges = g.edges \cup {<<u, v>>} /\ l.nodes = g.nodes /\ l.roots = g.roots
        /\ l.derived = g.derived \cup OfKind("derived", {u, v})
        /\ l.actions = g.actions \cup OfKind("action", {u, v})
    <2>1. l = GraphWith(g.edges \cup {<<u, v>>}, g.nodes, g.roots,
                        g.derived \cup OfKind("derived", {u, v}),
                        g.actions \cup OfKind("action", {u, v}))
      BY LinkFields
    <2> HIDE DEF l
    <2> QED BY <2>1 DEF GraphWith, IsGraph
  <1> HIDE DEF l
  <1>2. /\ IsGraph(a) /\ a.edges = l.edges /\ a.nodes = l.nodes \cup {u}
        /\ a.roots = IF u \notin l.nodes /\ Parents(l, u) = {} THEN l.roots \cup {u} ELSE l.roots
        /\ a.derived = l.derived /\ a.actions = l.actions
    <2>1. a = GraphWith(l.edges, l.nodes \cup {u},
                        IF u \notin l.nodes /\ Parents(l, u) = {} THEN l.roots \cup {u} ELSE l.roots,
                        l.derived, l.actions)
      BY <1>1, AddNodeFields
    <2> QED BY <2>1, Fields
  <1> HIDE DEF a
  <1>3. /\ IsGraph(b) /\ b.edges = a.edges /\ b.nodes = a.nodes \cup {v}
        /\ b.roots = IF v \notin a.nodes /\ Parents(a, v) = {} THEN a.roots \cup {v} ELSE a.roots
        /\ b.derived = a.derived /\ b.actions = a.actions
    <2>1. b = GraphWith(a.edges, a.nodes \cup {v},
                        IF v \notin a.nodes /\ Parents(a, v) = {} THEN a.roots \cup {v} ELSE a.roots,
                        a.derived, a.actions)
      BY <1>2, AddNodeFields
    <2> QED BY <2>1, Fields
  <1>4. AddEdge(g, u, v) = [b EXCEPT !.roots = @ \ {v}]
    BY DEF AddEdge, a, l
  <1> HIDE DEF b
  <1>5. AddEdge(g, u, v) = GraphWith(b.edges, b.nodes, b.roots \ {v}, b.derived, b.actions)
    BY <1>3, <1>4 DEF IsGraph, GraphWith
  <1>6. u # v => (Parents(l, u) = {} <=> Parents(g, u) = {})
    BY <1>1 DEF Parents
  <1>7. b.roots \ {v} =
            (IF u \notin g.nodes /\ Parents(g, u) = {} THEN g.roots \cup {u} ELSE g.roots) \ {v}
    BY <1>1, <1>2, <1>3, <1>6
  <1>8. b.nodes = g.nodes \cup {u, v}
    BY <1>1, <1>2, <1>3
  <1> QED BY <1>1, <1>2, <1>3, <1>5, <1>7, <1>8

\* Where edges lead to, and all their ends.
Targets(E) == {e[2] : e \in E}
Ends(E) == {e[1] : e \in E} \cup Targets(E)
ArePairs(E) == \A e \in E : e = <<e[1], e[2]>>

\* A graph with some more edges.
Joined(g, E) ==
    GraphWith(g.edges \cup E, g.nodes \cup Ends(E),
              {n \in g.nodes \cup Ends(E) : Parents(g, n) = {}} \ Targets(E),
              g.derived \cup OfKind("derived", Ends(E)), g.actions \cup OfKind("action", Ends(E)))

\* The roots of a graph are the nodes without a parent.
Rooted(g) == IsGraph(g) /\ g.roots = {n \in g.nodes : Parents(g, n) = {}}

\* The fields of a graph with some more edges.
LEMMA JoinedFields ==
    ASSUME NEW g, NEW E
    PROVE  /\ IsGraph(Joined(g, E))
           /\ Joined(g, E).edges = g.edges \cup E /\ Joined(g, E).nodes = g.nodes \cup Ends(E)
           /\ Joined(g, E).roots = {n \in g.nodes \cup Ends(E) : Parents(g, n) = {}} \ Targets(E)
           /\ Joined(g, E).derived = g.derived \cup OfKind("derived", Ends(E))
           /\ Joined(g, E).actions = g.actions \cup OfKind("action", Ends(E))
  <1> DEFINE roots == {n \in g.nodes \cup Ends(E) : Parents(g, n) = {}} \ Targets(E)
             derived == g.derived \cup OfKind("derived", Ends(E))
             actions == g.actions \cup OfKind("action", Ends(E))
  <1>1. Joined(g, E) = GraphWith(g.edges \cup E, g.nodes \cup Ends(E), roots, derived, actions)
    BY DEF Joined
  <1> HIDE DEF roots, derived, actions
  <1>2. /\ IsGraph(Joined(g, E))
        /\ Joined(g, E).edges = g.edges \cup E /\ Joined(g, E).nodes = g.nodes \cup Ends(E)
        /\ Joined(g, E).roots = roots /\ Joined(g, E).derived = derived
        /\ Joined(g, E).actions = actions
    BY <1>1 DEF GraphWith, IsGraph
  <1> QED BY <1>2 DEF roots, derived, actions

\* No more edges, no other graph: the roots are those without a parent.
LEMMA JoinedNothing ==
    ASSUME NEW g, Rooted(g)
    PROVE  Joined(g, {}) = g
  <1>1. Ends({}) = {} /\ Targets({}) = {}
    BY DEF Ends, Targets
  <1>2. /\ g.edges \cup {} = g.edges /\ g.nodes \cup Ends({}) = g.nodes
        /\ {n \in g.nodes \cup Ends({}) : Parents(g, n) = {}} \ Targets({}) = g.roots
        /\ g.derived \cup OfKind("derived", Ends({})) = g.derived
        /\ g.actions \cup OfKind("action", Ends({})) = g.actions
    BY <1>1 DEF Rooted, OfKind
  <1> QED BY <1>2 DEF Rooted, IsGraph, Joined

\* addEdge after other edges is one more edge.
LEMMA JoinedOneMore ==
    ASSUME NEW g, NEW E, NEW e, e = <<e[1], e[2]>>
    PROVE  AddEdge(Joined(g, E), e[1], e[2]) = Joined(g, E \cup {e})
  <1> DEFINE h == Joined(g, E)
             u == e[1]
             v == e[2]
  <1>1. /\ IsGraph(h) /\ h.edges = g.edges \cup E /\ h.nodes = g.nodes \cup Ends(E)
        /\ h.roots = {n \in g.nodes \cup Ends(E) : Parents(g, n) = {}} \ Targets(E)
        /\ h.derived = g.derived \cup OfKind("derived", Ends(E))
        /\ h.actions = g.actions \cup OfKind("action", Ends(E))
    BY JoinedFields
  <1> HIDE DEF h
  <1>2. AddEdge(h, u, v) =
           GraphWith(h.edges \cup {<<u, v>>}, h.nodes \cup {u, v},
                     (IF u \notin h.nodes /\ Parents(h, u) = {} THEN h.roots \cup {u} ELSE h.roots) \ {v},
                     h.derived \cup OfKind("derived", {u, v}), h.actions \cup OfKind("action", {u, v}))
    BY <1>1, AddEdgeFields
  <1>3. /\ Ends(E \cup {e}) = Ends(E) \cup {u, v}
        /\ Targets(E \cup {e}) = Targets(E) \cup {v}
    BY DEF Ends, Targets
  <1>4. h.edges \cup {<<u, v>>} = g.edges \cup (E \cup {e})
    BY <1>1
  <1>5. h.nodes \cup {u, v} = g.nodes \cup Ends(E \cup {e})
    BY <1>1, <1>3
  <1>6. Parents(h, u) = {} <=> Parents(g, u) = {} /\ u \notin Targets(E)
    BY <1>1 DEF Parents, Targets
  <1>7. (IF u \notin h.nodes /\ Parents(h, u) = {} THEN h.roots \cup {u} ELSE h.roots) \ {v}
        = {n \in g.nodes \cup Ends(E \cup {e}) : Parents(g, n) = {}} \ Targets(E \cup {e})
    BY <1>1, <1>3, <1>6
  <1>8. /\ h.derived \cup OfKind("derived", {u, v}) = g.derived \cup OfKind("derived", Ends(E \cup {e}))
        /\ h.actions \cup OfKind("action", {u, v}) = g.actions \cup OfKind("action", Ends(E \cup {e}))
    BY <1>1, <1>3 DEF OfKind
  <1> QED BY <1>2, <1>4, <1>5, <1>7, <1>8 DEF Joined, h

\* Edges that are added one by one, in any order, make the graph with all of them (addEdge
\* in a loop over an unordered set).
LEMMA AddEdgesJoins ==
    ASSUME NEW g, Rooted(g), NEW E, IsFiniteSet(E), ArePairs(E)
    PROVE  AddEdges(g, E) = Joined(g, E)
  <1> DEFINE some(s) == CHOOSE x \in s : TRUE
             Folds(iter) ==
                 iter = [s \in SUBSET E |->
                            IF s = {} THEN g
                            ELSE AddEdge(iter[s \ {some(s)}], some(s)[1], some(s)[2])]
             iter == CHOOSE f : Folds(f)
             closed == [s \in SUBSET E |-> Joined(g, s)]
  <1>1. AddEdges(g, E) = iter[E]
    BY DEF AddEdges, FoldSet, MapThenFoldSet
  <1>2. ASSUME NEW s \in SUBSET E, s # {}
        PROVE  /\ some(s) \in E /\ s \ {some(s)} \in SUBSET E /\ s \ {some(s)} # s
               /\ AddEdge(Joined(g, s \ {some(s)}), some(s)[1], some(s)[2]) = Joined(g, s)
    <2>1. some(s) \in s
      BY <1>2
    <2> HIDE DEF some
    <2>2. (s \ {some(s)}) \cup {some(s)} = s
      BY <2>1
    <2>3. some(s) = <<some(s)[1], some(s)[2]>>
      BY <2>1 DEF ArePairs
    <2>4. AddEdge(Joined(g, s \ {some(s)}), some(s)[1], some(s)[2])
          = Joined(g, (s \ {some(s)}) \cup {some(s)})
      BY <2>3, JoinedOneMore
    <2> QED BY <2>1, <2>2, <2>4
  <1> HIDE DEF some
  <1>3. Folds(closed)
    BY <1>2, JoinedNothing
  <1>4. Folds(iter)
    BY <1>3
  <1> HIDE DEF iter
  <1> DEFINE bad == {s \in SUBSET E : iter[s] # Joined(g, s)}
  <1>5. ASSUME bad # {} PROVE FALSE
    <2>1. PICK s \in bad : \A t \in bad : t \subseteq s => t = s
      <3>1. bad \in SUBSET SUBSET E
        OBVIOUS
      <3> HIDE DEF bad
      <3> QED BY <1>5, <3>1, SmallestSet
    <2>2. iter[s] = IF s = {} THEN g ELSE AddEdge(iter[s \ {some(s)}], some(s)[1], some(s)[2])
      BY <1>4
    <2>3. s # {}
      BY <2>1, <2>2, JoinedNothing
    <2>4. iter[s \ {some(s)}] = Joined(g, s \ {some(s)})
      BY <1>2, <2>1, <2>3
    <2> QED BY <1>2, <2>1, <2>2, <2>3, <2>4
  <1>6. iter[E] = Joined(g, E)
    BY <1>5
  <1> QED BY <1>1, <1>6

\* More edges, and the roots are still those without a parent.
LEMMA JoinedIsRooted ==
    ASSUME NEW g, Rooted(g), NEW E, ArePairs(E)
    PROVE  Rooted(Joined(g, E))
  <1> DEFINE h == Joined(g, E)
  <1>1. /\ IsGraph(h) /\ h.edges = g.edges \cup E /\ h.nodes = g.nodes \cup Ends(E)
        /\ h.roots = {n \in g.nodes \cup Ends(E) : Parents(g, n) = {}} \ Targets(E)
    BY JoinedFields
  <1> HIDE DEF h
  <1>2. \A n : Parents(h, n) = {} <=> Parents(g, n) = {} /\ n \notin Targets(E)
    <2>1. h.edges = g.edges \cup E
      BY <1>1
    <2> QED BY <2>1 DEF Parents, Targets
  <1>3. Rooted(h)
    BY <1>1, <1>2 DEF Rooted
  <1> QED BY <1>3 DEF h

\* Edges may be added in two parts.
LEMMA JoinedTwice ==
    ASSUME NEW g, Rooted(g), NEW E, NEW F, ArePairs(E)
    PROVE  Joined(Joined(g, E), F) = Joined(g, E \cup F)
  <1> DEFINE h == Joined(g, E)
  <1>1. /\ h.edges = g.edges \cup E /\ h.nodes = g.nodes \cup Ends(E)
        /\ h.derived = g.derived \cup OfKind("derived", Ends(E))
        /\ h.actions = g.actions \cup OfKind("action", Ends(E))
    BY JoinedFields
  <1> HIDE DEF h
  <1>2. Ends(E \cup F) = Ends(E) \cup Ends(F) /\ Targets(E \cup F) = Targets(E) \cup Targets(F)
    BY DEF Ends, Targets
  <1>3. \A n : Parents(h, n) = {} <=> Parents(g, n) = {} /\ n \notin Targets(E)
    BY <1>1 DEF Parents, Targets
  <1>4. {n \in h.nodes \cup Ends(F) : Parents(h, n) = {}} \ Targets(F)
        = {n \in g.nodes \cup Ends(E \cup F) : Parents(g, n) = {}} \ Targets(E \cup F)
    BY <1>1, <1>2, <1>3
  <1>5. /\ h.edges \cup F = g.edges \cup (E \cup F)
        /\ h.nodes \cup Ends(F) = g.nodes \cup Ends(E \cup F)
    BY <1>1, <1>2
  <1>6. /\ h.derived \cup OfKind("derived", Ends(F)) = g.derived \cup OfKind("derived", Ends(E \cup F))
        /\ h.actions \cup OfKind("action", Ends(F)) = g.actions \cup OfKind("action", Ends(E \cup F))
    BY <1>1, <1>2 DEF OfKind
  <1> QED BY <1>4, <1>5, <1>6 DEF Joined, h

\* The edges into a node from what it needs, where some rules are known.
RulesFor(known, name) == {d \in known : d.head = name}
Sources(known, name) == IF RulesFor(known, name) = {} THEN {Atom(name)} ELSE RulesFor(known, name)
Into(known, n) == (UNION {Sources(known, name) : name \in n.needs}) \X {n}
IntoAll(known, N) == UNION {Into(known, n) : n \in N}
AddNeeds(g, N) == FoldSet(LAMBDA d, h : AddEdgeFromPreconditions(h, d), g, N)
AreRules(known) == IsFiniteSet(known) /\ \A d \in known : d.kind = "derived" /\ IsFiniteSet(d.needs)

\* The images of a finite set are finite in number.
LEMMA FiniteImage ==
    ASSUME NEW S, IsFiniteSet(S), NEW T, NEW f \in [S -> T], \A t \in T : \E x \in S : f[x] = t
    PROVE  IsFiniteSet(T)
  <1>1. f \in Surjection(S, T)
    BY DEF Surjection
  <1> QED BY <1>1, FS_Surjection

\* What a node needs are finitely many edges to it.
LEMMA IntoFacts ==
    ASSUME NEW known, AreRules(known), NEW n, IsFiniteSet(n.needs)
    PROVE  /\ IsFiniteSet(Into(known, n)) /\ ArePairs(Into(known, n))
           /\ \A m \in Targets(Into(known, n)) : m = n
           /\ OfKind("derived", Ends(Into(known, n))) \subseteq known \cup {n}
           /\ OfKind("action", Ends(Into(known, n))) \subseteq {n}
  <1>1. \A name : IsFiniteSet(Sources(known, name))
    <2>1. \A name : RulesFor(known, name) \subseteq known /\ IsFiniteSet({Atom(name)})
      BY FS_Singleton DEF RulesFor
    <2> QED BY <2>1, FS_Subset DEF Sources, AreRules
  <1> DEFINE f == [name \in n.needs |-> Sources(known, name)]
             sets == {Sources(known, name) : name \in n.needs}
  <1>2. IsFiniteSet(sets)
    <2>1. f \in [n.needs -> sets] /\ \A t \in sets : \E x \in n.needs : f[x] = t
      OBVIOUS
    <2> HIDE DEF f, sets
    <2> QED BY <2>1, FiniteImage
  <1>3. IsFiniteSet(UNION sets)
    BY <1>1, <1>2, FS_UNION
  <1>4. IsFiniteSet((UNION sets) \X {n})
    BY <1>3, FS_Product, FS_Singleton
  <1>5. \A m \in UNION sets : m \in known \/ m.kind = "atom"
    BY DEF Sources, RulesFor, Atom
  <1> HIDE DEF sets
  <1>6. Into(known, n) = (UNION sets) \X {n}
    BY DEF Into, sets
  <1>7. \A e \in Into(known, n) : e = <<e[1], e[2]>> /\ e[1] \in UNION sets /\ e[2] = n
    BY <1>6
  <1>8. \A m \in Ends(Into(known, n)) : m = n \/ m \in known \/ m.kind = "atom"
    BY <1>5, <1>7 DEF Ends, Targets
  <1>9. OfKind("derived", Ends(Into(known, n))) \subseteq known \cup {n}
    BY <1>8 DEF OfKind
  <1>10. OfKind("action", Ends(Into(known, n))) \subseteq {n}
    BY <1>8 DEF OfKind, AreRules
  <1>11. \A m \in Targets(Into(known, n)) : m = n
    BY <1>7 DEF Targets
  <1> QED BY <1>4, <1>6, <1>7, <1>9, <1>10, <1>11 DEF ArePairs

\* addEdgeFromPreconditions adds the edges from what a node needs.
LEMMA AddEdgeFromPreconditionsJoins ==
    ASSUME NEW g, Rooted(g), NEW n, AreRules(g.derived), IsFiniteSet(n.needs)
    PROVE  AddEdgeFromPreconditions(g, n) = Joined(g, Into(g.derived, n))
  <1>1. AddEdgeFromPreconditions(g, n) = AddEdges(g, Into(g.derived, n))
    BY DEF AddEdgeFromPreconditions, Into, Sources, RulesFor
  <1> QED BY <1>1, AddEdgesJoins, IntoFacts

\* The constructors and appendActions, which add what each rule or action needs one after
\* the other, add it all, whatever the order.
LEMMA AddNeedsJoins ==
    ASSUME NEW g, Rooted(g), AreRules(g.derived), NEW N, IsFiniteSet(N),
           \A n \in N : IsFiniteSet(n.needs) /\ (n \in g.derived \/ n.kind = "action")
    PROVE  AddNeeds(g, N) = Joined(g, IntoAll(g.derived, N))
  <1> DEFINE some(s) == CHOOSE x \in s : TRUE
             Folds(iter) ==
                 iter = [s \in SUBSET N |->
                            IF s = {} THEN g
                            ELSE AddEdgeFromPreconditions(iter[s \ {some(s)}], some(s))]
             iter == CHOOSE f : Folds(f)
             all(s) == IntoAll(g.derived, s)
             closed == [s \in SUBSET N |-> Joined(g, all(s))]
  <1>1. AddNeeds(g, N) = iter[N]
    BY DEF AddNeeds, FoldSet, MapThenFoldSet
  <1>2. ASSUME NEW s \in SUBSET N
        PROVE  /\ ArePairs(all(s)) /\ OfKind("derived", Ends(all(s))) \subseteq g.derived
               /\ Joined(g, all(s)).derived = g.derived /\ Rooted(Joined(g, all(s)))
    <2>1. ArePairs(all(s))
      BY IntoFacts DEF IntoAll, ArePairs
    <2>2. \A m \in Ends(all(s)) : \E n \in s : m \in Ends(Into(g.derived, n))
      BY DEF IntoAll, Ends, Targets
    <2>3. \A n \in s : OfKind("derived", Ends(Into(g.derived, n))) \subseteq g.derived
      BY IntoFacts DEF OfKind
    <2>4. OfKind("derived", Ends(all(s))) \subseteq g.derived
      BY <2>2, <2>3 DEF OfKind
    <2>5. Joined(g, all(s)).derived = g.derived \cup OfKind("derived", Ends(all(s)))
      BY JoinedFields
    <2> QED BY <2>1, <2>4, <2>5, JoinedIsRooted
  <1>3. ASSUME NEW s \in SUBSET N, s # {}
        PROVE  /\ some(s) \in N /\ s \ {some(s)} \in SUBSET N /\ s \ {some(s)} # s
               /\ AddEdgeFromPreconditions(Joined(g, all(s \ {some(s)})), some(s)) = Joined(g, all(s))
    <2>1. some(s) \in s
      BY <1>3
    <2> HIDE DEF some
    <2> DEFINE t == s \ {some(s)}
    <2>2. all(s) = all(t) \cup Into(g.derived, some(s))
      BY <2>1 DEF IntoAll
    <2>3. t \in SUBSET N /\ IsFiniteSet(some(s).needs)
      BY <2>1
    <2>4. AddEdgeFromPreconditions(Joined(g, all(t)), some(s))
          = Joined(Joined(g, all(t)), Into(g.derived, some(s)))
      BY <1>2, <2>3, AddEdgeFromPreconditionsJoins
    <2>5. Joined(Joined(g, all(t)), Into(g.derived, some(s)))
          = Joined(g, all(t) \cup Into(g.derived, some(s)))
      <3>1. ArePairs(all(t))
        BY <1>2, <2>3
      <3> HIDE DEF all, t
      <3> QED BY <3>1, JoinedTwice
    <2> QED BY <2>1, <2>2, <2>4, <2>5
  <1> HIDE DEF some
  <1>4. all({}) = {}
    BY DEF IntoAll
  <1>5. Folds(closed)
    BY <1>3, <1>4, JoinedNothing
  <1>6. Folds(iter)
    BY <1>5
  <1> HIDE DEF iter
  <1> DEFINE bad == {s \in SUBSET N : iter[s] # Joined(g, all(s))}
  <1>7. ASSUME bad # {} PROVE FALSE
    <2>1. PICK s \in bad : \A t \in bad : t \subseteq s => t = s
      <3>1. bad \in SUBSET SUBSET N
        OBVIOUS
      <3> HIDE DEF bad
      <3> QED BY <1>7, <3>1, SmallestSet
    <2>2. iter[s] = IF s = {} THEN g ELSE AddEdgeFromPreconditions(iter[s \ {some(s)}], some(s))
      BY <1>6
    <2>3. s # {}
      BY <1>4, <2>1, <2>2, JoinedNothing
    <2>4. iter[s \ {some(s)}] = Joined(g, all(s \ {some(s)}))
      BY <1>3, <2>1, <2>3
    <2> QED BY <1>3, <2>1, <2>2, <2>3, <2>4
  <1>8. iter[N] = Joined(g, all(N))
    BY <1>7
  <1> QED BY <1>1, <1>8

\* A well-formed graph: finitely many nodes, edges between them, and the right roots.
WellFormed(g) ==
    /\ Rooted(g) /\ IsFiniteSet(g.nodes)
    /\ \A e \in g.edges : e = <<e[1], e[2]>> /\ e[1] \in g.nodes /\ e[2] \in g.nodes

\* A graph has finitely many edges.
LEMMA WellFormedIsFinite ==
    ASSUME NEW g, WellFormed(g)
    PROVE  /\ IsFiniteSet(g.edges)
           /\ \A E \in SUBSET g.edges : IsFiniteSet(E) /\ ArePairs(E)
  <1>1. IsFiniteSet(g.nodes \X g.nodes)
    BY FS_Product DEF WellFormed
  <1>2. g.edges \subseteq g.nodes \X g.nodes
    BY DEF WellFormed
  <1> QED BY <1>1, <1>2, FS_Subset DEF WellFormed, ArePairs

\* Finitely many edges have finitely many ends.
LEMMA FiniteEnds ==
    ASSUME NEW E, IsFiniteSet(E)
    PROVE  IsFiniteSet(Ends(E))
  <1>1. IsFiniteSet({e[1] : e \in E})
    <2> DEFINE f == [e \in E |-> e[1]]
               T == {e[1] : e \in E}
    <2>1. f \in [E -> T] /\ \A t \in T : \E e \in E : f[e] = t
      OBVIOUS
    <2> HIDE DEF f, T
    <2>2. IsFiniteSet(T)
      BY <2>1, FiniteImage
    <2> QED BY <2>2 DEF T
  <1>2. IsFiniteSet(Targets(E))
    <2> DEFINE f == [e \in E |-> e[2]]
               T == {e[2] : e \in E}
    <2>1. f \in [E -> T] /\ \A t \in T : \E e \in E : f[e] = t
      OBVIOUS
    <2> HIDE DEF f, T
    <2>2. IsFiniteSet(T)
      BY <2>1, FiniteImage
    <2> QED BY <2>2 DEF T, Targets
  <1> QED BY <1>1, <1>2, FS_Union DEF Ends

\* addEdge keeps a graph well-formed.
LEMMA JoinedIsWellFormed ==
    ASSUME NEW g, WellFormed(g), NEW E, IsFiniteSet(E), ArePairs(E)
    PROVE  WellFormed(Joined(g, E))
  <1> DEFINE h == Joined(g, E)
  <1>1. h.edges = g.edges \cup E /\ h.nodes = g.nodes \cup Ends(E)
    BY JoinedFields
  <1>2. Rooted(h)
    BY JoinedIsRooted DEF WellFormed
  <1> HIDE DEF h
  <1>3. IsFiniteSet(h.nodes)
    <2>1. IsFiniteSet(Ends(E)) /\ IsFiniteSet(g.nodes)
      BY FiniteEnds DEF WellFormed
    <2> QED BY <1>1, <2>1, FS_Union
  <1>4. \A e \in h.edges : e = <<e[1], e[2]>> /\ e[1] \in h.nodes /\ e[2] \in h.nodes
    BY <1>1 DEF WellFormed, ArePairs, Ends, Targets
  <1>5. WellFormed(h)
    BY <1>2, <1>3, <1>4 DEF WellFormed
  <1> QED BY <1>5 DEF h

\* The graph that the constructors start from is well-formed.
LEMMA NoGraphIsWellFormed ==
    ASSUME NEW derived
    PROVE  LET g == [NoGraph EXCEPT !.derived = derived]
           IN  /\ WellFormed(g) /\ g.edges = {} /\ g.nodes = {} /\ g.derived = derived
               /\ g.actions = {}
  <1> DEFINE g == [NoGraph EXCEPT !.derived = derived]
  <1>1. g = GraphWith({}, {}, {}, derived, {})
    BY DEF NoGraph, GraphWith
  <1> HIDE DEF g
  <1>2. /\ IsGraph(g) /\ g.edges = {} /\ g.nodes = {} /\ g.derived = derived /\ g.roots = {}
        /\ g.actions = {}
    BY <1>1 DEF GraphWith, IsGraph
  <1>3. WellFormed(g)
    BY <1>2, FS_EmptySet DEF WellFormed, Rooted
  <1> QED BY <1>2, <1>3 DEF g

\* The empty graph is well-formed.
LEMMA NoGraphFacts ==
    /\ WellFormed(NoGraph) /\ NoGraph.edges = {} /\ NoGraph.nodes = {} /\ NoGraph.roots = {}
    /\ NoGraph.derived = {} /\ NoGraph.actions = {}
  <1>1. NoGraph = [NoGraph EXCEPT !.derived = {}]
    BY DEF NoGraph
  <1>2. WellFormed(NoGraph) /\ NoGraph.edges = {} /\ NoGraph.nodes = {}
    BY <1>1, NoGraphIsWellFormed
  <1> QED BY <1>2 DEF NoGraph

\* What a traversal of a well-formed graph along the edges reaches.
LEMMA DescendantsFacts ==
    ASSUME NEW g, WellFormed(g), NEW start
    PROVE  /\ start \subseteq Descendants(g, start)
           /\ \A e \in g.edges : e[1] \in Descendants(g, start) => e[2] \in Descendants(g, start)
           /\ \A X : start \subseteq X /\ (\A e \in g.edges : e[1] \in X => e[2] \in X) =>
                         Descendants(g, start) \subseteq X
  BY ClosureIsLeastClosed DEF Descendants, WellFormed, IsClosed

\* What a traversal of a well-formed graph against the edges reaches.
LEMMA AncestorsFacts ==
    ASSUME NEW g, WellFormed(g), NEW start
    PROVE  /\ start \subseteq Ancestors(g, start)
           /\ \A e \in g.edges : e[2] \in Ancestors(g, start) => e[1] \in Ancestors(g, start)
           /\ \A X : start \subseteq X /\ (\A e \in g.edges : e[2] \in X => e[1] \in X) =>
                         Ancestors(g, start) \subseteq X
  <1> DEFINE back == {<<e[2], e[1]>> : e \in g.edges}
             C == Ancestors(g, start)
  <1>1. \A e \in back : e[2] \in g.nodes
    BY DEF WellFormed
  <1>2. C = Closure(g, back, start)
    BY DEF Ancestors
  <1>3. \A X : IsClosed(back, X) <=> \A e \in g.edges : e[2] \in X => e[1] \in X
    <2>1. ASSUME NEW X, IsClosed(back, X), NEW e \in g.edges, e[2] \in X PROVE e[1] \in X
      <3>1. <<e[2], e[1]>> \in back
        OBVIOUS
      <3> HIDE DEF back
      <3> QED BY <2>1, <3>1 DEF IsClosed
    <2>2. ASSUME NEW X, \A e \in g.edges : e[2] \in X => e[1] \in X PROVE IsClosed(back, X)
      BY <2>2 DEF IsClosed
    <2> HIDE DEF back
    <2> QED BY <2>1, <2>2
  <1> HIDE DEF back, C
  <1>4. /\ start \subseteq C /\ IsClosed(back, C)
        /\ \A X : start \subseteq X /\ IsClosed(back, X) => C \subseteq X
    BY <1>1, <1>2, ClosureIsLeastClosed DEF WellFormed
  <1>5. /\ start \subseteq C
        /\ \A e \in g.edges : e[2] \in C => e[1] \in C
        /\ \A X : start \subseteq X /\ (\A e \in g.edges : e[2] \in X => e[1] \in X) => C \subseteq X
    BY <1>3, <1>4
  <1> QED BY <1>5 DEF C

\* pruneGraphToActions keeps the edges to what the actions depend on, and their ends.
LEMMA PruneFacts ==
    ASSUME NEW g, WellFormed(g), NEW actions
    PROVE  LET E == {e \in g.edges : e[2] \in Ancestors(g, actions)}
               h == pruneGraphToActions(g, actions)
           IN  /\ WellFormed(h) /\ h.edges = E /\ h.nodes = Ends(E)
               /\ h.derived = OfKind("derived", Ends(E)) /\ h.actions = OfKind("action", Ends(E))
  <1> DEFINE E == {e \in g.edges : e[2] \in Ancestors(g, actions)}
             h == pruneGraphToActions(g, actions)
  <1>1. E \in SUBSET g.edges
    OBVIOUS
  <1>2. h = AddEdges(NoGraph, E)
    BY DEF pruneGraphToActions
  <1> HIDE DEF E, h
  <1>4. /\ WellFormed(NoGraph) /\ NoGraph.edges = {} /\ NoGraph.nodes = {} /\ NoGraph.derived = {}
        /\ NoGraph.actions = {}
    BY NoGraphFacts
  <1>5. h = Joined(NoGraph, E)
    BY <1>1, <1>2, <1>4, WellFormedIsFinite, AddEdgesJoins DEF WellFormed
  <1>6. WellFormed(h)
    BY <1>1, <1>4, <1>5, WellFormedIsFinite, JoinedIsWellFormed
  <1>7. /\ h.edges = E /\ h.nodes = Ends(E)
        /\ h.derived = OfKind("derived", Ends(E)) /\ h.actions = OfKind("action", Ends(E))
    <2>1. /\ h.edges = NoGraph.edges \cup E /\ h.nodes = NoGraph.nodes \cup Ends(E)
          /\ h.derived = NoGraph.derived \cup OfKind("derived", Ends(E))
          /\ h.actions = NoGraph.actions \cup OfKind("action", Ends(E))
      BY <1>5, JoinedFields
    <2> QED BY <1>4, <2>1
  <1> QED BY <1>6, <1>7 DEF E, h

\* Nodes that are added one by one, in any order, are nodes and roots (addNode).
LEMMA LeavesFold ==
    ASSUME NEW N, IsFiniteSet(N)
    PROVE  FoldSet(LAMBDA n, h : AddNode(h, n), NoGraph, N) = GraphWith({}, N, N, {}, {})
  <1> DEFINE some(s) == CHOOSE x \in s : TRUE
             Folds(iter) ==
                 iter = [s \in SUBSET N |->
                            IF s = {} THEN NoGraph ELSE AddNode(iter[s \ {some(s)}], some(s))]
             iter == CHOOSE f : Folds(f)
             nodes(s) == GraphWith({}, s, s, {}, {})
             closed == [s \in SUBSET N |-> nodes(s)]
  <1>1. FoldSet(LAMBDA n, h : AddNode(h, n), NoGraph, N) = iter[N]
    BY DEF FoldSet, MapThenFoldSet
  <1>2. nodes({}) = NoGraph
    BY DEF NoGraph, GraphWith
  <1>3. ASSUME NEW s \in SUBSET N, s # {}
        PROVE  /\ some(s) \in N /\ s \ {some(s)} \in SUBSET N /\ s \ {some(s)} # s
               /\ AddNode(nodes(s \ {some(s)}), some(s)) = nodes(s)
    <2>1. some(s) \in s
      BY <1>3
    <2> HIDE DEF some
    <2> DEFINE t == s \ {some(s)}
               h == nodes(t)
    <2>2. IsGraph(h) /\ h.edges = {} /\ h.nodes = t /\ h.roots = t /\ h.derived = {} /\ h.actions = {}
      BY Fields
    <2>3. Parents(h, some(s)) = {} /\ t \cup {some(s)} = s /\ some(s) \notin t
      BY <2>1, <2>2 DEF Parents
    <2>4. AddNode(h, some(s)) = nodes(s)
      <3> HIDE DEF h
      <3> QED BY <2>2, <2>3, AddNodeFields
    <2> QED BY <2>1, <2>4
  <1> HIDE DEF some, nodes
  <1>4. Folds(closed)
    BY <1>2, <1>3
  <1>5. Folds(iter)
    BY <1>4
  <1> HIDE DEF iter
  <1> DEFINE bad == {s \in SUBSET N : iter[s] # nodes(s)}
  <1>6. ASSUME bad # {} PROVE FALSE
    <2>1. PICK s \in bad : \A t \in bad : t \subseteq s => t = s
      <3>1. bad \in SUBSET SUBSET N
        OBVIOUS
      <3> HIDE DEF bad
      <3> QED BY <1>6, <3>1, SmallestSet
    <2>2. iter[s] = IF s = {} THEN NoGraph ELSE AddNode(iter[s \ {some(s)}], some(s))
      BY <1>5
    <2>3. s # {}
      BY <1>2, <2>1, <2>2
    <2>4. iter[s \ {some(s)}] = nodes(s \ {some(s)})
      BY <1>3, <2>1, <2>3
    <2> QED BY <1>3, <2>1, <2>2, <2>3, <2>4
  <1>7. iter[N] = nodes(N)
    BY <1>6
  <1> QED BY <1>1, <1>7 DEF nodes

\* getSubGraphFromNodes has what can be reached from the nodes, and the edges between.
LEMMA SubGraphFacts ==
    ASSUME NEW g, WellFormed(g), NEW start, IsFiniteSet(start)
    PROVE  LET E == {e \in g.edges : e[1] \in Descendants(g, start)}
               h == getSubGraphFromNodes(g, start)
           IN  /\ WellFormed(h) /\ h.edges = E
               /\ h.nodes = Descendants(g, start)
               /\ h.derived = OfKind("derived", Ends(E)) /\ h.actions = OfKind("action", Ends(E))
  <1> DEFINE reached == Descendants(g, start)
             E == {e \in g.edges : e[1] \in reached}
             leaves == {n \in reached : Children(g, n) = {}}
             h == getSubGraphFromNodes(g, start)
             k == GraphWith({}, leaves, leaves, {}, {})
  <1>1. reached \subseteq start \cup g.nodes
    <2> DEFINE X == start \cup g.nodes
    <2>1. start \subseteq X /\ \A e \in g.edges : e[1] \in X => e[2] \in X
      BY DEF WellFormed
    <2> HIDE DEF X
    <2>2. Descendants(g, start) \subseteq X
      BY <2>1, DescendantsFacts
    <2> QED BY <2>2 DEF X
  <1>2. IsFiniteSet(leaves)
    <2>1. IsFiniteSet(start \cup g.nodes)
      BY FS_Union DEF WellFormed
    <2> QED BY <1>1, <2>1, FS_Subset
  <1>3. h = AddEdges(k, E)
    <2>1. FoldSet(LAMBDA n, m : AddNode(m, n), NoGraph, leaves) = k
      BY <1>2, LeavesFold
    <2> QED BY <2>1 DEF getSubGraphFromNodes
  <1>4. leaves \cup Ends(E) = reached
    <2>1. \A n \in reached : n \in leaves \/ \E e \in E : e[1] = n
      BY DEF Children
    <2>2. \A e \in E : e[1] \in reached /\ e[2] \in reached
      BY DescendantsFacts
    <2> HIDE DEF reached
    <2> QED BY <2>1, <2>2 DEF Ends, Targets
  <1>5. E \in SUBSET g.edges
    OBVIOUS
  <1> HIDE DEF E, h, leaves, reached
  <1>6. IsGraph(k) /\ k.edges = {} /\ k.nodes = leaves /\ k.roots = leaves /\ k.derived = {} /\ k.actions = {}
    BY Fields
  <1> HIDE DEF k
  <1>7. WellFormed(k)
    BY <1>2, <1>6 DEF WellFormed, Rooted, Parents
  <1>8. h = Joined(k, E)
    BY <1>3, <1>5, <1>7, WellFormedIsFinite, AddEdgesJoins DEF WellFormed
  <1>9. WellFormed(h)
    BY <1>5, <1>7, <1>8, WellFormedIsFinite, JoinedIsWellFormed
  <1>10. /\ h.edges = E /\ h.nodes = reached
         /\ h.derived = OfKind("derived", Ends(E)) /\ h.actions = OfKind("action", Ends(E))
    <2>1. /\ h.edges = k.edges \cup E /\ h.nodes = k.nodes \cup Ends(E)
          /\ h.derived = k.derived \cup OfKind("derived", Ends(E))
          /\ h.actions = k.actions \cup OfKind("action", Ends(E))
      BY <1>8, JoinedFields
    <2> QED BY <1>4, <1>6, <2>1
  <1> QED BY <1>9, <1>10 DEF E, h, reached
-----------------------------------------------------------------------------
(* The graph of the state.                                                 *)

\* A graph of rules and actions, as the constructors make it: an edge leads to a rule or to an
\* action, from another rule or from a predicate for which there is none.
RuleGraph(g) ==
    /\ WellFormed(g) /\ AreRules(g.derived) /\ g.actions \subseteq Actions
    /\ \A e \in g.edges : /\ e[1] \in g.derived \/ e[1].kind = "atom"
                          /\ e[2] \in g.derived \cup g.actions
\* A rule or an action has edges from the rules for what it needs, and from no other rule.
NeedsAreEdges(g, n) == \A r \in g.derived : <<r, n>> \in g.edges <=> r.head \in n.needs

\* The edges that are added lead from a rule to what needs its predicate.
LEMMA IntoAllEdges ==
    ASSUME NEW R, AreRules(R), NEW N
    PROVE  /\ \A r \in R : \A n : <<r, n>> \in IntoAll(R, N) <=> n \in N /\ r.head \in n.needs
           /\ \A e \in IntoAll(R, N) : (e[1] \in R \/ e[1].kind = "atom") /\ e[2] \in N
  <1>1. \A r, n : <<r, n>> \in IntoAll(R, N) <=>
                      n \in N /\ \E name \in n.needs : r \in Sources(R, name)
    BY DEF IntoAll, Into
  <1>2. \A r \in R : \A name : r \in Sources(R, name) <=> r.head = name
    BY DEF Sources, RulesFor, Atom, AreRules
  <1>3. \A name : \A r \in Sources(R, name) : r \in R \/ r.kind = "atom"
    BY DEF Sources, RulesFor, Atom
  <1>4. \A e \in IntoAll(R, N) : e = <<e[1], e[2]>>
    BY DEF IntoAll, Into
  <1>5. ASSUME NEW r \in R, NEW n
        PROVE  <<r, n>> \in IntoAll(R, N) <=> n \in N /\ r.head \in n.needs
    BY <1>1, <1>2
  <1>6. ASSUME NEW e \in IntoAll(R, N)
        PROVE  (e[1] \in R \/ e[1].kind = "atom") /\ e[2] \in N
    BY <1>1, <1>3, <1>4
  <1> QED BY <1>5, <1>6

\* With the edges for some rules or actions these, and no others, have what they need.
LEMMA AddNeedsFacts ==
    ASSUME NEW g, RuleGraph(g), NEW N, IsFiniteSet(N),
           \A n \in N : IsFiniteSet(n.needs) /\ (n \in g.derived \/ n \in Actions)
    PROVE  LET h == AddNeeds(g, N)
           IN  /\ RuleGraph(h) /\ h.derived = g.derived /\ h.actions \subseteq g.actions \cup N
               /\ h.edges = g.edges \cup IntoAll(g.derived, N)
               /\ \A n : n \notin N /\ NeedsAreEdges(g, n) => NeedsAreEdges(h, n)
               /\ \A n \in N : (\A r \in g.derived : <<r, n>> \in g.edges => r.head \in n.needs) =>
                                   NeedsAreEdges(h, n)
  <1> DEFINE E == IntoAll(g.derived, N)
             h == AddNeeds(g, N)
  <1> USE DEF RuleGraph
  <1>1. h = Joined(g, E)
    BY AddNeedsJoins, StateAssumption DEF WellFormed
  <1> HIDE DEF h
  <1>2. IsFiniteSet(E) /\ ArePairs(E)
    <2> DEFINE f == [n \in N |-> Into(g.derived, n)]
               sets == {Into(g.derived, n) : n \in N}
    <2>1. f \in [N -> sets] /\ \A t \in sets : \E n \in N : f[n] = t
      OBVIOUS
    <2>2. E = UNION sets /\ \A t \in sets : IsFiniteSet(t) /\ ArePairs(t)
      BY IntoFacts DEF IntoAll
    <2> HIDE DEF f, sets, E
    <2>3. IsFiniteSet(sets)
      BY <2>1, FiniteImage
    <2> QED BY <2>2, <2>3, FS_UNION DEF ArePairs
  <1>3. \A e \in E : (e[1] \in g.derived \/ e[1].kind = "atom") /\ e[2] \in N
    BY IntoAllEdges
  <1>4. \A r \in g.derived : \A n : <<r, n>> \in E <=> n \in N /\ r.head \in n.needs
    BY IntoAllEdges
  <1> HIDE DEF E
  <1>5. /\ h.edges = g.edges \cup E /\ h.nodes = g.nodes \cup Ends(E)
        /\ h.derived = g.derived \cup OfKind("derived", Ends(E))
        /\ h.actions = g.actions \cup OfKind("action", Ends(E))
    BY <1>1, JoinedFields
  <1>6. \A n \in Ends(E) : n \in g.derived \/ n.kind = "atom" \/ n \in N
    BY <1>3 DEF Ends, Targets
  <1>7. \A n \in N : n \in g.derived \/ (n \in Actions /\ n.kind = "action")
    BY StateAssumption
  <1>8. OfKind("derived", Ends(E)) \subseteq g.derived
    BY <1>6, <1>7 DEF OfKind
  <1>9. OfKind("action", Ends(E)) \subseteq N /\ OfKind("action", Ends(E)) \subseteq Actions
    BY <1>6, <1>7 DEF OfKind, AreRules
  <1>10. h.derived = g.derived /\ h.actions \subseteq g.actions \cup N /\ h.actions \subseteq Actions
    BY <1>5, <1>8, <1>9
  <1>11. WellFormed(h)
    BY <1>1, <1>2, JoinedIsWellFormed
  <1>12. ASSUME NEW e \in h.edges
         PROVE  /\ e[1] \in h.derived \/ e[1].kind = "atom"
                /\ e[2] \in h.derived \cup h.actions
    <2>1. CASE e \in g.edges
      <3>1. g.actions \subseteq h.actions
        BY <1>5
      <3> QED BY <1>10, <2>1, <3>1
    <2>2. CASE e \in E
      <3>1. e[2] \in Ends(E) /\ e[2] \in N
        BY <1>3, <2>2 DEF Ends, Targets
      <3>2. e[2] \in g.derived \/ e[2] \in OfKind("action", Ends(E))
        BY <1>7, <3>1 DEF OfKind
      <3> QED BY <1>3, <1>5, <1>10, <2>2, <3>2
    <2> QED BY <1>5, <2>1, <2>2
  <1>13. RuleGraph(h)
    BY <1>10, <1>11, <1>12
  <1>14. \A n : \A r \in h.derived :
             <<r, n>> \in h.edges <=> <<r, n>> \in g.edges \/ (n \in N /\ r.head \in n.needs)
    BY <1>4, <1>5, <1>10
  <1>15. \A n : n \notin N /\ NeedsAreEdges(g, n) => NeedsAreEdges(h, n)
    BY <1>10, <1>14 DEF NeedsAreEdges
  <1>16. \A n \in N : (\A r \in g.derived : <<r, n>> \in g.edges => r.head \in n.needs) =>
                          NeedsAreEdges(h, n)
    BY <1>10, <1>14 DEF NeedsAreEdges
  <1>17. h.edges = g.edges \cup IntoAll(g.derived, N)
    BY <1>5 DEF E
  <1> QED BY <1>10, <1>13, <1>15, <1>16, <1>17 DEF h

\* All the nodes of a graph that come from rules or actions have the edges they need.
NeedsKnown(g) == \A n \in g.derived \cup g.actions : NeedsAreEdges(g, n)

\* DerivedResolutionGraph(rules): all rules have the edges from what they need.
LEMMA GraphOfFacts ==
    ASSUME NEW R, AreRules(R)
    PROVE  /\ RuleGraph(GraphOf(R)) /\ NeedsKnown(GraphOf(R))
           /\ GraphOf(R).derived = R /\ GraphOf(R).actions = {}
  <1> DEFINE g == [NoGraph EXCEPT !.derived = R]
  <1>1. GraphOf(R) = AddNeeds(g, R)
    BY DEF GraphOf, AddNeeds
  <1>2. WellFormed(g) /\ g.edges = {} /\ g.derived = R /\ g.actions = {}
    BY NoGraphIsWellFormed
  <1> HIDE DEF g
  <1>3. RuleGraph(g)
    BY <1>2 DEF RuleGraph
  <1>4. /\ RuleGraph(GraphOf(R)) /\ GraphOf(R).derived = R /\ GraphOf(R).actions \subseteq R
        /\ \A n \in R : NeedsAreEdges(GraphOf(R), n)
    BY <1>1, <1>2, <1>3, AddNeedsFacts DEF AreRules
  <1>5. GraphOf(R).actions = {}
    BY <1>4, StateAssumption DEF RuleGraph, AreRules
  <1> QED BY <1>4, <1>5 DEF NeedsKnown

\* appendActions: the actions get the edges from what they need, and no rule is added.
LEMMA AppendActionsFacts ==
    ASSUME NEW g, RuleGraph(g), NEW actions \in SUBSET Actions
    PROVE  LET h == AppendActions(g, actions)
           IN  /\ RuleGraph(h) /\ h.derived = g.derived
               /\ NeedsKnown(g) => NeedsKnown(h) /\ \A n \in actions : NeedsAreEdges(h, n)
  <1> DEFINE h == AppendActions(g, actions)
  <1>1. h = AddNeeds(g, actions)
    BY DEF AppendActions, AddNeeds
  <1> HIDE DEF h
  <1>2. IsFiniteSet(actions) /\ \A n \in actions : IsFiniteSet(n.needs)
    BY StateAssumption, FS_Subset
  <1>3. /\ RuleGraph(h) /\ h.derived = g.derived /\ h.actions \subseteq g.actions \cup actions
        /\ \A n : n \notin actions /\ NeedsAreEdges(g, n) => NeedsAreEdges(h, n)
        /\ \A n \in actions : (\A r \in g.derived : <<r, n>> \in g.edges => r.head \in n.needs) =>
                                  NeedsAreEdges(h, n)
    BY <1>1, <1>2, AddNeedsFacts
  <1>4. ASSUME NeedsKnown(g), NEW n \in actions PROVE NeedsAreEdges(h, n)
    <2>1. ASSUME NEW r \in g.derived, <<r, n>> \in g.edges PROVE r.head \in n.needs
      <3>1. n \in g.derived \cup g.actions
        BY <2>1 DEF RuleGraph
      <3> QED BY <1>4, <2>1, <3>1 DEF NeedsKnown, NeedsAreEdges
    <2> QED BY <1>3, <2>1
  <1>5. ASSUME NeedsKnown(g) PROVE NeedsKnown(h)
    BY <1>3, <1>4, <1>5 DEF NeedsKnown
  <1> QED BY <1>3, <1>4, <1>5 DEF h

\* What something else depends on leads to something that it depends on as well.
LEMMA AncestorsHaveChild ==
    ASSUME NEW g, WellFormed(g), NEW start, NEW n \in Ancestors(g, start), n \notin start
    PROVE  \E e \in g.edges : e[1] = n /\ e[2] \in Ancestors(g, start)
  <1> DEFINE A == Ancestors(g, start)
             X == {m \in A : m \in start \/ \E e \in g.edges : e[1] = m /\ e[2] \in A}
  <1>1. start \subseteq A /\ \A e \in g.edges : e[2] \in A => e[1] \in A
    BY AncestorsFacts
  <1> HIDE DEF A
  <1>2. start \subseteq X /\ \A e \in g.edges : e[2] \in X => e[1] \in X
    BY <1>1
  <1>3. A \subseteq X
    <2> HIDE DEF X
    <2> QED BY <1>2, AncestorsFacts DEF A
  <1> QED BY <1>3 DEF A

\* pruneGraphToActions keeps the rules that the actions depend on, with all that they need.
LEMMA PruneKeepsNeeds ==
    ASSUME NEW g, RuleGraph(g), NEW actions \in SUBSET Actions
    PROVE  LET h == pruneGraphToActions(g, actions)
           IN  /\ RuleGraph(h) /\ h.derived \subseteq g.derived
               /\ h.derived = OfKind("derived", Ancestors(g, actions))
               /\ NeedsKnown(g) => NeedsKnown(h)
  <1> DEFINE A == Ancestors(g, actions)
             E == {e \in g.edges : e[2] \in A}
             h == pruneGraphToActions(g, actions)
  <1> USE DEF RuleGraph
  <1>1. /\ WellFormed(h) /\ h.edges = E /\ h.nodes = Ends(E)
        /\ h.derived = OfKind("derived", Ends(E)) /\ h.actions = OfKind("action", Ends(E))
    BY PruneFacts
  <1>2. \A e \in g.edges : e[2] \in A => e[1] \in A
    BY AncestorsFacts
  <1>3. \A n \in A : n \in actions \/ \E e \in g.edges : e[1] = n /\ e[2] \in A
    BY AncestorsHaveChild
  <1> HIDE DEF h, A
  <1>4. \A n : n \in Ends(E) => n \in A
    BY <1>2 DEF Ends, Targets
  <1>5. \A n \in A : n \in actions \/ n \in Ends(E)
    <2>1. \A e \in E : e[1] \in Ends(E)
      BY DEF Ends
    <2> QED BY <1>3, <2>1
  <1>6. \A n \in Ends(E) : n.kind = "atom" \/ n \in g.derived \cup g.actions
    BY DEF Ends, Targets
  <1>7. \A n \in g.actions \cup actions : n.kind = "action"
    BY StateAssumption
  <1>8. \A n \in g.derived : n.kind = "derived"
    BY DEF AreRules
  <1>9. h.derived \subseteq g.derived /\ h.actions \subseteq g.actions
    BY <1>1, <1>6, <1>7, <1>8 DEF OfKind
  <1>10. h.derived = OfKind("derived", A)
    BY <1>1, <1>4, <1>5, <1>7 DEF OfKind
  <1>11. AreRules(h.derived)
    BY <1>9, FS_Subset DEF AreRules
  <1>12. \A e \in E : /\ e[1] \in h.derived \/ e[1].kind = "atom"
                      /\ e[2] \in h.derived \cup h.actions
    <2>1. \A e \in E : e[1] \in Ends(E) /\ e[2] \in Ends(E)
      BY DEF Ends, Targets
    <2> QED BY <1>1, <1>7, <1>8, <2>1 DEF OfKind
  <1>13. RuleGraph(h)
    BY <1>1, <1>9, <1>11, <1>12
  <1>14. ASSUME NeedsKnown(g) PROVE NeedsKnown(h)
    <2>1. ASSUME NEW n \in h.derived \cup h.actions, NEW r \in h.derived
          PROVE  <<r, n>> \in h.edges <=> r.head \in n.needs
      <3>1. n \in g.derived \cup g.actions /\ r \in g.derived
        BY <1>9
      <3>2. <<r, n>> \in g.edges <=> r.head \in n.needs
        BY <1>14, <3>1 DEF NeedsKnown, NeedsAreEdges
      <3>3. n \in A
        BY <1>1, <1>4 DEF OfKind
      <3> QED BY <1>1, <3>2, <3>3
    <2> QED BY <2>1 DEF NeedsKnown, NeedsAreEdges
  <1> QED BY <1>9, <1>10, <1>13, <1>14 DEF h, A

\* The graph of the state is a graph of its rules, with all the edges that they need until
\* clearState forgets the edges.
GraphInv ==
    /\ RuleGraph(graph) /\ graph.derived \subseteq rules
    /\ ~cleared => NeedsKnown(graph)

\* clear() leaves a sound graph, without edges (clearState).
LEMMA ClearFacts ==
    ASSUME NEW g, RuleGraph(g)
    PROVE  RuleGraph(Clear(g)) /\ Clear(g).derived = g.derived
  <1> DEFINE h == Clear(g)
  <1>1. h = GraphWith({}, {}, {}, g.derived, g.actions)
    <2>1. IsGraph(g)
      BY DEF RuleGraph, WellFormed, Rooted
    <2>2. h = [g EXCEPT !.edges = {}, !.nodes = {}, !.roots = {}]
      BY DEF Clear
    <2> HIDE DEF h
    <2> QED BY <2>1, <2>2 DEF IsGraph, GraphWith
  <1> HIDE DEF h
  <1>2. /\ IsGraph(h) /\ h.edges = {} /\ h.nodes = {} /\ h.roots = {} /\ h.derived = g.derived
        /\ h.actions = g.actions
    BY <1>1 DEF GraphWith, IsGraph
  <1>3. RuleGraph(h)
    BY <1>2, FS_EmptySet DEF RuleGraph, WellFormed, Rooted
  <1> QED BY <1>2, <1>3 DEF h

\* The rules of a domain are rules, finitely many.
LEMMA RulesOfDomain == StateInv => AreRules(rules)
  BY StateAssumption DEF StateInv, TypeOK, AreRules

\* State() has an empty graph, which is sound.
LEMMA GraphInvInit == Init => GraphInv
  <1> SUFFICES ASSUME Init PROVE GraphInv
    OBVIOUS
  <1>1. NoGraph = [NoGraph EXCEPT !.derived = {}]
    BY DEF NoGraph
  <1>2. /\ WellFormed(NoGraph) /\ NoGraph.edges = {} /\ NoGraph.derived = {} /\ NoGraph.actions = {}
    BY <1>1, NoGraphIsWellFormed
  <1> QED BY <1>2, FS_EmptySet DEF Init, GraphInv, RuleGraph, AreRules, NeedsKnown

\* Each method keeps the graph sound, whatever was cut or cleared before.
LEMMA GraphInvNext == StateInv /\ GraphInv /\ [Next]_vars => GraphInv'
  <1> SUFFICES ASSUME StateInv, GraphInv, [Next]_vars PROVE GraphInv'
    OBVIOUS
  <1>1. CASE UNCHANGED <<graph, rules, cleared>>
    BY <1>1 DEF GraphInv, RuleGraph
  <1>2. ASSUME rules' = rules, NEW R \in SUBSET rules, graph' = GraphOf(R) PROVE GraphInv'
    <2>1. AreRules(R)
      BY RulesOfDomain, FS_Subset DEF AreRules
    <2> QED BY <1>2, <2>1, GraphOfFacts DEF GraphInv
  <1>3. ASSUME rules' = rules, setDerivedPredicates PROVE GraphInv'
    BY <1>2, <1>3 DEF setDerivedPredicates
  <1>4. ASSUME rules' = rules, Decode PROVE GraphInv'
    BY <1>2, <1>4 DEF Decode, getAsMsg, GraphInv
  <1>5. ASSUME rules' = rules, clearState PROVE GraphInv'
    BY <1>5, ClearFacts DEF clearState, GraphInv
  <1>6. ASSUME rules' = rules, NEW actions \in SUBSET Actions, addActionsAndPruneDerived(actions)
        PROVE  GraphInv'
    <2> DEFINE h == AppendActions(graph, actions)
    <2>1. RuleGraph(h) /\ h.derived = graph.derived /\ (NeedsKnown(graph) => NeedsKnown(h))
      BY AppendActionsFacts DEF GraphInv
    <2> HIDE DEF h
    <2>2. graph' = pruneGraphToActions(h, actions) /\ cleared' = cleared
      BY <1>6 DEF addActionsAndPruneDerived, h
    <2> QED BY <1>6, <2>1, <2>2, PruneKeepsNeeds DEF GraphInv
  <1>7. ASSUME rules' = rules, NEW actions \in SUBSET Actions, pruneDerivedPredicatesToActions(actions)
        PROVE  GraphInv'
    BY <1>7, PruneKeepsNeeds DEF GraphInv, pruneDerivedPredicatesToActions
  <1>8. ASSUME rules' = rules, NEW p, addPredicate(p) \/ removePredicate(p) PROVE GraphInv'
    BY <1>1, <1>8 DEF addPredicate, removePredicate
  <1>9. ASSUME rules' = rules, NEW d, NEW p, addInferredPredicate(d, p) PROVE GraphInv'
    BY <1>1, <1>9 DEF addInferredPredicate
  <1>10. ASSUME rules' = rules, NEW d,
                ungroundSingleDerivedPredicate(d) \/ ungroundDerivedPredicate(d)
         PROVE  GraphInv'
    BY <1>1, <1>10 DEF ungroundSingleDerivedPredicate, ungroundDerivedPredicate
  <1>11. ASSUME rules' = rules, ChangeObjects \/ resetInferredPredicates \/ clearPredicates
         PROVE  GraphInv'
    BY <1>1, <1>11 DEF ChangeObjects, resetInferredPredicates, clearPredicates
  <1> QED
    BY <1>1, <1>3, <1>4, <1>5, <1>6, <1>7, <1>8, <1>9, <1>10, <1>11 DEF Next, Step, vars

\* A graph that was cut, but still has the rules that actions depend on, agrees with the
\* whole graph about what these are (pruneGraphToActions after an earlier one).
LEMMA NeededStays ==
    ASSUME NEW g, RuleGraph(g), NeedsKnown(g), NEW f, RuleGraph(f), NeedsKnown(f),
           g.derived \subseteq f.derived, NEW actions \in SUBSET Actions,
           \A n \in actions : NeedsAreEdges(g, n) /\ NeedsAreEdges(f, n),
           OfKind("derived", Ancestors(f, actions)) \subseteq g.derived
    PROVE  OfKind("derived", Ancestors(g, actions)) = OfKind("derived", Ancestors(f, actions))
  <1> DEFINE A == Ancestors(g, actions)
             B == Ancestors(f, actions)
             X == {n \in B : n \in A \/ n.kind = "atom"}
             Y == {n \in A : n \in B \/ n.kind = "atom"}
  <1> USE DEF RuleGraph
  <1>1. /\ actions \subseteq A /\ \A e \in g.edges : e[2] \in A => e[1] \in A
        /\ \A Z : actions \subseteq Z /\ (\A e \in g.edges : e[2] \in Z => e[1] \in Z) => A \subseteq Z
    BY AncestorsFacts
  <1>2. /\ actions \subseteq B /\ \A e \in f.edges : e[2] \in B => e[1] \in B
        /\ \A Z : actions \subseteq Z /\ (\A e \in f.edges : e[2] \in Z => e[1] \in Z) => B \subseteq Z
    BY AncestorsFacts
  <1>3. OfKind("derived", B) \subseteq g.derived
    OBVIOUS
  <1>4. OfKind("derived", A) \subseteq g.derived
    <2>1. \A n \in A : n \in actions \/ \E e \in g.edges : e[1] = n
      BY AncestorsHaveChild
    <2>2. \A n \in actions : n.kind = "action"
      BY StateAssumption
    <2> QED BY <2>1, <2>2 DEF OfKind
  <1>5. \A n \in actions \cup g.derived : NeedsAreEdges(g, n) /\ NeedsAreEdges(f, n)
    BY DEF NeedsKnown
  <1>6. \A n \in A : n \in actions \/ n \in g.derived \/ n.kind = "atom"
    <2>1. \A n \in A : n \in actions \/ \E e \in g.edges : e[1] = n
      BY AncestorsHaveChild
    <2> QED BY <2>1
  <1>7. \A n \in g.derived \cup f.derived \cup g.actions \cup f.actions : n.kind # "atom"
    BY StateAssumption DEF AreRules
  <1>8. /\ \A e \in g.edges : e = <<e[1], e[2]>> /\ e[2].kind # "atom"
        /\ \A e \in f.edges : e = <<e[1], e[2]>> /\ e[2].kind # "atom"
    BY <1>7 DEF WellFormed
  <1>9. \A e \in f.edges : e[1] \in f.derived \/ e[1].kind = "atom"
    OBVIOUS
  <1>10. \A e \in g.edges : e[1] \in g.derived \/ e[1].kind = "atom"
    OBVIOUS
  <1>11. \A n \in f.derived : n.kind = "derived"
    BY DEF AreRules
  <1> HIDE DEF A, B
  <1>12. ASSUME NEW e \in f.edges, e[2] \in X PROVE e[1] \in X
    <2>1. e[2] \in A /\ e[2] \in B /\ e[2] \in actions \cup g.derived /\ e[1] \in B
      BY <1>2, <1>6, <1>8, <1>12
    <2>2. CASE e[1].kind = "atom"
      BY <2>1, <2>2
    <2>3. CASE e[1] \in f.derived
      <3>1. e[1] \in g.derived
        BY <1>3, <1>11, <2>1, <2>3 DEF OfKind
      <3>2. <<e[1], e[2]>> \in f.edges
        BY <1>8
      <3>3. <<e[1], e[2]>> \in g.edges
        BY <1>5, <2>1, <2>3, <3>1, <3>2 DEF NeedsAreEdges
      <3>4. e[1] \in A
        BY <1>1, <2>1, <3>3
      <3> QED BY <2>1, <3>4
    <2> QED BY <1>9, <2>2, <2>3
  <1>13. ASSUME NEW e \in g.edges, e[2] \in Y PROVE e[1] \in Y
    <2>1. e[2] \in A /\ e[2] \in B /\ e[2] \in actions \cup g.derived /\ e[1] \in A
      BY <1>1, <1>6, <1>8, <1>13
    <2>2. CASE e[1].kind = "atom"
      BY <2>1, <2>2
    <2>3. CASE e[1] \in g.derived
      <3>1. <<e[1], e[2]>> \in g.edges
        BY <1>8
      <3>2. <<e[1], e[2]>> \in f.edges
        BY <1>5, <2>1, <2>3, <3>1 DEF NeedsAreEdges
      <3>3. e[1] \in B
        BY <1>2, <2>1, <3>2
      <3> QED BY <2>1, <3>3
    <2> QED BY <1>10, <2>2, <2>3
  <1>14. B \subseteq X
    <2>1. actions \subseteq X
      BY <1>1, <1>2
    <2> HIDE DEF X
    <2> QED BY <1>2, <1>12, <2>1
  <1>15. A \subseteq Y
    <2>1. actions \subseteq Y
      BY <1>1, <1>2
    <2> HIDE DEF Y
    <2> QED BY <1>1, <1>13, <2>1
  <1>16. OfKind("derived", A) = OfKind("derived", B)
    BY <1>14, <1>15 DEF OfKind
  <1> QED BY <1>16 DEF A, B

\* addActionsAndPruneDerived leaves the rules that the actions depend on, and no other.
LEMMA CutStep ==
    ASSUME StateInv, GraphInv, ~cleared, NEW actions \in SUBSET Actions,
           Needed[rules][actions] \subseteq graph.derived, addActionsAndPruneDerived(actions)
    PROVE  graph'.derived = Needed[rules][actions]
  <1> DEFINE g == AppendActions(graph, actions)
             full == GraphOf(rules)
             f == AppendActions(full, actions)
  <1>1. Needed[rules][actions] = OfKind("derived", Ancestors(f, actions))
    BY DEF Needed, OfKind, StateInv, TypeOK
  <1>2. /\ RuleGraph(g) /\ g.derived = graph.derived /\ NeedsKnown(g)
        /\ \A n \in actions : NeedsAreEdges(g, n)
    BY AppendActionsFacts DEF GraphInv
  <1>3. RuleGraph(full) /\ NeedsKnown(full) /\ full.derived = rules
    BY RulesOfDomain, GraphOfFacts
  <1> HIDE DEF full
  <1>4. /\ RuleGraph(f) /\ f.derived = rules /\ NeedsKnown(f)
        /\ \A n \in actions : NeedsAreEdges(f, n)
    BY <1>3, AppendActionsFacts
  <1>5. graph' = pruneGraphToActions(g, actions)
    BY DEF addActionsAndPruneDerived
  <1> HIDE DEF f, g
  <1>6. graph'.derived = OfKind("derived", Ancestors(g, actions))
    BY <1>2, <1>5, PruneKeepsNeeds
  <1>7. OfKind("derived", Ancestors(g, actions)) = OfKind("derived", Ancestors(f, actions))
    BY <1>1, <1>2, <1>4, NeededStays DEF GraphInv
  <1> QED BY <1>1, <1>6, <1>7

\* The graph is sound in every state that the methods of State can reach.
THEOREM GraphInvCorrect == Spec => []GraphInv
  BY StateInvCorrect, GraphInvInit, GraphInvNext, PTL DEF Spec

\* Cutting the graph keeps the rules that the actions depend on and no other, as long as it
\* has them: for every domain, every set of actions and every earlier cut
\* (addActionsAndPruneDerived).
THEOREM CutIsExact == Spec => CutKeepsNeeded
  <1>1. StateInv /\ GraphInv /\ [Next]_vars =>
            [\A actions \in SUBSET Actions :
                ~cleared /\ Needed[rules][actions] \subseteq graph.derived
                    /\ addActionsAndPruneDerived(actions) =>
                        graph'.derived = Needed[rules][actions]]_vars
    BY CutStep
  <1> QED BY <1>1, StateInvCorrect, GraphInvCorrect, PTL DEF Spec, CutKeepsNeeded
-----------------------------------------------------------------------------
(* Traversals that list the rules.                                         *)

\* A vector made of a set has its elements, each once.
LEMMA OrdersAreWhole ==
    ASSUME NEW S, IsFiniteSet(S), NEW s \in Orders(S)
    PROVE  s \in Seq(S) /\ ToSet(s) = S /\ Len(s) = Cardinality(S) /\ IsInjective(s)
  <1> DEFINE D == 1 .. Cardinality(S)
  <1>1. Cardinality(S) \in Nat
    BY FS_CardinalityType
  <1>2. s \in [D -> S] /\ \A i, j \in D : i # j => s[i] # s[j]
    BY DEF Orders, SetToSeqs
  <1>3. s \in Injection(D, S)
    BY <1>2 DEF Injection, IsInjective
  <1>4. Cardinality(D) = Cardinality(S) /\ IsFiniteSet(D)
    BY <1>1, FS_Interval
  <1>5. s \in Surjection(D, S)
    BY <1>3, <1>4, FS_Injection
  <1>6. s \in Seq(S) /\ Len(s) = Cardinality(S)
    BY <1>1, <1>2
  <1>7. \A x \in S : \E i \in D : s[i] = x
    BY <1>5 DEF Surjection
  <1>8. ToSet(s) = S
    BY <1>2, <1>7 DEF ToSet
  <1>9. IsInjective(s)
    BY <1>3 DEF Injection
  <1> QED BY <1>6, <1>8, <1>9

\* back() and pop_back().
LEMMA LastAndFront ==
    ASSUME NEW S, NEW s \in Seq(S), s # <<>>
    PROVE  /\ Last(s) \in S /\ Front(s) \in Seq(S) /\ ToSet(s) = ToSet(Front(s)) \cup {Last(s)}
           /\ Len(Front(s)) = Len(s) - 1 /\ \A i \in 1 .. Len(s) - 1 : Front(s)[i] = s[i]
  <1>1. Len(s) \in Nat /\ Len(s) # 0
    BY EmptySeq, LenProperties
  <1>2. Last(s) \in S
    BY <1>1 DEF Last
  <1>3. /\ Front(s) \in Seq(S) /\ Len(Front(s)) = Len(s) - 1
        /\ \A i \in 1 .. Len(s) - 1 : Front(s)[i] = s[i]
    <2>1. 1 \in 1 .. Len(s) + 1 /\ Len(s) - 1 \in Nat /\ 1 .. Len(s) - 1 \subseteq 1 .. Len(s)
      BY <1>1
    <2>2. Front(s) = [i \in 1 .. Len(s) - 1 |-> s[i]]
      BY <1>1, <2>1 DEF Front
    <2>3. \A i \in 1 .. Len(s) - 1 : s[i] \in S
      BY <2>1
    <2> QED BY <2>1, <2>2, <2>3
  <1>4. DOMAIN Front(s) = 1 .. Len(s) - 1 /\ DOMAIN s = (1 .. Len(s) - 1) \cup {Len(s)}
    BY <1>1, <1>3
  <1>5. ToSet(s) = ToSet(Front(s)) \cup {Last(s)}
    BY <1>3, <1>4 DEF ToSet, Last
  <1> QED BY <1>2, <1>3, <1>5

\* What two vectors put together hold.
LEMMA ConcatSet ==
    ASSUME NEW S, NEW s \in Seq(S), NEW t \in Seq(S)
    PROVE  s \o t \in Seq(S) /\ ToSet(s \o t) = ToSet(s) \cup ToSet(t)
  <1>1. s \o t \in Seq(S) /\ Len(s \o t) = Len(s) + Len(t)
    OBVIOUS
  <1>2. \A x \in ToSet(s \o t) : x \in ToSet(s) \cup ToSet(t)
    BY DEF ToSet
  <1>3. \A x \in ToSet(s) : x \in ToSet(s \o t)
    BY DEF ToSet
  <1>4. ASSUME NEW i \in DOMAIN t PROVE t[i] \in ToSet(s \o t)
    <2>1. Len(s) + i \in DOMAIN (s \o t) /\ (s \o t)[Len(s) + i] = t[i]
      OBVIOUS
    <2> QED BY <2>1 DEF ToSet
  <1>5. \A x \in ToSet(t) : x \in ToSet(s \o t)
    BY <1>4 DEF ToSet
  <1> QED BY <1>1, <1>2, <1>3, <1>5

\* push_back() of something new.
LEMMA AppendSet ==
    ASSUME NEW S, NEW s \in Seq(S), NEW x \in S, x \notin ToSet(s), IsInjective(s)
    PROVE  /\ Append(s, x) \in Seq(S) /\ ToSet(Append(s, x)) = ToSet(s) \cup {x}
           /\ IsInjective(Append(s, x)) /\ Len(Append(s, x)) = Len(s) + 1
           /\ Append(s, x)[Len(s) + 1] = x /\ \A i \in 1 .. Len(s) : Append(s, x)[i] = s[i]
  <1>1. /\ Append(s, x) \in Seq(S) /\ Len(Append(s, x)) = Len(s) + 1
        /\ Append(s, x)[Len(s) + 1] = x /\ \A i \in 1 .. Len(s) : Append(s, x)[i] = s[i]
    OBVIOUS
  <1>2. DOMAIN Append(s, x) = (1 .. Len(s)) \cup {Len(s) + 1} /\ DOMAIN s = 1 .. Len(s)
    BY <1>1
  <1>3. ToSet(Append(s, x)) = ToSet(s) \cup {x}
    BY <1>1, <1>2 DEF ToSet
  <1>4. IsInjective(Append(s, x))
    BY <1>1, <1>2 DEF IsInjective, ToSet
  <1> QED BY <1>1, <1>3, <1>4

\* insert() of something new at the front.
LEMMA PrependSet ==
    ASSUME NEW S, NEW s \in Seq(S), NEW x \in S, x \notin ToSet(s), IsInjective(s)
    PROVE  /\ <<x>> \o s \in Seq(S) /\ ToSet(<<x>> \o s) = ToSet(s) \cup {x}
           /\ IsInjective(<<x>> \o s)
  <1> DEFINE t == <<x>> \o s
  <1>1. /\ t \in Seq(S) /\ Len(t) = Len(s) + 1 /\ t[1] = x /\ \A i \in 1 .. Len(s) : t[i + 1] = s[i]
    OBVIOUS
  <1>2. DOMAIN t = 1 .. Len(s) + 1 /\ DOMAIN s = 1 .. Len(s)
    BY <1>1
  <1> HIDE DEF t
  <1>3. \A j \in DOMAIN t : j = 1 \/ (j - 1 \in DOMAIN s /\ t[j] = s[j - 1])
    BY <1>1, <1>2
  <1>4. \A i \in DOMAIN s : i + 1 \in DOMAIN t /\ t[i + 1] = s[i]
    BY <1>1, <1>2
  <1>5. 1 \in DOMAIN t
    BY <1>2
  <1>6. ToSet(t) = ToSet(s) \cup {x}
    BY <1>1, <1>3, <1>4, <1>5 DEF ToSet
  <1>7. IsInjective(t)
    <2> SUFFICES ASSUME NEW i \in DOMAIN t, NEW j \in DOMAIN t, t[i] = t[j] PROVE i = j
      BY DEF IsInjective
    <2>1. i \in Nat /\ j \in Nat
      BY <1>2
    <2>2. \A k \in DOMAIN s : s[k] # x
      BY DEF ToSet
    <2>3. \A k, l \in DOMAIN s : s[k] = s[l] => k = l
      BY DEF IsInjective
    <2>4. CASE i = 1
      BY <1>1, <1>3, <2>2, <2>4
    <2>5. CASE j = 1
      BY <1>1, <1>3, <2>2, <2>5
    <2>6. CASE i # 1 /\ j # 1
      <3>1. i - 1 = j - 1
        BY <1>3, <2>3, <2>6
      <3> QED BY <2>1, <3>1
    <2> QED BY <2>4, <2>5, <2>6
  <1> QED BY <1>1, <1>6, <1>7 DEF t

\* Where the traversal starts, and what it can reach.
Starts == IF job # "backwards" /\ from = {} THEN walked.roots ELSE from
Reached == IF job = "backwards" THEN Ancestors(walked, from) ELSE Descendants(walked, Starts)
\* The graph of a traversal is well-formed; one that waits for parents starts at the nodes
\* that have none.
WalkedInv ==
    /\ WellFormed(walked) /\ IsFiniteSet(from)
    /\ job = "waiting" =>
          /\ \A n \in Starts : Parents(walked, n) = {}
          /\ \A n \in walked.nodes : Parents(walked, n) = {} => n \in Starts
\* A traversal that waits for parents visits a node after all of them: what it has visited
\* depends on no cycle, and a node that is ready is on the stack.
WaitInv ==
    /\ \A n \in visited : Parents(walked, n) \subseteq visited /\ ~Recursive(n)
    /\ \A n \in walked.nodes \ visited :
          Parents(walked, n) # {} /\ Parents(walked, n) \subseteq visited => n \in ToSet(stack)
    /\ \A i \in DOMAIN listed :
          Rules(Ancestors(walked, Parents(walked, listed[i]))) \subseteq {listed[j] : j \in 1 .. i - 1}
\* What has been visited is listed, each rule once, and nothing is lost: what has not been
\* visited is still to be visited from a start or from the stack.
WalkInv ==
    /\ stack \in Seq(Reached) /\ todo \in Seq(Reached) /\ visited \subseteq Reached
    /\ listed \in Seq(visited) /\ IsInjective(listed) /\ ToSet(listed) = Rules(visited)
    /\ Walks => Starts \subseteq visited \cup ToSet(stack) \cup ToSet(todo)
    /\ Walks /\ job # "waiting" => \A n \in visited : Neighbors(n) \subseteq visited \cup ToSet(stack)
    /\ job = "waiting" => WaitInv
    /\ job = "none" => visited = {} /\ listed = <<>>

\* Parents and children are nodes of the graph.
LEMMA ParentsAndChildren ==
    ASSUME NEW g, WellFormed(g), NEW n
    PROVE  /\ \A m : m \in Parents(g, n) <=> <<m, n>> \in g.edges
           /\ \A m : m \in Children(g, n) <=> <<n, m>> \in g.edges
           /\ Parents(g, n) \subseteq g.nodes /\ Children(g, n) \subseteq g.nodes
  BY DEF WellFormed, Parents, Children

\* To be closed under edges is to be closed under parents, or children.
LEMMA ClosedSets ==
    ASSUME NEW g, WellFormed(g), NEW X
    PROVE  /\ (\A m \in X : Parents(g, m) \subseteq X) <=> \A e \in g.edges : e[2] \in X => e[1] \in X
           /\ (\A m \in X : Children(g, m) \subseteq X) <=> \A e \in g.edges : e[1] \in X => e[2] \in X
  <1>1. \A e \in g.edges : e = <<e[1], e[2]>>
    BY DEF WellFormed
  <1>2. (\A m \in X : Parents(g, m) \subseteq X) <=> \A e \in g.edges : e[2] \in X => e[1] \in X
    <2>1. ASSUME \A m \in X : Parents(g, m) \subseteq X, NEW e \in g.edges, e[2] \in X PROVE e[1] \in X
      <3>1. e[1] \in Parents(g, e[2])
        BY <1>1, ParentsAndChildren
      <3> QED BY <2>1, <3>1
    <2>2. ASSUME \A e \in g.edges : e[2] \in X => e[1] \in X, NEW m \in X, NEW p \in Parents(g, m)
          PROVE  p \in X
      <3>1. <<p, m>> \in g.edges
        BY ParentsAndChildren
      <3> QED BY <2>2, <3>1
    <2> QED BY <2>1, <2>2
  <1>3. (\A m \in X : Children(g, m) \subseteq X) <=> \A e \in g.edges : e[1] \in X => e[2] \in X
    <2>1. ASSUME \A m \in X : Children(g, m) \subseteq X, NEW e \in g.edges, e[1] \in X PROVE e[2] \in X
      <3>1. e[2] \in Children(g, e[1])
        BY <1>1, ParentsAndChildren
      <3> QED BY <2>1, <3>1
    <2>2. ASSUME \A e \in g.edges : e[1] \in X => e[2] \in X, NEW m \in X, NEW p \in Children(g, m)
          PROVE  p \in X
      <3>1. <<m, p>> \in g.edges
        BY ParentsAndChildren
      <3> QED BY <2>2, <3>1
    <2> QED BY <2>1, <2>2
  <1> QED BY <1>2, <1>3

\* What a node depends on, in terms of the parents that the code asks for.
LEMMA AncestorsByParents ==
    ASSUME NEW g, WellFormed(g), NEW nodes
    PROVE  /\ nodes \subseteq Ancestors(g, nodes)
           /\ \A n \in Ancestors(g, nodes) : Parents(g, n) \subseteq Ancestors(g, nodes)
           /\ \A X : nodes \subseteq X /\ (\A n \in X : Parents(g, n) \subseteq X) =>
                         Ancestors(g, nodes) \subseteq X
  <1>1. /\ nodes \subseteq Ancestors(g, nodes)
        /\ \A e \in g.edges : e[2] \in Ancestors(g, nodes) => e[1] \in Ancestors(g, nodes)
        /\ \A X : nodes \subseteq X /\ (\A e \in g.edges : e[2] \in X => e[1] \in X) =>
                      Ancestors(g, nodes) \subseteq X
    BY AncestorsFacts
  <1> QED BY <1>1, ClosedSets

\* What depends on a node, in terms of the children that the code asks for.
LEMMA DescendantsByChildren ==
    ASSUME NEW g, WellFormed(g), NEW nodes
    PROVE  /\ nodes \subseteq Descendants(g, nodes)
           /\ \A n \in Descendants(g, nodes) : Children(g, n) \subseteq Descendants(g, nodes)
           /\ \A X : nodes \subseteq X /\ (\A n \in X : Children(g, n) \subseteq X) =>
                         Descendants(g, nodes) \subseteq X
  <1>1. /\ nodes \subseteq Descendants(g, nodes)
        /\ \A e \in g.edges : e[1] \in Descendants(g, nodes) => e[2] \in Descendants(g, nodes)
        /\ \A X : nodes \subseteq X /\ (\A e \in g.edges : e[1] \in X => e[2] \in X) =>
                      Descendants(g, nodes) \subseteq X
    BY DescendantsFacts
  <1> QED BY <1>1, ClosedSets

\* What the traversal at hand can reach, in terms of its steps.
LEMMA ReachedFacts ==
    ASSUME WalkedInv
    PROVE  /\ Starts \subseteq Reached /\ IsFiniteSet(Starts)
           /\ \A n \in Reached : Neighbors(n) \subseteq Reached
           /\ \A X : Starts \subseteq X /\ (\A n \in X : Neighbors(n) \subseteq X) => Reached \subseteq X
           /\ \A n : \A S : IsFiniteSet(Neighbors(n) \ S)
  <1>1. WellFormed(walked) /\ IsFiniteSet(walked.nodes) /\ IsFiniteSet(from)
    BY DEF WalkedInv, WellFormed
  <1>2. IsFiniteSet(walked.roots)
    <2>1. walked.roots \subseteq walked.nodes
      BY <1>1 DEF WellFormed, Rooted
    <2> QED BY <1>1, <2>1, FS_Subset
  <1>3. \A n : \A S : Neighbors(n) \ S \subseteq walked.nodes
    BY <1>1, ParentsAndChildren DEF Neighbors
  <1>4. \A n : \A S : IsFiniteSet(Neighbors(n) \ S)
    BY <1>1, <1>3, FS_Subset
  <1>5. CASE job = "backwards"
    BY <1>1, <1>4, <1>5, AncestorsByParents DEF Starts, Reached, Neighbors
  <1>6. CASE job # "backwards"
    <2>1. /\ Reached = Descendants(walked, Starts) /\ IsFiniteSet(Starts)
          /\ \A n : Neighbors(n) = Children(walked, n)
      BY <1>1, <1>2, <1>6 DEF Starts, Reached, Neighbors
    <2> QED BY <1>1, <1>4, <2>1, DescendantsByChildren
  <1> QED BY <1>5, <1>6

\* A node whose parents have all been visited is in no cycle and depends on none.
LEMMA VisitedIsAcyclic ==
    ASSUME WellFormed(walked), NEW V, \A m \in V : Parents(walked, m) \subseteq V /\ ~Recursive(m),
           NEW n, Parents(walked, n) \subseteq V
    PROVE  ~Recursive(n) /\ Ancestors(walked, Parents(walked, n)) \subseteq V
  <1>1. \A m \in V \cup {n} : Ancestors(walked, Parents(walked, m)) \subseteq V
    BY AncestorsByParents
  <1>2. Ancestors(walked, {n}) \subseteq V \cup {n}
    <2> DEFINE X == V \cup {n}
    <2>1. {n} \subseteq X /\ \A m \in X : Parents(walked, m) \subseteq X
      OBVIOUS
    <2> HIDE DEF X
    <2>2. Ancestors(walked, {n}) \subseteq X
      BY <2>1, AncestorsByParents
    <2> QED BY <2>2 DEF X
  <1>3. ASSUME NEW m \in Ancestors(walked, {n}), m \in Ancestors(walked, Parents(walked, m)) PROVE FALSE
    <2>1. m \in V
      BY <1>1, <1>2, <1>3
    <2>2. m \in Ancestors(walked, {m})
      BY AncestorsByParents
    <2> QED BY <1>3, <2>1, <2>2 DEF Recursive
  <1> QED BY <1>1, <1>3 DEF Recursive

\* As long as a node that depends on no cycle has not been visited, there is one whose
\* parents all have been: the traversal that waits for parents does not stop early.
LEMMA SomeNodeIsNext ==
    ASSUME WellFormed(walked), NEW d, ~Recursive(d), NEW V, d \notin V
    PROVE  \E m \in Ancestors(walked, {d}) : m \notin V /\ Parents(walked, m) \subseteq V
  <1> DEFINE A == Ancestors(walked, {d})
             up(m) == Ancestors(walked, {m})
             U == {m \in A : m \notin V}
             S == A
             T == {up(m) : m \in U}
  <1>1. /\ d \in A /\ \A m \in A : Parents(walked, m) \subseteq A
        /\ \A X : {d} \subseteq X /\ (\A m \in X : Parents(walked, m) \subseteq X) => A \subseteq X
    BY AncestorsByParents
  <1>2. IsFiniteSet(A)
    <2> DEFINE X == {d} \cup walked.nodes
    <2>1. {d} \subseteq X /\ \A m \in X : Parents(walked, m) \subseteq X
      BY ParentsAndChildren
    <2>2. IsFiniteSet(X)
      BY FS_Singleton, FS_Union DEF WellFormed
    <2> HIDE DEF X, A
    <2>3. A \subseteq X
      BY <1>1, <2>1
    <2> QED BY <2>2, <2>3, FS_Subset
  <1>3. /\ \A m : m \in up(m) /\ \A p \in up(m) : Parents(walked, p) \subseteq up(m)
        /\ \A m : \A X : m \in X /\ (\A p \in X : Parents(walked, p) \subseteq X) => up(m) \subseteq X
    <2>1. ASSUME NEW m
          PROVE  /\ m \in up(m) /\ \A p \in up(m) : Parents(walked, p) \subseteq up(m)
                 /\ \A X : m \in X /\ (\A p \in X : Parents(walked, p) \subseteq X) => up(m) \subseteq X
      BY AncestorsByParents
    <2> QED BY <2>1
  <1>4. \A m \in A : \A p : p \in Ancestors(walked, Parents(walked, m)) => p # m
    BY DEF Recursive
  <1>5. \A m : \A p \in Parents(walked, m) : up(p) \subseteq Ancestors(walked, Parents(walked, m))
    <2>1. ASSUME NEW m, NEW p \in Parents(walked, m)
          PROVE  up(p) \subseteq Ancestors(walked, Parents(walked, m))
      <3> DEFINE X == Ancestors(walked, Parents(walked, m))
      <3>1. p \in X /\ \A q \in X : Parents(walked, q) \subseteq X
        BY AncestorsByParents
      <3> HIDE DEF X, up
      <3>2. up(p) \subseteq X
        BY <1>3, <3>1
      <3> QED BY <3>2 DEF X
    <2> QED BY <2>1
  <1> HIDE DEF A, up
  <1>6. T \in SUBSET SUBSET A
    BY <1>1, <1>3
  <1>7. T # {}
    BY <1>1
  <1>8. PICK Y \in T : \A Z \in T : Z \subseteq Y => Z = Y
    <2> HIDE DEF T
    <2> QED BY <1>2, <1>6, <1>7, SmallestSet
  <1>9. PICK m \in U : Y = up(m)
    OBVIOUS
  <1>10. ASSUME NEW p \in Parents(walked, m), p \notin V PROVE FALSE
    <2>1. p \in U
      BY <1>1, <1>10
    <2>2. up(p) \subseteq up(m)
      BY <1>3
    <2>3. up(p) = up(m)
      BY <1>8, <1>9, <2>1, <2>2
    <2>4. m \in Ancestors(walked, Parents(walked, m))
      BY <1>3, <1>5, <2>3
    <2> QED BY <1>4, <2>4
  <1> QED BY <1>10 DEF A

\* No traversal is going on at first.
LEMMA WalkedInvInit == QueryInit => WalkedInv /\ WalkInv
  <1> SUFFICES ASSUME QueryInit PROVE WalkedInv /\ WalkInv
    OBVIOUS
  <1>1. job = "none" /\ from = {} /\ walked = NoGraph
    BY DEF QueryInit
  <1>2. WalkedInv
    BY <1>1, NoGraphFacts, FS_EmptySet DEF WalkedInv
  <1>3. Starts = {}
    BY <1>1, NoGraphFacts DEF Starts
  <1>4. todo = <<>> /\ stack = <<>> /\ visited = {} /\ listed = <<>>
    BY DEF QueryInit
  <1>5. IsInjective(listed) /\ ToSet(listed) = {} /\ Rules(visited) = {}
    BY <1>4 DEF IsInjective, ToSet, Rules
  <1> QED BY <1>1, <1>2, <1>3, <1>4, <1>5 DEF WalkInv

\* Nodes without parents are where a traversal that waits for parents starts, in the whole
\* graph as in the part of it that getSubGraphFromNodes makes.
LEMMA SubGraphRoots ==
    ASSUME RuleGraph(graph), NEW nodes \in SUBSET {m \in graph.nodes : m.kind = "atom"}
    PROVE  LET g == Selected(graph, nodes)
               starts == IF nodes = {} THEN g.roots ELSE nodes
           IN  /\ WellFormed(g) /\ IsFiniteSet(nodes) /\ IsFiniteSet(starts)
               /\ \A n \in starts : Parents(g, n) = {}
               /\ \A n \in g.nodes : Parents(g, n) = {} => n \in starts
  <1> DEFINE g == Selected(graph, nodes)
  <1>1. WellFormed(graph)
    BY DEF RuleGraph
  <1>2. IsFiniteSet(nodes)
    BY <1>1, FS_Subset DEF WellFormed
  <1>3. CASE nodes = {}
    <2>1. g = graph
      BY <1>3 DEF Selected
    <2>2. g.roots = {n \in g.nodes : Parents(g, n) = {}} /\ IsFiniteSet(g.nodes)
      BY <1>1, <2>1 DEF WellFormed, Rooted
    <2>3. IsFiniteSet(g.roots)
      BY <2>2, FS_Subset
    <2> QED BY <1>1, <1>2, <1>3, <2>1, <2>2, <2>3
  <1>4. CASE nodes # {}
    <2> DEFINE D == Descendants(graph, nodes)
    <2>1. /\ WellFormed(g) /\ g.nodes = D
          /\ g.edges = {e \in graph.edges : e[1] \in D}
      BY <1>1, <1>2, <1>4, SubGraphFacts DEF Selected
    <2>2. ASSUME NEW n \in nodes PROVE Parents(g, n) = {}
      <3>1. \A e \in graph.edges : e[2].kind # "atom"
        BY StateAssumption DEF RuleGraph, AreRules
      <3> HIDE DEF D, g
      <3> QED BY <2>1, <3>1 DEF Parents
    <2>3. ASSUME NEW n \in D, n \notin nodes PROVE Parents(g, n) # {}
      <3> DEFINE X == {m \in D : m \in nodes \/ \E e \in graph.edges : e[1] \in D /\ e[2] = m}
      <3>1. nodes \subseteq D /\ \A e \in graph.edges : e[1] \in D => e[2] \in D
        BY <1>1, DescendantsFacts
      <3> HIDE DEF D, g
      <3>2. nodes \subseteq X /\ \A e \in graph.edges : e[1] \in X => e[2] \in X
        BY <3>1
      <3>3. D \subseteq X
        <4> HIDE DEF X
        <4> QED BY <1>1, <3>2, DescendantsFacts DEF D
      <3>4. PICK e \in graph.edges : e[1] \in D /\ e[2] = n
        BY <2>3, <3>3
      <3> QED BY <2>1, <3>4 DEF Parents
    <2>4. \A n \in g.nodes : Parents(g, n) = {} => n \in nodes
      BY <2>1, <2>3
    <2> HIDE DEF D, g
    <2>5. (IF nodes = {} THEN g.roots ELSE nodes) = nodes
      BY <1>4
    <2> QED BY <1>2, <2>1, <2>2, <2>4, <2>5 DEF g
  <1> QED BY <1>3, <1>4

\* Every method that lists rules begins a sound traversal.
LEMMA WalkBegins ==
    ASSUME GraphInv, WalkInv, Begin
    PROVE  WalkedInv' /\ WalkInv'
  <1>1. visited' = {} /\ listed' = <<>> /\ job' \in Jobs /\ RuleGraph(graph)
    BY DEF Begin, WalkInv, GraphInv
  <1>2. IsInjective(listed') /\ ToSet(listed') = {} /\ Rules(visited') = {}
    BY <1>1 DEF IsInjective, ToSet, Rules
  <1>3. CASE job' = "backwards"
    <2>1. from' \subseteq graph.actions /\ todo' \in Orders(from') /\ walked' = graph /\ stack' = <<>>
      BY <1>3 DEF Begin
    <2>2. IsFiniteSet(from')
      BY <1>1, <2>1, StateAssumption, FS_Subset DEF RuleGraph
    <2>3. WalkedInv'
      BY <1>1, <1>3, <2>1, <2>2 DEF WalkedInv, RuleGraph
    <2>4. Starts' = from' /\ Starts' \subseteq Reached'
      <3>1. Starts' = from' /\ Reached' = Ancestors(walked', from')
        BY <1>3 DEF Starts, Reached
      <3> QED BY <2>3, <3>1, AncestorsFacts DEF WalkedInv
    <2>5. todo' \in Seq(Reached') /\ ToSet(todo') = from'
      <3>1. todo' \in Seq(from') /\ ToSet(todo') = from'
        BY <2>1, <2>2, OrdersAreWhole
      <3> QED BY <2>4, <3>1, SeqMonotonic
    <2>6. stack' \in Seq(Reached') /\ listed' \in Seq(visited') /\ visited' \subseteq Reached'
      BY <1>1, <2>1
    <2> QED BY <1>1, <1>2, <1>3, <2>3, <2>4, <2>5, <2>6 DEF WalkInv
  <1>4. CASE job' # "backwards"
    <2>1. /\ from' \in SUBSET {m \in graph.nodes : m.kind = "atom"} /\ todo' = <<>>
          /\ walked' = Selected(graph, from')
          /\ stack' \in IF job' = "components" THEN {<<>>} ELSE Orders(Starts')
      BY <1>4 DEF Begin, Starts
    <2>2. /\ WellFormed(walked') /\ IsFiniteSet(from') /\ IsFiniteSet(Starts')
          /\ \A n \in Starts' : Parents(walked', n) = {}
          /\ \A n \in walked'.nodes : Parents(walked', n) = {} => n \in Starts'
      BY <1>1, <1>4, <2>1, SubGraphRoots DEF Starts
    <2>3. WalkedInv'
      BY <2>2 DEF WalkedInv
    <2>4. Starts' \subseteq Reached'
      <3>1. Reached' = Descendants(walked', Starts')
        BY <1>4 DEF Reached
      <3> QED BY <2>2, <3>1, DescendantsFacts
    <2>5. CASE job' = "components"
      <3>1. ~Walks'
        BY <2>5 DEF Walks
      <3>2. /\ stack' \in Seq(Reached') /\ todo' \in Seq(Reached')
            /\ listed' \in Seq(visited') /\ visited' \subseteq Reached'
        BY <1>1, <2>1, <2>5
      <3> QED BY <1>1, <1>2, <2>3, <2>5, <3>1, <3>2 DEF WalkInv
    <2>6. CASE job' # "components"
      <3>1. stack' \in Seq(Starts') /\ ToSet(stack') = Starts'
        BY <2>1, <2>2, <2>6, OrdersAreWhole
      <3>2. WaitInv'
        BY <1>1 DEF WaitInv
      <3>3. /\ stack' \in Seq(Reached') /\ todo' \in Seq(Reached')
            /\ listed' \in Seq(visited') /\ visited' \subseteq Reached'
        BY <1>1, <2>1, <2>4, <3>1, SeqMonotonic
      <3> QED BY <1>1, <1>2, <2>3, <3>1, <3>2, <3>3 DEF WalkInv
    <2> QED BY <2>5, <2>6
  <1> QED BY <1>3, <1>4

\* A step within a traversal changes neither the graph nor the start.
LEMMA SameWalk ==
    ASSUME UNCHANGED callVars
    PROVE  /\ Starts' = Starts /\ Reached' = Reached /\ (Walks' <=> Walks)
           /\ \A n : Neighbors(n)' = Neighbors(n) /\ (Recursive(n)' <=> Recursive(n))
           /\ WalkedInv => WalkedInv'
  BY DEF callVars, Starts, Reached, Walks, Neighbors, Recursive, WalkedInv

\* What does not touch the traversal keeps it sound.
LEMMA WalkStutters ==
    ASSUME WalkedInv, WalkInv, UNCHANGED <<callVars, walkVars>>
    PROVE  WalkedInv' /\ WalkInv'
  <1>1. stack' = stack /\ todo' = todo /\ visited' = visited /\ listed' = listed
    BY DEF walkVars
  <1>2. callVars' = callVars
    OBVIOUS
  <1>3. job' = job /\ walked' = walked
    BY DEF callVars
  <1>4. WaitInv => WaitInv'
    BY <1>1, <1>2, <1>3, SameWalk DEF WaitInv
  <1> QED BY <1>1, <1>2, <1>3, <1>4, SameWalk DEF WalkInv

\* The loop over the starts goes on with the next one.
LEMMA WalkNextStart ==
    ASSUME WalkedInv, WalkInv, NextStart
    PROVE  WalkedInv' /\ WalkInv'
  <1>1. /\ stack = <<>> /\ todo # <<>> /\ stack' = <<Head(todo)>> /\ todo' = Tail(todo)
        /\ visited' = visited /\ listed' = listed /\ callVars' = callVars
        /\ job' = job /\ walked' = walked
    BY DEF NextStart, callVars
  <1>2. todo \in Seq(Reached) /\ stack \in Seq(Reached)
    BY DEF WalkInv
  <1>3. stack' \in Seq(Reached) /\ todo' \in Seq(Reached)
    BY <1>1, <1>2, HeadTailProperties
  <1>4. ToSet(todo) \subseteq ToSet(stack') \cup ToSet(todo')
    <2>1. /\ Head(todo) = todo[1] /\ Len(Tail(todo)) = Len(todo) - 1
          /\ \A i \in 1 .. Len(Tail(todo)) : Tail(todo)[i] = todo[i + 1]
          /\ Tail(todo) \in Seq(Reached) /\ Len(todo) \in Nat
      BY <1>1, <1>2, HeadTailProperties
    <2>2. ASSUME NEW i \in DOMAIN todo PROVE todo[i] \in ToSet(stack') \cup ToSet(todo')
      <3>1. i \in 1 .. Len(todo)
        BY <1>2
      <3>2. CASE i = 1
        <4>1. 1 \in DOMAIN stack' /\ stack'[1] = todo[1]
          BY <1>1, <2>1
        <4> QED BY <3>2, <4>1 DEF ToSet
      <3>3. CASE i # 1
        <4>1. i - 1 \in DOMAIN todo' /\ todo'[i - 1] = todo[i]
          BY <1>1, <2>1, <3>1, <3>3
        <4> QED BY <4>1 DEF ToSet
      <3> QED BY <3>2, <3>3
    <2> QED BY <2>2 DEF ToSet
  <1>5. ToSet(stack) = {}
    BY <1>1 DEF ToSet
  <1>6. job = "waiting" => WaitInv'
    BY <1>1, <1>5, SameWalk DEF WalkInv, WaitInv
  <1>7. Starts' = Starts /\ Reached' = Reached /\ (Walks' <=> Walks)
        /\ (\A n : Neighbors(n)' = Neighbors(n)) /\ WalkedInv'
    BY <1>1, SameWalk
  <1>8. Walks => Starts \subseteq visited \cup ToSet(stack') \cup ToSet(todo')
    BY <1>4, <1>5 DEF WalkInv
  <1>9. Walks /\ job # "waiting" => \A n \in visited : Neighbors(n) \subseteq visited \cup ToSet(stack')
    BY <1>5 DEF WalkInv
  <1> QED BY <1>1, <1>3, <1>6, <1>7, <1>8, <1>9 DEF WalkInv

\* A node that has been visited, or has to wait for a parent, is taken off the stack.
LEMMA WalkSkip ==
    ASSUME WalkedInv, WalkInv, Skip
    PROVE  WalkedInv' /\ WalkInv'
  <1> DEFINE n == Last(stack)
  <1>1. /\ stack # <<>> /\ stack' = Front(stack) /\ todo' = todo
        /\ n \in visited \/ (job = "waiting" /\ ~(Parents(walked, n) \subseteq visited))
        /\ visited' = visited /\ listed' = listed /\ callVars' = callVars
        /\ job' = job /\ walked' = walked
    BY DEF Skip, callVars, parentsVisited
  <1>2. ToSet(stack) = ToSet(stack') \cup {n} /\ stack' \in Seq(Reached)
    BY <1>1, LastAndFront DEF WalkInv
  <1> HIDE DEF n
  <1>3. Starts' = Starts /\ Reached' = Reached /\ (Walks' <=> Walks)
        /\ (\A m : Neighbors(m)' = Neighbors(m)) /\ WalkedInv'
    BY <1>1, SameWalk
  <1>4. Walks => Starts \subseteq visited \cup ToSet(stack') \cup ToSet(todo)
    <2>1. ASSUME n \in Starts PROVE n \in visited
      <3>1. CASE job = "waiting"
        <4>1. Parents(walked, n) = {}
          BY <2>1, <3>1 DEF WalkedInv
        <4> QED BY <1>1, <4>1
      <3> QED BY <1>1, <3>1
    <2> QED BY <1>2, <2>1 DEF WalkInv
  <1>5. Walks /\ job # "waiting" => \A m \in visited : Neighbors(m) \subseteq visited \cup ToSet(stack')
    BY <1>1, <1>2 DEF WalkInv
  <1>6. job = "waiting" => WaitInv'
    <2>1. \A m \in walked.nodes \ visited :
             Parents(walked, m) # {} /\ Parents(walked, m) \subseteq visited => m # n
      BY <1>1
    <2> QED BY <1>1, <1>2, <2>1, SameWalk DEF WalkInv, WaitInv
  <1> QED BY <1>1, <1>2, <1>3, <1>4, <1>5, <1>6 DEF WalkInv

\* A node is visited: a rule is listed, and what it leads to is put on the stack.
LEMMA WalkVisit ==
    ASSUME WalkedInv, WalkInv, Visit
    PROVE  WalkedInv' /\ WalkInv'
  <1> DEFINE n == Last(stack)
             seen == visited \cup {n}
  <1>1. PICK order \in Orders(Neighbors(n) \ seen) : stack' = Front(stack) \o order
    BY DEF Visit
  <1>2. /\ stack # <<>> /\ todo' = todo /\ visited' = seen /\ n \notin visited
        /\ job = "waiting" => Parents(walked, n) \subseteq visited
        /\ listed' = IF n.kind # "derived" THEN listed
                     ELSE IF job = "backwards" THEN <<n>> \o listed ELSE Append(listed, n)
        /\ callVars' = callVars /\ job' = job /\ walked' = walked
    BY DEF Visit, callVars, parentsVisited
  <1>3. n \in Reached /\ Front(stack) \in Seq(Reached) /\ ToSet(stack) = ToSet(Front(stack)) \cup {n}
    BY <1>2, LastAndFront DEF WalkInv
  <1>4. Starts' = Starts /\ Reached' = Reached /\ (Walks' <=> Walks)
        /\ (\A m : Neighbors(m)' = Neighbors(m)) /\ WalkedInv'
    BY <1>2, SameWalk
  <1> HIDE DEF n
  <1>5. order \in Seq(Reached) /\ ToSet(order) = Neighbors(n) \ seen
    <2>1. order \in Seq(Neighbors(n) \ seen) /\ ToSet(order) = Neighbors(n) \ seen
      BY <1>1, ReachedFacts, OrdersAreWhole
    <2>2. Neighbors(n) \ seen \subseteq Reached
      BY <1>3, ReachedFacts
    <2> QED BY <2>1, <2>2, SeqMonotonic
  <1>6. stack' \in Seq(Reached) /\ ToSet(stack') = ToSet(Front(stack)) \cup (Neighbors(n) \ seen)
    BY <1>1, <1>3, <1>5, ConcatSet
  <1>7. seen \subseteq Reached
    BY <1>3 DEF WalkInv
  <1>8. /\ listed' \in Seq(seen) /\ IsInjective(listed') /\ ToSet(listed') = Rules(seen)
        /\ job # "backwards" /\ n.kind = "derived" =>
              /\ Len(listed') = Len(listed) + 1 /\ listed'[Len(listed) + 1] = n
              /\ \A i \in 1 .. Len(listed) : listed'[i] = listed[i]
    <2>1. listed \in Seq(seen) /\ IsInjective(listed) /\ ToSet(listed) = Rules(visited)
      <3>1. listed \in Seq(visited) /\ visited \subseteq seen
        BY DEF WalkInv
      <3> HIDE DEF seen
      <3> QED BY <3>1, SeqMonotonic DEF WalkInv
    <2>2. n \in seen /\ n \notin ToSet(listed)
      BY <1>2, <2>1 DEF Rules
    <2>3. Rules(seen) = IF n.kind = "derived" THEN Rules(visited) \cup {n} ELSE Rules(visited)
      BY DEF Rules
    <2> HIDE DEF seen
    <2>4. CASE n.kind # "derived"
      BY <1>2, <2>1, <2>3, <2>4
    <2>5. CASE n.kind = "derived" /\ job = "backwards"
      <3>1. listed' = <<n>> \o listed
        BY <1>2, <2>5
      <3> QED BY <2>1, <2>2, <2>3, <2>5, <3>1, PrependSet
    <2>6. CASE n.kind = "derived" /\ job # "backwards"
      <3>1. listed' = Append(listed, n)
        BY <1>2, <2>6
      <3> QED BY <2>1, <2>2, <2>3, <2>6, <3>1, AppendSet
    <2> QED BY <2>4, <2>5, <2>6
  <1>9. Walks => Starts \subseteq seen \cup ToSet(stack') \cup ToSet(todo)
    BY <1>3, <1>6 DEF WalkInv
  <1>10. Walks /\ job # "waiting" => \A m \in seen : Neighbors(m) \subseteq seen \cup ToSet(stack')
    BY <1>3, <1>6 DEF WalkInv
  <1>11. ASSUME job = "waiting" PROVE WaitInv'
    <2>1. WaitInv /\ WellFormed(walked) /\ Parents(walked, n) \subseteq visited
      BY <1>2, <1>11 DEF WalkInv, WalkedInv
    <2>2. ~Recursive(n) /\ Ancestors(walked, Parents(walked, n)) \subseteq visited
      BY <2>1, VisitedIsAcyclic DEF WaitInv
    <2>3. \A m \in seen : Parents(walked, m) \subseteq seen /\ ~Recursive(m)
      BY <2>1, <2>2 DEF WaitInv
    <2>4. ASSUME NEW m \in walked.nodes \ seen,
                 Parents(walked, m) # {}, Parents(walked, m) \subseteq seen
          PROVE  m \in ToSet(stack')
      <3>1. CASE n \in Parents(walked, m)
        <4>1. m \in Children(walked, n)
          BY <2>1, <3>1, ParentsAndChildren
        <4>2. m \in Neighbors(n)
          BY <1>11, <4>1 DEF Neighbors
        <4> QED BY <1>6, <2>4, <4>2
      <3>2. CASE n \notin Parents(walked, m)
        <4>1. Parents(walked, m) \subseteq visited /\ m \notin visited /\ m # n
          BY <2>4, <3>2
        <4>2. m \in ToSet(stack)
          BY <2>1, <2>4, <4>1 DEF WaitInv
        <4> QED BY <1>3, <1>6, <4>1, <4>2
      <3> QED BY <3>1, <3>2
    <2>5. ASSUME NEW i \in DOMAIN listed'
          PROVE  Rules(Ancestors(walked, Parents(walked, listed'[i]))) \subseteq
                     {listed'[j] : j \in 1 .. i - 1}
      <3>1. listed \in Seq(visited) /\ DOMAIN listed = 1 .. Len(listed) /\ Len(listed) \in Nat
        BY DEF WalkInv
      <3>2. CASE listed' = listed
        BY <2>1, <2>5, <3>2 DEF WaitInv
      <3>3. CASE listed' # listed
        <4>1. /\ n.kind = "derived" /\ job # "backwards"
              /\ Len(listed') = Len(listed) + 1 /\ listed'[Len(listed) + 1] = n
              /\ \A k \in 1 .. Len(listed) : listed'[k] = listed[k]
          BY <1>2, <1>8, <1>11, <3>3
        <4>2. i \in 1 .. Len(listed) + 1
          BY <1>8, <2>5, <4>1
        <4>3. CASE i = Len(listed) + 1
          <5>1. Rules(Ancestors(walked, Parents(walked, n))) \subseteq Rules(visited)
            BY <2>2 DEF Rules
          <5>2. Rules(visited) = {listed[j] : j \in 1 .. Len(listed)}
            BY <3>1 DEF WalkInv, ToSet
          <5>3. {listed[j] : j \in 1 .. Len(listed)} = {listed'[j] : j \in 1 .. Len(listed)}
            BY <4>1
          <5>4. i - 1 = Len(listed) /\ listed'[i] = n
            BY <3>1, <4>1, <4>3
          <5> QED BY <5>1, <5>2, <5>3, <5>4
        <4>4. CASE i # Len(listed) + 1
          <5>1. i \in DOMAIN listed /\ listed'[i] = listed[i]
            BY <3>1, <4>1, <4>2, <4>4
          <5>2. {listed[j] : j \in 1 .. i - 1} = {listed'[j] : j \in 1 .. i - 1}
            BY <3>1, <4>1, <5>1
          <5>3. Rules(Ancestors(walked, Parents(walked, listed[i]))) \subseteq
                    {listed[j] : j \in 1 .. i - 1}
            BY <2>1, <5>1 DEF WaitInv
          <5> QED BY <5>1, <5>2, <5>3
        <4> QED BY <4>3, <4>4
      <3> QED BY <3>2, <3>3
    <2>6. \A m : Recursive(m)' <=> Recursive(m)
      BY <1>2, SameWalk
    <2>7. Rules(seen) = Rules(visited)' /\ walked' = walked /\ visited' = seen
      BY <1>2 DEF Rules
    <2> HIDE DEF seen
    <2> QED BY <2>3, <2>4, <2>5, <2>6, <2>7 DEF WaitInv, Rules
  <1>12. Rules(seen) = Rules(visited)'
    BY <1>2 DEF Rules
  <1>13. job # "none"
    BY Zenon DEF Visit, Walks, Jobs
  <1> HIDE DEF seen
  <1> QED BY <1>2, <1>4, <1>6, <1>7, <1>8, <1>9, <1>10, <1>11, <1>12, <1>13 DEF WalkInv

\* Each step of a traversal keeps it sound, in whatever order the sets are iterated.
LEMMA WalkNext == GraphInv /\ WalkedInv /\ WalkInv /\ [QueryNext]_allVars => WalkedInv' /\ WalkInv'
  <1> SUFFICES ASSUME GraphInv, WalkedInv, WalkInv, [QueryNext]_allVars PROVE WalkedInv' /\ WalkInv'
    OBVIOUS
  <1>1. CASE UNCHANGED queryVars
    BY <1>1, WalkStutters DEF queryVars
  <1>2. CASE Begin
    BY <1>2, WalkBegins
  <1>3. CASE NextStart
    BY <1>3, WalkNextStart
  <1>4. CASE Skip
    BY <1>4, WalkSkip
  <1>5. CASE Visit
    BY <1>5, WalkVisit
  <1>6. CASE StartComponent \/ LookAtChild \/ Return
    BY <1>6, WalkStutters DEF StartComponent, LookAtChild, Return
  <1>7. CASE Finish
    <2>1. /\ job' = "none" /\ from' = {} /\ walked' = NoGraph /\ todo' = <<>> /\ stack' = <<>>
          /\ visited' = {} /\ listed' = <<>>
      BY <1>7 DEF Finish
    <2>2. WalkedInv'
      BY <2>1, NoGraphFacts, FS_EmptySet DEF WalkedInv
    <2>3. Starts' = {}
      BY <2>1, NoGraphFacts DEF Starts
    <2>4. IsInjective(listed') /\ ToSet(listed') = {} /\ Rules(visited') = {}
      BY <2>1 DEF IsInjective, ToSet, Rules
    <2>5. /\ stack' \in Seq(Reached') /\ todo' \in Seq(Reached')
          /\ listed' \in Seq(visited') /\ visited' \subseteq Reached'
      BY <2>1
    <2>6. job' # "waiting" /\ Starts' \subseteq visited' /\ \A n \in visited' : FALSE
      BY <2>1, <2>3
    <2> QED BY <2>1, <2>2, <2>4, <2>5, <2>6 DEF WalkInv
  <1> QED BY <1>1, <1>2, <1>3, <1>4, <1>5, <1>6, <1>7 DEF QueryNext, Query, allVars

\* A sound traversal lists the rules in order, and all of them.
LEMMA WalkListsInOrder == WalkedInv /\ WalkInv => ListedInOrder
  <1> SUFFICES ASSUME WalkedInv, WalkInv PROVE ListedInOrder
    OBVIOUS
  <1>1. job = "waiting" =>
           \A i \in DOMAIN listed :
              Rules(Ancestors(walked, Parents(walked, listed[i]))) \subseteq {listed[j] : j \in 1 .. i - 1}
    BY DEF WalkInv, WaitInv
  <1>2. ASSUME Over, Walks
        PROVE  /\ IsInjective(listed)
               /\ ToSet(listed) = {d \in Rules(Reached) : job = "waiting" => ~Recursive(d)}
    <2>1. stack = <<>> /\ todo = <<>> /\ ToSet(stack) = {} /\ ToSet(todo) = {}
      BY <1>2 DEF Over, ToSet
    <2>2. Starts \subseteq visited /\ visited \subseteq Reached /\ ToSet(listed) = Rules(visited)
      BY <1>2, <2>1 DEF WalkInv
    <2>3. CASE job # "waiting"
      <3>1. \A n \in visited : Neighbors(n) \subseteq visited
        BY <1>2, <2>1, <2>3 DEF WalkInv
      <3>2. visited = Reached
        BY <2>2, <3>1, ReachedFacts
      <3>3. ToSet(listed) = {d \in Rules(Reached) : TRUE}
        BY <2>2, <3>2
      <3> QED BY <2>3, <3>3 DEF WalkInv
    <2>4. CASE job = "waiting"
      <3>1. WaitInv /\ WellFormed(walked) /\ Reached = Descendants(walked, Starts)
        BY <2>4 DEF WalkInv, WalkedInv, Reached
      <3>2. \A n \in walked.nodes \ visited : ~(Parents(walked, n) \subseteq visited)
        BY <2>1, <2>2, <2>4, <3>1 DEF WaitInv, WalkedInv
      <3>3. ASSUME NEW d \in Reached, ~Recursive(d), d \notin visited PROVE FALSE
        <4>1. PICK m \in Ancestors(walked, {d}) : m \notin visited /\ Parents(walked, m) \subseteq visited
          BY <3>1, <3>3, SomeNodeIsNext
        <4>2. m \in walked.nodes
          <5>1. Reached \subseteq Starts \cup walked.nodes
            <6> DEFINE X == Starts \cup walked.nodes
            <6>1. Starts \subseteq X /\ \A n \in X : Children(walked, n) \subseteq X
              BY <3>1, ParentsAndChildren
            <6> HIDE DEF X
            <6>2. Descendants(walked, Starts) \subseteq X
              BY <3>1, <6>1, DescendantsByChildren
            <6> QED BY <3>1, <6>2 DEF X
          <5>2. d \in walked.nodes
            BY <2>2, <3>3, <5>1
          <5>3. Ancestors(walked, {d}) \subseteq walked.nodes
            <6>1. {d} \subseteq walked.nodes /\ \A n \in walked.nodes : Parents(walked, n) \subseteq walked.nodes
              BY <3>1, <5>2, ParentsAndChildren
            <6> QED BY <3>1, <6>1, AncestorsByParents
          <5> QED BY <5>3
        <4> QED BY <3>2, <4>1, <4>2
      <3>4. \A n \in visited : ~Recursive(n)
        BY <3>1 DEF WaitInv
      <3>5. Rules(visited) = {d \in Rules(Reached) : ~Recursive(d)}
        BY <2>2, <3>3, <3>4 DEF Rules
      <3> QED BY <2>2, <2>4, <3>5 DEF WalkInv
    <2> QED BY <2>3, <2>4
  <1>3. Reached = IF job = "backwards" THEN Ancestors(walked, from)
                  ELSE Descendants(walked, IF from = {} THEN walked.roots ELSE from)
    BY DEF Reached, Starts
  <1> QED BY <1>1, <1>2, <1>3 DEF ListedInOrder

\* The rules are listed after those that they depend on, none is listed twice and none is
\* missing, but for those that depend on a cycle when the traversal waits for parents: for
\* every graph, every start and every order of the sets (getDerivedPredicatesDepthFirst,
\* getDerivedPredicatesFromActions and the like).
THEOREM RulesAreListedInOrder == QuerySpec => []ListedInOrder
  <1>1. QueryInit => WalkedInv /\ WalkInv
    BY WalkedInvInit
  <1>2. QuerySpec => []GraphInv
    BY QueriesOnlyRead, GraphInvCorrect, PTL
  <1> QED BY <1>1, <1>2, WalkNext, WalkListsInOrder, PTL DEF QuerySpec

-----------------------------------------------------------------------------
(* Tarjan's algorithm.                                                     *)

\* The way from a node to another, and the rules that are in a circle with one.
Leads(m, n) == m \in Ancestors(walked, {n})
Alike(d) == {e \in walked.derived : Leads(d, e) /\ Leads(e, d)}

\* Ways along the edges between rules: what is closed under children cannot be left.
LEMMA LeadsFacts ==
    ASSUME RuleGraph(walked)
    PROVE  /\ \A m : Leads(m, m)
           /\ \A x : \A y \in DerivedChildren(x) : Leads(x, y) /\ y \in walked.derived
           /\ \A x, y, z : Leads(x, y) /\ Leads(y, z) => Leads(x, z)
           /\ \A X \in SUBSET walked.derived : (\A x \in X : DerivedChildren(x) \subseteq X) =>
                  \A x \in X : \A y \in walked.derived : Leads(x, y) => y \in X
  <1>1. WellFormed(walked)
    BY DEF RuleGraph
  <1>2. \A n : /\ n \in Ancestors(walked, {n})
               /\ \A m \in Ancestors(walked, {n}) : Parents(walked, m) \subseteq Ancestors(walked, {n})
               /\ \A X : n \in X /\ (\A m \in X : Parents(walked, m) \subseteq X) =>
                             Ancestors(walked, {n}) \subseteq X
    <2>1. TAKE n
    <2>2. /\ {n} \subseteq Ancestors(walked, {n})
          /\ \A m \in Ancestors(walked, {n}) : Parents(walked, m) \subseteq Ancestors(walked, {n})
          /\ \A X : {n} \subseteq X /\ (\A m \in X : Parents(walked, m) \subseteq X) =>
                         Ancestors(walked, {n}) \subseteq X
      BY <1>1, AncestorsByParents
    <2> QED BY <2>2
  <1>3. \A m : Leads(m, m)
    BY <1>2 DEF Leads
  <1>4. ASSUME NEW x, NEW y \in DerivedChildren(x)
        PROVE  x \in Parents(walked, y) /\ y \in walked.derived
    <2>1. <<x, y>> \in walked.edges /\ y.kind = "derived"
      BY <1>1, ParentsAndChildren DEF DerivedChildren
    <2>2. y \in walked.derived \/ y \in Actions
      BY <2>1 DEF RuleGraph
    <2> QED BY <1>1, <2>1, <2>2, ParentsAndChildren, StateAssumption
  <1>5. ASSUME NEW x, NEW y \in DerivedChildren(x) PROVE Leads(x, y) /\ y \in walked.derived
    BY <1>2, <1>4 DEF Leads
  <1>6. ASSUME NEW x, NEW y, NEW z, Leads(x, y), Leads(y, z) PROVE Leads(x, z)
    BY <1>2, <1>6 DEF Leads
  <1>7. ASSUME NEW X \in SUBSET walked.derived, \A x \in X : DerivedChildren(x) \subseteq X,
               NEW x \in X, NEW y \in walked.derived, Leads(x, y), y \notin X
        PROVE  FALSE
    <2> DEFINE Z == {m \in Ancestors(walked, {y}) : m \notin X /\ m.kind # "action"}
    <2>1. y \in Z
      BY <1>2, <1>7 DEF RuleGraph, AreRules
    <2>2. ASSUME NEW m \in Z, NEW p \in Parents(walked, m) PROVE p \in Z
      <3>1. <<p, m>> \in walked.edges /\ p \in Ancestors(walked, {y})
        BY <1>1, <1>2, ParentsAndChildren
      <3>2. /\ p \in walked.derived \/ p.kind = "atom"
            /\ m \in walked.derived \/ m \in Actions
        BY <3>1 DEF RuleGraph
      <3>3. p.kind # "action" /\ m.kind = "derived"
        BY <3>2, StateAssumption DEF RuleGraph, AreRules
      <3>4. m \in DerivedChildren(p)
        BY <1>1, <3>1, <3>3, ParentsAndChildren DEF DerivedChildren
      <3> QED BY <1>7, <3>1, <3>3, <3>4
    <2> HIDE DEF Z
    <2>3. Ancestors(walked, {y}) \subseteq Z
      BY <1>2, <2>1, <2>2
    <2> QED BY <1>7, <2>3 DEF Leads, Z
  <1> QED BY <1>3, <1>5, <1>6, <1>7

\* The part of the graph that is walked is a graph of rules (getSubGraphFromNodes).
LEMMA SelectedIsRuleGraph ==
    ASSUME RuleGraph(graph), NEW nodes, IsFiniteSet(nodes)
    PROVE  RuleGraph(Selected(graph, nodes))
  <1> DEFINE g == Selected(graph, nodes)
             E == {e \in graph.edges : e[1] \in Descendants(graph, nodes)}
  <1>1. CASE nodes = {}
    BY <1>1 DEF Selected
  <1>2. CASE nodes # {}
    <2>1. /\ WellFormed(g) /\ g.edges = E
          /\ g.derived = OfKind("derived", Ends(E)) /\ g.actions = OfKind("action", Ends(E))
      BY <1>2, SubGraphFacts DEF Selected, RuleGraph
    <2>2. \A e \in graph.edges : /\ e[1] \in graph.derived \/ e[1].kind = "atom"
                                 /\ e[2] \in graph.derived \cup graph.actions
      BY DEF RuleGraph
    <2>3. /\ \A n \in graph.derived : n.kind = "derived" /\ IsFiniteSet(n.needs)
          /\ graph.actions \subseteq Actions /\ \A n \in graph.actions : n.kind = "action"
          /\ IsFiniteSet(graph.derived)
      BY StateAssumption DEF RuleGraph, AreRules
    <2>4. E \subseteq graph.edges
      OBVIOUS
    <2> HIDE DEF g, E
    <2>5. g.derived \subseteq graph.derived /\ g.actions \subseteq graph.actions
      BY <2>1, <2>2, <2>3, <2>4 DEF OfKind, Ends, Targets
    <2>6. AreRules(g.derived)
      BY <2>3, <2>5, FS_Subset DEF AreRules
    <2>7. ASSUME NEW e \in g.edges
          PROVE  /\ e[1] \in g.derived \/ e[1].kind = "atom"
                 /\ e[2] \in g.derived \cup g.actions
      <3>1. e[1] \in Ends(E) /\ e[2] \in Ends(E)
        BY <2>1 DEF Ends, Targets
      <3> QED BY <2>1, <2>2, <2>3, <2>4, <3>1 DEF OfKind
    <2> QED BY <2>1, <2>3, <2>5, <2>6, <2>7 DEF RuleGraph, g
  <1> QED BY <1>1, <1>2

\* The last element of a vector, changed.
LEMMA LastReplaced ==
    ASSUME NEW S, NEW s \in Seq(S), s # <<>>, NEW r \in S
    PROVE  LET t == Front(s) \o <<r>>
           IN  /\ t \in Seq(S) /\ Len(t) = Len(s) /\ t[Len(s)] = r
               /\ \A i \in 1 .. Len(s) - 1 : t[i] = s[i]
  <1>1. /\ Front(s) \in Seq(S) /\ Len(Front(s)) = Len(s) - 1
        /\ \A i \in 1 .. Len(s) - 1 : Front(s)[i] = s[i]
    BY LastAndFront
  <1>2. <<r>> \in Seq(S) /\ Len(<<r>>) = 1 /\ <<r>>[1] = r /\ Len(s) \in Nat /\ Len(s) # 0
    BY EmptySeq
  <1> HIDE DEF Front
  <1>3. DEFINE f == Front(s)
  <1>4. f \o <<r>> \in Seq(S) /\ Len(f \o <<r>>) = Len(s)
    BY <1>1, <1>2
  <1>5. (f \o <<r>>)[Len(s)] = r
    BY <1>1, <1>2
  <1>6. \A i \in 1 .. Len(s) - 1 : (f \o <<r>>)[i] = s[i]
    BY <1>1, <1>2
  <1> QED BY <1>4, <1>5, <1>6

\* The stack of strongConnect, cut at one of its nodes.
LEMMA PathIsCut ==
    ASSUME NEW S, NEW f \in [S -> Nat], NEW s \in Seq(S), NEW at \in DOMAIN s, NEW d, s[at] = d,
           \A i, j \in DOMAIN s : i < j => f[s[i]] < f[s[j]]
    PROVE  LET low == SubSeq(s, 1, at - 1)
               high == SubSeq(s, at, Len(s))
           IN  /\ low \in Seq(S) /\ \A i, j \in DOMAIN low : i < j => f[low[i]] < f[low[j]]
               /\ \A x : x \in ToSet(low) <=> x \in ToSet(s) /\ f[x] < f[d]
               /\ \A x : x \in ToSet(high) <=> x \in ToSet(s) /\ f[d] <= f[x]
  <1> DEFINE low == SubSeq(s, 1, at - 1)
             high == SubSeq(s, at, Len(s))
  <1>2. at \in DOMAIN s /\ s[at] = d
    OBVIOUS
  <1>3. at \in 1 .. Len(s) /\ Len(s) \in Nat /\ DOMAIN s = 1 .. Len(s)
    BY <1>2
  <1>4. low = [i \in 1 .. at - 1 |-> s[i]]
    BY <1>3
  <1>5. low \in Seq(S) /\ DOMAIN low = 1 .. at - 1 /\ \A i \in 1 .. at - 1 : low[i] = s[i]
    BY <1>3, <1>4
  <1>6. high = [i \in 1 .. Len(s) - at + 1 |-> s[at + i - 1]]
    BY <1>3
  <1>7. DOMAIN high = 1 .. Len(s) - at + 1 /\ \A i \in 1 .. Len(s) - at + 1 : high[i] = s[at + i - 1]
    BY <1>6
  <1> HIDE DEF low, high
  <1>8. \A i \in DOMAIN s : /\ f[s[i]] \in Nat /\ s[i] \in ToSet(s)
                            /\ i < at => f[s[i]] < f[d]
                            /\ at <= i => f[d] <= f[s[i]]
    BY <1>2, <1>3 DEF ToSet
  <1>9. ToSet(low) = {x \in ToSet(s) : f[x] < f[d]}
    <2>1. ASSUME NEW i \in 1 .. at - 1 PROVE low[i] \in ToSet(s) /\ f[low[i]] < f[d]
      <3>1. i \in DOMAIN s /\ i < at /\ low[i] = s[i]
        BY <1>3, <1>5
      <3> QED BY <1>8, <3>1
    <2>2. ASSUME NEW i \in DOMAIN s, f[s[i]] < f[d] PROVE i \in 1 .. at - 1 /\ low[i] = s[i]
      <3>1. f[d] \in Nat /\ f[s[i]] \in Nat /\ ~(f[d] <= f[s[i]])
        BY <1>2, <1>8, <2>2
      <3>2. ~(at <= i)
        BY <1>8, <3>1
      <3>3. i \in 1 .. at - 1
        BY <1>3, <3>2
      <3> QED BY <1>5, <3>3
    <2> QED BY <1>5, <2>1, <2>2 DEF ToSet
  <1>10. ToSet(high) = {x \in ToSet(s) : f[d] <= f[x]}
    <2>1. ASSUME NEW i \in 1 .. Len(s) - at + 1 PROVE high[i] \in ToSet(s) /\ f[d] <= f[high[i]]
      <3>1. at + i - 1 \in DOMAIN s /\ at <= at + i - 1
        BY <1>3
      <3> QED BY <1>7, <1>8, <3>1
    <2>2. ASSUME NEW i \in DOMAIN s, f[d] <= f[s[i]] PROVE s[i] \in ToSet(high)
      <3>1. at <= i
        <4>1. f[d] \in Nat /\ f[s[i]] \in Nat /\ ~(f[s[i]] < f[d])
          BY <1>2, <1>8, <2>2
        <4>2. ~(i < at)
          BY <1>8, <4>1
        <4> QED BY <1>3, <4>2
      <3>2. i - at + 1 \in DOMAIN high /\ high[i - at + 1] = s[i]
        <4>1. i - at + 1 \in 1 .. Len(s) - at + 1 /\ at + (i - at + 1) - 1 = i
          BY <1>3, <3>1
        <4> QED BY <1>7, <4>1
      <3> QED BY <3>2 DEF ToSet
    <2> QED BY <1>7, <2>1, <2>2 DEF ToSet
  <1>11. \A i, j \in DOMAIN low : i < j => f[low[i]] < f[low[j]]
    BY <1>3, <1>5
  <1> QED BY <1>5, <1>9, <1>10, <1>11 DEF low, high

\* The rules whose component has been found, and those on the stack of strongConnect.
Done == UNION ToSet(sccs)
On == ToSet(path)

\* The part of the stack that the k-th call has put there, its callees not included.
InBlock(k, x) == index[frames[k].node] <= index[x] /\ (k + 1 \in DOMAIN frames => index[x] < index[frames[k + 1].node])

\* A call of strongConnect: its rule and the children that it has not looked at.
Frame == [node : Met, left : SUBSET walked.derived]

\* Rules are numbered as they are met; the stack and the calls are in the order of the
\* numbers, and what has been met is on the stack or in a component.
MetInv ==
    /\ RuleGraph(walked)
    /\ Met \subseteq walked.derived
    /\ index \in [Met -> Nat] /\ lowlink \in [Met -> Nat]
    /\ \A d \in Met : index[d] < Cardinality(Met)
    /\ path \in Seq(Met) /\ sccs \in Seq(SUBSET Met) /\ Done \cup On = Met /\ Done \cap On = {}
    /\ \A i, j \in DOMAIN path : i < j => index[path[i]] < index[path[j]]
    /\ frames \in Seq(Frame)
    /\ \A k \in DOMAIN frames : frames[k].node \in On /\ frames[k].left \subseteq DerivedChildren(frames[k].node)
    /\ \A k, l \in DOMAIN frames : k < l => index[frames[k].node] < index[frames[l].node]

\* The components that have been found are circles of rules that lead into earlier
\* components only.
FoundInv ==
    /\ \A a \in DOMAIN sccs :
          /\ sccs[a] # {}
          /\ \A d \in sccs[a] : /\ sccs[a] = Alike(d)
                                /\ DerivedChildren(d) \subseteq UNION {sccs[b] : b \in 1 .. a}
    /\ IsInjective(sccs)

\* A rule under way leads to all that is above it on the stack, and all on the stack leads
\* back to a rule under way; the children of a rule have been met or are still to come.
PathInv ==
    /\ \A k \in DOMAIN frames : \A y \in On : index[frames[k].node] <= index[y] => Leads(frames[k].node, y)
    /\ \A y \in On : \E k \in DOMAIN frames : index[frames[k].node] <= index[y] /\ Leads(y, frames[k].node)
    /\ \A x \in On : \A y \in DerivedChildren(x) :
          y \in Met \/ \E k \in DOMAIN frames : x = frames[k].node /\ y \in frames[k].left

\* The lowlink of a rule under way is the number of a rule on the stack that it leads to, and
\* no rule of its part of the stack has a child with a smaller number.
LowInv ==
    \A k \in DOMAIN frames :
        /\ \E y \in On : index[y] = lowlink[frames[k].node] /\ index[y] <= index[frames[k].node] /\ Leads(frames[k].node, y)
        /\ \A x \in On : InBlock(k, x) =>
              \A y \in DerivedChildren(x) \cap On :
                  lowlink[frames[k].node] <= index[y] \/ (x = frames[k].node /\ y \in frames[k].left)

\* A step that leaves the graph leaves the ways in it.
LEMMA SameWays ==
    ASSUME walked' = walked
    PROVE  /\ \A m, n : Leads(m, n)' <=> Leads(m, n)
           /\ \A d : DerivedChildren(d)' = DerivedChildren(d) /\ Alike(d)' = Alike(d)
  BY DEF Leads, DerivedChildren, Alike

\* As long as no component is found, those that were stay found.
LEMMA FoundStays ==
    ASSUME FoundInv, walked' = walked, sccs' = sccs
    PROVE  FoundInv' /\ Done' = Done
  BY SameWays DEF FoundInv, Done

\* What the invariant says of numbers and calls.
LEMMA TarjanFacts ==
    ASSUME MetInv
    PROVE  /\ IsFiniteSet(Met) /\ Cardinality(Met) \in Nat /\ Len(frames) \in Nat
           /\ DOMAIN frames = 1 .. Len(frames)
           /\ On \subseteq Met /\ On \subseteq walked.derived
           /\ \A d \in Met : index[d] \in Nat /\ lowlink[d] \in Nat /\ index[d] < Cardinality(Met)
           /\ \A k \in 1 .. Len(frames) :
                 /\ frames[k].node \in On /\ frames[k].node \in Met /\ frames[k] \in Frame
                 /\ frames[k] = [node |-> frames[k].node, left |-> frames[k].left]
                 /\ frames[k].left \subseteq DerivedChildren(frames[k].node)
                 /\ frames[k].left \subseteq walked.derived
                 /\ index[frames[k].node] <= index[frames[Len(frames)].node]
  <1>1. IsFiniteSet(Met) /\ Cardinality(Met) \in Nat
    BY FS_Subset, FS_CardinalityType DEF MetInv, RuleGraph, AreRules
  <1>2. frames \in Seq(Frame) /\ Len(frames) \in Nat /\ DOMAIN frames = 1 .. Len(frames)
    BY DEF MetInv
  <1>3. On \subseteq Met /\ On \subseteq walked.derived
    BY DEF MetInv
  <1>4. \A d \in Met : index[d] \in Nat /\ lowlink[d] \in Nat /\ index[d] < Cardinality(Met)
    BY DEF MetInv
  <1>5. ASSUME NEW k \in 1 .. Len(frames)
        PROVE  /\ frames[k].node \in On /\ frames[k].node \in Met /\ frames[k] \in Frame
               /\ frames[k] = [node |-> frames[k].node, left |-> frames[k].left]
               /\ frames[k].left \subseteq DerivedChildren(frames[k].node)
               /\ frames[k].left \subseteq walked.derived
    <2>1. frames[k] \in Frame
      BY <1>2
    <2>2. frames[k].node \in On /\ frames[k].left \subseteq DerivedChildren(frames[k].node)
      BY <1>2 DEF MetInv
    <2> QED BY <1>3, <2>1, <2>2 DEF Frame
  <1>6. ASSUME NEW k \in 1 .. Len(frames)
        PROVE  index[frames[k].node] <= index[frames[Len(frames)].node]
    <2>1. Len(frames) \in Nat /\ Len(frames) \in 1 .. Len(frames)
      BY <1>2
    <2>2. index[frames[k].node] \in Nat /\ index[frames[Len(frames)].node] \in Nat
      BY <1>4, <1>5, <2>1
    <2>3. k < Len(frames) => index[frames[k].node] < index[frames[Len(frames)].node]
      BY <1>2, <2>1 DEF MetInv
    <2> QED BY <2>1, <2>2, <2>3
  <1> QED BY <1>1, <1>2, <1>3, <1>4, <1>5, <1>6

\* strongConnect(d) begins: the rule gets the next number and is put on the stack.
LEMMA EnterKeeps ==
    ASSUME MetInv, FoundInv, PathInv, LowInv, walked' = walked, sccs' = sccs,
           NEW d \in walked.derived \ Met, NEW callers \in Seq(Frame), Len(callers) = Len(frames),
           \A k \in 1 .. Len(frames) :
              /\ callers[k].node = frames[k].node /\ callers[k].left \subseteq frames[k].left
              /\ frames[k].left \subseteq callers[k].left \cup {d},
           frames # <<>> => d \in DerivedChildren(frames[Len(frames)].node),
           Enter(d, callers)
    PROVE  MetInv' /\ FoundInv' /\ PathInv' /\ LowInv'
  <1> DEFINE c == Cardinality(Met)
             n == Len(frames)
  <1>0. /\ IsFiniteSet(Met) /\ c \in Nat /\ n \in Nat /\ DOMAIN frames = 1 .. n
        /\ On \subseteq Met /\ On \subseteq walked.derived /\ d \notin Met /\ d \in walked.derived
        /\ \A e \in Met : index[e] \in Nat /\ lowlink[e] \in Nat /\ index[e] < c
        /\ \A k \in 1 .. n : /\ frames[k].node \in On /\ frames[k].node \in Met
                             /\ frames[k].left \subseteq DerivedChildren(frames[k].node)
                             /\ index[frames[k].node] <= index[frames[n].node]
    BY TarjanFacts
  <1>1. /\ Met' = Met \cup {d} /\ index' \in [Met' -> Nat] /\ lowlink' \in [Met' -> Nat]
        /\ index'[d] = c /\ lowlink'[d] = c
        /\ \A e \in Met : index'[e] = index[e] /\ lowlink'[e] = lowlink[e]
    BY <1>0 DEF Enter, Met
  <1>2. Cardinality(Met') = c + 1
    BY <1>0, <1>1, FS_AddElement
  <1>3. /\ path' \in Seq(Met') /\ On' = On \cup {d} /\ d \notin On
        /\ \A i, j \in DOMAIN path' : i < j => index'[path'[i]] < index'[path'[j]]
    <2>1. path' = Append(path, d) /\ path \in Seq(Met)
      BY DEF Enter, MetInv
    <2>2. path \in Seq(Met') /\ d \in Met' /\ Len(path) \in Nat /\ DOMAIN path = 1 .. Len(path)
      BY <1>1, <2>1
    <2>3. /\ path' \in Seq(Met') /\ DOMAIN path' = 1 .. Len(path) + 1 /\ path'[Len(path) + 1] = d
          /\ \A i \in 1 .. Len(path) : path'[i] = path[i] /\ path[i] \in Met
      BY <2>1, <2>2
    <2>4. On' = On \cup {d}
      BY <2>2, <2>3 DEF On, ToSet
    <2>5. ASSUME NEW i \in DOMAIN path', NEW j \in DOMAIN path', i < j
          PROVE  index'[path'[i]] < index'[path'[j]]
      <3>1. i \in 1 .. Len(path)
        BY <2>2, <2>3, <2>5
      <3>2. CASE j \in 1 .. Len(path)
        <4>1. index[path[i]] < index[path[j]]
          BY <2>2, <2>5, <3>1, <3>2 DEF MetInv
        <4> QED BY <1>1, <2>3, <3>1, <3>2, <4>1
      <3>3. CASE j = Len(path) + 1
        BY <1>0, <1>1, <2>3, <3>1, <3>3
      <3> QED BY <2>2, <2>3, <3>2, <3>3
    <2> QED BY <1>0, <2>3, <2>4, <2>5
  <1>4. \A m : DerivedChildren(m)' = DerivedChildren(m)
    BY SameWays
  <1>5. /\ frames' \in Seq(Frame') /\ DOMAIN frames' = 1 .. n + 1
        /\ frames'[n + 1].node = d /\ frames'[n + 1].left = DerivedChildren(d)
        /\ \A k \in 1 .. n : frames'[k].node = frames[k].node /\ frames'[k].left = callers[k].left
    <2> DEFINE top == [node |-> d, left |-> DerivedChildren(d)]
    <2>1. frames' = Append(callers, top)
      BY DEF Enter
    <2>2. DerivedChildren(d) \subseteq walked.derived
      BY LeadsFacts DEF MetInv
    <2>3. top \in Frame' /\ \A f \in Frame : f \in Frame'
      BY <1>1, <2>2 DEF Frame
    <2>4. callers \in Seq(Frame')
      BY <2>3
    <2>5. /\ frames' \in Seq(Frame') /\ DOMAIN frames' = 1 .. n + 1 /\ frames'[n + 1] = top
          /\ \A k \in 1 .. n : frames'[k] = callers[k]
      <3> HIDE DEF top
      <3> QED BY <1>0, <2>1, <2>3, <2>4
    <2> QED BY <1>0, <2>5
  <1>6. FoundInv' /\ Done' = Done
    BY FoundStays
  <1>7. \A k \in 1 .. n + 1 : k \in 1 .. n \/ k = n + 1
    BY <1>0
  <1>8. MetInv'
    <2>1. sccs' \in Seq(SUBSET Met') /\ Done' \cup On' = Met' /\ Done' \cap On' = {}
      <3>1. sccs \in Seq(SUBSET Met) /\ Done \cup On = Met /\ Done \cap On = {}
        BY DEF MetInv
      <3>2. \A X \in SUBSET Met : X \in SUBSET Met'
        BY <1>1
      <3>3. sccs \in Seq(SUBSET Met')
        BY <3>1, <3>2
      <3> QED BY <1>0, <1>1, <1>3, <1>6, <3>1, <3>3
    <2>2. \A k \in DOMAIN frames' : frames'[k].node \in On' /\ frames'[k].left \subseteq DerivedChildren(frames'[k].node)
      BY <1>0, <1>3, <1>5, <1>7
    <2>3. ASSUME NEW k \in 1 .. n + 1, NEW l \in 1 .. n + 1, k < l PROVE index'[frames'[k].node] < index'[frames'[l].node]
      <3>1. k \in 1 .. n
        BY <1>0, <2>3
      <3>2. CASE l \in 1 .. n
        <4>1. index[frames[k].node] < index[frames[l].node]
          BY <1>0, <2>3, <3>1, <3>2 DEF MetInv
        <4> QED BY <1>0, <1>1, <1>5, <3>1, <3>2, <4>1
      <3>3. CASE l = n + 1
        BY <1>0, <1>1, <1>5, <3>1, <3>3
      <3> QED BY <1>7, <3>2, <3>3
    <2>4. \A e \in Met' : index'[e] < Cardinality(Met')
      BY <1>0, <1>1, <1>2
    <2>5. RuleGraph(walked') /\ Met' \subseteq walked'.derived
      BY <1>0, <1>1 DEF MetInv
    <2> QED BY <1>1, <1>3, <1>4, <1>5, <2>1, <2>2, <2>3, <2>4, <2>5 DEF MetInv
  <1>9. /\ \A m : Leads(m, m) /\ \A y \in DerivedChildren(m) : Leads(m, y)
        /\ \A x, y, z : Leads(x, y) /\ Leads(y, z) => Leads(x, z)
        /\ \A x, y : Leads(x, y)' <=> Leads(x, y)
    BY LeadsFacts, SameWays DEF MetInv
  <1>10. PathInv'
    <2>1. ASSUME NEW k \in 1 .. n + 1, NEW y \in On', index'[frames'[k].node] <= index'[y] PROVE Leads(frames[k].node, y)'
      <3>1. CASE k \in 1 .. n /\ y \in On
        <4>1. index[frames[k].node] <= index[y]
          BY <1>0, <1>1, <1>5, <2>1, <3>1
        <4>2. Leads(frames[k].node, y)
          BY <1>0, <3>1, <4>1 DEF PathInv
        <4> QED BY <1>5, <1>9, <3>1, <4>2
      <3>2. CASE k \in 1 .. n /\ y = d
        <4>1. n \in 1 .. n /\ frames # <<>>
          BY <1>0, <3>2
        <4>2. Leads(frames[k].node, frames[n].node)
          BY <1>0, <3>2, <4>1 DEF PathInv
        <4>3. Leads(frames[n].node, d)
          BY <1>9, <4>1
        <4> QED BY <1>5, <1>9, <3>2, <4>2, <4>3
      <3>3. CASE k = n + 1
        <4>1. c <= index'[y]
          BY <1>1, <1>5, <2>1, <3>3
        <4>2. y \notin On
          BY <1>0, <1>1, <4>1
        <4> QED BY <1>3, <1>5, <1>9, <3>3, <4>2
      <3> QED BY <1>3, <1>7, <3>1, <3>2, <3>3
    <2>2. ASSUME NEW y \in On' PROVE \E k \in 1 .. n + 1 : index'[frames'[k].node] <= index'[y] /\ Leads(y, frames[k].node)'
      <3>1. CASE y \in On
        <4>1. PICK k \in 1 .. n : index[frames[k].node] <= index[y] /\ Leads(y, frames[k].node)
          BY <1>0, <3>1 DEF PathInv
        <4>2. k \in 1 .. n + 1 /\ frames'[k].node = frames[k].node
          BY <1>0, <1>5
        <4> QED BY <1>0, <1>1, <1>9, <3>1, <4>1, <4>2
      <3>2. CASE y = d
        <4>1. n + 1 \in 1 .. n + 1 /\ index'[d] <= index'[d]
          BY <1>0, <1>1
        <4> QED BY <1>5, <1>9, <3>2, <4>1
      <3> QED BY <1>3, <3>1, <3>2
    <2>3. ASSUME NEW x \in On', NEW y \in DerivedChildren(x)
          PROVE  y \in Met' \/ \E k \in 1 .. n + 1 : x = frames'[k].node /\ y \in frames'[k].left
      <3>1. CASE x \in On
        <4>1. y \in Met \/ \E k \in 1 .. n : x = frames[k].node /\ y \in frames[k].left
          BY <1>0, <3>1 DEF PathInv
        <4>2. ASSUME NEW k \in 1 .. n, x = frames[k].node, y \in frames[k].left, y # d
              PROVE  k \in 1 .. n + 1 /\ x = frames'[k].node /\ y \in frames'[k].left
          BY <1>0, <1>5, <4>2
        <4> QED BY <1>1, <4>1, <4>2
      <3>2. CASE x = d
        <4>1. n + 1 \in 1 .. n + 1
          BY <1>0
        <4> QED BY <1>5, <3>2, <4>1
      <3> QED BY <1>3, <3>1, <3>2
    <2> QED BY <1>4, <1>5, <2>1, <2>2, <2>3 DEF PathInv
  <1>11. ASSUME NEW k \in 1 .. n + 1
         PROVE  \E y \in On' : index'[y] = lowlink'[frames'[k].node] /\ index'[y] <= index'[frames'[k].node] /\ Leads(frames[k].node, y)'
    <2>1. CASE k \in 1 .. n
      <3>1. PICK y \in On : index[y] = lowlink[frames[k].node] /\ index[y] <= index[frames[k].node] /\ Leads(frames[k].node, y)
        BY <1>0, <2>1 DEF LowInv
      <3> QED BY <1>0, <1>1, <1>3, <1>5, <1>9, <2>1, <3>1
    <2>2. CASE k = n + 1
      <3>1. d \in On' /\ index'[d] = lowlink'[d] /\ index'[d] <= index'[d]
        BY <1>0, <1>1, <1>3
      <3> QED BY <1>5, <1>9, <2>2, <3>1
    <2> QED BY <1>7, <2>1, <2>2
  <1>12. ASSUME NEW k \in 1 .. n + 1, NEW x \in On', index'[frames'[k].node] <= index'[x],
                k + 1 \in 1 .. n + 1 => index'[x] < index'[frames'[k + 1].node], NEW y \in DerivedChildren(x), y \in On'
         PROVE  lowlink'[frames'[k].node] <= index'[y] \/ (x = frames'[k].node /\ y \in frames'[k].left)
    <2>1. CASE k = n + 1
      <3>1. c <= index'[x]
        BY <1>1, <1>5, <1>12, <2>1
      <3>2. x = d
        BY <1>0, <1>1, <1>3, <3>1
      <3> QED BY <1>5, <2>1, <3>2
    <2>2. CASE k \in 1 .. n
      <3>1. k + 1 \in 1 .. n + 1
        BY <1>0, <2>2
      <3>2. x \in On /\ index'[x] = index[x]
        <4>1. index'[frames'[k + 1].node] <= c
          <5>1. CASE k + 1 \in 1 .. n
            BY <1>0, <1>1, <1>5, <5>1
          <5>2. CASE k + 1 = n + 1
            BY <1>0, <1>1, <1>5, <5>2
          <5> QED BY <1>7, <3>1, <5>1, <5>2
        <4>2. index'[x] < index'[frames'[k + 1].node]
          BY <1>12, <3>1
        <4>3. x # d
          <5>1. frames'[k + 1].node \in Met'
            BY <1>0, <1>1, <1>5, <1>7, <3>1
          <5>2. index'[frames'[k + 1].node] \in Nat
            BY <1>1, <5>1
          <5> QED BY <1>0, <1>1, <4>1, <4>2, <5>2
        <4> QED BY <1>0, <1>1, <1>3, <4>3
      <3>3. frames'[k].node = frames[k].node /\ index'[frames'[k].node] = index[frames[k].node] /\ lowlink'[frames'[k].node] = lowlink[frames[k].node]
        BY <1>0, <1>1, <1>5, <2>2
      <3>4. InBlock(k, x)
        <4>1. index[frames[k].node] <= index[x]
          BY <1>12, <3>2, <3>3
        <4>2. ASSUME k + 1 \in 1 .. n PROVE index[x] < index[frames[k + 1].node]
          BY <1>0, <1>1, <1>5, <1>12, <3>1, <3>2, <4>2
        <4> QED BY <1>0, <4>1, <4>2 DEF InBlock
      <3>5. CASE y \in On
        <4>1. lowlink[frames[k].node] <= index[y] \/ (x = frames[k].node /\ y \in frames[k].left)
          BY <1>0, <2>2, <3>2, <3>4, <3>5 DEF LowInv
        <4>2. y # d /\ index'[y] = index[y]
          BY <1>0, <1>1, <3>5
        <4> QED BY <1>5, <2>2, <3>3, <4>1, <4>2
      <3>6. CASE y = d
        <4>1. PICK z \in On : index[z] = lowlink[frames[k].node]
          BY <1>0, <2>2 DEF LowInv
        <4>2. lowlink[frames[k].node] <= c
          BY <1>0, <4>1
        <4> QED BY <1>1, <3>3, <3>6, <4>2
      <3> QED BY <1>3, <1>12, <3>5, <3>6
    <2> QED BY <1>7, <2>1, <2>2
  <1>13. LowInv'
    BY <1>4, <1>5, <1>11, <1>12 DEF LowInv, InBlock
  <1> QED BY <1>6, <1>8, <1>10, <1>13

\* The calls under way are for different rules, met in the order of the calls.
LEMMA CallsDiffer ==
    ASSUME MetInv, NEW k \in 1 .. Len(frames), NEW l \in 1 .. Len(frames), k < l
    PROVE  /\ frames[k].node # frames[l].node
           /\ index[frames[k].node] < index[frames[l].node]
  <1>1. index[frames[k].node] < index[frames[l].node]
    BY TarjanFacts DEF MetInv
  <1>2. index[frames[k].node] \in Nat
    BY TarjanFacts
  <1> QED BY <1>1, <1>2

\* A child that has been met before is looked at: the lowlink falls to its number if it is on
\* the stack.
LEMMA LookKeeps ==
    ASSUME MetInv, FoundInv, PathInv, LowInv, walked' = walked, sccs' = sccs,
           frames # <<>>, NEW child \in frames[Len(frames)].left, child \in Met,
           NEW rest \in Seq(Frame), Len(rest) = Len(frames),
           \A k \in 1 .. Len(frames) - 1 : rest[k] = frames[k],
           rest[Len(frames)] = [node |-> frames[Len(frames)].node, left |-> frames[Len(frames)].left \ {child}],
           frames' = rest, index' = index, path' = path,
           lowlink' = IF child \in On
                      THEN [lowlink EXCEPT ![frames[Len(frames)].node] = Smaller(@, index[child])]
                      ELSE lowlink
    PROVE  MetInv' /\ FoundInv' /\ PathInv' /\ LowInv'
  <1> DEFINE n == Len(frames)
             top == frames[n].node
  <1>0. /\ n \in Nat /\ n # 0 /\ DOMAIN frames = 1 .. n /\ n \in 1 .. n
        /\ On \subseteq Met /\ On \subseteq walked.derived
        /\ \A e \in Met : index[e] \in Nat /\ lowlink[e] \in Nat
        /\ \A k \in 1 .. n : /\ frames[k].node \in On /\ frames[k].node \in Met
                             /\ frames[k].left \subseteq DerivedChildren(frames[k].node)
    <2>1. n \in Nat /\ DOMAIN frames = 1 .. n /\ n # 0
      BY TarjanFacts, EmptySeq DEF MetInv
    <2>2. n \in 1 .. n
      BY <2>1
    <2> QED BY <2>1, <2>2, TarjanFacts
  <1>1. Met' = Met /\ On' = On /\ Frame' = Frame
    BY DEF Met, On, Frame
  <1>2. /\ DOMAIN frames' = 1 .. n
        /\ \A k \in 1 .. n : /\ frames'[k].node = frames[k].node
                             /\ frames'[k].left \subseteq frames[k].left
                             /\ frames[k].left \subseteq frames'[k].left \cup (IF k = n THEN {child} ELSE {})
    <2>1. DOMAIN frames' = 1 .. n
      BY <1>0
    <2>2. \A k \in 1 .. n - 1 : frames'[k] = frames[k]
      OBVIOUS
    <2>3. frames'[n].node = frames[n].node /\ frames'[n].left = frames[n].left \ {child}
      OBVIOUS
    <2>4. \A k \in 1 .. n : k = n \/ k \in 1 .. n - 1
      BY <1>0
    <2> HIDE DEF n
    <2> QED BY <2>1, <2>2, <2>3, <2>4
  <1>3. /\ lowlink' \in [Met -> Nat]
        /\ \A e \in Met : lowlink'[e] <= lowlink[e] /\ (e # top => lowlink'[e] = lowlink[e])
        /\ lowlink'[top] # lowlink[top] => child \in On /\ lowlink'[top] = index[child]
        /\ child \in On => lowlink'[top] <= index[child]
    <2>1. lowlink \in [Met -> Nat] /\ top \in Met /\ index[child] \in Nat /\ lowlink[top] \in Nat
      BY <1>0 DEF MetInv
    <2> HIDE DEF top
    <2>2. CASE child \notin On
      BY <1>0, <2>1, <2>2
    <2>3. CASE child \in On
      <3>1. lowlink' = [lowlink EXCEPT ![top] = Smaller(@, index[child])]
        BY <2>3 DEF top
      <3>2. /\ lowlink'[top] = Smaller(lowlink[top], index[child])
            /\ \A e \in Met : e # top => lowlink'[e] = lowlink[e]
        BY <2>1, <3>1
      <3>3. /\ Smaller(lowlink[top], index[child]) \in Nat
            /\ Smaller(lowlink[top], index[child]) <= lowlink[top]
            /\ Smaller(lowlink[top], index[child]) <= index[child]
            /\ Smaller(lowlink[top], index[child]) \in {lowlink[top], index[child]}
        BY <2>1 DEF Smaller
      <3>4. lowlink' \in [Met -> Nat]
        BY <2>1, <3>1, <3>3
      <3> QED BY <1>0, <2>1, <2>3, <3>2, <3>3, <3>4
    <2> QED BY <2>2, <2>3
  <1>4. \A m : DerivedChildren(m)' = DerivedChildren(m)
    BY SameWays
  <1>5. FoundInv' /\ Done' = Done
    BY FoundStays
  <1>6. /\ \A m : Leads(m, m) /\ \A y \in DerivedChildren(m) : Leads(m, y)
        /\ \A x, y, z : Leads(x, y) /\ Leads(y, z) => Leads(x, z)
        /\ \A x, y : Leads(x, y)' <=> Leads(x, y)
    BY LeadsFacts, SameWays DEF MetInv
  <1>7. MetInv'
    <2>1. \A k \in 1 .. n : frames'[k].node \in On /\ frames'[k].left \subseteq DerivedChildren(frames'[k].node)
      BY <1>0, <1>2
    <2>2. \A k, l \in 1 .. n : k < l => index[frames'[k].node] < index[frames'[l].node]
      BY <1>2, CallsDiffer
    <2>3. frames' \in Seq(Frame')
      BY <1>1
    <2> HIDE DEF n
    <2> QED BY <1>1, <1>2, <1>3, <1>4, <1>5, <2>1, <2>2, <2>3 DEF MetInv
  <1>8. PathInv'
    <2>1. \A k \in 1 .. n : \A y \in On : index[frames'[k].node] <= index[y] => Leads(frames'[k].node, y)
      BY <1>0, <1>2 DEF PathInv
    <2>2. \A y \in On : \E k \in 1 .. n : index[frames'[k].node] <= index[y] /\ Leads(y, frames'[k].node)
      BY <1>0, <1>2 DEF PathInv
    <2>3. ASSUME NEW x \in On, NEW y \in DerivedChildren(x), y \notin Met
          PROVE  \E k \in 1 .. n : x = frames'[k].node /\ y \in frames'[k].left
      <3>1. PICK k \in 1 .. n : x = frames[k].node /\ y \in frames[k].left
        BY <1>0, <2>3 DEF PathInv
      <3> HIDE DEF n
      <3> QED BY <1>2, <2>3, <3>1
    <2> HIDE DEF n
    <2> QED BY <1>1, <1>2, <1>4, <1>6, <2>1, <2>2, <2>3 DEF PathInv
  <1>9. ASSUME NEW k \in 1 .. n
        PROVE  \E y \in On : /\ index[y] = lowlink'[frames'[k].node] /\ index[y] <= index[frames'[k].node]
                             /\ Leads(frames'[k].node, y)
    <2>1. PICK y \in On : /\ index[y] = lowlink[frames[k].node] /\ index[y] <= index[frames[k].node]
                          /\ Leads(frames[k].node, y)
      BY <1>0 DEF LowInv
    <2>2. CASE lowlink'[frames[k].node] = lowlink[frames[k].node]
      BY <1>2, <2>1, <2>2
    <2>3. CASE lowlink'[frames[k].node] # lowlink[frames[k].node]
      <3>1. frames[k].node = top
        BY <1>0, <1>3, <2>3
      <3>2. child \in On /\ lowlink'[top] = index[child] /\ lowlink'[top] <= lowlink[top]
        BY <1>0, <1>3, <2>3, <3>1
      <3>3. child \in DerivedChildren(top)
        BY <1>0
      <3>4. index[child] <= index[top]
        BY <1>0, <2>1, <3>1, <3>2
      <3>5. Leads(top, child)
        BY <1>6, <3>3
      <3>6. frames'[k].node = top
        BY <1>2, <3>1
      <3> HIDE DEF n, top
      <3> QED BY <3>2, <3>4, <3>5, <3>6
    <2> QED BY <2>2, <2>3
  <1>10. ASSUME NEW k \in 1 .. n, NEW x \in On, index[frames'[k].node] <= index[x],
                k + 1 \in 1 .. n => index[x] < index[frames'[k + 1].node],
                NEW y \in DerivedChildren(x), y \in On
         PROVE  lowlink'[frames'[k].node] <= index[y] \/ (x = frames'[k].node /\ y \in frames'[k].left)
    <2>1. InBlock(k, x)
      BY <1>0, <1>2, <1>10 DEF InBlock
    <2>2. lowlink[frames[k].node] <= index[y] \/ (x = frames[k].node /\ y \in frames[k].left)
      BY <1>0, <1>10, <2>1 DEF LowInv
    <2>3. lowlink'[frames[k].node] <= lowlink[frames[k].node] /\ lowlink'[frames[k].node] \in Nat
      BY <1>0, <1>3
    <2>4. CASE lowlink[frames[k].node] <= index[y]
      <3>1. index[y] \in Nat /\ lowlink[frames[k].node] \in Nat
        BY <1>0, <1>10
      <3>2. lowlink'[frames[k].node] <= index[y]
        BY <2>3, <2>4, <3>1
      <3>3. frames'[k].node = frames[k].node
        BY <1>2
      <3> QED BY <3>2, <3>3
    <2>5. CASE x = frames[k].node /\ y \in frames[k].left
      <3>1. y \in frames'[k].left \/ (k = n /\ y = child)
        BY <1>2, <2>5
      <3> QED BY <1>2, <1>3, <1>10, <2>5, <3>1
    <2> QED BY <2>2, <2>4, <2>5
  <1>11. LowInv'
    <2> HIDE DEF n
    <2> QED BY <1>1, <1>2, <1>4, <1>6, <1>9, <1>10 DEF LowInv, InBlock
  <1> QED BY <1>5, <1>7, <1>8, <1>11

\* strongConnect ends: what is left of the calls, and what the caller takes over.
LEMMA ReturnFacts ==
    ASSUME MetInv, Return
    PROVE  LET n == Len(frames)
               d == frames[n].node
           IN  /\ n \in Nat /\ n # 0 /\ n \in 1 .. n /\ frames[n].left = {}
               /\ frames' \in Seq(Frame) /\ DOMAIN frames' = 1 .. n - 1
               /\ \A k \in 1 .. n - 1 : k \in 1 .. n /\ frames'[k] = frames[k]
               /\ lowlink' \in [Met -> Nat] /\ index' = index
               /\ \A e \in Met : /\ lowlink'[e] <= lowlink[e]
                                 /\ lowlink'[e] # lowlink[e] =>
                                       n - 1 \in 1 .. n /\ e = frames[n - 1].node /\ lowlink'[e] = lowlink[d]
               /\ n - 1 \in 1 .. n - 1 => lowlink'[frames[n - 1].node] <= lowlink[d]
  <1> DEFINE n == Len(frames)
             d == frames[n].node
  <1>1. n \in Nat /\ n # 0 /\ n \in 1 .. n
    <2>1. n \in Nat /\ n # 0
      BY EmptySeq DEF MetInv, Return
    <2> QED BY <2>1
  <1>2. Last(frames) = frames[n]
    BY DEF Last
  <1>3. /\ Front(frames) \in Seq(Frame) /\ Len(Front(frames)) = n - 1
        /\ \A i \in 1 .. n - 1 : Front(frames)[i] = frames[i]
    BY LastAndFront DEF MetInv, Return
  <1>4. frames' = Front(frames) /\ frames[n].left = {} /\ index' = index
    BY <1>2 DEF Return
  <1> HIDE DEF n
  <1>5. /\ frames' \in Seq(Frame) /\ DOMAIN frames' = 1 .. n - 1 /\ Len(frames') = n - 1
        /\ \A k \in 1 .. n - 1 : k \in 1 .. n /\ frames'[k] = frames[k]
    <2>1. DOMAIN frames' = 1 .. n - 1
      BY <1>3, <1>4
    <2>2. \A k \in 1 .. n - 1 : k \in 1 .. n
      BY <1>1
    <2> QED BY <1>3, <1>4, <2>1, <2>2
  <1>6. lowlink \in [Met -> Nat] /\ d \in Met /\ \A e \in Met : lowlink[e] \in Nat
    BY <1>1, TarjanFacts DEF MetInv, n
  <1>7. CASE frames' = <<>>
    <2>1. lowlink' = lowlink
      BY <1>7 DEF Return
    <2>2. n - 1 \notin 1 .. n - 1
      BY <1>1, <1>5, <1>7
    <2> QED BY <1>1, <1>4, <1>5, <1>6, <2>1, <2>2 DEF n
  <1>8. CASE frames' # <<>>
    <2> DEFINE c == frames[n - 1].node
    <2>1. n - 1 \in 1 .. n - 1 /\ n - 1 \in 1 .. n
      BY <1>1, <1>5, <1>8, EmptySeq
    <2>2. Last(frames').node = c
      BY <1>5, <2>1 DEF Last
    <2>3. c \in Met
      BY <2>1, TarjanFacts DEF n
    <2>4. lowlink' = [lowlink EXCEPT ![c] = Smaller(@, lowlink[d])]
      <3> HIDE DEF c
      <3> QED BY <1>2, <1>8, <2>2 DEF Return
    <2>5. /\ Smaller(lowlink[c], lowlink[d]) \in Nat /\ Smaller(lowlink[c], lowlink[d]) <= lowlink[c]
          /\ Smaller(lowlink[c], lowlink[d]) <= lowlink[d]
          /\ Smaller(lowlink[c], lowlink[d]) \in {lowlink[c], lowlink[d]}
      BY <1>6, <2>3 DEF Smaller
    <2> HIDE DEF c, d
    <2>6. /\ lowlink'[c] = Smaller(lowlink[c], lowlink[d])
          /\ \A e \in Met : e # c => lowlink'[e] = lowlink[e]
      BY <1>6, <2>3, <2>4
    <2>7. lowlink' \in [Met -> Nat]
      BY <1>6, <2>3, <2>4, <2>5
    <2>8. \A e \in Met : /\ lowlink'[e] <= lowlink[e]
                         /\ lowlink'[e] # lowlink[e] => e = c /\ lowlink'[e] = lowlink[d]
      BY <1>6, <2>5, <2>6
    <2> QED BY <1>1, <1>4, <1>5, <2>1, <2>5, <2>6, <2>7, <2>8 DEF n, c, d
  <1> QED BY <1>7, <1>8

\* strongConnect ends with a rule that is in a circle with one of an earlier call.
LEMMA ReturnOfOther ==
    ASSUME MetInv, FoundInv, PathInv, LowInv, Return,
           lowlink[frames[Len(frames)].node] # index[frames[Len(frames)].node]
    PROVE  MetInv' /\ FoundInv' /\ PathInv' /\ LowInv'
  <1> DEFINE n == Len(frames)
             d == frames[n].node
  <1>1. /\ n \in Nat /\ n # 0 /\ n \in 1 .. n /\ frames[n].left = {}
        /\ frames' \in Seq(Frame) /\ DOMAIN frames' = 1 .. n - 1
        /\ \A k \in 1 .. n - 1 : k \in 1 .. n /\ frames'[k] = frames[k]
        /\ lowlink' \in [Met -> Nat] /\ index' = index
        /\ \A e \in Met : /\ lowlink'[e] <= lowlink[e]
                          /\ lowlink'[e] # lowlink[e] =>
                                n - 1 \in 1 .. n /\ e = frames[n - 1].node /\ lowlink'[e] = lowlink[d]
        /\ n - 1 \in 1 .. n - 1 => lowlink'[frames[n - 1].node] <= lowlink[d]
    BY ReturnFacts
  <1>2. /\ DOMAIN frames = 1 .. n /\ On \subseteq Met
        /\ \A e \in Met : index[e] \in Nat /\ lowlink[e] \in Nat /\ lowlink'[e] \in Nat
        /\ \A k \in 1 .. n : /\ frames[k].node \in On /\ frames[k].node \in Met
                             /\ frames[k].left \subseteq DerivedChildren(frames[k].node)
                             /\ index[frames[k].node] <= index[d]
    BY <1>1, TarjanFacts
  <1>3. path' = path /\ sccs' = sccs /\ walked' = walked
    BY DEF Return, callVars, Last
  <1>4. Met' = Met /\ On' = On /\ Frame' = Frame
    BY <1>1, <1>3 DEF Met, On, Frame
  <1>5. /\ \A m : DerivedChildren(m)' = DerivedChildren(m)
        /\ \A x, y : Leads(x, y)' <=> Leads(x, y)
    BY <1>3, SameWays
  <1>6. FoundInv' /\ Done' = Done
    BY <1>3, FoundStays
  <1>7. /\ \A m : Leads(m, m)
        /\ \A x, y, z : Leads(x, y) /\ Leads(y, z) => Leads(x, z)
    BY LeadsFacts DEF MetInv
  <1>8. \A k, l \in 1 .. n : k < l => index[frames[k].node] < index[frames[l].node]
    BY CallsDiffer
  <1>9. PICK low \in On : index[low] = lowlink[d] /\ index[low] <= index[d] /\ Leads(d, low)
    BY <1>1, <1>2 DEF LowInv
  <1>10. index[low] < index[d]
    BY <1>1, <1>2, <1>9
  <1>11. PICK back \in 1 .. n : index[frames[back].node] <= index[low] /\ Leads(low, frames[back].node)
    BY <1>2 DEF PathInv
  <1>12. back \in 1 .. n - 1 /\ Leads(d, frames[back].node) /\ index[frames[back].node] < index[d]
    <2>1. index[frames[back].node] < index[d]
      BY <1>1, <1>2, <1>10, <1>11
    <2>2. back # n
      <3>1. index[d] \in Nat
        BY <1>1, <1>2
      <3> QED BY <2>1, <3>1
    <2>3. Leads(d, frames[back].node)
      BY <1>7, <1>9, <1>11
    <2> HIDE DEF n, d
    <2> QED BY <1>1, <2>1, <2>2, <2>3
  <1>13. n - 1 \in 1 .. n - 1 /\ n - 1 \in 1 .. n /\ (n - 1) + 1 = n
    BY <1>1, <1>12
  <1>14. \A k \in 1 .. n : k = n \/ k \in 1 .. n - 1
    BY <1>1
  <1>15. MetInv'
    <2>1. \A k \in 1 .. n - 1 : frames'[k].node \in On /\ frames'[k].left \subseteq DerivedChildren(frames'[k].node)
      BY <1>1, <1>2
    <2>2. \A k, l \in 1 .. n - 1 : k < l => index[frames'[k].node] < index[frames'[l].node]
      BY <1>1, <1>8
    <2> HIDE DEF n, d
    <2> QED BY <1>1, <1>3, <1>4, <1>5, <1>6, <2>1, <2>2 DEF MetInv
  <1>16. PathInv'
    <2>1. \A k \in 1 .. n - 1 : \A y \in On : index[frames'[k].node] <= index[y] => Leads(frames'[k].node, y)
      BY <1>1, <1>2 DEF PathInv
    <2>2. ASSUME NEW y \in On
          PROVE  \E k \in 1 .. n - 1 : index[frames'[k].node] <= index[y] /\ Leads(y, frames'[k].node)
      <3>1. PICK k \in 1 .. n : index[frames[k].node] <= index[y] /\ Leads(y, frames[k].node)
        BY <1>2 DEF PathInv
      <3>2. CASE k \in 1 .. n - 1
        BY <1>1, <3>1, <3>2
      <3>3. CASE k = n
        <4>1. Leads(y, frames[back].node)
          BY <1>7, <1>12, <3>1, <3>3
        <4>2. index[frames[back].node] <= index[y]
          <5>1. /\ index[frames[back].node] \in Nat /\ index[d] \in Nat /\ index[y] \in Nat
                /\ index[d] <= index[y]
            BY <1>1, <1>2, <3>1, <3>3
          <5> QED BY <1>12, <5>1
        <4> HIDE DEF n, d
        <4> QED BY <1>1, <1>12, <4>1, <4>2
      <3> QED BY <1>14, <3>2, <3>3
    <2>3. ASSUME NEW x \in On, NEW y \in DerivedChildren(x), y \notin Met
          PROVE  \E k \in 1 .. n - 1 : x = frames'[k].node /\ y \in frames'[k].left
      <3>1. PICK k \in 1 .. n : x = frames[k].node /\ y \in frames[k].left
        BY <1>2, <2>3 DEF PathInv
      <3> QED BY <1>1, <1>14, <3>1
    <2> HIDE DEF n, d
    <2> QED BY <1>1, <1>4, <1>5, <2>1, <2>2, <2>3 DEF PathInv
  <1>17. ASSUME NEW k \in 1 .. n - 1
         PROVE  \E y \in On : /\ index[y] = lowlink'[frames'[k].node] /\ index[y] <= index[frames'[k].node]
                              /\ Leads(frames'[k].node, y)
    <2>1. PICK y \in On : /\ index[y] = lowlink[frames[k].node] /\ index[y] <= index[frames[k].node]
                          /\ Leads(frames[k].node, y)
      BY <1>1, <1>2 DEF LowInv
    <2>2. CASE lowlink'[frames[k].node] = lowlink[frames[k].node]
      BY <1>1, <2>1, <2>2
    <2>3. CASE lowlink'[frames[k].node] # lowlink[frames[k].node]
      <3>1. lowlink'[frames[k].node] = lowlink[d] /\ lowlink'[frames[k].node] <= lowlink[frames[k].node]
        BY <1>1, <1>2, <2>3
      <3>2. Leads(frames[k].node, d)
        <4>1. k \in 1 .. n /\ d \in On /\ index[frames[k].node] <= index[d]
          BY <1>1, <1>2
        <4> QED BY <1>2, <4>1 DEF PathInv
      <3>3. Leads(frames[k].node, low)
        BY <1>7, <1>9, <3>2
      <3>4. index[low] <= index[frames[k].node]
        BY <1>1, <1>2, <1>9, <2>1, <3>1
      <3>5. frames'[k] = frames[k]
        BY <1>1
      <3> HIDE DEF n, d
      <3> QED BY <1>9, <3>1, <3>3, <3>4, <3>5
    <2> QED BY <2>2, <2>3
  <1>18. ASSUME NEW k \in 1 .. n - 1, NEW x \in On, index[frames'[k].node] <= index[x],
                k + 1 \in 1 .. n - 1 => index[x] < index[frames'[k + 1].node],
                NEW y \in DerivedChildren(x), y \in On
         PROVE  lowlink'[frames'[k].node] <= index[y] \/ (x = frames'[k].node /\ y \in frames'[k].left)
    <2>1. /\ k \in 1 .. n /\ frames'[k] = frames[k] /\ frames[k].node \in Met
          /\ index[x] \in Nat /\ index[y] \in Nat /\ index[d] \in Nat
          /\ lowlink[frames[k].node] \in Nat /\ lowlink'[frames[k].node] \in Nat
          /\ lowlink'[frames[k].node] <= lowlink[frames[k].node] /\ lowlink[d] \in Nat
      BY <1>1, <1>2, <1>18
    <2>2. CASE k + 1 \in 1 .. n - 1 \/ index[x] < index[d]
      <3>1. ASSUME k + 1 \in 1 .. n PROVE index[x] < index[frames[k + 1].node]
        <4>1. CASE k + 1 \in 1 .. n - 1
          BY <1>1, <1>18, <4>1
        <4>2. CASE k + 1 = n
          <5>1. k + 1 \notin 1 .. n - 1
            BY <1>1, <4>2
          <5> QED BY <2>2, <4>2, <5>1
        <4> QED BY <1>14, <3>1, <4>1, <4>2
      <3>2. InBlock(k, x)
        BY <1>2, <1>18, <2>1, <3>1 DEF InBlock
      <3>3. lowlink[frames[k].node] <= index[y] \/ (x = frames[k].node /\ y \in frames[k].left)
        BY <1>2, <1>18, <2>1, <3>2 DEF LowInv
      <3> QED BY <2>1, <3>3
    <2>3. CASE k + 1 \notin 1 .. n - 1 /\ index[d] <= index[x]
      <3>1. k = n - 1
        BY <1>1, <2>3
      <3>2. n + 1 \notin 1 .. n
        BY <1>1
      <3>3. InBlock(n, x)
        BY <1>2, <2>3, <3>2 DEF InBlock
      <3>4. lowlink[d] <= index[y]
        BY <1>1, <1>2, <1>18, <3>3 DEF LowInv
      <3>5. lowlink'[frames[k].node] <= lowlink[d]
        BY <1>1, <3>1
      <3> HIDE DEF n, d
      <3> QED BY <2>1, <3>4, <3>5
    <2> HIDE DEF n, d
    <2> QED BY <2>1, <2>2, <2>3
  <1>19. LowInv'
    <2> HIDE DEF n, d
    <2> QED BY <1>1, <1>4, <1>5, <1>17, <1>18 DEF LowInv, InBlock
  <1> QED BY <1>6, <1>15, <1>16, <1>19

\* The rules in a circle with one of a circle are the same.
LEMMA AlikeIsClass ==
    ASSUME RuleGraph(walked), NEW d, NEW e \in Alike(d), d \in walked.derived
    PROVE  Alike(e) = Alike(d)
  <1>1. \A x, y, z : Leads(x, y) /\ Leads(y, z) => Leads(x, z)
    BY LeadsFacts
  <1> QED BY <1>1 DEF Alike

\* What is above the first rule of a circle on the stack is the circle: every rule there leads
\* to the first one, and none leads out but to components that have been found.
LEMMA ComponentIsCircle ==
    ASSUME MetInv, FoundInv, PathInv, LowInv, frames # <<>>, frames[Len(frames)].left = {},
           lowlink[frames[Len(frames)].node] = index[frames[Len(frames)].node]
    PROVE  LET d == frames[Len(frames)].node
               component == {x \in On : index[d] <= index[x]}
           IN  /\ component = Alike(d) /\ d \in component /\ d \notin Done
               /\ \A x \in component : DerivedChildren(x) \subseteq Done \cup component
  <1> DEFINE n == Len(frames)
             d == frames[n].node
             component == {x \in On : index[d] <= index[x]}
  <1>1. n \in Nat /\ n # 0 /\ n \in 1 .. n /\ n + 1 \notin 1 .. n
    <2>1. n \in Nat /\ n # 0
      BY EmptySeq DEF MetInv
    <2> QED BY <2>1
  <1>2. /\ DOMAIN frames = 1 .. n /\ On \subseteq Met /\ On \subseteq walked.derived
        /\ \A e \in Met : index[e] \in Nat
        /\ \A k \in 1 .. n : /\ frames[k].node \in On /\ frames[k].node \in Met
                             /\ index[frames[k].node] <= index[d]
        /\ d \in On /\ index[d] \in Nat
    BY <1>1, TarjanFacts
  <1>3. d \in component /\ d \notin Done /\ Done \cup On = Met /\ Met \subseteq walked.derived
    BY <1>2 DEF MetInv
  <1>4. /\ \A m : Leads(m, m)
        /\ \A x : \A y \in DerivedChildren(x) : Leads(x, y) /\ y \in walked.derived
        /\ \A x, y, z : Leads(x, y) /\ Leads(y, z) => Leads(x, z)
        /\ \A X \in SUBSET walked.derived : (\A x \in X : DerivedChildren(x) \subseteq X) =>
               \A x \in X : \A y \in walked.derived : Leads(x, y) => y \in X
    BY LeadsFacts DEF MetInv
  <1>5. ASSUME NEW x \in component, NEW y \in DerivedChildren(x) PROVE y \in Done \cup component
    <2>1. x \in On /\ index[d] <= index[x] /\ index[x] \in Nat
      BY <1>2
    <2>2. ASSUME NEW k \in 1 .. n, x = frames[k].node, y \in frames[k].left PROVE FALSE
      <3>1. k # n
        BY <2>2
      <3>2. k < n
        BY <1>1, <3>1
      <3>3. index[frames[k].node] < index[d]
        BY <1>1, <3>2, CallsDiffer
      <3> QED BY <1>2, <2>1, <2>2, <3>3
    <2>3. y \in Met
      BY <1>2, <2>1, <2>2 DEF PathInv
    <2>4. CASE y \in On
      <3>1. InBlock(n, x)
        BY <1>1, <1>2, <2>1 DEF InBlock
      <3>2. lowlink[d] <= index[y]
        BY <1>1, <1>2, <2>1, <2>4, <3>1 DEF LowInv
      <3> QED BY <2>4, <3>2
    <2> QED BY <1>3, <2>3, <2>4
  <1>6. ASSUME NEW x \in Done PROVE DerivedChildren(x) \subseteq Done
    <2>1. PICK a \in DOMAIN sccs : x \in sccs[a]
      BY DEF Done, ToSet
    <2>2. DerivedChildren(x) \subseteq UNION {sccs[b] : b \in 1 .. a}
      BY <2>1 DEF FoundInv
    <2>3. \A b \in 1 .. a : b \in DOMAIN sccs
      BY <2>1 DEF MetInv
    <2> QED BY <2>2, <2>3 DEF Done, ToSet
  <1>7. Done \subseteq walked.derived /\ Done \cup component \subseteq walked.derived
    BY <1>2, <1>3
  <1> HIDE DEF component, d, n
  <1>8. \A e \in component : Leads(d, e)
    BY <1>1, <1>2 DEF component, PathInv, d
  <1>9. \A e \in component : Leads(e, d)
    <2>1. TAKE e \in component
    <2>2. e \in On
      BY DEF component
    <2>3. PICK k \in 1 .. n : Leads(e, frames[k].node)
      BY <1>2, <2>2 DEF PathInv
    <2>4. Leads(frames[k].node, d)
      BY <1>2 DEF PathInv
    <2> QED BY <1>4, <2>3, <2>4
  <1>10. ASSUME NEW e \in walked.derived, Leads(d, e), Leads(e, d) PROVE e \in component
    <2>1. \A x \in Done \cup component : DerivedChildren(x) \subseteq Done \cup component
      BY <1>5, <1>6
    <2>2. e \in Done \cup component
      BY <1>3, <1>4, <1>7, <1>10, <2>1
    <2>3. e \notin Done
      BY <1>2, <1>3, <1>4, <1>6, <1>7, <1>10
    <2> QED BY <2>2, <2>3
  <1>11. component = Alike(d)
    BY <1>7, <1>8, <1>9, <1>10 DEF Alike
  <1> QED BY <1>3, <1>5, <1>11 DEF component, d, n

\* strongConnect ends with the first rule of a circle: the circle is taken off the stack.
LEMMA ReturnOfRoot ==
    ASSUME MetInv, FoundInv, PathInv, LowInv, Return,
           lowlink[frames[Len(frames)].node] = index[frames[Len(frames)].node]
    PROVE  MetInv' /\ FoundInv' /\ PathInv' /\ LowInv'
  <1> DEFINE n == Len(frames)
             d == frames[n].node
             component == {x \in On : index[d] <= index[x]}
             m == Len(sccs)
  <1>1. /\ n \in Nat /\ n # 0 /\ n \in 1 .. n /\ frames[n].left = {}
        /\ frames' \in Seq(Frame) /\ DOMAIN frames' = 1 .. n - 1
        /\ \A k \in 1 .. n - 1 : k \in 1 .. n /\ frames'[k] = frames[k]
        /\ lowlink' \in [Met -> Nat] /\ index' = index
        /\ \A e \in Met : /\ lowlink'[e] <= lowlink[e]
                          /\ lowlink'[e] # lowlink[e] =>
                                n - 1 \in 1 .. n /\ e = frames[n - 1].node /\ lowlink'[e] = lowlink[d]
    BY ReturnFacts
  <1>2. /\ DOMAIN frames = 1 .. n /\ On \subseteq Met
        /\ \A e \in Met : index[e] \in Nat /\ lowlink[e] \in Nat /\ lowlink'[e] \in Nat
        /\ \A k \in 1 .. n : /\ frames[k].node \in On /\ frames[k].node \in Met
                             /\ frames[k].left \subseteq DerivedChildren(frames[k].node)
        /\ d \in On /\ d \in Met /\ index[d] \in Nat
    BY <1>1, TarjanFacts
  <1>3. walked' = walked /\ frames # <<>>
    BY DEF Return, callVars
  <1>4. Met' = Met /\ Frame' = Frame
    BY <1>1, <1>3 DEF Met, Frame
  <1>5. /\ \A x : DerivedChildren(x)' = DerivedChildren(x) /\ Alike(x)' = Alike(x)
        /\ \A x, y : Leads(x, y)' <=> Leads(x, y)
    BY <1>3, SameWays
  <1>6. /\ component = Alike(d) /\ d \in component /\ d \notin Done
        /\ \A x \in component : DerivedChildren(x) \subseteq Done \cup component
    BY <1>1, <1>3, ComponentIsCircle
  <1>7. /\ path' \in Seq(Met) /\ On' = {x \in On : index[x] < index[d]}
        /\ \A i, j \in DOMAIN path' : i < j => index[path'[i]] < index[path'[j]]
        /\ sccs' = Append(sccs, component)
    <2> DEFINE at == CHOOSE i \in DOMAIN path : path[i] = d
    <2>1. path' = SubSeq(path, 1, at - 1) /\ sccs' = Append(sccs, ToSet(SubSeq(path, at, Len(path))))
      BY DEF Return, Last
    <2>2. /\ index \in [Met -> Nat] /\ path \in Seq(Met) /\ at \in DOMAIN path /\ path[at] = d
          /\ \A i, j \in DOMAIN path : i < j => index[path[i]] < index[path[j]]
      <3>1. \E i \in DOMAIN path : path[i] = d
        BY <1>2 DEF On, ToSet
      <3> HIDE DEF d
      <3> QED BY <3>1 DEF MetInv
    <2> HIDE DEF d, n, at
    <2> DEFINE below == SubSeq(path, 1, at - 1)
               above == SubSeq(path, at, Len(path))
    <2>3. /\ below \in Seq(Met) /\ \A i, j \in DOMAIN below : i < j => index[below[i]] < index[below[j]]
          /\ \A x : x \in ToSet(below) <=> x \in ToSet(path) /\ index[x] < index[d]
          /\ \A x : x \in ToSet(above) <=> x \in ToSet(path) /\ index[d] <= index[x]
      BY <2>2, PathIsCut
    <2>4. path' = below /\ sccs' = Append(sccs, ToSet(above))
      BY <2>1
    <2> HIDE DEF below, above
    <2>5. ToSet(above) = component
      BY <2>3 DEF On
    <2>6. ToSet(below) = {x \in On : index[x] < index[d]}
      BY <2>3 DEF On
    <2> QED BY <2>3, <2>4, <2>5, <2>6 DEF On
  <1> HIDE DEF component
  <1>8. /\ sccs \in Seq(SUBSET Met) /\ m \in Nat /\ DOMAIN sccs = 1 .. m /\ component \in SUBSET Met
        /\ Done \cup On = Met /\ Done \cap On = {} /\ component = On \ On'
    <2>1. \A x \in On : index[x] \in Nat
      BY <1>2
    <2>2. component = On \ On'
      BY <1>2, <1>7, <2>1 DEF component
    <2> QED BY <1>2, <2>2 DEF MetInv
  <1>9. /\ sccs' \in Seq(SUBSET Met) /\ DOMAIN sccs' = 1 .. m + 1 /\ sccs'[m + 1] = component
        /\ \A a \in 1 .. m : sccs'[a] = sccs[a] /\ a \in 1 .. m + 1
        /\ ToSet(sccs') = ToSet(sccs) \cup {component} /\ IsInjective(sccs')
    <2>1. component \notin ToSet(sccs)
      BY <1>6 DEF Done
    <2>2. /\ Append(sccs, component) \in Seq(SUBSET Met)
          /\ ToSet(Append(sccs, component)) = ToSet(sccs) \cup {component}
          /\ IsInjective(Append(sccs, component)) /\ Len(Append(sccs, component)) = m + 1
          /\ Append(sccs, component)[m + 1] = component
          /\ \A i \in 1 .. m : Append(sccs, component)[i] = sccs[i]
      <3> DEFINE S == SUBSET Met
      <3>1. sccs \in Seq(S) /\ component \in S /\ IsInjective(sccs)
        BY <1>8 DEF FoundInv
      <3> HIDE DEF S
      <3>2. Append(sccs, component) \in Seq(S)
        BY <2>1, <3>1, AppendSet
      <3> QED BY <2>1, <3>1, <3>2, AppendSet DEF S
    <2> HIDE DEF m
    <2>3. DOMAIN sccs' = 1 .. m + 1 /\ \A a \in 1 .. m : a \in 1 .. m + 1
      BY <1>7, <1>8, <2>2
    <2> QED BY <1>7, <2>2, <2>3
  <1>10. Done' = Done \cup component
    BY <1>9 DEF Done
  <1>11. \A k, l \in 1 .. n : k < l => index[frames[k].node] < index[frames[l].node]
    BY CallsDiffer
  <1>12. \A k \in 1 .. n - 1 : /\ k \in 1 .. n /\ frames'[k] = frames[k] /\ k < n
                               /\ frames[k].node \in On' /\ index[frames[k].node] < index[d]
    BY <1>1, <1>2, <1>7, <1>11
  <1>13. \A k \in 1 .. n : k = n \/ k \in 1 .. n - 1
    BY <1>1
  <1>14. On' \subseteq On /\ \A x \in On' : index[x] < index[d] /\ index[x] \in Nat
    BY <1>2, <1>7
  <1>15. \A k \in 1 .. n - 1 : lowlink'[frames[k].node] = lowlink[frames[k].node]
    <2>1. SUFFICES ASSUME NEW k \in 1 .. n - 1, lowlink'[frames[k].node] # lowlink[frames[k].node]
                   PROVE  FALSE
      OBVIOUS
    <2>2. /\ lowlink'[frames[k].node] = index[d] /\ lowlink'[frames[k].node] <= lowlink[frames[k].node]
          /\ frames[k].node \in Met /\ lowlink[frames[k].node] \in Nat
          /\ index[frames[k].node] < index[d] /\ index[frames[k].node] \in Nat
      BY <1>1, <1>2, <1>12, <2>1
    <2>3. PICK y \in On : index[y] = lowlink[frames[k].node] /\ index[y] <= index[frames[k].node]
      BY <1>2, <1>12 DEF LowInv
    <2> QED BY <1>2, <2>2, <2>3
  <1>16. MetInv'
    <2>1. \A k \in 1 .. n - 1 : frames'[k].node \in On' /\ frames'[k].left \subseteq DerivedChildren(frames'[k].node)
      BY <1>2, <1>12
    <2>2. \A k, l \in 1 .. n - 1 : k < l => index[frames'[k].node] < index[frames'[l].node]
      BY <1>11, <1>12
    <2>3. Done' \cup On' = Met /\ Done' \cap On' = {}
      BY <1>8, <1>10, <1>14
    <2> HIDE DEF n, d, m
    <2> QED BY <1>1, <1>3, <1>4, <1>5, <1>7, <1>9, <2>1, <2>2, <2>3 DEF MetInv
  <1>17. FoundInv'
    <2>1. ASSUME NEW a \in 1 .. m + 1, NEW x \in sccs'[a]
          PROVE  /\ sccs'[a] = Alike(x)
                 /\ DerivedChildren(x) \subseteq UNION {sccs'[b] : b \in 1 .. a}
      <3>1. CASE a \in 1 .. m
        <4>1. sccs[a] = Alike(x) /\ DerivedChildren(x) \subseteq UNION {sccs[b] : b \in 1 .. a}
          BY <1>8, <1>9, <2>1, <3>1 DEF FoundInv
        <4>2. \A b \in 1 .. a : sccs'[b] = sccs[b]
          BY <1>8, <1>9, <3>1
        <4>3. UNION {sccs[b] : b \in 1 .. a} \subseteq UNION {sccs'[b] : b \in 1 .. a}
          BY <4>2
        <4> QED BY <1>9, <3>1, <4>1, <4>3
      <3>2. CASE a = m + 1
        <4>1. x \in component /\ sccs'[a] = component
          BY <1>9, <2>1, <3>2
        <4>2. component = Alike(x)
          BY <1>2, <1>6, <4>1, AlikeIsClass DEF MetInv
        <4>3. DerivedChildren(x) \subseteq Done'
          BY <1>6, <1>10, <4>1
        <4>4. Done' \subseteq UNION {sccs'[b] : b \in 1 .. a}
          BY <1>9, <3>2 DEF Done, ToSet
        <4> QED BY <4>1, <4>2, <4>3, <4>4
      <3>3. a \in 1 .. m \/ a = m + 1
        BY <1>8
      <3> QED BY <3>1, <3>2, <3>3
    <2>2. ASSUME NEW a \in 1 .. m + 1 PROVE sccs'[a] # {}
      <3>1. a \in 1 .. m => sccs[a] # {}
        BY <1>8 DEF FoundInv
      <3>2. a \in 1 .. m \/ a = m + 1
        BY <1>8
      <3> QED BY <1>6, <1>9, <3>1, <3>2
    <2> HIDE DEF n, d, m
    <2> QED BY <1>5, <1>9, <2>1, <2>2 DEF FoundInv
  <1>18. PathInv'
    <2>1. \A k \in 1 .. n - 1 : \A y \in On' : index[frames'[k].node] <= index[y] => Leads(frames'[k].node, y)
      BY <1>2, <1>12, <1>14 DEF PathInv
    <2>2. ASSUME NEW y \in On'
          PROVE  \E k \in 1 .. n - 1 : index[frames'[k].node] <= index[y] /\ Leads(y, frames'[k].node)
      <3>1. PICK k \in 1 .. n : index[frames[k].node] <= index[y] /\ Leads(y, frames[k].node)
        BY <1>2, <1>14 DEF PathInv
      <3>2. k # n
        <4>1. index[y] < index[d] /\ index[y] \in Nat
          BY <1>14
        <4>2. ~(index[d] <= index[y])
          BY <1>2, <4>1
        <4> QED BY <3>1, <4>2
      <3> QED BY <1>12, <1>13, <3>1, <3>2
    <2>3. ASSUME NEW x \in On', NEW y \in DerivedChildren(x), y \notin Met
          PROVE  \E k \in 1 .. n - 1 : x = frames'[k].node /\ y \in frames'[k].left
      <3>1. PICK k \in 1 .. n : x = frames[k].node /\ y \in frames[k].left
        BY <1>2, <1>14, <2>3 DEF PathInv
      <3>2. k # n
        BY <1>1, <3>1
      <3> QED BY <1>12, <1>13, <3>1, <3>2
    <2> HIDE DEF n, d, m
    <2> QED BY <1>1, <1>4, <1>5, <2>1, <2>2, <2>3 DEF PathInv
  <1>19. ASSUME NEW k \in 1 .. n - 1
         PROVE  \E y \in On' : /\ index[y] = lowlink'[frames'[k].node] /\ index[y] <= index[frames'[k].node]
                               /\ Leads(frames'[k].node, y)
    <2>1. PICK y \in On : /\ index[y] = lowlink[frames[k].node] /\ index[y] <= index[frames[k].node]
                          /\ Leads(frames[k].node, y)
      BY <1>2, <1>12 DEF LowInv
    <2>2. index[y] < index[d]
      <3>1. index[y] \in Nat /\ index[frames[k].node] \in Nat /\ index[frames[k].node] < index[d]
        BY <1>2, <1>12
      <3> QED BY <1>2, <2>1, <3>1
    <2>3. y \in On'
      BY <1>7, <2>2
    <2> QED BY <1>12, <1>15, <2>1, <2>3
  <1>20. ASSUME NEW k \in 1 .. n - 1, NEW x \in On', index[frames'[k].node] <= index[x],
                k + 1 \in 1 .. n - 1 => index[x] < index[frames'[k + 1].node],
                NEW y \in DerivedChildren(x), y \in On'
         PROVE  lowlink'[frames'[k].node] <= index[y] \/ (x = frames'[k].node /\ y \in frames'[k].left)
    <2>1. ASSUME k + 1 \in 1 .. n PROVE index[x] < index[frames[k + 1].node]
      BY <1>12, <1>13, <1>14, <1>20, <2>1
    <2>2. InBlock(k, x)
      BY <1>2, <1>12, <1>20, <2>1 DEF InBlock
    <2>3. lowlink[frames[k].node] <= index[y] \/ (x = frames[k].node /\ y \in frames[k].left)
      BY <1>2, <1>12, <1>14, <1>20, <2>2 DEF LowInv
    <2> QED BY <1>12, <1>15, <2>3
  <1>21. LowInv'
    <2> HIDE DEF n, d, m
    <2> QED BY <1>1, <1>4, <1>5, <1>19, <1>20 DEF LowInv, InBlock
  <1> QED BY <1>16, <1>17, <1>18, <1>21

\* Before and after the search for components.
NoneInv ==
    /\ frames = <<>> /\ path = <<>> /\ sccs = <<>>
    /\ index = [d \in {} |-> 0] /\ lowlink = index

\* During the search, and at any time.
CircleInv == MetInv /\ FoundInv /\ PathInv /\ LowInv
TarjanInv == IF job = "components" THEN CircleInv ELSE NoneInv

\* Nothing of it depends on anything else.
LEMMA CirclesStutter ==
    ASSUME CircleInv, walked' = walked, UNCHANGED tarjanVars
    PROVE  CircleInv'
  <1>1. frames' = frames /\ index' = index /\ lowlink' = lowlink /\ path' = path /\ sccs' = sccs
    BY DEF tarjanVars
  <1>2. Met' = Met /\ On' = On /\ Frame' = Frame
    BY <1>1 DEF Met, On, Frame
  <1>3. FoundInv' /\ Done' = Done
    BY <1>1, FoundStays DEF CircleInv
  <1>4. /\ \A m : DerivedChildren(m)' = DerivedChildren(m)
        /\ \A x, y : Leads(x, y)' <=> Leads(x, y)
    BY SameWays
  <1>5. MetInv'
    BY <1>1, <1>2, <1>3, <1>4 DEF CircleInv, MetInv
  <1>6. PathInv'
    BY <1>1, <1>2, <1>4 DEF CircleInv, PathInv
  <1>7. LowInv'
    BY <1>1, <1>2, <1>4 DEF CircleInv, LowInv, InBlock
  <1> QED BY <1>3, <1>5, <1>6, <1>7 DEF CircleInv

\* The search begins with nothing met.
LEMMA CirclesBegin ==
    ASSUME GraphInv, TarjanInv, Begin
    PROVE  TarjanInv'
  <1>1. NoneInv /\ job # "components"
    BY DEF TarjanInv, Begin
  <1>2. NoneInv'
    BY <1>1 DEF NoneInv, Begin, tarjanVars
  <1>3. CASE job' = "components"
    <2>1. walked' = Selected(graph, from') /\ from' \subseteq graph.nodes
      BY <1>3 DEF Begin
    <2>2. RuleGraph(walked')
      BY <2>1, SelectedIsRuleGraph, FS_Subset DEF GraphInv, RuleGraph, WellFormed
    <2>3. /\ frames' = <<>> /\ path' = <<>> /\ sccs' = <<>> /\ Met' = {}
          /\ index' \in [{} -> Nat] /\ lowlink' \in [{} -> Nat]
      BY <1>2 DEF NoneInv, Met
    <2>4. On' = {} /\ Done' = {} /\ ToSet(sccs') = {}
      BY <2>3 DEF On, Done, ToSet
    <2>5. IsInjective(sccs')
      BY <2>3 DEF IsInjective
    <2>6. MetInv'
      BY <2>2, <2>3, <2>4 DEF MetInv
    <2> QED BY <1>3, <2>3, <2>4, <2>5, <2>6 DEF TarjanInv, CircleInv, FoundInv, PathInv, LowInv
  <1> QED BY <1>2, <1>3 DEF TarjanInv

\* The loop over the rules begins with one that has not been met.
LEMMA CirclesStart ==
    ASSUME TarjanInv, StartComponent
    PROVE  TarjanInv'
  <1>1. CircleInv /\ job' = "components" /\ walked' = walked /\ sccs' = sccs /\ frames = <<>>
    BY DEF TarjanInv, StartComponent, callVars
  <1>2. PICK d \in walked.derived \ Met : Enter(d, frames)
    BY DEF StartComponent
  <1>3. frames \in Seq(Frame) /\ Len(frames) = 0
    BY <1>1 DEF CircleInv, MetInv
  <1>4. \A k \in 1 .. Len(frames) : FALSE
    BY <1>3
  <1> QED BY <1>1, <1>2, <1>3, <1>4, EnterKeeps DEF CircleInv, TarjanInv

\* The next child, met before or not, is looked at as it should be.
LEMMA CirclesLook ==
    ASSUME TarjanInv, LookAtChild
    PROVE  TarjanInv'
  <1> DEFINE n == Len(frames)
             top == frames[n]
  <1>1. frames # <<>> /\ job = "components"
    BY DEF TarjanInv, NoneInv, LookAtChild
  <1>2. CircleInv /\ job' = "components" /\ walked' = walked /\ sccs' = sccs
    BY <1>1 DEF TarjanInv, LookAtChild, callVars
  <1>3. PICK child \in top.left :
           LET rest == Front(frames) \o <<[top EXCEPT !.left = @ \ {child}]>> IN
           \/ /\ child \notin Met /\ Enter(child, rest)
           \/ /\ child \in Met /\ frames' = rest /\ UNCHANGED <<index, path>>
              /\ lowlink' = IF child \in ToSet(path)
                            THEN [lowlink EXCEPT ![top.node] = Smaller(@, index[child])]
                            ELSE lowlink
    BY DEF LookAtChild, Last
  <1> DEFINE r == [top EXCEPT !.left = @ \ {child}]
             rest == Front(frames) \o <<r>>
  <1>4. frames \in Seq(Frame) /\ n \in Nat /\ n # 0 /\ n \in 1 .. n
    <2>1. frames \in Seq(Frame) /\ n \in Nat /\ n # 0
      BY <1>1, <1>2, EmptySeq DEF CircleInv, MetInv
    <2> QED BY <2>1
  <1>5. /\ top \in Frame /\ top = [node |-> top.node, left |-> top.left]
        /\ top.left \subseteq DerivedChildren(top.node) /\ top.left \subseteq walked.derived
    BY <1>2, <1>4, TarjanFacts DEF CircleInv
  <1> HIDE DEF top
  <1>6. r = [node |-> top.node, left |-> top.left \ {child}] /\ r \in Frame
    <2>1. top.node \in Met /\ top.left \ {child} \subseteq walked.derived
      BY <1>5 DEF Frame
    <2>2. r = [node |-> top.node, left |-> top.left \ {child}]
      BY <1>5
    <2> HIDE DEF r
    <2> QED BY <2>1, <2>2 DEF Frame
  <1> HIDE DEF r
  <1>7. /\ rest \in Seq(Frame) /\ Len(rest) = n /\ rest[n] = r
        /\ \A i \in 1 .. n - 1 : rest[i] = frames[i]
    <2>1. r \in Frame
      BY <1>6
    <2> QED BY <1>1, <1>4, <2>1, LastReplaced
  <1>8. CASE child \notin Met /\ Enter(child, rest)
    <2>1. ASSUME NEW k \in 1 .. n
          PROVE  /\ rest[k].node = frames[k].node /\ rest[k].left \subseteq frames[k].left
                 /\ frames[k].left \subseteq rest[k].left \cup {child}
      <3>1. CASE k = n
        BY <1>6, <1>7, <3>1 DEF top
      <3>2. CASE k # n
        <4>1. k \in 1 .. n - 1
          BY <1>4, <3>2
        <4> QED BY <1>7, <4>1
      <3> QED BY <3>1, <3>2
    <2>2. child \in walked.derived \ Met /\ child \in DerivedChildren(frames[n].node)
      BY <1>3, <1>5, <1>8 DEF top
    <2> HIDE DEF rest
    <2> QED BY <1>2, <1>7, <1>8, <2>1, <2>2, EnterKeeps DEF CircleInv, TarjanInv
  <1>9. CASE /\ child \in Met /\ frames' = rest /\ UNCHANGED <<index, path>>
             /\ lowlink' = IF child \in On
                           THEN [lowlink EXCEPT ![top.node] = Smaller(@, index[child])]
                           ELSE lowlink
    <2>1. rest[n] = [node |-> frames[n].node, left |-> frames[n].left \ {child}]
      BY <1>6, <1>7 DEF top
    <2>2. child \in frames[n].left
      BY <1>3 DEF top
    <2> HIDE DEF rest
    <2>3. CircleInv'
      BY <1>1, <1>2, <1>7, <1>9, <2>1, <2>2, LookKeeps DEF CircleInv, top
    <2> QED BY <1>2, <2>3 DEF TarjanInv
  <1> QED BY <1>3, <1>8, <1>9 DEF On, r

\* strongConnect ends, with a component or without.
LEMMA CirclesReturn ==
    ASSUME TarjanInv, Return
    PROVE  TarjanInv'
  <1>1. CircleInv /\ job' = "components"
    BY DEF TarjanInv, NoneInv, Return, callVars
  <1>2. CircleInv'
    BY <1>1, ReturnOfRoot, ReturnOfOther DEF CircleInv
  <1> QED BY <1>1, <1>2 DEF TarjanInv

\* No search for components is going on at first.
LEMMA CirclesInit == QueryInit => TarjanInv
  BY DEF QueryInit, TarjanInv, NoneInv

\* Each step of the search keeps it sound, in whatever order the rules are taken.
LEMMA CirclesNext == GraphInv /\ TarjanInv /\ [QueryNext]_allVars => TarjanInv'
  <1> SUFFICES ASSUME GraphInv, TarjanInv, [QueryNext]_allVars PROVE TarjanInv'
    OBVIOUS
  <1>1. CASE UNCHANGED <<callVars, tarjanVars>>
    <2>1. job' = job /\ walked' = walked /\ UNCHANGED tarjanVars
      BY <1>1 DEF callVars
    <2>2. NoneInv => NoneInv'
      BY <2>1 DEF NoneInv, tarjanVars
    <2> QED BY <2>1, <2>2, CirclesStutter DEF TarjanInv
  <1>2. CASE Begin
    BY <1>2, CirclesBegin
  <1>3. CASE StartComponent
    BY <1>3, CirclesStart
  <1>4. CASE LookAtChild
    BY <1>4, CirclesLook
  <1>5. CASE Return
    BY <1>5, CirclesReturn
  <1>6. CASE Finish
    BY <1>6 DEF Finish, TarjanInv, NoneInv
  <1>7. CASE NextStart \/ Skip \/ Visit
    BY <1>1, <1>7 DEF NextStart, Skip, Visit
  <1>8. CASE UNCHANGED queryVars
    BY <1>1, <1>8 DEF queryVars
  <1> QED BY <1>2, <1>3, <1>4, <1>5, <1>6, <1>7, <1>8 DEF QueryNext, Query, allVars

\* When nothing is left, all components have been found, in order.
LEMMA CirclesInOrder == TarjanInv => ComponentsInOrder
  <1> SUFFICES ASSUME TarjanInv, Over, job = "components"
               PROVE  /\ ToSet(sccs) = {Alike(d) : d \in walked.derived}
                      /\ IsInjective(sccs)
                      /\ \A i, j \in DOMAIN sccs :
                            i < j => \A d \in getDerivedPredicatesSCCs[j], e \in getDerivedPredicatesSCCs[i] :
                                         ~Leads(d, e)
    BY DEF ComponentsInOrder, Alike, Leads
  <1> DEFINE m == Len(sccs)
  <1>1. MetInv /\ FoundInv /\ PathInv /\ frames = <<>> /\ walked.derived \subseteq Met
    BY DEF TarjanInv, CircleInv, Over
  <1>2. On = {}
    BY <1>1 DEF PathInv
  <1>3. Done = walked.derived
    BY <1>1, <1>2 DEF MetInv
  <1>4. sccs \in Seq(SUBSET Met) /\ m \in Nat /\ DOMAIN sccs = 1 .. m
    BY <1>1 DEF MetInv
  <1>5. \A a \in 1 .. m : /\ sccs[a] # {} /\ sccs[a] \subseteq walked.derived
                          /\ \A d \in sccs[a] : sccs[a] = Alike(d)
    BY <1>3, <1>4, <1>1 DEF FoundInv, Done, ToSet
  <1>6. ToSet(sccs) = {Alike(d) : d \in walked.derived}
    <2>1. \A a \in 1 .. m : \E d \in walked.derived : sccs[a] = Alike(d)
      BY <1>5
    <2>2. ASSUME NEW d \in walked.derived PROVE \E a \in 1 .. m : sccs[a] = Alike(d)
      <3>1. PICK a \in 1 .. m : d \in sccs[a]
        BY <1>3, <1>4 DEF Done, ToSet
      <3> QED BY <1>5, <3>1
    <2> QED BY <1>4, <2>1, <2>2 DEF ToSet
  <1>7. ASSUME NEW a \in 1 .. m, NEW b \in 1 .. m, a < b, NEW d \in sccs[a], NEW e \in sccs[b]
        PROVE  ~Leads(d, e)
    <2> DEFINE X == UNION {sccs[c] : c \in 1 .. a}
    <2>1. \A c \in 1 .. a : c \in 1 .. m /\ c <= a
      BY <1>4
    <2>2. \A c \in 1 .. a : 1 .. c \subseteq 1 .. a
      BY <1>4
    <2>3. ASSUME NEW x \in X PROVE DerivedChildren(x) \subseteq X
      <3>1. PICK c \in 1 .. a : x \in sccs[c]
        OBVIOUS
      <3>2. DerivedChildren(x) \subseteq UNION {sccs[f] : f \in 1 .. c}
        BY <1>1, <1>4, <2>1, <3>1 DEF FoundInv
      <3> QED BY <2>2, <3>2
    <2>4. d \in X /\ X \in SUBSET walked.derived /\ e \in walked.derived
      <3>1. a \in 1 .. a
        BY <1>4
      <3> QED BY <1>5, <2>1, <3>1
    <2> HIDE DEF X
    <2>5. Leads(d, e) => e \in X
      BY <1>1, <2>3, <2>4, LeadsFacts DEF MetInv
    <2>6. e \notin X
      <3>1. ASSUME NEW c \in 1 .. a, e \in sccs[c] PROVE FALSE
        <4>1. sccs[c] = sccs[b]
          BY <1>5, <2>1, <3>1
        <4>2. c = b
          BY <1>1, <1>4, <2>1, <4>1 DEF FoundInv, IsInjective
        <4> QED BY <1>4, <1>7, <2>1, <4>2
      <3> QED BY <3>1 DEF X
    <2> QED BY <2>5, <2>6
  <1>8. ASSUME NEW i \in 1 .. m, NEW j \in 1 .. m, i < j,
               NEW d \in getDerivedPredicatesSCCs[j], NEW e \in getDerivedPredicatesSCCs[i]
        PROVE  ~Leads(d, e)
    <2>1. \A k \in 1 .. m : getDerivedPredicatesSCCs[k] = sccs[m - k + 1]
      BY <1>4 DEF getDerivedPredicatesSCCs, Reverse
    <2>2. m - j + 1 \in 1 .. m /\ m - i + 1 \in 1 .. m /\ m - j + 1 < m - i + 1
      BY <1>4, <1>8
    <2> QED BY <1>7, <2>1, <2>2
  <1> QED BY <1>1, <1>4, <1>6, <1>8 DEF FoundInv

\* The components are the classes of rules that depend on one another, each found once, and
\* none is given out before one that its rules depend on: for every graph and every order of
\* its rules (computeSCCsTarjanDerivedPredicates, getDerivedPredicatesSCCs).
THEOREM ComponentsAreInOrder == QuerySpec => []ComponentsInOrder
  <1>1. QuerySpec => []GraphInv
    BY QueriesOnlyRead, GraphInvCorrect, PTL
  <1> QED BY <1>1, CirclesInit, CirclesNext, CirclesInOrder, PTL DEF QuerySpec
=============================================================================
