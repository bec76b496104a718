------------------------------ MODULE PlanTree ------------------------------
(***************************************************************************)
(* The execution of a plan by the behavior tree SimpleBTBuilder makes.     *)
(*                                                                         *)
(* Every action of the plan has a subtree                                  *)
(*   WaitAction for each arc in, WaitAtStartReq, ApplyAtStartEffect,       *)
(*   ReactiveSequence(CheckOverAllReq, ExecuteAction),                     *)
(*   CheckAtEndReq, ApplyAtEndEffect                                       *)
(* and below it, in a Sequence or a Parallel, the subtrees of the nodes    *)
(* its arcs lead to.  A tick visits the subtrees in the order of the tree. *)
(* The tick of one subtree is one step: only performers act between two of *)
(* its leaves, and no leaf before ExecuteAction and after WaitAction looks *)
(* at them.  CheckOverAllReq checks at every tick: the ReactiveSequence    *)
(* resets it, so the test of the time of the last check never applies.     *)
(*                                                                         *)
(* The executors are what ActionHub is about; here they are what           *)
(* get_status says of them.  Nobody else changes the problem.              *)
(***************************************************************************)
EXTENDS PlanGraph

CONSTANTS
    Plans,       \* the plans a client may ask for
    Initially    \* the predicates of the problem when a plan arrives

VARIABLES
    plan,        \* the plan that is executed
    graph,       \* the graph of SimpleBTBuilder, before prune_forward
    tree,        \* the subtrees in the order of a tick, and what each is below
    known,       \* the predicates of the problem
    stage,       \* how far the subtree of each action has come
    status,      \* get_status of the executor of each action
    cursor,      \* the subtree that is ticked next, as an index of the order
    result       \* the status of the tree, NONE if there is no tree

treeVars == <<plan, graph, tree>>
vars == <<treeVars, known, stage, status, cursor, result>>

Status == {"IDLE", "RUNNING", "SUCCESS", "FAILURE"}

\* get_tree_from_plan: there is no tree to tick if there is no graph.
FirstResult(g) == IF g.met THEN "RUNNING" ELSE "NONE"

Init ==
    /\ plan \in Plans
    /\ graph = GraphOf(plan, Initially)
    /\ tree = TreeOf(graph)
    /\ known = Initially
    /\ stage = [n \in DOMAIN plan |-> "waiting"]
    /\ status = [n \in DOMAIN plan |-> "IDLE"]
    /\ cursor = 1
    /\ result = FirstResult(graph)

-----------------------------------------------------------------------------
InTree == ToSet(tree.order)

IsFinished(n) == status[n] \in {"SUCCESS", "FAILURE"}

\* Mutant of AllDone: the Parallel counts the actions of the plan.
AllDoneOfPlan(stages) == \A n \in DOMAIN plan : stages[n] = "done"

AllDone(stages) == \A n \in InTree : stages[n] = "done"

OverAllHolds(n, state) == ToSet(plan[n].overAll) \subseteq state

\* The tick has come to the subtree of n, which has not succeeded before.
Ticks(n) ==
    /\ result = "RUNNING"
    /\ tree.order[cursor] = n
    /\ \A m \in tree.parent[n] : stage[m] = "done"
    /\ stage[n] # "done"

\* A tick starts again at the root when the one before is over.
Advance == cursor' = (cursor % Len(tree.order)) + 1

\* Subtrees that are not reached yet, or have succeeded, are not ticked.
Skip ==
    /\ result = "RUNNING"
    /\ ~Ticks(tree.order[cursor])
    /\ Advance
    /\ UNCHANGED <<treeVars, known, stage, status, result>>

\* WaitAction for every arc in, and WaitAtStartReq.
MayStart(n) ==
    /\ \A m \in ToSet(graph.in[n]) : IsFinished(m)
    /\ ToSet(plan[n].atStart) \subseteq known
    /\ OverAllHolds(n, known)

Wait(n) ==
    /\ Ticks(n)
    /\ stage[n] = "waiting"
    /\ ~MayStart(n)
    /\ Advance
    /\ UNCHANGED <<treeVars, known, stage, status, result>>

\* The first tick of ExecuteAction is part of the tick that applies the effects
\* at start, unless these contradict what the action requires over all.
Start(n) ==
    /\ Ticks(n)
    /\ stage[n] = "waiting"
    /\ MayStart(n)
    /\ known' = AtStart(known, plan[n])
    /\ stage' = [stage EXCEPT ![n] = "executing"]
    /\ IF OverAllHolds(n, known')
       THEN status' = [status EXCEPT ![n] = "RUNNING"] /\ UNCHANGED result
       ELSE result' = "FAILURE" /\ UNCHANGED status
    /\ Advance
    /\ UNCHANGED treeVars

KeepRunning(n) ==
    /\ Ticks(n)
    /\ stage[n] = "executing" /\ OverAllHolds(n, known) /\ status[n] = "RUNNING"
    /\ Advance
    /\ UNCHANGED <<treeVars, known, stage, status, result>>

\* One subtree that fails fails the tree: failure_count is 1.
Fail(n) ==
    /\ Ticks(n)
    /\ stage[n] = "executing"
    /\ \/ ~OverAllHolds(n, known)
       \/ status[n] = "FAILURE"
       \/ status[n] = "SUCCESS" /\ ~(ToSet(plan[n].atEnd) \subseteq known)
    /\ result' = "FAILURE"
    /\ UNCHANGED <<treeVars, known, stage, status, cursor>>

\* CheckAtEndReq and ApplyAtEndEffect; the tree succeeds with its last subtree.
Succeed(n) ==
    /\ Ticks(n)
    /\ stage[n] = "executing" /\ OverAllHolds(n, known) /\ status[n] = "SUCCESS"
    /\ ToSet(plan[n].atEnd) \subseteq known
    /\ known' = AtEnd(known, plan[n])
    /\ stage' = [stage EXCEPT ![n] = "done"]
    /\ result' = IF AllDone(stage') THEN "SUCCESS" ELSE result
    /\ Advance
    /\ UNCHANGED <<treeVars, status>>

\* The performer of an action finishes, at any time.
Perform(n, verdict) ==
    /\ status[n] = "RUNNING"
    /\ status' = [status EXCEPT ![n] = verdict]
    /\ UNCHANGED <<treeVars, known, stage, cursor, result>>

-----------------------------------------------------------------------------
Tick ==
    \/ Skip
    \/ \E n \in DOMAIN plan : Wait(n) \/ Start(n) \/ KeepRunning(n) \/ Fail(n) \/ Succeed(n)

Performers == \E n \in DOMAIN plan : Perform(n, "SUCCESS") \/ Perform(n, "FAILURE")

Next == Tick \/ Performers

Spec == Init /\ [][Next]_vars

\* The execution cycle goes on, and performers end the work they start.
FairSpec == Spec /\ WF_vars(Tick) /\ WF_vars(Performers)

-----------------------------------------------------------------------------
(* Properties.                                                             *)

Planned == InTree = DOMAIN plan

\* Some action that has started deletes the predicate.
IsDeleted(p) ==
    \E n \in DOMAIN plan :
        \/ stage[n] # "waiting" /\ p \in plan[n].startDel
        \/ stage[n] = "done" /\ p \in plan[n].endDel

\* A requirement the action lost since, or did not get yet.
Lacks(n, required) == \E p \in ToSet(required) \ known : IsDeleted(p)

\* SimpleBTBuilder runs actions out of the order of the plan, and side by side.
\* When a tree with all the actions succeeds, the problem is the same as after
\* the actions one by one: no effect is lost, repeated or undone.
GoalIfPlanned ==
    result = "SUCCESS" /\ Planned => known = FoldLeft(Apply, Initially, plan)

\* The arcs to a node are enough for its action: the state get_state finds for it has
\* all that the action requires.  And so the tree fails only if a performer did, or if
\* an action of the plan took away what another one, still executing, requires: never
\* because an action was started before what it requires was there.
FailureIsExplained ==
    /\ graph.met => \A n \in DOMAIN plan : IsExecutable(plan[n], graph.state[n])
    /\ result = "FAILURE" =>
           \E n \in InTree :
               /\ stage[n] = "executing"
               /\ status[n] = "FAILURE" \/ Lacks(n, plan[n].overAll \o plan[n].atEnd)

\* The tree comes to an end, unless WaitAtStartReq waits for a requirement that
\* another action has deleted: it has neither a timeout nor a way to fail.
EndsOrStarves ==
    <>(\/ result # "RUNNING"
       \/ [](\E n \in InTree :
                /\ stage[n] = "waiting"
                /\ Lacks(n, plan[n].atStart \o plan[n].overAll)))

=============================================================================
