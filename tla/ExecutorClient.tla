--------------------------- MODULE ExecutorClient ---------------------------
(***************************************************************************)
(* A client of the action "execute_plan", in C++ (ExecutorClient, a thread *)
(* that calls its methods one after the other) or in Python (execute_plan, *)
(* one call that waits for the end), composed with the executor node of    *)
(* ExecutionCycle.  Goals that are not the client's are sent and cancelled *)
(* by others.                                                              *)
(*                                                                         *)
(* The client's node is only spun inside its methods: that is when the     *)
(* library delivers the answers to its goals and their results.  A request *)
(* that the client no longer waits for is served, and answered, all the    *)
(* same.                                                                   *)
(***************************************************************************)
EXTENDS ExecutionCycle, Sequences

CONSTANTS
    ClientGoals,    \* the goals that this client sends
    Languages       \* {"cpp"}, {"py"} or both: the client is one of them

ASSUME ClientAssumption == ClientGoals \subseteq Goals /\ Languages \subseteq {"cpp", "py"}

VARIABLES
    client,         \* the method under way, [at, goal]
    language,       \* the language of the client
    phase,          \* what the client knows of each of its goals
    requests,       \* its goals on their way to the server
    cancels,        \* its cancel requests on their way to the server
    goalHandler,    \* goal_handler_
    executingPlan,  \* executing_plan_
    available,      \* goal_result_available_
    result,         \* the goal that result_ is of
    preempted,      \* the goals whose result is PREEMPT
    lost            \* history: the goals that the client does not attend to

clientVars == <<client, language, phase, goalHandler, executingPlan, available,
                result, lost>>

allVars == <<vars, clientVars, requests, cancels, preempted>>

At(method) == client.at = method
Goes(method, g) == client' = [at |-> method, goal |-> g]

ClientInit ==
    /\ client = [at |-> "idle", goal |-> NoGoal]
    /\ language \in Languages
    /\ phase = [g \in ClientGoals |-> "unsent"]
    /\ requests = <<>>
    /\ cancels = {}
    /\ goalHandler = NoGoal
    /\ executingPlan = FALSE
    /\ available = FALSE
    /\ result = NoGoal
    /\ preempted = {}
    /\ lost = {}

Aside == UNCHANGED <<vars, preempted, language>>

OnlyTheCallChanges ==
    /\ Aside
    /\ UNCHANGED <<phase, requests, cancels, goalHandler, executingPlan, available,
                   result, lost>>

Lose(g) == lost' = lost \cup {g}

-----------------------------------------------------------------------------
(* Methods of the client in C++ *)

\* start_plan_execution: the goal is sent and its answer waited for, 3 seconds.
StartPlanExecution(g) ==
    /\ At("idle") /\ language = "cpp" /\ phase[g] = "unsent"
    /\ phase' = [phase EXCEPT ![g] = "asked"]
    /\ requests' = Append(requests, g)
    /\ Goes("sending", g)
    /\ Aside
    /\ UNCHANGED <<cancels, goalHandler, executingPlan, available, result, lost>>

\* "send_goal failed": the goal may be served all the same, now or later.
SendTimesOut ==
    /\ At("sending")
    /\ Goes("idle", NoGoal)
    /\ Lose(client.goal)
    /\ Aside
    /\ UNCHANGED <<phase, requests, cancels, goalHandler, executingPlan, available, result>>

\* execute_and_check_plan spins what there is, and then looks.
ExecuteAndCheckPlan ==
    /\ At("idle") /\ language = "cpp"
    /\ Goes("checking", NoGoal)
    /\ OnlyTheCallChanges

NotFinished ==
    /\ At("checking") /\ ~available
    /\ Goes("idle", NoGoal)
    /\ OnlyTheCallChanges

\* Mutant of Finished: a goal that was preempted is taken for the last one.
FinishedPreempted ==
    /\ At("checking") /\ available
    /\ executingPlan' = FALSE
    /\ available' = FALSE
    /\ Goes("idle", NoGoal)
    /\ Aside
    /\ UNCHANGED <<phase, requests, cancels, goalHandler, result, lost>>

\* The plan has finished, whichever goal the result is of.  A goal that is
\* preempted has been replaced, and the client goes on executing.
Finished ==
    /\ At("checking") /\ available
    /\ executingPlan' = (executingPlan /\ result \in preempted)
    /\ available' = FALSE
    /\ Goes("idle", NoGoal)
    /\ Aside
    /\ UNCHANGED <<phase, requests, cancels, goalHandler, result, lost>>

Forget ==
    /\ executingPlan' = FALSE
    /\ available' = FALSE
    /\ Goes("idle", NoGoal)

\* cancel_plan_execution, when nothing is executing.
NothingToCancel ==
    /\ At("idle") /\ language = "cpp" /\ ~executingPlan
    /\ Forget
    /\ Aside
    /\ UNCHANGED <<phase, requests, cancels, goalHandler, result, lost>>

\* should_cancel_goal spins what there is, and then looks.
CancelPlanExecution ==
    /\ At("idle") /\ language = "cpp" /\ executingPlan
    /\ Goes("stopping", NoGoal)
    /\ OnlyTheCallChanges

\* The status that the client knows of its goal is that of a message, which
\* may be late.  A goal whose result it has is over.
ShouldCancelGoal ==
    /\ At("stopping") /\ phase[goalHandler] = "known"
    /\ cancels' = cancels \cup {goalHandler}
    /\ Goes("cancelling", goalHandler)
    /\ Aside
    /\ UNCHANGED <<phase, requests, goalHandler, executingPlan, available, result, lost>>

ShouldNotCancelGoal ==
    /\ At("stopping")
    /\ phase[goalHandler] = "done" \/ goalState[goalHandler] # "EXECUTING"
    /\ Forget
    /\ Aside
    /\ UNCHANGED <<phase, requests, cancels, goalHandler, result, lost>>

\* The request is answered, however, or 3 seconds have passed: the client takes
\* the plan for cancelled.
CancelEnds ==
    /\ At("cancelling")
    /\ Forget
    /\ Lose(client.goal)
    /\ Aside
    /\ UNCHANGED <<phase, requests, cancels, goalHandler, result>>

\* The services of the executor: a call spins the node for a second at most.
Ask ==
    /\ At("idle") /\ language = "cpp"
    /\ Goes("asking", NoGoal)
    /\ OnlyTheCallChanges

AskEnds ==
    /\ At("asking")
    /\ Goes("idle", NoGoal)
    /\ OnlyTheCallChanges

-----------------------------------------------------------------------------
(* The call in Python *)

PyExecutePlan(g) ==
    /\ At("idle") /\ language = "py" /\ phase[g] = "unsent"
    /\ phase' = [phase EXCEPT ![g] = "asked"]
    /\ requests' = Append(requests, g)
    /\ Goes("py_sending", g)
    /\ Aside
    /\ UNCHANGED <<cancels, goalHandler, executingPlan, available, result, lost>>

\* The goal is accepted.  The loop that waits for its result spins the node once
\* and then calls rate.sleep(), which waits for a timer of the same node: nobody
\* else spins that node, and the sleep has no end.
PyAccepted(g) ==
    /\ client = [at |-> "py_sending", goal |-> g]
    /\ phase[g] = "asked" /\ goalState[g] # "UNSENT"
    /\ phase' = [phase EXCEPT ![g] = "known"]
    /\ Goes("py_sleeping", g)
    /\ Lose(g)
    /\ Aside
    /\ UNCHANGED <<requests, cancels, goalHandler, executingPlan, available, result>>

PyAsk ==
    /\ At("idle") /\ language = "py"
    /\ Goes("asking", NoGoal)
    /\ OnlyTheCallChanges

-----------------------------------------------------------------------------
(* Callbacks of the client, while its node is spun *)

Spinning ==
    client.at \in {"sending", "checking", "stopping", "cancelling", "asking"}

\* The answer to a goal: the library asks for its result, and the method that
\* waits for this answer returns.
GoalResponse(g) ==
    /\ Spinning /\ phase[g] = "asked" /\ goalState[g] # "UNSENT"
    /\ phase' = [phase EXCEPT ![g] = "known"]
    /\ IF client = [at |-> "sending", goal |-> g]
       THEN /\ goalHandler' = g
            /\ executingPlan' = TRUE
            /\ Goes("idle", NoGoal)
            /\ lost' = lost \cup ({goalHandler} \ {NoGoal})
                           \cup {h \in {g} : available /\ result \notin preempted}
       ELSE UNCHANGED <<goalHandler, executingPlan, client, lost>>
    /\ Aside
    /\ UNCHANGED <<requests, cancels, available, result>>

\* Mutant of ResultCallback: the identifiers are not compared.
ResultCallbackAny(g) ==
    /\ Spinning
    /\ phase[g] = "known" /\ goalState[g] \in Settled
    /\ phase' = [phase EXCEPT ![g] = "done"]
    /\ available' = TRUE
    /\ result' = g
    /\ Aside
    /\ UNCHANGED <<client, requests, cancels, goalHandler, executingPlan, lost>>

\* result_callback compares the identifiers through goal_handler_, which is
\* null if no start has succeeded yet.
ResultCallback(g) ==
    /\ Spinning
    /\ phase[g] = "known" /\ goalState[g] \in Settled
    /\ phase' = [phase EXCEPT ![g] = "done"]
    /\ IF goalHandler = g
       THEN available' = TRUE /\ result' = g
       ELSE UNCHANGED <<available, result>>
    /\ IF goalHandler = NoGoal THEN Goes("crashed", NoGoal) ELSE UNCHANGED client
    /\ Aside
    /\ UNCHANGED <<requests, cancels, goalHandler, executingPlan, lost>>

-----------------------------------------------------------------------------
(* The server *)

\* The result of a goal that REPLANNING aborts says that it was preempted.
Results ==
    preempted' = IF cycle = "abort" /\ cycle' # "abort"
                 THEN preempted \cup {currentGoal} ELSE preempted

\* handle_accepted, for a goal of the client when its request has come.
Accept(g) ==
    /\ HandleAccepted(g)
    /\ IF g \in ClientGoals
       THEN requests # <<>> /\ g = Head(requests) /\ requests' = Tail(requests)
       ELSE UNCHANGED requests
    /\ UNCHANGED cancels

\* handle_cancel accepts the cancel request of a goal or rejects it.
AcceptCancelRequest(g) ==
    /\ g \in ClientGoals => g \in cancels
    /\ HandleCancel(g)
    /\ cancels' = cancels \ {g}
    /\ UNCHANGED requests

RejectCancelRequest(g) ==
    /\ g \in cancels /\ SpinAt("wait", NoGoal)
    /\ executorState # "EXECUTING" \/ goalState[g] # "EXECUTING"
    /\ cancels' = cancels \ {g}
    /\ UNCHANGED <<vars, requests>>

Server ==
    /\ \/ /\ CycleStep \/ \E g \in Goals : SpinContinues(g)
          /\ UNCHANGED <<requests, cancels>>
       \/ \E g \in Goals : Accept(g) \/ AcceptCancelRequest(g) \/ RejectCancelRequest(g)
    /\ Results
    /\ UNCHANGED clientVars

-----------------------------------------------------------------------------
Callbacks == \E g \in ClientGoals : GoalResponse(g) \/ ResultCallback(g)

CppMethods ==
    \/ \E g \in ClientGoals : StartPlanExecution(g)
    \/ SendTimesOut
    \/ ExecuteAndCheckPlan \/ NotFinished \/ Finished
    \/ NothingToCancel \/ CancelPlanExecution
    \/ ShouldCancelGoal \/ ShouldNotCancelGoal \/ CancelEnds
    \/ Ask \/ AskEnds

PyMethods == PyAsk \/ \E g \in ClientGoals : PyExecutePlan(g) \/ PyAccepted(g)

ComposedNext == Server \/ Callbacks \/ CppMethods \/ PyMethods

ComposedInit == Init /\ ClientInit

\* The server is as fair as it is alone, and the spin thread comes to the goals
\* that are sent to it; it may always be busy with others before.
ComposedSpec ==
    /\ ComposedInit /\ [][ComposedNext]_allVars
    /\ Fairness
    /\ \A g \in ClientGoals : SF_allVars(Server /\ Accept(g))

-----------------------------------------------------------------------------
\* A goal of the client that is being executed is in its hand: the client will
\* hear of its end, and can cancel it.  The ways the code leaves to lose one: it
\* was not accepted in time and is executed all the same; the client has called
\* cancel_plan_execution, which does not look at the answer; it has replaced the
\* goal; execute_and_check_plan has taken the result of an older goal, unread or
\* come while this one was sent, for its end; the call in Python sleeps.
ExecutedIsInHand ==
    \A g \in ClientGoals :
        currentGoal = g /\ goalState[g] = "EXECUTING" /\ phase[g] # "asked" =>
            (goalHandler = g /\ executingPlan) \/ g \in lost

\* Every variable of the client has its type.
Methods == {"idle", "sending", "checking", "stopping", "cancelling", "asking", "py_sending",
            "py_sleeping", "crashed"}
ClientTypeOK ==
    /\ client \in [at : Methods, goal : ClientGoals \cup {NoGoal}]
    /\ language \in Languages
    /\ phase \in [ClientGoals -> {"unsent", "asked", "known", "done"}]
    /\ requests \in Seq(ClientGoals)
    /\ cancels \subseteq ClientGoals
    /\ goalHandler \in ClientGoals \cup {NoGoal}
    /\ executingPlan \in BOOLEAN /\ available \in BOOLEAN
    /\ result \in ClientGoals \cup {NoGoal}
    /\ preempted \subseteq Goals \cup {NoGoal}
    /\ lost \subseteq ClientGoals

\* What the client knows of a goal is true: the server has only what was sent, and
\* what it has answered it has.
PhaseIsTrue ==
    /\ \A i \in 1 .. Len(requests) : phase[requests[i]] # "unsent"
    /\ \A g \in ClientGoals :
           /\ phase[g] = "unsent" => goalState[g] = "UNSENT"
           /\ phase[g] = "known" => goalState[g] # "UNSENT"
           /\ phase[g] = "done" => goalState[g] \in Settled

\* A goal whose answer nobody waits for is lost, unless the client is gone.
UnansweredIsLost ==
    \A g \in ClientGoals :
        phase[g] = "asked" =>
            \/ g \in lost \/ At("crashed")
            \/ client.goal = g /\ client.at \in {"sending", "py_sending"}

\* A result that is taken for the end of the plan is that of the goal in hand, or
\* the goal in hand is lost.
ResultIsOfHandler ==
    available => /\ result \in ClientGoals /\ phase[result] = "done"
                 /\ result \in preempted \/ result = goalHandler \/ goalHandler \in lost

\* A call that has a goal has it until it returns, and a plan that is executed has a
\* handle.
CallHasGoal ==
    /\ client.at \in {"sending", "py_sending"} => client.goal \in ClientGoals
    /\ executingPlan \/ At("stopping") \/ At("cancelling") => goalHandler \in ClientGoals
    /\ At("cancelling") => client.goal = goalHandler

\* ExecutedIsInHand, whichever goal is the current one.
KnownIsInHand ==
    \A g \in ClientGoals :
        phase[g] = "known" /\ goalState[g] = "EXECUTING" =>
            (goalHandler = g /\ executingPlan) \/ g \in lost

ClientInv ==
    /\ GoalInv /\ ClientTypeOK /\ PhaseIsTrue /\ UnansweredIsLost /\ ResultIsOfHandler
    /\ CallHasGoal /\ KnownIsInHand

\* While a client waits in execute_and_check_plan for a plan of which it has the
\* handle, trees that end, and a client that goes on asking, bring it the result.
TreesEnd == WF_vars(TreeSucceeds \/ TreeFails)

KeepsAsking ==
    /\ WF_allVars(ExecuteAndCheckPlan) /\ WF_allVars(NotFinished)
    /\ \A g \in ClientGoals : SF_allVars(ResultCallback(g))

StartedIsReported ==
    TreesEnd /\ KeepsAsking =>
        \A g \in ClientGoals :
            goalHandler = g /\ phase[g] = "known" ~>
                \/ phase[g] = "done" \/ goalHandler # g
                \/ Wedged \/ cycle = "crashed"
                \/ client.at # "checking" /\ client.at # "idle"
=============================================================================
