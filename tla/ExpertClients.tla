--------------------------- MODULE ExpertClients ---------------------------
(***************************************************************************)
(* A client of the problem expert, in C++ or in Python, with the node it   *)
(* calls and with other clients of that node.                              *)
(*                                                                         *)
(* The C++ client keeps a copy of the problem, from the topic "problem"    *)
(* and from the answers of get_problem, and the time of the last update it *)
(* knows of.  Its node is only spun inside its calls: messages wait in     *)
(* between, and the response may overtake them or be overtaken.            *)
(***************************************************************************)
EXTENDS ProblemExpert, ServiceCalls

CONSTANT MaxInbox   \* messages of each topic on their way to the client

VARIABLES
    inbox,          \* texts on "problem" that the client has not taken yet
    notices,        \* messages on "update_notify" that it has not taken yet
    cached,         \* cached_problem_ and where it came from, None if empty
    dated,          \* is update_time_ later than the last change
    exempt          \* history: the topics that the node leaves out, knowingly,
                    \* for a change since it published on them last

copyVars == <<inbox, notices, cached, dated, exempt>>

allVars == <<vars, callVars, copyVars>>

-----------------------------------------------------------------------------
(* The methods of ProblemExpertClient, in C++ *)

CppAddProblem == Modify("add_problem")
CppSetGoal == Modify("add_problem_goal")
CppAddInstance == Modify("add_problem_instance")
CppAddPredicate == Modify("add_problem_predicate")
CppAddFunction == Modify("add_problem_function")
CppClearGoal == Modify("remove_problem_goal")
CppClearKnowledge == Modify("clear_problem_knowledge")
CppRemoveInstance == Modify("remove_problem_instance")
CppRemovePredicate == Modify("remove_problem_predicate")
CppRemoveFunction == Modify("remove_problem_function")
CppUpdateFunction == Modify("update_problem_function")
CppGetInstances == Ask("get_problem_instances")
CppGetInstance == Ask("get_problem_instance")
CppGetPredicates == Ask("get_problem_predicates")
CppGetPredicate == Ask("get_problem_predicate")
CppGetFunctions == Ask("get_problem_functions")
CppGetFunction == Ask("get_problem_function")
CppGetGoal == Ask("get_problem_goal")
CppGetProblem == Ask("get_problem")
CppExistPredicate == Ask("exist_problem_predicate")
CppExistFunction == Ask("exist_problem_function")
CppIsGoalSatisfied == Ask("is_problem_goal_satisfied")

CppMethods ==
    {CppAddProblem, CppSetGoal, CppAddInstance, CppAddPredicate, CppAddFunction,
     CppClearGoal, CppClearKnowledge, CppRemoveInstance, CppRemovePredicate,
     CppRemoveFunction, CppUpdateFunction, CppGetInstances, CppGetInstance,
     CppGetPredicates, CppGetPredicate, CppGetFunctions, CppGetFunction,
     CppGetGoal, CppGetProblem, CppExistPredicate, CppExistFunction,
     CppIsGoalSatisfied}

(* The methods of ProblemExpertClient, in Python *)

py_add_problem == PyCall("add_problem")
py_add_problem_goal == PyCall("add_problem_goal")
py_add_problem_instance == PyCall("add_problem_instance")
py_add_problem_predicate == PyCall("add_problem_predicate")
py_add_problem_function == PyCall("add_problem_function")
py_get_problem_goal == PyCall("get_problem_goal")
py_get_problem_instance == PyCall("get_problem_instance")
py_get_problem_instances == PyCall("get_problem_instances")
py_get_problem_predicate == PyCall("get_problem_predicate")
py_get_problem_predicates == PyCall("get_problem_predicates")
py_get_problem_function == PyCall("get_problem_function")
py_get_problem_functions == PyCall("get_problem_functions")
py_get_problem == PyCall("get_problem")
py_remove_problem_goal == PyCall("remove_problem_goal")
py_clear_problem_knowledge == PyCall("clear_problem_knowledge")
py_remove_problem_instance == PyCall("remove_problem_instance")
py_remove_problem_predicate == PyCall("remove_problem_predicate")
py_remove_problem_function == PyCall("remove_problem_function")
py_exist_problem_predicate == PyCall("exist_problem_predicate")
py_exist_problem_function == PyCall("exist_problem_function")
py_update_problem_function == PyCall("update_problem_function")
py_is_problem_goal_satisfied == PyCall("is_problem_goal_satisfied")

PyMethods ==
    {py_add_problem, py_add_problem_goal, py_add_problem_instance,
     py_add_problem_predicate, py_add_problem_function, py_get_problem_goal,
     py_get_problem_instance, py_get_problem_instances, py_get_problem_predicate,
     py_get_problem_predicates, py_get_problem_function, py_get_problem_functions,
     py_get_problem, py_remove_problem_goal, py_clear_problem_knowledge,
     py_remove_problem_instance, py_remove_problem_predicate,
     py_remove_problem_function, py_exist_problem_predicate,
     py_exist_problem_function, py_update_problem_function,
     py_is_problem_goal_satisfied}

-----------------------------------------------------------------------------
(* The node *)

Callback(service) ==
    \/ service = "add_problem" /\ AddProblemCallback
    \/ service = "add_problem_goal" /\ AddProblemGoalCallback
    \/ service = "add_problem_instance" /\ AddProblemInstanceCallback
    \/ service = "add_problem_predicate" /\ AddProblemPredicateCallback
    \/ service = "add_problem_function" /\ AddProblemFunctionCallback
    \/ service = "remove_problem_goal" /\ RemoveProblemGoalCallback
    \/ service = "clear_problem_knowledge" /\ ClearProblemKnowledgeCallback
    \/ service = "remove_problem_instance" /\ RemoveProblemInstanceCallback
    \/ service = "remove_problem_predicate" /\ RemoveProblemPredicateCallback
    \/ service = "remove_problem_function" /\ RemoveProblemFunctionCallback
    \/ service = "update_problem_function" /\ UpdateProblemFunctionCallback
    \/ service = "exist_problem_predicate" /\ ExistProblemPredicateCallback
    \/ service = "is_problem_goal_satisfied" /\ IsProblemGoalSatisfiedCallback
    \/ /\ service \in {m.service : m \in Methods} /\ QueryCallback
       /\ \E m \in {CppGetInstances, CppGetInstance, CppGetPredicates,
                    CppGetPredicate, CppGetFunctions, CppGetFunction,
                    CppGetGoal, CppGetProblem, CppExistFunction} :
             service = m.service

\* Nothing is published while the node is not active, nor when a request
\* fails; the services that remove functions and set values publish no text.
LeftOut ==
    IF kb' = kb THEN {}
    ELSE IF state # "active" \/ outcome'.reply # "done"
    THEN {"problem", "update_notify"}
    ELSE IF [kb' EXCEPT !.functions = kb.functions] = kb THEN {"problem"} ELSE {}

\* The two topics, of a node that has just done a step.  The client's queues
\* hold 100 messages each; here it keeps up with MaxInbox.
Deliver ==
    LET text == "problem" \in outcome'.sent
        notice == "update_notify" \in outcome'.sent
    IN  /\ text => Len(inbox) < MaxInbox
        /\ notice => notices < MaxInbox
        /\ inbox' = IF text THEN Append(inbox, GetProblem(kb')) ELSE inbox
        /\ notices' = IF notice THEN notices + 1 ELSE notices
        /\ dated' = (dated /\ kb' = kb)
        /\ exempt' = (exempt \cup LeftOut) \ outcome'.sent
        /\ UNCHANGED cached

Response(service) ==
    [reply |-> outcome'.reply,
     text |-> IF service = CppGetProblem.service THEN GetProblem(kb') ELSE None]

Serve ==
    \E service \in {m.service : m \in Methods} :
        /\ Callback(service)
        /\ Deliver
        /\ Answered(service, Response(service))

\* Another client is served, or a request that this one has given up.
ServeAnother == found /\ Service /\ Deliver /\ UNCHANGED callVars

Transition ==
    /\ found
    /\ OnConfigure \/ OnActivate \/ OnDeactivate \/ OnCleanup \/ OnShutdown
    /\ Deliver
    /\ UNCHANGED callVars

-----------------------------------------------------------------------------
(* The client *)

Aside == UNCHANGED <<vars, copyVars>>

Call == Aside /\ \E m \in Methods : Begin(m)

\* spin_until_future_complete serves the subscriptions of the client's node.
Spinning == Calling("sent") \/ Calling("answered")

\* Mutant of ReceiveProblem: the first text is kept.
ReceiveProblemOnce ==
    /\ Spinning /\ inbox # <<>>
    /\ inbox' = Tail(inbox)
    /\ cached' = IF cached = None THEN [text |-> Head(inbox), by |-> "message"]
                 ELSE cached
    /\ UNCHANGED <<vars, callVars, notices, dated, exempt>>

ReceiveProblem ==
    /\ Spinning /\ inbox # <<>>
    /\ inbox' = Tail(inbox)
    /\ cached' = [text |-> Head(inbox), by |-> "message"]
    /\ UNCHANGED <<vars, callVars, notices, dated, exempt>>

ReceiveUpdate ==
    /\ Spinning /\ notices > 0
    /\ notices' = notices - 1
    /\ dated' = TRUE
    /\ UNCHANGED <<vars, callVars, inbox, cached, exempt>>

\* The response ends the call, whatever messages wait.
Complete ==
    /\ Return
    /\ dated' = (dated \/ (call.method.dates /\ call.answer.reply = "done"))
    /\ cached' = IF call.method = CppGetProblem /\ call.answer.reply = "done"
                 THEN [text |-> call.answer.text, by |-> "answer"] ELSE cached
    /\ UNCHANGED <<vars, inbox, notices, exempt>>

-----------------------------------------------------------------------------
ClientInit ==
    /\ Init /\ CallInit
    /\ inbox = <<>>
    /\ notices = 0
    /\ cached = None
    /\ dated = TRUE
    /\ exempt = {}

ClientNext ==
    \/ Aside /\ Appear
    \/ Aside /\ Send
    \/ Aside /\ NotAvailable
    \/ Aside /\ TimedOut
    \/ Call \/ Complete
    \/ Serve \/ ServeAnother \/ Transition
    \/ ReceiveProblem \/ ReceiveUpdate

\* Only the client's own steps are fair: its waits have timeouts.  The node
\* need not answer, nor anybody change its state.
ClientSpec ==
    /\ ClientInit /\ [][ClientNext]_allVars
    /\ WF_allVars(Aside /\ Appear)
    /\ WF_allVars(Aside /\ (Send \/ NotAvailable))
    /\ WF_allVars(Complete \/ (Aside /\ TimedOut))

-----------------------------------------------------------------------------
\* A client that has taken all its messages, the last thing it copied being
\* one of them, has the problem of the node: getProblem(true) is up to date
\* but for what the node leaves out.  An answer of get_problem may have been
\* overtaken by messages, and then stays (by = "answer").
CacheIsCurrent ==
    cached # None /\ inbox = <<>> /\ cached.by = "message" =>
        "problem" \in exempt \/ cached.text = GetProblem(kb)

\* getUpdateTime() is later than the last change, or a notice is on its way,
\* whichever methods of the client and requests of others come in between.
ChangesAreNoticed == dated \/ notices > 0 \/ "update_notify" \in exempt

\* The last text that was published is current, whether it waits or was taken.
LastTextIsCurrent ==
    IF inbox = <<>> THEN CacheIsCurrent
    ELSE "problem" \in exempt \/ inbox[Len(inbox)] = GetProblem(kb)

\* What the client's copy holds, the last text and the notices.
CopyInv ==
    /\ inbox \in Seq(ProblemTexts) /\ notices \in Nat /\ dated \in BOOLEAN
    /\ LastTextIsCurrent /\ ChangesAreNoticed
=============================================================================
