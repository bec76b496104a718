------------------------------- MODULE Startup -------------------------------
(***************************************************************************)
(* The lifecycle manager: startup_function configures and activates the    *)
(* four nodes of the system one after the other, from a thread of its own, *)
(* by the services change_state and get_state of each node.  Nodes appear  *)
(* late, answer late or not at all, refuse, die and come back; somebody    *)
(* else may change their state as well, and the process may be shut down.  *)
(***************************************************************************)
EXTENDS Naturals, Sequences

CONSTANTS
    MaxFaults,      \* bound: how often a node dies or is changed by others
    NoRequest       \* a value that is no request

Nodes == {"planner", "domain_expert", "problem_expert", "executor"}
Transitions == {"CONFIGURE", "ACTIVATE", "DEACTIVATE", "CLEANUP"}

States == {"ABSENT", "UNCONFIGURED", "INACTIVE", "ACTIVE"}
Requests ==
    [node : Nodes, do : Transitions \cup {"until inactive", "look"},
     answer : States \cup {"none", "lost", "success", "failure"}]

ASSUME StartupAssumption == MaxFaults \in Nat /\ NoRequest \notin Requests

VARIABLES
    validates,      \* validate_using_planner_node of the domain expert
    lifecycle,      \* the state of each node, "ABSENT" when it does not run
    pc,             \* which step of startup_function is under way
    at,             \* "ready", "waiting", or "blocked" in get() after a timeout
    request,        \* the request of the manager, and its answer
    result,         \* what startup_function has returned
    ok,             \* rclcpp::ok() in the process of the manager
    faults,         \* how many faults there have been
    disturbed       \* history: nodes that others have changed, or that died

managerVars == <<pc, at, result>>
nodeVars    == <<lifecycle, faults, disturbed>>
vars == <<validates, ok, request, managerVars, nodeVars>>

\* startup_function, step by step.
Step(do, n) == [do |-> do, node |-> n]
Script == <<
    Step("CONFIGURE", "planner"),        Step("until inactive", "planner"),
    Step("CONFIGURE", "domain_expert"),  Step("until inactive", "domain_expert"),
    Step("CONFIGURE", "problem_expert"), Step("until inactive", "problem_expert"),
    Step("CONFIGURE", "executor"),       Step("until inactive", "executor"),
    Step("ok", "planner"),
    Step("ACTIVATE", "domain_expert"),   Step("ACTIVATE", "problem_expert"),
    Step("ACTIVATE", "planner"),         Step("ACTIVATE", "executor"),
    Step("look", "domain_expert"),       Step("look", "problem_expert"),
    Step("look", "planner"),             Step("look", "executor")>>

Runs == result = "running"
Does == Script[pc].do
Node == Script[pc].node
Changes == Does \in Transitions
Looks   == Does \in {"until inactive", "look"}

Init ==
    /\ validates \in BOOLEAN
    /\ lifecycle = [n \in Nodes |-> "ABSENT"]
    /\ pc = 1
    /\ at = "ready"
    /\ request = NoRequest
    /\ result = "running"
    /\ ok = TRUE
    /\ faults = 0
    /\ disturbed = {}

-----------------------------------------------------------------------------
(* The manager                                                             *)

Fails == result' = "false" /\ UNCHANGED <<pc, at>>

Proceeds ==
    /\ at' = "ready"
    /\ IF pc = Len(Script) THEN result' = "true" /\ UNCHANGED pc
       ELSE pc' = pc + 1 /\ UNCHANGED result

\* get_state has returned UNKNOWN: the node is waited for, or the start fails.
Unknown ==
    IF Does = "look" THEN Fails
    ELSE at' = "ready" /\ UNCHANGED <<pc, result>>

Sends ==
    /\ Runs /\ at = "ready" /\ (Changes \/ Looks)
    /\ lifecycle[Node] # "ABSENT" /\ ok
    /\ request' = [node |-> Node, do |-> Does, answer |-> "none"]
    /\ at' = "waiting"
    /\ UNCHANGED <<validates, ok, pc, result, nodeVars>>

\* wait_for_service gives up; at once when the process is shut down.
NoService ==
    /\ Runs /\ at = "ready" /\ (Changes \/ Looks)
    /\ lifecycle[Node] = "ABSENT" \/ ~ok
    /\ IF Changes THEN Fails ELSE Unknown
    /\ UNCHANGED <<validates, ok, request, nodeVars>>

CheckOk ==
    /\ Runs /\ at = "ready" /\ Does = "ok"
    /\ IF ok THEN Proceeds ELSE Fails
    /\ UNCHANGED <<validates, ok, request, nodeVars>>

\* The answers are taken by the thread that spins until the process is shut down.
Answered == Runs /\ at = "waiting" /\ ok /\ request.answer \notin {"none", "lost"}

\* Mutant of ChangeAnswered: success is not looked at.
ChangeAnsweredAnyhow ==
    /\ Answered /\ Changes
    /\ Proceeds
    /\ UNCHANGED <<validates, ok, request, nodeVars>>

ChangeAnswered ==
    /\ Answered /\ Changes
    /\ IF request.answer = "success" THEN Proceeds ELSE Fails
    /\ UNCHANGED <<validates, ok, request, nodeVars>>

\* The node may do later what was asked for.
ChangeTimesOut ==
    /\ Runs /\ at = "waiting" /\ Changes
    /\ request.answer \in {"none", "lost"} \/ ~ok
    /\ Fails
    /\ UNCHANGED <<validates, ok, request, nodeVars>>

\* Configured nodes are asked until they are inactive; in the end a state is
\* enough, whichever it is.
StateAnswered ==
    /\ Answered /\ Looks
    /\ IF Does = "look" \/ request.answer = "INACTIVE" THEN Proceeds ELSE Unknown
    /\ UNCHANGED <<validates, ok, request, nodeVars>>

\* The timeout is looked at only after get(), which waits for the answer.
StateTimesOut ==
    /\ Runs /\ at = "waiting" /\ Looks
    /\ request.answer \in {"none", "lost"} \/ ~ok
    /\ at' = "blocked"
    /\ UNCHANGED <<validates, ok, request, pc, result, nodeVars>>

\* Mutant of LateState: the late answer is taken for nothing, and asked no more.
LateStateIgnored ==
    /\ Runs /\ at = "blocked" /\ ok /\ request.answer = "lost"
    /\ Unknown
    /\ UNCHANGED <<validates, ok, request, nodeVars>>

LateState ==
    /\ Runs /\ at = "blocked" /\ ok
    /\ request.answer \notin {"none", "lost"}
    /\ Unknown
    /\ UNCHANGED <<validates, ok, request, nodeVars>>

\* A signal ends the process: nothing is spun any more.
Shutdown ==
    /\ Runs /\ ok
    /\ ok' = FALSE
    /\ UNCHANGED <<validates, request, managerVars, nodeVars>>

-----------------------------------------------------------------------------
(* The nodes                                                               *)

From == [CONFIGURE |-> "UNCONFIGURED", ACTIVATE |-> "INACTIVE",
         DEACTIVATE |-> "ACTIVE", CLEANUP |-> "INACTIVE"]
To   == [CONFIGURE |-> "INACTIVE", ACTIVATE |-> "ACTIVE",
         DEACTIVATE |-> "INACTIVE", CLEANUP |-> "UNCONFIGURED"]

\* on_configure of the executor fails for want of a file of behavior trees.  Its other
\* callbacks succeed.
ExecutorFails(t) == t = "CONFIGURE"

\* on_configure of the domain expert fails for a bad domain.  If it asks the
\* planner it always fails: it waits in the only thread that could take the answer.
DomainFails(t) == t = "CONFIGURE"
DomainSucceeds(t) == t = "CONFIGURE" => ~validates

\* on_configure and on_activate of the others succeed, or end the process.
MayFail(n, t) ==
    \/ n = "executor" /\ ExecutorFails(t)
    \/ n = "domain_expert" /\ DomainFails(t)

MaySucceed(n, t) == n = "domain_expert" => DomainSucceeds(t)

Pending(n) ==
    /\ request # NoRequest
    /\ request.node = n /\ request.answer = "none"
    /\ lifecycle[n] # "ABSENT"

Succeeds(n) ==
    /\ Pending(n) /\ request.do \in Transitions
    /\ lifecycle[n] = From[request.do]
    /\ MaySucceed(n, request.do)
    /\ lifecycle' = [lifecycle EXCEPT ![n] = To[request.do]]
    /\ request' = [request EXCEPT !.answer = "success"]
    /\ UNCHANGED <<validates, ok, faults, disturbed, managerVars>>

\* The callback fails, or the transition is not one of this state.
Refuses(n) ==
    /\ Pending(n) /\ request.do \in Transitions
    /\ lifecycle[n] = From[request.do] => MayFail(n, request.do)
    /\ request' = [request EXCEPT !.answer = "failure"]
    /\ UNCHANGED <<validates, ok, nodeVars, managerVars>>

TellsState(n) ==
    /\ Pending(n) /\ request.do \notin Transitions
    /\ request' = [request EXCEPT !.answer = lifecycle[n]]
    /\ UNCHANGED <<validates, ok, nodeVars, managerVars>>

Appears(n) ==
    /\ lifecycle[n] = "ABSENT"
    /\ lifecycle' = [lifecycle EXCEPT ![n] = "UNCONFIGURED"]
    /\ UNCHANGED <<validates, ok, request, faults, disturbed, managerVars>>

Disturbs(n) ==
    /\ faults < MaxFaults
    /\ faults' = faults + 1
    /\ disturbed' = disturbed \cup {n}
    /\ UNCHANGED <<validates, ok, managerVars>>

\* The process of a node dies, and with it what it has been asked.
Dies(n) ==
    /\ lifecycle[n] # "ABSENT"
    /\ Disturbs(n)
    /\ lifecycle' = [lifecycle EXCEPT ![n] = "ABSENT"]
    /\ request' = IF Pending(n) THEN [request EXCEPT !.answer = "lost"] ELSE request

\* Somebody else changes the state of a node.
Operate(n, t) ==
    /\ lifecycle[n] = From[t]
    /\ Disturbs(n)
    /\ lifecycle' = [lifecycle EXCEPT ![n] = To[t]]
    /\ UNCHANGED request

-----------------------------------------------------------------------------
Manager ==
    \/ Sends \/ NoService \/ CheckOk \/ ChangeAnswered \/ ChangeTimesOut
    \/ StateAnswered \/ StateTimesOut \/ LateState

Serves(n) == Succeeds(n) \/ Refuses(n) \/ TellsState(n)

Next ==
    \/ Manager \/ Shutdown
    \/ \E n \in Nodes :
        \/ Serves(n) \/ Appears(n) \/ Dies(n)
        \/ \E t \in Transitions : Operate(n, t)

\* The thread of the manager goes on, and a node that runs serves its requests;
\* one that is asked for its state again and again answers in time at last.
Spec ==
    /\ Init /\ [][Next]_vars
    /\ WF_vars(Manager) /\ \A n \in Nodes : WF_vars(Serves(n))
    /\ \A n \in Nodes : SF_vars(at = "waiting" /\ TellsState(n))

-----------------------------------------------------------------------------
(* Properties                                                              *)

\* At any time, and when the start has failed, every step before the one under way
\* has been done and none after it, with the nodes that nobody else has changed:
\* late answers and late transitions never let the manager run ahead of a node,
\* and a start that returned true has all of them active.
AsFarAsScript ==
    \A i \in 1 .. Len(Script) :
        Script[i].do \in Transitions /\ Script[i].node \notin disturbed =>
            LET done == IF Script[i].do = "CONFIGURE" THEN {"INACTIVE", "ACTIVE"} ELSE {"ACTIVE"}
            IN  /\ i < pc => lifecycle[Script[i].node] \in done
                /\ i > pc => lifecycle[Script[i].node] \notin done

\* Every variable has its type.
TypeOK ==
    /\ validates \in BOOLEAN /\ ok \in BOOLEAN
    /\ lifecycle \in [Nodes -> States]
    /\ pc \in 1 .. Len(Script)
    /\ at \in {"ready", "waiting", "blocked"}
    /\ request \in Requests \cup {NoRequest}
    /\ result \in {"running", "true", "false"}
    /\ faults \in 0 .. MaxFaults /\ disturbed \subseteq Nodes

\* A transition that a node may still make is that of the step under way, even when
\* the manager has given up waiting for it.
PendingIsOfStep ==
    request # NoRequest /\ request.answer = "none" /\ request.do \in Transitions =>
        request.do = Does /\ request.node = Node

\* What is waited for is the request of the step, and a transition that has been
\* answered with success has been made.
AnswerIsOfStep ==
    Runs /\ at # "ready" =>
        /\ request # NoRequest /\ request.do = Does /\ request.node = Node
        /\ Changes /\ Node \notin disturbed /\ request.answer = "success" =>
               lifecycle[Node] = To[Does]

\* A start that returned true has come to the last step.
TrueAtTheEnd == result = "true" => pc = Len(Script)

StartInv ==
    TypeOK /\ PendingIsOfStep /\ AnswerIsOfStep /\ TrueAtTheEnd /\ AsFarAsScript

\* Unless a node dies or is changed by others, or the process is shut down, the
\* start ends (startup_function, get_state, change_state).
StartupEnds == Runs ~> (~Runs \/ disturbed # {} \/ ~ok)
=============================================================================
