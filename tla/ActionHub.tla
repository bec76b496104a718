----------------------------- MODULE ActionHub ------------------------------
(***************************************************************************)
(* The hand-over of the ground actions of one plan to action performers    *)
(* over the topic "actions_hub".                                           *)
(*                                                                         *)
(* On one side are the ActionExecutor objects, one per plan item, that     *)
(* live in the executor node.  Two threads of that node touch them without *)
(* a lock:                                                                 *)
(*   - the execution cycle, which ticks them and, when the plan fails or   *)
(*     is cancelled, visits them all to cancel those that run;             *)
(*   - the spin thread, which runs action_hub_callback of every executor   *)
(*     and the callbacks of their one-second waiting timers.               *)
(* On the other side are the performers (ActionExecutorClient nodes), each *)
(* with a single thread and a managed life cycle.                          *)
(*                                                                         *)
(* The topic is reliable and keeps the order of each publisher, so it is   *)
(* one FIFO per publisher and subscriber.  A message a subscriber would    *)
(* ignore for its type or its destination is not put in that FIFO.         *)
(***************************************************************************)
EXTENDS Naturals, Sequences, FiniteSets

CONSTANTS
    Executors,     \* the ActionExecutor objects of the plan, one per plan item
    Performers,    \* the ActionExecutorClient nodes
    ActionOf,      \* ActionOf[e]: the ground action of e, a record [name, args]
    Predecessors,  \* Predecessors[e]: the executors the tree makes e wait for
    Managed,       \* Managed[p]: the parameter action_name of p
    Specialized,   \* Specialized[p]: the parameter specialized_arguments of p
    AnyArgument,   \* the wildcard of specialized_arguments, "" in the code
    Fallible,      \* the performers whose on_activate may return FAILURE
    NoExecutor,    \* a value that is no executor
    NoPerformer,   \* a value that is no performer: current_performer_id_ is ""
    MaxQueue       \* bound: a retry or a feedback is sent only into shorter FIFOs

ASSUME ExecutorsAssumption ==
    /\ NoExecutor \notin Executors
    /\ Predecessors \in [Executors -> SUBSET Executors]

ASSUME ActionsAssumption ==
    \A e \in Executors :
        ActionOf[e] = [name |-> ActionOf[e].name, args |-> ActionOf[e].args]

ASSUME PerformersAssumption ==
    /\ NoPerformer \notin Performers
    /\ Fallible \subseteq Performers

VARIABLES
    status,        \* state_ of each executor
    performer,     \* current_performer_id_ of each executor
    waiting,       \* does the executor hold a waiting_timer_?
    publishing,    \* is action_hub_pub_ of the executor activated?
    cycle,         \* where the thread of the execution cycle is
    toVisit,       \* executors cancel_all_running_actions has not visited yet
    spin,          \* where the spin thread is
    lifecycle,     \* life cycle state of each performer
    committed,     \* committed_ of each performer
    arguments,     \* current_arguments_ of each performer
    toPerformer,   \* toPerformer[e][p]: messages from e that p has not taken
    toExecutor     \* toExecutor[p][e]: messages from p that e has not taken

executorVars  == <<status, performer, waiting, publishing>>
threadVars    == <<cycle, toVisit, spin>>
performerVars == <<lifecycle, committed, arguments>>
hubVars       == <<toPerformer, toExecutor>>
vars == <<executorVars, threadVars, performerVars, hubVars>>

Status == {"IDLE", "DEALING", "RUNNING", "SUCCESS", "FAILURE", "CANCELLED"}

\* FINISH carries a flag; the two values of the flag are two messages here.
ExecutorMessage  == {"REQUEST", "CONFIRM", "REJECT", "CANCEL"}
PerformerMessage == {"RESPONSE", "FEEDBACK", "FINISH_SUCCESS", "FINISH_FAILURE"}

Arguments == {ActionOf[e].args : e \in Executors} \cup {<<>>}

CycleIdle == [at |-> "tick", exec |-> NoExecutor]
SpinIdle  == [at |-> "wait", exec |-> NoExecutor, from |-> NoPerformer]

-----------------------------------------------------------------------------
(* The hub.                                                                *)

\* A performer subscribes in on_configure: what was published before is lost.
Subscribed(p) == lifecycle[p] # "UNCONFIGURED"

\* A message for one performer.  A publisher that is not activated drops it.
Tell(e, p, m) ==
    toPerformer' = IF publishing[e] /\ Subscribed(p)
                   THEN [toPerformer EXCEPT ![e][p] = Append(@, m)]
                   ELSE toPerformer

\* request_for_performers: REQUEST is for every performer that listens.
Request(e) ==
    toPerformer' = [toPerformer EXCEPT ![e] =
        [p \in Performers |-> IF Subscribed(p) THEN Append(@[p], "REQUEST") ELSE @[p]]]

\* What p says of action a reaches every executor of a, whoever asked.
Announce(p, a, m) ==
    toExecutor' = [toExecutor EXCEPT ![p] =
        [e \in Executors |-> IF ActionOf[e] = a THEN Append(@[e], m) ELSE @[e]]]

NextForPerformer(e, p, m) == toPerformer[e][p] # <<>> /\ Head(toPerformer[e][p]) = m
NextForExecutor(p, e, m)  == toExecutor[p][e] # <<>> /\ Head(toExecutor[p][e]) = m

TakenByPerformer(e, p) == toPerformer' = [toPerformer EXCEPT ![e][p] = Tail(@)]
TakenByExecutor(p, e)  == toExecutor' = [toExecutor EXCEPT ![p][e] = Tail(@)]

-----------------------------------------------------------------------------
Init ==
    /\ status = [e \in Executors |-> "IDLE"]
    /\ performer = [e \in Executors |-> NoPerformer]
    /\ waiting = [e \in Executors |-> FALSE]
    /\ publishing = [e \in Executors |-> FALSE]
    /\ cycle = CycleIdle
    /\ toVisit = {}
    /\ spin = SpinIdle
    /\ lifecycle = [p \in Performers |-> "UNCONFIGURED"]
    /\ committed = [p \in Performers |-> FALSE]
    /\ arguments = [p \in Performers |-> <<>>]
    /\ toPerformer = [e \in Executors |-> [p \in Performers |-> <<>>]]
    /\ toExecutor = [p \in Performers |-> [e \in Executors |-> <<>>]]

-----------------------------------------------------------------------------
(* The execution cycle.                                                    *)

CycleAt(at, e) == cycle = [at |-> at, exec |-> e]
CycleGoes(at, e) == cycle' = [at |-> at, exec |-> e]

IsFinished(e) == status[e] \in {"SUCCESS", "FAILURE"}

\* First tick of e, once WaitAction lets the tree reach it.  The state is
\* written before the publisher is activated and the timer created, and the
\* spin thread may run a callback of e in between.
Tick(e) ==
    /\ cycle = CycleIdle
    /\ status[e] = "IDLE"
    /\ \A d \in Predecessors[e] : IsFinished(d)
    /\ status' = [status EXCEPT ![e] = "DEALING"]
    /\ CycleGoes("request", e)
    /\ UNCHANGED <<performer, waiting, publishing, toVisit, spin, performerVars, hubVars>>

RequestForPerformers(e) ==
    /\ CycleAt("request", e)
    /\ publishing' = [publishing EXCEPT ![e] = TRUE]
    /\ Request(e)
    /\ CycleGoes("arm", e)
    /\ UNCHANGED <<status, performer, waiting, toVisit, spin, performerVars, toExecutor>>

ArmTimer(e) ==
    /\ CycleAt("arm", e)
    /\ waiting' = [waiting EXCEPT ![e] = TRUE]
    /\ cycle' = CycleIdle
    /\ UNCHANGED <<status, performer, publishing, toVisit, spin, performerVars, hubVars>>

\* A tick that finds e DEALING for more than 30 seconds will write FAILURE,
\* whatever the spin thread makes of the state between the test and the write.
DealingTimeout(e) ==
    /\ cycle = CycleIdle
    /\ status[e] = "DEALING"
    /\ CycleGoes("expire", e)
    /\ UNCHANGED <<executorVars, toVisit, spin, performerVars, hubVars>>

Expire(e) ==
    /\ CycleAt("expire", e)
    /\ status' = [status EXCEPT ![e] = "FAILURE"]
    /\ CycleGoes("result", e)
    /\ UNCHANGED <<performer, waiting, publishing, toVisit, spin, performerVars, hubVars>>

\* The plan is over: no executor is ticked any more and all of them are visited
\* by cancel_all_running_actions, in an order the model leaves open.
EndPlan ==
    /\ CycleGoes("halt", NoExecutor)
    /\ toVisit' = Executors
    /\ UNCHANGED <<executorVars, spin, performerVars, hubVars>>

\* The tick returns get_status(), which reads the state once more.
ExpiryFailsPlan(e) == CycleAt("result", e) /\ status[e] = "FAILURE" /\ EndPlan

ExpiryOverwritten(e) ==
    /\ CycleAt("result", e)
    /\ status[e] # "FAILURE"
    /\ cycle' = CycleIdle
    /\ UNCHANGED <<executorVars, toVisit, spin, performerVars, hubVars>>

\* A tick of an executor that failed fails the tree.
PlanFails == cycle = CycleIdle /\ (\E e \in Executors : status[e] = "FAILURE") /\ EndPlan

\* A cancel request ends the plan between two ticks.
PlanCancelled == cycle = CycleIdle /\ EndPlan

Visit(e) ==
    /\ CycleAt("halt", NoExecutor)
    /\ e \in toVisit
    /\ toVisit' = toVisit \ {e}
    /\ cycle' = IF status[e] = "RUNNING" THEN [at |-> "cancel", exec |-> e] ELSE cycle
    /\ UNCHANGED <<executorVars, spin, performerVars, hubVars>>

Cancel(e) ==
    /\ CycleAt("cancel", e)
    /\ status' = [status EXCEPT ![e] = "CANCELLED"]
    /\ CycleGoes("notify", e)
    /\ UNCHANGED <<performer, waiting, publishing, toVisit, spin, performerVars, hubVars>>

\* Mutant of SendCancel: the state is set and nobody is told.
SendCancelToNobody(e) ==
    /\ CycleAt("notify", e)
    /\ CycleGoes("halt", NoExecutor)
    /\ UNCHANGED <<executorVars, toVisit, spin, performerVars, hubVars>>

SendCancel(e) ==
    /\ CycleAt("notify", e)
    /\ Tell(e, performer[e], "CANCEL")
    /\ CycleGoes("halt", NoExecutor)
    /\ UNCHANGED <<executorVars, toVisit, spin, performerVars, toExecutor>>

-----------------------------------------------------------------------------
(* The spin thread.  A RESPONSE is handled in two steps: the test of the    *)
(* state, and what is done about it.                                       *)

SpinAt(at, e, p) == spin = [at |-> at, exec |-> e, from |-> p]

\* Mutant of ReceiveResponse: every performer that answers in time is taken.
ReceiveResponseTakesAll(e, p) ==
    /\ spin = SpinIdle
    /\ NextForExecutor(p, e, "RESPONSE")
    /\ TakenByExecutor(p, e)
    /\ spin' = [at |-> IF status[e] \in {"DEALING", "RUNNING"} THEN "confirm" ELSE "reject",
                exec |-> e, from |-> p]
    /\ UNCHANGED <<executorVars, cycle, toVisit, performerVars, toPerformer>>

ReceiveResponse(e, p) ==
    /\ spin = SpinIdle
    /\ NextForExecutor(p, e, "RESPONSE")
    /\ TakenByExecutor(p, e)
    /\ spin' = [at |-> IF status[e] = "DEALING" THEN "confirm" ELSE "reject",
                exec |-> e, from |-> p]
    /\ UNCHANGED <<executorVars, cycle, toVisit, performerVars, toPerformer>>

ConfirmPerformer(e, p) ==
    /\ SpinAt("confirm", e, p)
    /\ Tell(e, p, "CONFIRM")
    /\ performer' = [performer EXCEPT ![e] = p]
    /\ status' = [status EXCEPT ![e] = "RUNNING"]
    /\ waiting' = [waiting EXCEPT ![e] = FALSE]
    /\ spin' = SpinIdle
    /\ UNCHANGED <<publishing, cycle, toVisit, performerVars, toExecutor>>

\* Mutant of RejectPerformer: the answer is left out.
RejectSilently(e, p) ==
    /\ SpinAt("reject", e, p)
    /\ spin' = SpinIdle
    /\ UNCHANGED <<executorVars, cycle, toVisit, performerVars, hubVars>>

RejectPerformer(e, p) ==
    /\ SpinAt("reject", e, p)
    /\ Tell(e, p, "REJECT")
    /\ spin' = SpinIdle
    /\ UNCHANGED <<executorVars, cycle, toVisit, performerVars, toExecutor>>

\* A FEEDBACK changes only what is displayed, which is not modelled.
ReceiveFeedback(e, p) ==
    /\ spin = SpinIdle
    /\ NextForExecutor(p, e, "FEEDBACK")
    /\ TakenByExecutor(p, e)
    /\ UNCHANGED <<executorVars, threadVars, performerVars, toPerformer>>

\* Mutant of ReceiveFinish: the wrong state is asked for.
ReceiveFinishDealing(e, p, m) ==
    /\ spin = SpinIdle
    /\ NextForExecutor(p, e, m)
    /\ TakenByExecutor(p, e)
    /\ IF performer[e] = p /\ status[e] = "DEALING"
       THEN /\ status' = [status EXCEPT ![e] =
                              IF m = "FINISH_SUCCESS" THEN "SUCCESS" ELSE "FAILURE"]
            /\ publishing' = [publishing EXCEPT ![e] = FALSE]
       ELSE UNCHANGED <<status, publishing>>
    /\ UNCHANGED <<performer, waiting, threadVars, performerVars, toPerformer>>

\* The state is not looked at, only whether the sender is the performer of e.
ReceiveFinish(e, p, m) ==
    /\ spin = SpinIdle
    /\ NextForExecutor(p, e, m)
    /\ TakenByExecutor(p, e)
    /\ IF performer[e] = p
       THEN /\ status' = [status EXCEPT ![e] =
                              IF m = "FINISH_SUCCESS" THEN "SUCCESS" ELSE "FAILURE"]
            /\ publishing' = [publishing EXCEPT ![e] = FALSE]
       ELSE UNCHANGED <<status, publishing>>
    /\ UNCHANGED <<performer, waiting, threadVars, performerVars, toPerformer>>

\* wait_timeout: the timer of e fires.
WaitTimeout(e) ==
    /\ spin = SpinIdle
    /\ waiting[e] /\ publishing[e]
    /\ \A p \in Performers : Len(toPerformer[e][p]) < MaxQueue
    /\ Request(e)
    /\ UNCHANGED <<executorVars, threadVars, performerVars, toExecutor>>

-----------------------------------------------------------------------------
(* A performer.                                                            *)

\* should_execute: the name is the one managed and no argument contradicts a
\* specialized one; arguments beyond the shorter of the two are not compared.
ShouldExecute(p, a) ==
    /\ a.name = Managed[p]
    /\ \A i \in DOMAIN Specialized[p] \cap DOMAIN a.args :
           \/ AnyArgument \in {Specialized[p][i], a.args[i]}
           \/ Specialized[p][i] = a.args[i]

\* The ground action a performer says it executes.
Doing(p) == [name |-> Managed[p], args |-> arguments[p]]

Configure(p) ==
    /\ lifecycle[p] = "UNCONFIGURED"
    /\ lifecycle' = [lifecycle EXCEPT ![p] = "INACTIVE"]
    /\ UNCHANGED <<executorVars, threadVars, committed, arguments, hubVars>>

\* Mutant of ReceiveRequest: a committed performer answers once more.
ReceiveRequestCommitted(p, e) ==
    /\ NextForPerformer(e, p, "REQUEST")
    /\ TakenByPerformer(e, p)
    /\ IF lifecycle[p] = "INACTIVE" /\ ShouldExecute(p, ActionOf[e])
       THEN /\ committed' = [committed EXCEPT ![p] = TRUE]
            /\ Announce(p, ActionOf[e], "RESPONSE")
       ELSE UNCHANGED <<committed, toExecutor>>
    /\ UNCHANGED <<executorVars, threadVars, lifecycle, arguments>>

ReceiveRequest(p, e) ==
    /\ NextForPerformer(e, p, "REQUEST")
    /\ TakenByPerformer(e, p)
    /\ IF lifecycle[p] = "INACTIVE" /\ ~committed[p] /\ ShouldExecute(p, ActionOf[e])
       THEN /\ committed' = [committed EXCEPT ![p] = TRUE]
            /\ Announce(p, ActionOf[e], "RESPONSE")
       ELSE UNCHANGED <<committed, toExecutor>>
    /\ UNCHANGED <<executorVars, threadVars, lifecycle, arguments>>

ReceiveConfirm(p, e) ==
    /\ NextForPerformer(e, p, "CONFIRM")
    /\ TakenByPerformer(e, p)
    /\ IF lifecycle[p] = "INACTIVE" /\ committed[p]
       THEN /\ arguments' = [arguments EXCEPT ![p] = ActionOf[e].args]
            /\ \/ lifecycle' = [lifecycle EXCEPT ![p] = "ACTIVE"]
               \/ p \in Fallible /\ UNCHANGED lifecycle
            /\ committed' = [committed EXCEPT ![p] = FALSE]
       ELSE UNCHANGED performerVars
    /\ UNCHANGED <<executorVars, threadVars, toExecutor>>

ReceiveReject(p, e) ==
    /\ NextForPerformer(e, p, "REJECT")
    /\ TakenByPerformer(e, p)
    /\ committed' = [committed EXCEPT ![p] = FALSE]
    /\ UNCHANGED <<executorVars, threadVars, lifecycle, arguments, toExecutor>>

ReceiveCancel(p, e) ==
    /\ NextForPerformer(e, p, "CANCEL")
    /\ TakenByPerformer(e, p)
    /\ lifecycle' = IF lifecycle[p] = "ACTIVE"
                    THEN [lifecycle EXCEPT ![p] = "INACTIVE"] ELSE lifecycle
    /\ UNCHANGED <<executorVars, threadVars, committed, arguments, toExecutor>>

\* do_work runs only while the performer is active; it reports, or finishes.
SendFeedback(p) ==
    /\ lifecycle[p] = "ACTIVE"
    /\ \A e \in Executors : Len(toExecutor[p][e]) < MaxQueue
    /\ Announce(p, Doing(p), "FEEDBACK")
    /\ UNCHANGED <<executorVars, threadVars, performerVars, toPerformer>>

Finish(p, m) ==
    /\ lifecycle[p] = "ACTIVE"
    /\ lifecycle' = [lifecycle EXCEPT ![p] = "INACTIVE"]
    /\ Announce(p, Doing(p), m)
    /\ UNCHANGED <<executorVars, threadVars, committed, arguments, toPerformer>>

-----------------------------------------------------------------------------
CycleStep(e) ==
    \/ Tick(e) \/ RequestForPerformers(e) \/ ArmTimer(e)
    \/ DealingTimeout(e) \/ Expire(e) \/ ExpiryFailsPlan(e) \/ ExpiryOverwritten(e)
    \/ Visit(e) \/ Cancel(e) \/ SendCancel(e)

SpinStep(e, p) ==
    \/ ReceiveResponse(e, p) \/ ConfirmPerformer(e, p) \/ RejectPerformer(e, p)
    \/ ReceiveFeedback(e, p)
    \/ \E m \in {"FINISH_SUCCESS", "FINISH_FAILURE"} : ReceiveFinish(e, p, m)

PerformerReceives(p, e) ==
    ReceiveRequest(p, e) \/ ReceiveConfirm(p, e) \/ ReceiveReject(p, e) \/ ReceiveCancel(p, e)

PerformerFinishes(p) == \E m \in {"FINISH_SUCCESS", "FINISH_FAILURE"} : Finish(p, m)

Next ==
    \/ PlanFails \/ PlanCancelled
    \/ \E e \in Executors : CycleStep(e) \/ WaitTimeout(e)
    \/ \E e \in Executors, p \in Performers : SpinStep(e, p) \/ PerformerReceives(p, e)
    \/ \E p \in Performers : Configure(p) \/ SendFeedback(p) \/ PerformerFinishes(p)

Spec == Init /\ [][Next]_vars

\* Both threads of the executor node run for ever; the spin thread serves its
\* subscriptions in turn, so none is starved though it is often busy with
\* another (SF); the plan ends once an action failed; a performer takes the
\* messages it gets.  Nobody is obliged to configure a performer, to send
\* feedback, to end its work or to cancel a plan.  An executor that stayed
\* DEALING for ever would be past its 30 seconds.
Fairness ==
    /\ WF_vars(PlanFails)
    /\ \A e \in Executors : WF_vars(CycleStep(e))
    /\ \A e \in Executors, p \in Performers :
           SF_vars(SpinStep(e, p)) /\ WF_vars(PerformerReceives(p, e))

FairSpec == Spec /\ Fairness

-----------------------------------------------------------------------------
(* Properties.                                                             *)

TypeOK ==
    /\ status \in [Executors -> Status]
    /\ performer \in [Executors -> Performers \cup {NoPerformer}]
    /\ waiting \in [Executors -> BOOLEAN]
    /\ publishing \in [Executors -> BOOLEAN]
    /\ cycle \in [at : {"tick", "request", "arm", "expire", "result", "halt", "cancel", "notify"},
                  exec : Executors \cup {NoExecutor}]
    /\ cycle.exec = NoExecutor <=> cycle.at \in {"tick", "halt"}
    /\ toVisit \in SUBSET Executors
    /\ spin \in [at : {"wait", "confirm", "reject"}, exec : Executors \cup {NoExecutor},
                 from : Performers \cup {NoPerformer}]
    /\ spin.exec = NoExecutor <=> spin.at = "wait"
    /\ spin.from = NoPerformer <=> spin.at = "wait"
    /\ lifecycle \in [Performers -> {"UNCONFIGURED", "INACTIVE", "ACTIVE"}]
    /\ committed \in [Performers -> BOOLEAN]
    /\ arguments \in [Performers -> Arguments]
    /\ toPerformer \in [Executors -> [Performers -> Seq(ExecutorMessage)]]
    /\ toExecutor \in [Performers -> [Executors -> Seq(PerformerMessage)]]

Holds(queue, m) == \E i \in DOMAIN queue : queue[i] = m

\* p is active for the ground action of e.
Executes(p, e) == lifecycle[p] = "ACTIVE" /\ Doing(p) = ActionOf[e]

FinishOnItsWay(p, e) ==
    Holds(toExecutor[p][e], "FINISH_SUCCESS") \/ Holds(toExecutor[p][e], "FINISH_FAILURE")

PlanOver == cycle.at \in {"halt", "cancel", "notify"}

DistinctActions == \A d, e \in Executors : ActionOf[d] = ActionOf[e] => d = e

\* Two performers never execute the same ground action at the same time, however
\* many answered a REQUEST or one of its retries: action_hub_callback confirms
\* one RESPONSE and rejects the others.
NoDuplicateExecution ==
    \A p, q \in Performers :
        /\ lifecycle[p] = "ACTIVE" /\ lifecycle[q] = "ACTIVE"
        /\ Doing(p) = Doing(q)
        => p = q

\* Once an executor has chosen a performer it keeps to it: the FEEDBACK, FINISH
\* and CANCEL that follow are matched against current_performer_id_.
ChosenForLife ==
    [][\A e \in Executors :
          performer[e] # NoPerformer => performer'[e] = performer[e]]_vars

\* While the plan goes on, the performer of a RUNNING executor has a CONFIRM to
\* take, works for it, or has sent a FINISH: nobody waits for an idle performer.
\* Only one whose on_activate failed stays idle, and tells nobody.
RunningIsServed ==
    \A e \in Executors :
        status[e] = "RUNNING" /\ performer[e] \notin Fallible /\ ~PlanOver =>
            LET p == performer[e] IN
            \/ Holds(toPerformer[e][p], "CONFIRM")
            \/ Executes(p, e)
            \/ FinishOnItsWay(p, e)

\* The exchange that frees a committed performer p is in progress with e.
Exchanging(p, e) ==
    \/ Holds(toExecutor[p][e], "RESPONSE")
    \/ spin.exec = e /\ spin.from = p
    \/ Holds(toPerformer[e][p], "CONFIRM")
    \/ Holds(toPerformer[e][p], "REJECT")

\* A performer that answered a request, and answers no other until it is confirmed
\* or rejected, is in an exchange, or an executor it answered had finished.
CommittedIsAccounted ==
    \A p \in Performers : committed[p] =>
        \E e \in Executors :
            /\ ShouldExecute(p, ActionOf[e])
            /\ Exchanging(p, e) \/ (performer[e] # NoPerformer /\ ~publishing[e])

\* No performer works on for ever.
WorkEnds == \A p \in Performers : []<>(lifecycle[p] # "ACTIVE")

\* While the plan goes on, an action that was ticked comes to an end if the work of
\* its performer does: a performer is found or the dealing times out, and the
\* performer's verdict arrives.
StartedSettles ==
    WorkEnds =>
        \A e \in Executors :
            status[e] # "IDLE" ~> status[e] \in {"SUCCESS", "FAILURE"} \/ PlanOver

\* The performer of a cancelled executor stops working for it, even one whose work
\* would never end by itself.  Performers are deactivated without an exception here:
\* ExecutionEnds of BTPerformer has those that are not (BTActionNode.hpp:381).
CancelledStops ==
    \A e \in Executors :
        status[e] = "CANCELLED" ~> \A p \in Performers : ~Executes(p, e)

-----------------------------------------------------------------------------
(* The invariant behind NoDuplicateExecution and ChosenForLife.            *)

\* An executor has no performer until the RESPONSE it tests is confirmed.
Unchosen ==
    /\ \A e \in Executors : status[e] \in {"IDLE", "DEALING"} => performer[e] = NoPerformer
    /\ spin.at = "confirm" => performer[spin.exec] = NoPerformer

\* Who answers, and so who is chosen, manages the action that is asked for.
OffersMatch ==
    /\ \A e \in Executors, p \in Performers :
           Holds(toExecutor[p][e], "RESPONSE") => ActionOf[e].name = Managed[p]
    /\ spin.at # "wait" => ActionOf[spin.exec].name = Managed[spin.from]
    /\ \A e \in Executors :
           performer[e] # NoPerformer => ActionOf[e].name = Managed[performer[e]]

\* A CONFIRM is for the performer that was chosen.
ConfirmsMatch ==
    \A e \in Executors, p \in Performers :
        Holds(toPerformer[e][p], "CONFIRM") => performer[e] = p

\* Whoever is active was chosen by an executor of the action it executes.
ActiveIsChosen ==
    \A p \in Performers : lifecycle[p] = "ACTIVE" =>
        \E e \in Executors : performer[e] = p /\ ActionOf[e] = Doing(p)

ChoiceInv == TypeOK /\ Unchosen /\ OffersMatch /\ ConfirmsMatch /\ ActiveIsChosen
-----------------------------------------------------------------------------
(* The invariant behind RunningIsServed and CommittedIsAccounted, for plans *)
(* without an action that occurs twice.                                    *)

\* e has published nothing yet.
Silent(e) == status[e] = "IDLE" \/ CycleAt("request", e)

\* Nobody answers an executor that has published nothing, and one that has goes on
\* publishing until it has a performer.
SilentIsUnheard ==
    /\ \A e \in Executors : Silent(e) =>
           /\ performer[e] = NoPerformer /\ ~publishing[e] /\ spin.exec # e
           /\ \A p \in Performers :
                 toPerformer[e][p] = <<>> /\ ~Holds(toExecutor[p][e], "RESPONSE")
    /\ \A e \in Executors : ~Silent(e) => publishing[e] \/ performer[e] # NoPerformer
    /\ cycle.at \notin {"tick", "halt"} => status[cycle.exec] # "IDLE"

Answers == {"CONFIRM", "REJECT"}

\* The FIFO has at most one of these messages.
Once(queue, messages) ==
    \A i, j \in DOMAIN queue : queue[i] \in messages /\ queue[j] \in messages => i = j

\* The three stages of an exchange: offered, looked at, answered.
Offered(p, e) == Holds(toExecutor[p][e], "RESPONSE")
LookedAt(p, e) == spin.exec = e /\ spin.from = p
Answered(p, e) == Holds(toPerformer[e][p], "CONFIRM") \/ Holds(toPerformer[e][p], "REJECT")

\* A performer has one exchange at a time, in one stage, and is committed meanwhile.
OneExchange(p) ==
    /\ \A e \in Executors :
          /\ Once(toExecutor[p][e], {"RESPONSE"}) /\ Once(toPerformer[e][p], Answers)
          /\ ~(Offered(p, e) /\ LookedAt(p, e))
          /\ ~(Offered(p, e) /\ Answered(p, e))
          /\ ~(LookedAt(p, e) /\ Answered(p, e))
          /\ Exchanging(p, e) => committed[p]
    /\ \A d, e \in Executors : Exchanging(p, d) /\ Exchanging(p, e) => d = e
    /\ committed[p] => lifecycle[p] = "INACTIVE"

ExchangeIsOne == \A p \in Performers : OneExchange(p)

\* Nobody is cancelled while the plan goes on.
CancelEndsPlan ==
    \A e \in Executors, p \in Performers :
        Holds(toPerformer[e][p], "CANCEL") => PlanOver

RunningIsChosen ==
    \A e \in Executors : status[e] = "RUNNING" => performer[e] # NoPerformer

HandOverInv ==
    /\ ChoiceInv /\ SilentIsUnheard /\ ExchangeIsOne /\ CancelEndsPlan /\ RunningIsChosen
    /\ RunningIsServed /\ CommittedIsAccounted
=============================================================================
