----------------------------- MODULE BTPerformer -----------------------------
(***************************************************************************)
(* What a performer does with the action that it has been given: a BTAction*)
(* ticks a behavior tree with the leaf BtActionNode (a goal of an action   *)
(* server) or BtServiceNode (a request of a service); a performer in       *)
(* Python does what its author wrote.  ActionHub has the bargaining; here  *)
(* its messages to the performer come at any moment the protocol allows.   *)
(*                                                                         *)
(* A performer has one thread.  The answers for a leaf are taken only while*)
(* the leaf spins the executor of its callback group, so the steps of the  *)
(* thread are cut at those places.  The nodes of the tree above the leaf   *)
(* belong to the library: they tick the leaf, halt it, try it again or     *)
(* fail in spite of it.                                                    *)
(***************************************************************************)
EXTENDS Naturals, Sequences

CONSTANTS
    MaxGoals,       \* bound: the goals, or requests, that are sent
    MaxInterrupts,  \* bound: how often the tree halts the leaf or tries it again
    NoGoal,         \* a value that is no goal
    Setups          \* the performers [leaf, tree, user] to be looked at

Leaves == {"action", "service", "python"}
Trees  == {"leaf", "retry", "guarded"}      \* what is above the leaf
Users  == {"default", "stops", "updates"}   \* what the user's on_tick may do

ASSUME PerformerAssumption ==
    /\ MaxGoals \in Nat \ {0} /\ MaxInterrupts \in Nat
    /\ NoGoal \notin Nat
    /\ Setups \subseteq [leaf : Leaves, tree : Trees, user : Users]

VARIABLES
    setup,          \* which performer this is
    lifecycle,      \* "INACTIVE", "ACTIVE", or "FINALIZED" after an exception as it
                    \* was deactivated
    committed,      \* committed_
    at,             \* where its thread is, [step, next]
    finished,       \* finished_
    leaf,           \* the fields of the leaf
    goals,          \* goals[g]: what the server has made of the g-th goal
    sentGoals,      \* how many goals have been sent
    toCancel,       \* goals whose cancel request is on its way
    known,          \* known[g]: what the client of the leaf has been told of it
    interrupts,     \* how often the tree has halted the leaf or tried it again
    told,           \* what the executor was told since the CONFIRM; several
                    \* FEEDBACKs in a row are one, and what comes after an
                    \* exception is kept once
    events,         \* history since the CONFIRM: what else may explain the end
    unattended      \* history: goals that the leaf does not attend to any more

leafVars   == <<leaf, sentGoals, unattended>>
serverVars == <<goals, toCancel>>
hubVars    == <<lifecycle, committed, finished, told, events>>
vars == <<setup, at, known, interrupts, leafVars, serverVars, hubVars>>

Goals == 1 .. MaxGoals
LeafState == {"IDLE", "GOAL_SENT", "GOAL_EXECUTING", "GOAL_FINISHING",
              "GOAL_CANCELLING", "GOAL_FINISHED", "GOAL_FAILURE"}

\* The tree is created anew whenever the performer is activated.
FreshLeaf == [state |-> "IDLE", status |-> "IDLE", sent |-> NoGoal, handle |-> NoGoal,
              available |-> FALSE, result |-> NoGoal, updated |-> FALSE, since |-> 1]

Idle == [step |-> "idle", next |-> "nothing"]
Goes(step, next) == at' = [step |-> step, next |-> next]
At(step) == at.step = step

Init ==
    /\ setup \in Setups
    /\ lifecycle = "INACTIVE"
    /\ committed = FALSE
    /\ at = Idle
    /\ finished = FALSE
    /\ leaf = FreshLeaf
    /\ goals = [g \in Goals |-> "none"]
    /\ sentGoals = 0
    /\ toCancel = {}
    /\ known = [g \in Goals |-> "nothing"]
    /\ interrupts = 0
    /\ told = <<>>
    /\ events = {}
    /\ unattended = {}

Repeats(m) ==
    \/ m = "FEEDBACK" /\ told # <<>> /\ told[Len(told)] = m
    \/ "threw" \in events /\ \E i \in 1 .. Len(told) : told[i] = m

Tell(m) == told' = IF Repeats(m) THEN told ELSE Append(told, m)

IsPython == setup.leaf = "python"
Lose(gs) == unattended' = unattended \cup (gs \ {NoGoal})

-----------------------------------------------------------------------------
(* The messages of the hub                                                 *)

ReceiveRequest ==
    /\ At("idle") /\ ~IsPython
    /\ lifecycle = "INACTIVE" /\ ~committed /\ sentGoals < MaxGoals
    /\ committed' = TRUE
    /\ UNCHANGED <<setup, lifecycle, at, finished, known, interrupts, told, events,
                   leafVars, serverVars>>

ReceiveReject ==
    /\ At("idle") /\ ~IsPython /\ committed
    /\ committed' = FALSE
    /\ UNCHANGED <<setup, lifecycle, at, finished, known, interrupts, told, events,
                   leafVars, serverVars>>

\* on_activate fails: the file of the tree is bad, or the service of a leaf is
\* not there.  Nobody is told.
ActivationFails ==
    /\ At("idle") /\ ~IsPython /\ committed
    /\ committed' = FALSE
    /\ told' = <<>>
    /\ events' = {"failed"}
    /\ UNCHANGED <<setup, lifecycle, at, finished, known, interrupts, leafVars, serverVars>>

\* CONFIRM: the tree is created and the timer that ticks it.
Activate ==
    /\ At("idle") /\ ~IsPython /\ committed
    /\ lifecycle' = "ACTIVE"
    /\ committed' = FALSE
    /\ finished' = FALSE
    /\ leaf' = FreshLeaf
    /\ told' = <<>>
    /\ events' = {}
    /\ UNCHANGED <<setup, at, known, interrupts, sentGoals, unattended, serverVars>>

\* CANCEL: the performer is deactivated, which halts the tree.
ReceiveCancel ==
    /\ At("idle") /\ ~IsPython /\ lifecycle = "ACTIVE"
    /\ Goes("halt", "deactivate")
    /\ events' = events \cup {"cancelled"}
    /\ UNCHANGED <<setup, lifecycle, committed, finished, known, interrupts, told,
                   leafVars, serverVars>>

-----------------------------------------------------------------------------
(* do_work: the tree is ticked by the timer                                *)

\* A timer that deactivation did not come to goes on ticking.
Works == At("idle") /\ ~IsPython /\ lifecycle # "INACTIVE" /\ ~finished

\* Something above the leaf ends or halts it while it is running.
TreeHaltsLeaf ==
    /\ Works /\ setup.tree = "guarded" /\ leaf.status = "RUNNING"
    /\ interrupts < MaxInterrupts
    /\ interrupts' = interrupts + 1
    /\ Goes("halt", "tick")
    /\ UNCHANGED <<setup, known, leafVars, serverVars, hubVars>>

TreeFails ==
    /\ Works /\ setup.tree = "guarded"
    /\ Goes("halt", "FAILURE")
    /\ UNCHANGED <<setup, known, interrupts, leafVars, serverVars, hubVars>>

\* The leaf is ticked in one of its states.
Ticks(kind, state) ==
    /\ Works /\ setup.leaf = kind /\ leaf.state = state
    /\ UNCHANGED <<setup, lifecycle, committed, finished, known, interrupts, told>>

Returned == Goes("returned", "nothing")

\* The tick ends with an exception: no node of the tree gets another status.
Throws == Goes("catch", "nothing") /\ events' = events \cup {"threw"}

-----------------------------------------------------------------------------
(* BtActionNode::tick                                                      *)

\* IDLE: a new client is made, which knows nothing of the goals of the old one.
NoServer ==
    /\ Ticks("action", "IDLE")
    /\ leaf' = [leaf EXCEPT !.status = "FAILURE"]
    /\ Returned
    /\ UNCHANGED <<events, sentGoals, unattended, serverVars>>

\* on_tick is done at once: no goal is sent.
StopsAtOnce ==
    /\ Ticks("action", "IDLE") /\ setup.user = "stops"
    /\ \E status \in {"SUCCESS", "FAILURE"} : leaf' = [leaf EXCEPT !.status = status]
    /\ events' = events \cup {"stopped"}
    /\ Returned
    /\ UNCHANGED <<sentGoals, unattended, serverVars>>

OnNewGoalReceived(since, updated) ==
    /\ sentGoals < MaxGoals
    /\ sentGoals' = sentGoals + 1
    /\ goals' = [goals EXCEPT ![sentGoals + 1] = "sent"]
    /\ leaf' = [leaf EXCEPT !.state = "GOAL_SENT", !.status = "RUNNING",
                            !.sent = sentGoals + 1, !.available = FALSE,
                            !.since = since, !.updated = updated]
    /\ UNCHANGED toCancel

SendGoal ==
    /\ Ticks("action", "IDLE")
    /\ OnNewGoalReceived(sentGoals + 1, FALSE)
    /\ Returned
    /\ UNCHANGED <<events, unattended>>

GoalIsGivenUp ==
    /\ leaf' = [leaf EXCEPT !.state = "GOAL_FAILURE", !.status = "FAILURE", !.sent = NoGoal]
    /\ Lose({leaf.sent, leaf.handle})
    /\ Returned

\* GOAL_SENT: the answer is waited for during half a period of the timer, unless
\* server_timeout has passed already: then nobody looks whether it is there.
TickSent ==
    /\ Ticks("action", "GOAL_SENT") /\ leaf.sent # NoGoal
    /\ \/ Goes("answer", "nothing") /\ UNCHANGED <<leaf, unattended>>
       \/ GoalIsGivenUp
    /\ UNCHANGED <<events, sentGoals, serverVars>>

\* The tree is ticked again after "Goal was rejected": there is nothing to wait for
\* until server_timeout has passed.
TickRejected ==
    /\ Ticks("action", "GOAL_SENT") /\ leaf.sent = NoGoal
    /\ \/ leaf' = [leaf EXCEPT !.status = "RUNNING"] /\ Returned /\ UNCHANGED unattended
       \/ GoalIsGivenUp
    /\ UNCHANGED <<events, sentGoals, serverVars>>

GoalAccepted ==
    /\ At("answer") /\ known[leaf.sent] \in {"accepted", "done"}
    /\ leaf' = [leaf EXCEPT !.state = "GOAL_EXECUTING", !.status = "RUNNING",
                            !.handle = leaf.sent, !.sent = NoGoal]
    /\ Lose({leaf.handle})
    /\ Returned
    /\ UNCHANGED <<setup, known, interrupts, sentGoals, serverVars, hubVars>>

\* "Goal was rejected by the action server": an exception.
GoalRejected ==
    /\ At("answer") /\ known[leaf.sent] = "rejected"
    /\ leaf' = [leaf EXCEPT !.handle = NoGoal, !.sent = NoGoal]
    /\ Lose({leaf.handle})
    /\ Throws
    /\ UNCHANGED <<setup, lifecycle, committed, finished, known, interrupts, told,
                   sentGoals, serverVars>>

\* One wait without an answer is enough to give the goal up.
GivesUp ==
    /\ At("answer") /\ known[leaf.sent] = "nothing"
    /\ GoalIsGivenUp
    /\ UNCHANGED <<setup, known, interrupts, sentGoals, serverVars, hubVars>>

\* GOAL_EXECUTING: on_tick may end the goal,
StopsGoal ==
    /\ Ticks("action", "GOAL_EXECUTING") /\ setup.user = "stops"
    /\ known[leaf.handle] # "done"
    /\ toCancel' = toCancel \cup {leaf.handle}
    /\ Goes("cancel", "stop")
    /\ events' = events \cup {"stopped"}
    /\ UNCHANGED <<goals, leafVars>>

\* (the client forgets a goal with its result, and async_cancel_goal throws)
StopsForgottenGoal ==
    /\ Ticks("action", "GOAL_EXECUTING") /\ setup.user = "stops"
    /\ known[leaf.handle] = "done"
    /\ Throws
    /\ UNCHANGED <<leafVars, serverVars>>

\* or have it replaced.  goal_updated_ is never reset.
ReplacesGoal ==
    /\ Ticks("action", "GOAL_EXECUTING")
    /\ leaf.updated \/ setup.user = "updates"
    /\ known[leaf.handle] # "done"
    /\ OnNewGoalReceived(leaf.since, TRUE)
    /\ Goes("some", "nothing")
    /\ UNCHANGED <<events, unattended>>

\* An updated goal is left as it is for the bound only.
KeepsGoal ==
    /\ Ticks("action", "GOAL_EXECUTING")
    /\ leaf.updated => known[leaf.handle] = "done" \/ sentGoals = MaxGoals
    /\ Goes("some", "nothing")
    /\ UNCHANGED <<events, leafVars, serverVars>>

\* Whatever has arrived has been spun: is there a result?
EndOfSpin ==
    /\ At("some")
    /\ IF leaf.available
       THEN /\ leaf' = [leaf EXCEPT !.state = "GOAL_FINISHING", !.status = "RUNNING"]
            /\ Lose({leaf.sent, leaf.handle} \ {leaf.result})
       ELSE leaf' = [leaf EXCEPT !.status = "RUNNING"] /\ UNCHANGED unattended
    /\ Returned
    /\ UNCHANGED <<setup, known, interrupts, sentGoals, serverVars, hubVars>>

\* Mutant of TickFinishing: an aborted goal is a success.
TickFinishingWell ==
    /\ Ticks("action", "GOAL_FINISHING")
    /\ leaf' = [leaf EXCEPT !.state = "GOAL_FINISHED", !.status = "SUCCESS"]
    /\ Returned
    /\ UNCHANGED <<events, sentGoals, unattended, serverVars>>

\* GOAL_FINISHING: on_success, on_aborted, on_cancelled, as they are or as the user
\* has overridden them.
TickFinishing ==
    /\ Ticks("action", "GOAL_FINISHING")
    /\ \E status \in {"SUCCESS", "FAILURE"} :
         /\ leaf' = [leaf EXCEPT !.state = "GOAL_FINISHED", !.status = status]
         /\ \/ (status = "FAILURE") = (goals[leaf.result] = "aborted") /\ UNCHANGED events
            \/ setup.user = "stops" /\ events' = events \cup {"stopped"}
    /\ Returned
    /\ UNCHANGED <<sentGoals, unattended, serverVars>>

\* A leaf that is ticked again does nothing the first time.
TickAgain(state, next, status) ==
    /\ Ticks("action", state)
    /\ leaf' = [leaf EXCEPT !.state = next, !.status = status]
    /\ events' = events \cup {"again"}
    /\ Returned
    /\ UNCHANGED <<sentGoals, unattended, serverVars>>

TickCancelling == TickAgain("GOAL_CANCELLING", "GOAL_FINISHED", "SUCCESS")
TickFinished   == TickAgain("GOAL_FINISHED", "IDLE", "SUCCESS")
TickFailure    == TickAgain("GOAL_FAILURE", "IDLE", "FAILURE")

-----------------------------------------------------------------------------
(* BtActionNode::halt and cancel_goal                                      *)

\* The thread spins the callback group of the leaf: until what it waits for has
\* come, or as long as there is something.
Spins ==
    \/ At("answer") /\ known[leaf.sent] = "nothing"
    \/ At("reply") /\ known[leaf.sent] # "done"
    \/ At("result") /\ known[leaf.handle] # "done"
    \/ At("some") \/ At("cancel")
    \/ At("halt") /\ leaf.status = "RUNNING" /\ leaf.handle # NoGoal

\* The goals of the client that the leaf has now.
OfClient == {g \in Goals : leaf.since <= g /\ g <= sentGoals}

ReceiveAnswer(g) ==
    /\ Spins /\ known[g] = "nothing" /\ goals[g] \notin {"none", "sent"}
    /\ setup.leaf = "action"
    /\ known' = [known EXCEPT ![g] = IF goals[g] = "rejected" THEN "rejected" ELSE "accepted"]
    /\ UNCHANGED <<setup, at, interrupts, leafVars, serverVars, hubVars>>

Settled == {"succeeded", "aborted", "canceled"}

\* Mutant of ReceiveResult: the comparison of the goals is the wrong way round.
ReceiveResultOfOthers(g) ==
    /\ Spins /\ known[g] = "accepted" /\ goals[g] \in Settled
    /\ known' = [known EXCEPT ![g] = "done"]
    /\ leaf' = IF g # leaf.handle
               THEN [leaf EXCEPT !.available = TRUE, !.result = g]
               ELSE leaf
    /\ UNCHANGED <<setup, at, interrupts, sentGoals, unattended, serverVars, hubVars>>

\* The result of another goal than that of the handle is ignored.
ReceiveResult(g) ==
    /\ Spins /\ known[g] = "accepted" /\ goals[g] \in Settled
    /\ known' = [known EXCEPT ![g] = "done"]
    /\ leaf' = IF g = leaf.handle
               THEN [leaf EXCEPT !.available = TRUE, !.result = g]
               ELSE leaf
    /\ UNCHANGED <<setup, at, interrupts, sentGoals, unattended, serverVars, hubVars>>

ReceiveReply(g) ==
    /\ Spins /\ known[g] = "nothing" /\ goals[g] = "answered"
    /\ setup.leaf = "service"
    /\ known' = [known EXCEPT ![g] = "done"]
    /\ UNCHANGED <<setup, at, interrupts, leafVars, serverVars, hubVars>>

\* Mutant of ShouldCancelGoal: a goal that is being replaced is not cancelled.
ShouldCancelExecuting ==
    /\ setup.leaf = "action"
    /\ leaf.status = "RUNNING" /\ leaf.handle # NoGoal
    /\ leaf.since <= leaf.handle
    /\ known[leaf.handle] # "done" /\ leaf.state = "GOAL_EXECUTING"

\* The handle of a goal of a client before is invalid, and its status unknown.
ShouldCancelGoal ==
    /\ setup.leaf = "action"
    /\ leaf.status = "RUNNING" /\ leaf.handle # NoGoal
    /\ leaf.since <= leaf.handle
    /\ known[leaf.handle] # "done"

\* A goal that has been sent, and has no handle yet, cannot be cancelled.
HaltAndCancel ==
    /\ At("halt") /\ ShouldCancelGoal
    /\ toCancel' = toCancel \cup {leaf.handle}
    /\ Lose({leaf.sent})
    /\ Goes("cancel", at.next)
    /\ UNCHANGED <<setup, known, interrupts, leaf, sentGoals, goals, hubVars>>

\* The cancellation is waited for, whatever its answer, and then the result.
WaitForResult ==
    /\ At("cancel") /\ known[leaf.handle] # "done"
    /\ Goes("result", at.next)
    /\ UNCHANGED <<setup, known, interrupts, leafVars, serverVars, hubVars>>

\* If the result has come meanwhile, the client has forgotten the goal and
\* async_get_result throws: out of the tick, or out of on_deactivate, so that the
\* node takes the error transition and keeps its timer.  (finish, after an exception,
\* finds nothing to cancel.)
AsksForForgottenGoal ==
    /\ At("cancel") /\ known[leaf.handle] = "done"
    /\ \/ at.next # "deactivate" /\ Throws /\ UNCHANGED lifecycle
       \/ /\ at.next = "deactivate"
          /\ lifecycle' = "FINALIZED"
          /\ at' = Idle
          /\ UNCHANGED events
    /\ UNCHANGED <<setup, committed, finished, told, known, interrupts, leafVars, serverVars>>

\* resetStatus; the service node forgets its request too.
Halted == IF setup.leaf = "service"
          THEN [leaf EXCEPT !.status = "IDLE", !.sent = NoGoal]
          ELSE [leaf EXCEPT !.status = "IDLE"]

\* Once the leaf is halted, what it was halted for goes on: the tree, the
\* deactivation, and the FINISH that it was a part of.
Continue ==
    \/ /\ at.next = "tick"
       /\ Tell("FEEDBACK")
       /\ leaf' = Halted
       /\ at' = Idle
       /\ UNCHANGED <<lifecycle, finished>>
    \/ /\ at.next = "deactivate"
       /\ lifecycle' = "INACTIVE"
       /\ leaf' = Halted
       /\ at' = Idle
       /\ UNCHANGED <<finished, told>>
    \/ /\ at.next \in {"SUCCESS", "FAILURE"}
       /\ lifecycle' = IF lifecycle = "ACTIVE" THEN "INACTIVE" ELSE lifecycle
       /\ Tell(at.next)
       /\ finished' = TRUE
       /\ leaf' = Halted
       /\ at' = Idle
    \/ /\ at.next = "threw"
       /\ lifecycle' = "INACTIVE"
       /\ Tell("FAILURE")
       /\ leaf' = Halted
       /\ Goes("uninitialized", "nothing")
       /\ UNCHANGED finished
    \/ /\ at.next = "stop"
       /\ \E status \in {"SUCCESS", "FAILURE"} :
            leaf' = [leaf EXCEPT !.state = "GOAL_CANCELLING", !.status = status]
       /\ Returned
       /\ UNCHANGED <<lifecycle, finished, told>>

\* The result has come, or has been waited for long enough.
EndOfCancel ==
    /\ At("result")
    /\ Continue
    /\ Lose(IF known[leaf.handle] = "done" THEN {} ELSE {leaf.handle})
    /\ UNCHANGED <<setup, committed, known, interrupts, sentGoals, events, serverVars>>

\* There is nothing to cancel, or nothing that could be.
HaltDone ==
    /\ At("halt") /\ ~ShouldCancelGoal
    /\ Continue
    /\ Lose(IF setup.leaf = "action" /\ leaf.status = "RUNNING" THEN {leaf.sent} ELSE {})
    /\ UNCHANGED <<setup, committed, known, interrupts, sentGoals, events, serverVars>>

-----------------------------------------------------------------------------
(* BtServiceNode: its requests are goals that are answered or not          *)

\* on_tick may decide against the request.
SendsNoRequest ==
    /\ Ticks("service", "IDLE") /\ leaf.sent = NoGoal
    /\ leaf' = [leaf EXCEPT !.status = "FAILURE"]
    /\ Returned
    /\ UNCHANGED <<events, sentGoals, unattended, serverVars>>

SendsRequest ==
    /\ Ticks("service", "IDLE") /\ leaf.sent = NoGoal /\ sentGoals < MaxGoals
    /\ sentGoals' = sentGoals + 1
    /\ goals' = [goals EXCEPT ![sentGoals + 1] = "sent"]
    /\ leaf' = [leaf EXCEPT !.sent = sentGoals + 1, !.status = "RUNNING"]
    /\ Goes("reply", "nothing")
    /\ UNCHANGED <<events, unattended, toCancel>>

TickRequest ==
    /\ Ticks("service", "IDLE") /\ leaf.sent # NoGoal
    /\ Goes("reply", "nothing")
    /\ UNCHANGED <<events, leafVars, serverVars>>

\* check_future: on_completion decides what the reply is worth.
Completed ==
    /\ At("reply") /\ known[leaf.sent] = "done"
    /\ \E status \in {"SUCCESS", "FAILURE"} :
         leaf' = [leaf EXCEPT !.status = status, !.sent = NoGoal, !.result = leaf.sent]
    /\ Returned
    /\ UNCHANGED <<setup, known, interrupts, sentGoals, unattended, serverVars, hubVars>>

\* No reply in this tick: there is time left, or server_timeout has passed.
NoReply ==
    /\ At("reply") /\ known[leaf.sent] # "done"
    /\ \/ leaf' = [leaf EXCEPT !.status = "RUNNING"]
       \/ leaf' = [leaf EXCEPT !.status = "FAILURE", !.sent = NoGoal]
    /\ Returned
    /\ UNCHANGED <<setup, known, interrupts, sentGoals, unattended, serverVars, hubVars>>

-----------------------------------------------------------------------------
(* BTAction::do_work: what the tree makes of the status of its leaf        *)

TreeRuns ==
    /\ At("returned") /\ leaf.status = "RUNNING"
    /\ Tell("FEEDBACK")
    /\ at' = Idle
    /\ UNCHANGED <<setup, lifecycle, committed, finished, events, known, interrupts,
                   leafVars, serverVars>>

\* RetryUntilSuccessful resets its child and ticks it again.
TreeRetries ==
    /\ At("returned") /\ leaf.status = "FAILURE" /\ setup.tree = "retry"
    /\ interrupts < MaxInterrupts
    /\ interrupts' = interrupts + 1
    /\ leaf' = [leaf EXCEPT !.status = "IDLE"]
    /\ Tell("FEEDBACK")
    /\ at' = Idle
    /\ UNCHANGED <<setup, lifecycle, committed, finished, events, known, sentGoals,
                   unattended, serverVars>>

\* Mutant of TreeEnds: FINISH is published, and the performer stays active.
TreeEndsActive ==
    /\ At("returned") /\ leaf.status \in {"SUCCESS", "FAILURE"}
    /\ Tell(leaf.status)
    /\ at' = Idle
    /\ UNCHANGED <<setup, lifecycle, committed, finished, events, known, interrupts,
                   leafVars, serverVars>>

\* finish: deactivation halts what there is to halt, and FINISH is published.
TreeEnds ==
    /\ At("returned") /\ leaf.status \in {"SUCCESS", "FAILURE"}
    /\ Goes("halt", leaf.status)
    /\ UNCHANGED <<setup, known, interrupts, leafVars, serverVars, hubVars>>

\* An exception is caught, and finish tells the failure: it deactivates the performer,
\* and so halts the tree, if it is still active.
CatchesException ==
    /\ At("catch")
    /\ \/ lifecycle = "ACTIVE" /\ Goes("halt", "threw") /\ UNCHANGED told
       \/ lifecycle # "ACTIVE" /\ Goes("uninitialized", "nothing") /\ Tell("FAILURE")
    /\ UNCHANGED <<setup, lifecycle, committed, finished, events, known, interrupts,
                   leafVars, serverVars>>

\* After an exception the switch looks at a result that nobody has written.
UninitializedResult ==
    /\ At("uninitialized")
    /\ \/ \E message \in {"SUCCESS", "FAILURE"} : Tell(message) /\ finished' = TRUE
       \/ Tell("FEEDBACK") /\ UNCHANGED finished
       \/ UNCHANGED <<told, finished>>
    /\ at' = Idle
    /\ UNCHANGED <<setup, lifecycle, committed, events, known, interrupts, leafVars,
                   serverVars>>

-----------------------------------------------------------------------------
(* A performer in Python: the handlers are the same, and do_work is the    *)
(* author's, who sends feedback and finishes.                              *)

PyStep == At("idle") /\ IsPython /\ UNCHANGED <<setup, at, known, interrupts, leafVars, serverVars>>

PyReceiveRequest ==
    /\ PyStep /\ lifecycle = "INACTIVE" /\ ~committed
    /\ committed' = TRUE
    /\ UNCHANGED <<lifecycle, finished, told, events>>

PyReceiveReject ==
    /\ PyStep /\ committed
    /\ committed' = FALSE
    /\ UNCHANGED <<lifecycle, finished, told, events>>

PyReceiveConfirm ==
    /\ PyStep /\ lifecycle = "INACTIVE" /\ committed
    /\ lifecycle' = "ACTIVE"
    /\ committed' = FALSE
    /\ told' = <<>>
    /\ events' = {}
    /\ UNCHANGED finished

PyReceiveCancel ==
    /\ PyStep /\ lifecycle = "ACTIVE"
    /\ lifecycle' = "INACTIVE"
    /\ events' = events \cup {"cancelled"}
    /\ UNCHANGED <<committed, finished, told>>

PySendFeedback ==
    /\ PyStep /\ lifecycle = "ACTIVE"
    /\ Tell("FEEDBACK")
    /\ UNCHANGED <<lifecycle, committed, finished, events>>

PyFinish ==
    /\ PyStep /\ lifecycle = "ACTIVE"
    /\ lifecycle' = "INACTIVE"
    /\ \E message \in {"SUCCESS", "FAILURE"} : Tell(message)
    /\ events' = events \cup {"user"}
    /\ UNCHANGED <<committed, finished>>

-----------------------------------------------------------------------------
(* The servers, which are not part of the system                           *)

Becomes(g, from, to) ==
    /\ goals[g] \in from
    /\ goals' = [goals EXCEPT ![g] = to]
    /\ UNCHANGED <<setup, at, known, interrupts, toCancel, leafVars, hubVars>>

Answers(g) ==
    \/ setup.leaf = "action" /\ Becomes(g, {"sent"}, "executing")
    \/ setup.leaf = "action" /\ Becomes(g, {"sent"}, "rejected")
    \/ setup.leaf = "service" /\ Becomes(g, {"sent"}, "answered")

Settles(g) ==
    \/ Becomes(g, {"executing", "cancelling"}, "succeeded")
    \/ Becomes(g, {"executing", "cancelling"}, "aborted")
    \/ Becomes(g, {"cancelling"}, "canceled")

\* A cancel request is granted or refused.
AnswersCancel(g) ==
    /\ g \in toCancel
    /\ toCancel' = toCancel \ {g}
    /\ \/ goals[g] = "executing" /\ goals' = [goals EXCEPT ![g] = "cancelling"]
       \/ UNCHANGED goals
    /\ UNCHANGED <<setup, at, known, interrupts, leafVars, hubVars>>

-----------------------------------------------------------------------------
Hub ==
    \/ ReceiveRequest \/ ReceiveReject \/ ActivationFails \/ Activate \/ ReceiveCancel
    \/ PyReceiveRequest \/ PyReceiveReject \/ PyReceiveConfirm \/ PyReceiveCancel

Interrupts == TreeHaltsLeaf \/ TreeFails

DoWork ==
    \/ NoServer \/ StopsAtOnce \/ SendGoal \/ TickSent \/ TickRejected \/ StopsGoal
    \/ StopsForgottenGoal \/ ReplacesGoal \/ KeepsGoal
    \/ TickFinishing \/ TickCancelling \/ TickFinished \/ TickFailure
    \/ SendsNoRequest \/ SendsRequest \/ TickRequest

Spun ==
    \/ GoalAccepted \/ GoalRejected \/ GivesUp \/ EndOfSpin \/ Completed \/ NoReply
    \/ HaltAndCancel \/ WaitForResult \/ AsksForForgottenGoal \/ EndOfCancel \/ HaltDone
    \/ TreeRuns \/ TreeRetries \/ TreeEnds \/ CatchesException \/ UninitializedResult

Author == PySendFeedback \/ PyFinish

Receives == \E g \in OfClient : ReceiveAnswer(g) \/ ReceiveResult(g) \/ ReceiveReply(g)

Server == \E g \in Goals : Answers(g) \/ Settles(g) \/ AnswersCancel(g)

Next == Hub \/ Interrupts \/ DoWork \/ Spun \/ Author \/ Receives \/ Server

\* The thread goes on, what has been sent arrives if it is waited for again and
\* again, and an author ends what he has begun.
Spec ==
    /\ Init /\ [][Next]_vars
    /\ WF_vars(DoWork) /\ WF_vars(Spun)
    /\ SF_vars(Receives) /\ SF_vars(PyFinish)

ServersAnswer == \A g \in Goals : WF_vars(Answers(g)) /\ WF_vars(Settles(g))

-----------------------------------------------------------------------------
(* Properties                                                              *)

\* A confirmation is answered by FEEDBACK and one FINISH, and by nothing after
\* it, unless the tree threw; a performer that is idle again has told the end,
\* unless it was cancelled or could not be activated (finish, do_work,
\* action_hub_callback).
EndIsToldOnce ==
    LET ends == {i \in 1 .. Len(told) : told[i] # "FEEDBACK"} IN
    /\ "threw" \notin events => \A i \in ends : i = Len(told)
    /\ At("idle") /\ lifecycle = "INACTIVE" /\ told # <<>> /\ ends = {} =>
         events \cap {"cancelled", "failed"} # {}

\* What may make a performer say that its action is done.
Earned ==
    \/ events \cap {"stopped", "again", "threw", "user"} # {}
    \/ leaf.result # NoGoal /\ goals[leaf.result] \in {"succeeded", "canceled", "answered"}

\* A performer says that its action is done only if the goal whose result it has
\* succeeded or was cancelled, the service replied, the user's on_tick said so,
\* the tree ticked the leaf again after its end, or a result that was never
\* written said so (tick, check_future, do_work).
SuccessIsEarned ==
    (\E i \in 1 .. Len(told) : told[i] = "SUCCESS") => Earned

\* Whatever a performer leaves executing on the server when it is no longer
\* active, or has ended after it failed to stop, it has lost in one of these
\* ways: the goal was given up or halted before it was accepted, its cancellation
\* did not bring a result in time, or it replaced another one (halt, cancel_goal,
\* tick).
NothingLeftBehind ==
    At("idle") /\ (lifecycle = "INACTIVE" \/ finished) =>
        \A g \in Goals :
            setup.leaf = "action" /\ goals[g] \in {"sent", "executing"} => g \in unattended

\* Every variable has its type.
Statuses == {"IDLE", "RUNNING", "SUCCESS", "FAILURE"}
Messages == {"FEEDBACK", "SUCCESS", "FAILURE"}
LeafType ==
    [state : LeafState, status : Statuses, sent : Goals \cup {NoGoal},
     handle : Goals \cup {NoGoal}, available : BOOLEAN, result : Goals \cup {NoGoal},
     updated : BOOLEAN, since : Nat]
Steps == {"idle", "halt", "returned", "answer", "cancel", "some", "result", "reply",
          "catch", "uninitialized"}
Nexts == {"nothing", "deactivate", "tick", "stop", "threw", "SUCCESS", "FAILURE"}
ThreadType == [step : Steps, next : Nexts]
GoalStates == {"none", "sent", "executing", "rejected", "answered", "cancelling"} \cup Settled
Known == {"nothing", "accepted", "rejected", "done"}
Events == {"cancelled", "failed", "stopped", "threw", "again", "user"}
TypeOK ==
    /\ setup \in Setups
    /\ lifecycle \in {"INACTIVE", "ACTIVE", "FINALIZED"}
    /\ committed \in BOOLEAN /\ finished \in BOOLEAN
    /\ at \in ThreadType
    /\ leaf \in LeafType
    /\ goals \in [Goals -> GoalStates]
    /\ sentGoals \in 0 .. MaxGoals /\ toCancel \subseteq Goals
    /\ known \in [Goals -> Known]
    /\ interrupts \in 0 .. MaxInterrupts
    /\ told \in Seq(Messages)
    /\ events \subseteq Events
    /\ unattended \subseteq Goals

\* What the thread does it does for a performer that has a timer and has not told an end.
ThreadIsActive ==
    /\ IsPython => at.step = "idle"
    /\ at.next # "nothing" => at.step \in {"halt", "cancel", "result"}
    /\ at.step # "idle" => lifecycle # "INACTIVE" \/ at.step = "uninitialized"
    /\ at.next \in {"deactivate", "threw"} => lifecycle = "ACTIVE"
    /\ committed => lifecycle = "INACTIVE"
    /\ lifecycle = "ACTIVE" \/ IsPython => ~finished
    /\ at.step \notin {"idle", "uninitialized"} => ~finished
    /\ lifecycle # "INACTIVE" /\ ~finished /\ "threw" \notin events =>
           \A i \in 1 .. Len(told) : told[i] = "FEEDBACK"
    /\ at.next = "deactivate" => "cancelled" \in events
    /\ at.next = "threw" \/ at.step \in {"catch", "uninitialized"} => "threw" \in events
    /\ at.step = "uninitialized" =>
           lifecycle # "ACTIVE" /\ \E i \in 1 .. Len(told) : told[i] # "FEEDBACK"

\* A leaf that has succeeded or failed has that status only until the tree has seen it.
StatusFits ==
    /\ leaf.status \in {"SUCCESS", "FAILURE"} =>
           \/ at.step = "returned"
           \/ at.step = "halt" /\ at.next = leaf.status
    /\ at.next = "SUCCESS" => at.step = "halt" /\ leaf.status = "SUCCESS"
    /\ at.next = "stop" => at.step \in {"cancel", "result"} /\ "stopped" \in events
    /\ lifecycle = "INACTIVE" \/ IsPython => leaf.status = "IDLE"
StatusIsEarned == leaf.status = "SUCCESS" /\ at.step \in {"returned", "halt"} => Earned

\* What the client of a leaf knows is what has become of the goal.
KnownIsTrue ==
    /\ \A g \in Goals :
           /\ g > sentGoals => goals[g] = "none"
           /\ known[g] = "done" => goals[g] \in Settled \cup {"answered"}
           /\ known[g] = "rejected" => goals[g] = "rejected"
           /\ setup.leaf = "service" => goals[g] \in {"none", "sent", "answered"}
    /\ leaf.result # NoGoal => goals[leaf.result] \in Settled \cup {"answered"}
    /\ leaf.available \/ leaf.state = "GOAL_FINISHING" => leaf.result # NoGoal
    /\ at.step = "reply" => leaf.sent # NoGoal /\ setup.leaf = "service"

\* The state of the leaf, its status and where the thread is fit together.
LeafFits ==
    setup.leaf = "action" =>
        /\ leaf.state \in {"IDLE", "GOAL_CANCELLING", "GOAL_FINISHED", "GOAL_FAILURE"} =>
               leaf.status # "RUNNING"
        /\ leaf.since <= sentGoals + 1
        /\ at.step = "answer" => leaf.state = "GOAL_SENT" /\ leaf.sent # NoGoal
        /\ at.step = "some" => leaf.state \in {"GOAL_SENT", "GOAL_EXECUTING"}
        /\ leaf.state = "GOAL_EXECUTING" => leaf.sent = NoGoal /\ leaf.handle # NoGoal
        /\ at.step \in {"cancel", "result"} => leaf.handle # NoGoal

\* A goal that may be executed has been lost, or is of the client that the leaf has
\* now; in this case a running leaf has it in hand, or
\* the thread is about to see what its cancellation has brought.
Attended ==
    \A g \in Goals :
        setup.leaf = "action" /\ goals[g] \in {"sent", "executing"} /\ g \notin unattended =>
            /\ leaf.since <= g
            /\ \/ /\ at.step \notin {"cancel", "result", "catch", "uninitialized"} /\ ~finished
                  /\ leaf.status = "RUNNING" /\ leaf.state # "GOAL_FINISHING"
                  /\ g = leaf.sent \/ g = leaf.handle
               \/ at.step \in {"cancel", "result"} /\ g = leaf.handle

PerformerInv ==
    /\ TypeOK /\ ThreadIsActive /\ StatusFits /\ StatusIsEarned /\ KnownIsTrue /\ LeafFits
    /\ Attended
    /\ EndIsToldOnce /\ SuccessIsEarned

\* A performer that is told to stop does, whether the server answers or not: it is
\* INACTIVE then, or it took the error transition because the result of its goal came
\* before the answer of the cancel (cancel_goal, on_deactivate).  In this case its timer
\* goes on, and its tree is ticked to the end, though the plan has cancelled it: with
\* an on_tick that ends or replaces goals even that is not certain.  And an action that
\* is being executed ends, if the servers answer and its goals are not replaced (tick,
\* do_work).
ExecutionEnds ==
    /\ at.next = "deactivate" ~> lifecycle # "ACTIVE"
    /\ lifecycle = "FINALIZED" /\ setup.user = "default" ~> finished
    /\ ServersAnswer =>
           (lifecycle = "ACTIVE" /\ setup.user # "updates" ~> lifecycle # "ACTIVE")
=============================================================================
