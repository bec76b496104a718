--------------------------- MODULE ExecutionCycle ---------------------------
(***************************************************************************)
(* The goals of the action "execute_plan" in the executor node, and the    *)
(* state machine execution_cycle runs for them.                            *)
(*                                                                         *)
(* Two threads share the members of ExecutorNode without a lock:           *)
(*   - the spin thread runs handle_accepted and handle_cancel when clients *)
(*     send or cancel a goal;                                              *)
(*   - a detached thread runs execution_cycle for ever, at 50 Hz.          *)
(* Each read or write of a shared member that the other thread may come    *)
(* between is a step of its own.                                           *)
(*                                                                         *)
(* The state of a goal is kept by the action library, which is external:   *)
(* it makes a goal EXECUTING before handle_accepted, makes it CANCELING    *)
(* after handle_cancel accepted, throws on an illegal transition, and      *)
(* cancels a goal that nobody holds a handle to.  What the trees do, and   *)
(* the actions they run, is in ActionHub.                                  *)
(***************************************************************************)
EXTENDS Naturals

CONSTANTS
    Goals,         \* the goals clients may send, each at most once
    NoGoal,        \* a null goal handle
    Overlapping    \* may a goal be sent while another is not settled?

ASSUME GoalsAssumption == NoGoal \notin Goals /\ Overlapping \in BOOLEAN

VARIABLES
    executorState,   \* executor_state_
    newPlan,         \* new_plan_received_
    cancelRequested, \* cancel_requested_
    newGoal,         \* new_goal_handle_
    currentGoal,     \* current_goal_handle_
    cancelGoal,      \* cancel_goal_handle_
    goalState,       \* the state the action library keeps of each goal
    cycle,           \* where the thread of execution_cycle is
    spin             \* where the spin thread is

flagVars   == <<newPlan, cancelRequested>>
handleVars == <<newGoal, currentGoal, cancelGoal>>
vars == <<executorState, flagVars, handleVars, goalState, cycle, spin>>

ExecutorState == {"IDLE", "EXECUTING", "REPLANNING", "ABORTING", "CANCELLED",
                  "FAILED", "SUCCEDED", "ERROR"}

Active  == {"EXECUTING", "CANCELING"}
Settled == {"SUCCEEDED", "ABORTED", "CANCELED"}

SpinIdle == [at |-> "wait", goal |-> NoGoal]

Init ==
    /\ executorState = "IDLE"
    /\ newPlan = FALSE
    /\ cancelRequested = FALSE
    /\ newGoal = NoGoal
    /\ currentGoal = NoGoal
    /\ cancelGoal = NoGoal
    /\ goalState = [g \in Goals |-> "UNSENT"]
    /\ cycle = "loop"
    /\ spin = SpinIdle

-----------------------------------------------------------------------------
(* The spin thread.  Nothing runs once an exception has left the detached   *)
(* thread: it ends the process.                                            *)

Alive == cycle # "crashed"
SpinAt(at, g) == Alive /\ spin = [at |-> at, goal |-> g]
SpinGoes(at, g) == spin' = [at |-> at, goal |-> g]

\* The library cancels the active goals whose last handle is gone.
Released(state, held) ==
    [h \in Goals |-> IF state[h] \in Active /\ h \notin held THEN "CANCELED" ELSE state[h]]

\* handle_goal accepts every goal; handle_accepted stores its handle, and only
\* then raises the flag.
HandleAccepted(g) ==
    /\ SpinAt("wait", NoGoal)
    /\ goalState[g] = "UNSENT"
    /\ Overlapping \/ \A h \in Goals : goalState[h] \notin Active
    /\ newGoal' = g
    /\ goalState' = Released([goalState EXCEPT ![g] = "EXECUTING"],
                             {g, currentGoal, cancelGoal})
    /\ SpinGoes("announce", g)
    /\ UNCHANGED <<executorState, flagVars, currentGoal, cancelGoal, cycle>>

AnnounceGoal(g) ==
    /\ SpinAt("announce", g)
    /\ newPlan' = TRUE
    /\ spin' = SpinIdle
    /\ UNCHANGED <<executorState, cancelRequested, handleVars, goalState, cycle>>

\* handle_cancel looks at the state of the executor, not at the goal.  In any
\* other state it rejects the request and changes nothing.
HandleCancel(g) ==
    /\ SpinAt("wait", NoGoal)
    /\ goalState[g] = "EXECUTING"
    /\ executorState = "EXECUTING"
    /\ cancelGoal' = g
    /\ goalState' = Released(goalState, {g, currentGoal, newGoal})
    /\ SpinGoes("request", g)
    /\ UNCHANGED <<executorState, flagVars, newGoal, currentGoal, cycle>>

\* Mutant of RequestCancel: the request is accepted and nobody is told.
RequestCancelUnnoticed(g) ==
    /\ SpinAt("request", g)
    /\ SpinGoes("accept", g)
    /\ UNCHANGED <<executorState, flagVars, handleVars, goalState, cycle>>

RequestCancel(g) ==
    /\ SpinAt("request", g)
    /\ cancelRequested' = TRUE
    /\ SpinGoes("accept", g)
    /\ UNCHANGED <<executorState, newPlan, handleVars, goalState, cycle>>

\* The library makes the goal CANCELING, unless it was settled in between.
AcceptCancel(g) ==
    /\ SpinAt("accept", g)
    /\ goalState' = IF goalState[g] = "EXECUTING"
                    THEN [goalState EXCEPT ![g] = "CANCELING"] ELSE goalState
    /\ spin' = SpinIdle
    /\ UNCHANGED <<executorState, flagVars, handleVars, cycle>>

-----------------------------------------------------------------------------
(* The execution cycle.                                                    *)

CycleIn(state) == cycle = "loop" /\ executorState = state

\* STATE_IDLE: the flag is reset first, the handle is read next.
TakePlan ==
    /\ CycleIn("IDLE")
    /\ newPlan
    /\ newPlan' = FALSE
    /\ cycle' = "take"
    /\ UNCHANGED <<executorState, cancelRequested, handleVars, goalState, spin>>

\* What follows init_plan_for_execution, which fails when there is no tree for the
\* plan, and leaves cancel_requested_ as it is.
init_plan_for_execution == executorState' \in {"EXECUTING", "ABORTING"}

\* The same for replan_for_execution: the old executors are given up, or taken over.
replan_for_execution == executorState' \in {"EXECUTING", "ERROR"}

StartPlan ==
    /\ cycle = "take"
    /\ currentGoal' = newGoal
    /\ init_plan_for_execution
    /\ cycle' = "loop"
    /\ UNCHANGED <<flagVars, newGoal, cancelGoal, goalState, spin>>

\* STATE_EXECUTING: the tree is ticked, and only a tick that leaves it running
\* looks at the flags.  When the tick throws, the status the code tests is not
\* initialised: each of the steps below may follow.
TreeEnds(state) ==
    /\ CycleIn("EXECUTING")
    /\ executorState' = state
    /\ UNCHANGED <<flagVars, handleVars, goalState, cycle, spin>>

TreeSucceeds == TreeEnds("SUCCEDED")
TreeFails    == TreeEnds("FAILED")

\* Mutant of PlanCancelled: the plan that waits is dropped with the one cancelled.
PlanCancelledForgets ==
    /\ CycleIn("EXECUTING")
    /\ cancelRequested
    /\ cancelRequested' = FALSE
    /\ newPlan' = FALSE
    /\ executorState' = "CANCELLED"
    /\ UNCHANGED <<handleVars, goalState, cycle, spin>>

PlanCancelled ==
    /\ CycleIn("EXECUTING")
    /\ cancelRequested
    /\ cancelRequested' = FALSE
    /\ executorState' = "CANCELLED"
    /\ UNCHANGED <<newPlan, handleVars, goalState, cycle, spin>>

\* Mutant of PlanReplaced: the flag is reset and the old plan goes on.
PlanReplacedIgnored ==
    /\ CycleIn("EXECUTING")
    /\ ~cancelRequested
    /\ newPlan
    /\ newPlan' = FALSE
    /\ UNCHANGED <<executorState, cancelRequested, handleVars, goalState, cycle, spin>>

PlanReplaced ==
    /\ CycleIn("EXECUTING")
    /\ ~cancelRequested
    /\ newPlan
    /\ newPlan' = FALSE
    /\ executorState' = "REPLANNING"
    /\ UNCHANGED <<cancelRequested, handleVars, goalState, cycle, spin>>

\* STATE_REPLANNING aborts the current goal and, a round later, takes the new one.
\* A current goal that is CANCELING is left alone, in this state, for ever.
FindPreviousActive ==
    /\ CycleIn("REPLANNING")
    /\ goalState[currentGoal] = "EXECUTING"
    /\ cycle' = "abort"
    /\ UNCHANGED <<executorState, flagVars, handleVars, goalState, spin>>

AbortPrevious ==
    /\ cycle = "abort"
    /\ goalState' = [goalState EXCEPT ![currentGoal] = "ABORTED"]
    /\ cycle' = "loop"
    /\ UNCHANGED <<executorState, flagVars, handleVars, spin>>

\* Mutant of Replan: the new goal is taken while the old one is active.
ReplanAtOnce ==
    /\ CycleIn("REPLANNING")
    /\ goalState[currentGoal] # "CANCELING"
    /\ currentGoal' = newGoal
    /\ replan_for_execution
    /\ UNCHANGED <<flagVars, newGoal, cancelGoal, goalState, cycle, spin>>

Replan ==
    /\ CycleIn("REPLANNING")
    /\ goalState[currentGoal] \in Settled
    /\ currentGoal' = newGoal
    /\ replan_for_execution
    /\ UNCHANGED <<flagVars, newGoal, cancelGoal, goalState, cycle, spin>>

\* The states that report a result.  The library throws when the goal may not
\* make the transition, and the exception ends the process.
Report(state, from, to) ==
    /\ CycleIn(state)
    /\ IF goalState[currentGoal] \in from
       THEN /\ goalState' = [goalState EXCEPT ![currentGoal] = to]
            /\ executorState' = "IDLE"
            /\ UNCHANGED cycle
       ELSE /\ cycle' = "crashed"
            /\ UNCHANGED <<goalState, executorState>>
    /\ UNCHANGED <<flagVars, handleVars, spin>>

ReportAborted   == Report("ABORTING", Active, "ABORTED")
ReportCancelled == Report("CANCELLED", {"CANCELING"}, "CANCELED")
ReportFailed    == Report("FAILED", Active, "SUCCEEDED")
ReportError     == Report("ERROR", Active, "ABORTED")
ReportSucceded  == Report("SUCCEDED", Active, "SUCCEEDED")

-----------------------------------------------------------------------------
SpinContinues(g) == AnnounceGoal(g) \/ RequestCancel(g) \/ AcceptCancel(g)

SpinStep(g) == HandleAccepted(g) \/ HandleCancel(g) \/ SpinContinues(g)

Reports ==
    ReportAborted \/ ReportCancelled \/ ReportFailed \/ ReportError \/ ReportSucceded

CycleStep ==
    \/ TakePlan \/ StartPlan
    \/ TreeSucceeds \/ TreeFails \/ PlanCancelled \/ PlanReplaced
    \/ FindPreviousActive \/ AbortPrevious \/ Replan
    \/ Reports

Next == CycleStep \/ \E g \in Goals : SpinStep(g)

Spec == Init /\ [][Next]_vars

\* Both threads go on, but clients need not send or cancel goals and a tree need
\* not end: only the ticks that find a flag raised are sure to leave EXECUTING.
Fairness ==
    /\ WF_vars(TakePlan \/ StartPlan)
    /\ WF_vars(PlanCancelled) /\ WF_vars(PlanReplaced)
    /\ WF_vars(FindPreviousActive \/ AbortPrevious \/ Replan)
    /\ WF_vars(Reports)
    /\ \A g \in Goals : WF_vars(SpinContinues(g))

FairSpec == Spec /\ Fairness

-----------------------------------------------------------------------------
(* Properties.                                                             *)

TypeOK ==
    /\ executorState \in ExecutorState
    /\ newPlan \in BOOLEAN
    /\ cancelRequested \in BOOLEAN
    /\ newGoal \in Goals \cup {NoGoal}
    /\ currentGoal \in Goals \cup {NoGoal}
    /\ cancelGoal \in Goals \cup {NoGoal}
    /\ goalState \in [Goals -> {"UNSENT"} \cup Active \cup Settled]
    /\ cycle \in {"loop", "take", "abort", "crashed"}
    /\ spin \in [at : {"wait", "announce", "request", "accept"}, goal : Goals \cup {NoGoal}]

\* A goal that was accepted is not forgotten: as long as execution_cycle has not
\* taken it, the flag is up or the step that takes or announces it is under way.
PendingIsKept ==
    newGoal # currentGoal =>
        \/ newPlan
        \/ cycle = "take"
        \/ executorState = "REPLANNING"
        \/ spin = [at |-> "announce", goal |-> newGoal]
        \/ cycle = "crashed"

\* execution_cycle leaves a goal for another only when the client of the first has
\* its result: no two goals it took are ever active together.
OneGoalAtATime ==
    [][currentGoal' # currentGoal =>
          currentGoal = NoGoal \/ goalState[currentGoal] \in Settled]_vars

\* The previous goal is being cancelled in a state that waits for it to settle.
Wedged == executorState = "REPLANNING" /\ goalState[currentGoal] = "CANCELING"

\* A goal that was announced becomes the current one, unless a newer goal takes its
\* place; and a cancel request that handle_cancel accepts for the current goal ends
\* that goal; unless the executor is wedged or gone before.
RequestsSettle ==
    \A g \in Goals :
        /\ newPlan /\ newGoal = g ~>
               currentGoal = g \/ newGoal # g \/ Wedged \/ cycle = "crashed"
        /\ spin = [at |-> "request", goal |-> g] /\ currentGoal = g ~>
               goalState[g] \in Settled \/ Wedged \/ cycle = "crashed"

-----------------------------------------------------------------------------
(* The invariant behind OneGoalAtATime.                                    *)

\* Handles are not null where the code uses them.
HandlesAreSet ==
    /\ newPlan \/ cycle = "take" \/ spin.at = "announce" \/ executorState = "REPLANNING" =>
           newGoal \in Goals
    /\ executorState # "IDLE" => currentGoal \in Goals

\* Only an active goal is about to be aborted.
AbortIsDue ==
    cycle = "abort" =>
        /\ executorState = "REPLANNING"
        /\ goalState[currentGoal] \in Active

\* An idle executor has reported the goal it took last.
IdleHasReported ==
    /\ cycle = "take" => executorState = "IDLE"
    /\ executorState = "IDLE" =>
           currentGoal = NoGoal \/ goalState[currentGoal] \in Settled

GoalInv == TypeOK /\ HandlesAreSet /\ AbortIsDue /\ IdleHasReported
=============================================================================
