-------------------------- MODULE Execution_proofs --------------------------
(***************************************************************************)
(* For any set of goals, and whatever clients send and cancel: no accepted *)
(* goal is forgotten, and the executor settles a goal before it takes the  *)
(* next.  A client leaves the executor with all of that, and a goal of the *)
(* client that is executed is in its hand, but for the ways the code has   *)
(* to lose it.                                                             *)
(***************************************************************************)
EXTENDS ExecutorClient, TLAPS

-----------------------------------------------------------------------------
(* The execution cycle                                                     *)

\* Init: every variable starts in its type.
LEMMA TypeInit == Init => TypeOK
  <1> SUFFICES ASSUME Init PROVE TypeOK
    OBVIOUS
  <1>1. goalState \in [Goals -> {"UNSENT"} \cup Active \cup Settled]
    BY DEF Init
  <1>2. spin \in [at : {"wait", "announce", "request", "accept"}, goal : Goals \cup {NoGoal}]
    BY DEF Init, SpinIdle
  <1> QED BY <1>1, <1>2 DEF Init, TypeOK, ExecutorState

\* Every step of the two threads keeps the types.
LEMMA TypeNext ==
    ASSUME TypeOK, [Next]_vars
    PROVE  TypeOK'
  <1> USE DEF TypeOK, ExecutorState, flagVars, handleVars
  <1>1. ASSUME NEW g \in Goals, SpinStep(g)
        PROVE  TypeOK'
    <2>1. CASE HandleAccepted(g) \/ HandleCancel(g)
      <3>1. goalState' \in [Goals -> {"UNSENT"} \cup Active \cup Settled]
        BY <2>1 DEF HandleAccepted, HandleCancel, Released, Active, Settled
      <3>2. spin' \in [at : {"wait", "announce", "request", "accept"}, goal : Goals \cup {NoGoal}]
        BY <2>1 DEF HandleAccepted, HandleCancel, SpinGoes
      <3> QED BY <2>1, <3>1, <3>2 DEF HandleAccepted, HandleCancel
    <2>2. CASE SpinContinues(g)
      <3>1. goalState' \in [Goals -> {"UNSENT"} \cup Active \cup Settled]
        BY <2>2 DEF SpinContinues, AnnounceGoal, RequestCancel, AcceptCancel, Active
      <3>2. spin' \in [at : {"wait", "announce", "request", "accept"}, goal : Goals \cup {NoGoal}]
        BY <2>2 DEF SpinContinues, AnnounceGoal, RequestCancel, AcceptCancel, SpinGoes, SpinIdle
      <3> QED BY <2>2, <3>1, <3>2 DEF SpinContinues, AnnounceGoal, RequestCancel, AcceptCancel
    <2> QED BY <1>1, <2>1, <2>2 DEF SpinStep
  <1>2. CASE CycleStep
    <2>1. CASE TakePlan \/ StartPlan \/ TreeSucceeds \/ TreeFails \/ PlanCancelled \/ PlanReplaced
      BY <2>1 DEF TakePlan, StartPlan, init_plan_for_execution, TreeSucceeds, TreeFails,
                  TreeEnds, PlanCancelled, PlanReplaced
    <2>2. CASE FindPreviousActive \/ AbortPrevious \/ Replan
      BY <2>2 DEF FindPreviousActive, AbortPrevious, Replan, replan_for_execution, Settled
    <2>3. CASE Reports
      BY <2>3 DEF Reports, ReportAborted, ReportCancelled, ReportFailed, ReportError,
                  ReportSucceded, Report, Settled
    <2> QED BY <1>2, <2>1, <2>2, <2>3 DEF CycleStep
  <1>3. CASE UNCHANGED vars
    BY <1>3 DEF vars
  <1> QED BY <1>1, <1>2, <1>3 DEF Next

\* Every variable stays within its type: in particular no state of the executor but
\* the eight of the switch is ever written.
THEOREM TypeCorrect == Spec => []TypeOK
  <1> QED BY TypeInit, TypeNext, PTL DEF Spec

-----------------------------------------------------------------------------
\* The two handlers that let go of a handle still leave the current goal alone.
LEMMA CurrentIsHeld ==
    ASSUME TypeOK, currentGoal \in Goals, NEW g \in Goals,
           HandleAccepted(g) \/ HandleCancel(g),
           goalState[currentGoal] # "UNSENT"
    PROVE  goalState'[currentGoal] = goalState[currentGoal]
  BY DEF TypeOK, HandleAccepted, HandleCancel, Released

\* Every step keeps the invariant on goals and their handles.
LEMMA GoalInvNext ==
    ASSUME GoalInv, [Next]_vars
    PROVE  GoalInv'
  <1> USE GoalsAssumption
      DEF GoalInv, HandlesAreSet, AbortIsDue, IdleHasReported, Settled, Active,
          flagVars, handleVars
  <1>1. TypeOK'
    BY TypeNext
  <1>2. ASSUME NEW g \in Goals, SpinStep(g)
        PROVE  GoalInv'
    <2>1. CASE HandleAccepted(g) \/ HandleCancel(g)
      <3>1. /\ UNCHANGED <<executorState, newPlan, currentGoal, cycle>>
            /\ newGoal' \in {newGoal, g}
            /\ spin'.at = "announce" => newGoal' = g
        BY <2>1 DEF HandleAccepted, HandleCancel, SpinGoes
      <3>2. HandlesAreSet'
        BY <3>1
      <3>3. ASSUME currentGoal \in Goals, goalState[currentGoal] \in Active \cup Settled
            PROVE  goalState'[currentGoal] = goalState[currentGoal]
        BY <2>1, <3>3, CurrentIsHeld
      <3>4. AbortIsDue' /\ IdleHasReported'
        BY <3>1, <3>3 DEF TypeOK
      <3> QED BY <1>1, <3>2, <3>4
    <2>2. CASE SpinContinues(g)
      BY <1>1, <2>2 DEF TypeOK, SpinContinues, AnnounceGoal, RequestCancel, AcceptCancel, SpinAt,
                        SpinGoes, SpinIdle
    <2> QED BY <1>2, <2>1, <2>2 DEF SpinStep
  <1>3. CASE CycleStep
    <2>1. CASE TakePlan \/ StartPlan \/ TreeSucceeds \/ TreeFails \/ PlanCancelled \/ PlanReplaced
      BY <1>1, <2>1 DEF TypeOK, TakePlan, StartPlan, init_plan_for_execution, TreeSucceeds,
                        TreeFails, TreeEnds, PlanCancelled, PlanReplaced, CycleIn
    <2>2. CASE FindPreviousActive \/ AbortPrevious \/ Replan
      BY <1>1, <2>2 DEF TypeOK, FindPreviousActive, AbortPrevious, Replan,
                        replan_for_execution, CycleIn
    <2>3. CASE Reports
      BY <1>1, <2>3 DEF TypeOK, Reports, ReportAborted, ReportCancelled, ReportFailed,
                        ReportError, ReportSucceded, Report, CycleIn
    <2> QED BY <1>3, <2>1, <2>2, <2>3 DEF CycleStep
  <1>4. CASE UNCHANGED vars
    BY <1>1, <1>4 DEF vars
  <1> QED BY <1>2, <1>3, <1>4 DEF Next

\* The executor starts with no goal.
LEMMA GoalInvInit == Init => GoalInv
  BY TypeInit DEF Init, SpinIdle, GoalInv, HandlesAreSet, AbortIsDue, IdleHasReported

\* What an idle executor took last it has reported.
THEOREM GoalInvCorrect == Spec => []GoalInv
  BY GoalInvInit, GoalInvNext, PTL DEF Spec

\* The executor reports a goal before it takes the next, however goals are sent,
\* replaced and cancelled.
THEOREM TakesOneGoalAtATime == Spec => OneGoalAtATime
  <1>1. ASSUME GoalInv, [Next]_vars, currentGoal' # currentGoal
        PROVE  currentGoal = NoGoal \/ goalState[currentGoal] \in Settled
    <2> USE DEF vars, flagVars, handleVars
    <2>1. CASE StartPlan \/ Replan
      BY <1>1, <2>1 DEF StartPlan, Replan, GoalInv, IdleHasReported
    <2>2. CASE \E g \in Goals : SpinStep(g)
      BY <1>1, <2>2 DEF SpinStep, SpinContinues, HandleAccepted, HandleCancel, AnnounceGoal,
                        RequestCancel, AcceptCancel
    <2>3. CASE CycleStep
      BY <1>1, <2>1, <2>3
      DEF CycleStep, TakePlan, TreeSucceeds, TreeFails, TreeEnds, PlanCancelled, PlanReplaced,
          FindPreviousActive, AbortPrevious, Reports, ReportAborted, ReportCancelled,
          ReportFailed, ReportError, ReportSucceded, Report
    <2>4. CASE UNCHANGED vars
      BY <1>1, <2>4
    <2> QED BY <1>1, <2>2, <2>3, <2>4 DEF Next
  <1>2. GoalInv /\ [Next]_vars =>
            [currentGoal' # currentGoal =>
                currentGoal = NoGoal \/ goalState[currentGoal] \in Settled]_vars
    BY <1>1
  <1> QED BY <1>2, GoalInvCorrect, PTL DEF Spec, OneGoalAtATime

-----------------------------------------------------------------------------
\* A goal that was accepted stays pending until the execution cycle takes it.
LEMMA PendingNext ==
    ASSUME TypeOK, PendingIsKept, [Next]_vars
    PROVE  PendingIsKept'
  <1> USE DEF PendingIsKept, flagVars, handleVars
  <1>1. ASSUME NEW g \in Goals, SpinStep(g)
        PROVE  PendingIsKept'
    BY <1>1, GoalsAssumption
    DEF SpinStep, SpinContinues, HandleAccepted, HandleCancel, AnnounceGoal, RequestCancel,
        AcceptCancel, SpinAt, SpinGoes
  <1>2. CASE CycleStep
    <2>1. CASE TakePlan \/ StartPlan \/ TreeSucceeds \/ TreeFails \/ PlanCancelled \/ PlanReplaced
      BY <2>1 DEF TakePlan, StartPlan, init_plan_for_execution, TreeSucceeds, TreeFails,
                  TreeEnds, PlanCancelled, PlanReplaced, CycleIn
    <2>2. CASE FindPreviousActive \/ AbortPrevious \/ Replan
      BY <2>2 DEF FindPreviousActive, AbortPrevious, Replan, CycleIn
    <2>3. CASE Reports
      BY <2>3 DEF Reports, ReportAborted, ReportCancelled, ReportFailed, ReportError,
                  ReportSucceded, Report, CycleIn
    <2> QED BY <1>2, <2>1, <2>2, <2>3 DEF CycleStep
  <1>3. CASE UNCHANGED vars
    BY <1>3 DEF vars
  <1> QED BY <1>1, <1>2, <1>3 DEF Next

\* An accepted goal is never forgotten between the spin thread and execution_cycle.
THEOREM PendingCorrect == Spec => []PendingIsKept
  <1>1. Init => PendingIsKept
    BY DEF Init, PendingIsKept
  <1> QED BY <1>1, TypeCorrect, PendingNext, PTL DEF Spec

-----------------------------------------------------------------------------
(* The server takes only steps of the execution cycle                      *)

\* The client leaves the server alone, and the server does what it does alone.
LEMMA ServerSteps == [ComposedNext]_allVars => [Next]_vars
  <1> SUFFICES ASSUME [ComposedNext]_allVars PROVE [Next]_vars
    OBVIOUS
  <1>1. CASE Server
    BY <1>1 DEF Server, Accept, AcceptCancelRequest, RejectCancelRequest, Next, SpinStep
  <1>2. CASE Callbacks
    BY <1>2 DEF Callbacks, GoalResponse, ResultCallback, Aside
  <1>3. CASE CppMethods
    BY <1>3 DEF CppMethods, StartPlanExecution, SendTimesOut, ExecuteAndCheckPlan, NotFinished,
                Finished, NothingToCancel, CancelPlanExecution, ShouldCancelGoal,
                ShouldNotCancelGoal, CancelEnds, Ask, AskEnds, OnlyTheCallChanges, Aside
  <1>4. CASE PyMethods
    BY <1>4 DEF PyMethods, PyAsk, PyExecutePlan, PyAccepted, OnlyTheCallChanges, Aside
  <1>5. CASE UNCHANGED allVars
    BY <1>5 DEF allVars
  <1> QED BY <1>1, <1>2, <1>3, <1>4, <1>5 DEF ComposedNext

\* The executor, composed with a client, implements the execution cycle: what is
\* proved of the one holds of the other.
THEOREM ServesAsAlone == ComposedSpec => Spec
  <1>1. ComposedInit => Init
    BY DEF ComposedInit
  <1> QED BY <1>1, ServerSteps, PTL DEF ComposedSpec, Spec

\* Its inductive invariant holds of the composition.
THEOREM GoalInvHolds == ComposedSpec => []GoalInv
  BY ServesAsAlone, GoalInvCorrect, PTL

\* What a step of the server may make of a goal.
LEMMA GoalStateStep ==
    ASSUME GoalInv, [Next]_vars, NEW g \in Goals
    PROVE  /\ goalState[g] # "UNSENT" => goalState'[g] # "UNSENT"
           /\ goalState[g] \in Settled => goalState'[g] \in Settled
           /\ goalState'[g] = "EXECUTING" => goalState[g] \in {"EXECUTING", "UNSENT"}
           /\ goalState[g] = "UNSENT" /\ goalState'[g] # "UNSENT" => HandleAccepted(g)
  <1>0. goalState \in [Goals -> {"UNSENT"} \cup Active \cup Settled]
        /\ currentGoal \in Goals \cup {NoGoal}
    BY DEF GoalInv, TypeOK
  <1> USE <1>0 DEF Active, Settled, flagVars, handleVars
  <1>1. CASE UNCHANGED goalState
    BY <1>1
  <1>2. ASSUME NEW h \in Goals, HandleAccepted(h)
        PROVE  /\ goalState[g] # "UNSENT" => goalState'[g] # "UNSENT"
               /\ goalState[g] \in Settled => goalState'[g] \in Settled
               /\ goalState'[g] = "EXECUTING" => goalState[g] \in {"EXECUTING", "UNSENT"}
               /\ goalState[g] = "UNSENT" /\ goalState'[g] # "UNSENT" => g = h
    BY <1>2 DEF HandleAccepted, Released
  <1>3. ASSUME NEW h \in Goals, HandleCancel(h)
        PROVE  /\ goalState[g] # "UNSENT" => goalState'[g] # "UNSENT"
               /\ goalState[g] \in Settled => goalState'[g] \in Settled
               /\ goalState'[g] = "EXECUTING" => goalState[g] \in {"EXECUTING", "UNSENT"}
               /\ goalState[g] = "UNSENT" => goalState'[g] = "UNSENT"
    BY <1>3 DEF HandleCancel, Released
  <1>4. ASSUME NEW h \in Goals, SpinContinues(h)
        PROVE  /\ goalState[g] # "UNSENT" => goalState'[g] # "UNSENT"
               /\ goalState[g] \in Settled => goalState'[g] \in Settled
               /\ goalState'[g] = "EXECUTING" => goalState[g] \in {"EXECUTING", "UNSENT"}
               /\ goalState[g] = "UNSENT" => goalState'[g] = "UNSENT"
    BY <1>4 DEF SpinContinues, AnnounceGoal, RequestCancel, AcceptCancel
  <1>5. CASE AbortPrevious
    BY <1>5 DEF AbortPrevious, GoalInv, AbortIsDue
  <1>6. CASE Reports
    BY <1>6 DEF Reports, ReportAborted, ReportCancelled, ReportFailed, ReportError, ReportSucceded,
                Report
  <1>7. CASE CycleStep /\ ~AbortPrevious /\ ~Reports
    BY <1>1, <1>7 DEF CycleStep, TakePlan, StartPlan, TreeSucceeds, TreeFails, TreeEnds,
                      PlanCancelled, PlanReplaced, FindPreviousActive, Replan
  <1>8. CASE UNCHANGED vars
    BY <1>1, <1>8 DEF vars
  <1> QED BY <1>2, <1>3, <1>4, <1>5, <1>6, <1>7, <1>8 DEF Next, SpinStep

-----------------------------------------------------------------------------
(* Types of the client                                                     *)

\* Every step of the composition keeps the types of the client.
LEMMA ClientTypeNext ==
    ASSUME GoalInv, ClientTypeOK, CallHasGoal, [ComposedNext]_allVars
    PROVE  ClientTypeOK'
  <1>0. /\ \A method \in Methods, g \in ClientGoals \cup {NoGoal} :
               [at |-> method, goal |-> g] \in [at : Methods, goal : ClientGoals \cup {NoGoal}]
        /\ client.goal \in ClientGoals \cup {NoGoal} /\ client.at \in Methods
    BY DEF ClientTypeOK
  <1> USE DEF Goes, Aside, clientVars
  <1>1. CASE Server
    <2>1. requests' \in Seq(ClientGoals)
      BY <1>1 DEF ClientTypeOK, Server, Accept, AcceptCancelRequest, RejectCancelRequest
    <2>2. cancels' \subseteq ClientGoals
      BY <1>1 DEF ClientTypeOK, Server, Accept, AcceptCancelRequest, RejectCancelRequest
    <2>3. preempted' \subseteq Goals \cup {NoGoal}
      BY <1>1 DEF ClientTypeOK, Server, Results, GoalInv, TypeOK
    <2>4. UNCHANGED clientVars
      BY <1>1 DEF Server
    <2> QED BY <2>1, <2>2, <2>3, <2>4 DEF ClientTypeOK
  <1>2. ASSUME NEW g \in ClientGoals, GoalResponse(g)
        PROVE  ClientTypeOK'
    <2>1. /\ goalHandler' \in ClientGoals \cup {NoGoal} /\ executingPlan' \in BOOLEAN
          /\ lost' \subseteq ClientGoals
      BY <1>2 DEF GoalResponse, ClientTypeOK
    <2>2. client' \in [at : Methods, goal : ClientGoals \cup {NoGoal}]
      BY <1>0, <1>2 DEF GoalResponse, ClientTypeOK, Methods
    <2>3. phase' \in [ClientGoals -> {"unsent", "asked", "known", "done"}]
      BY <1>2 DEF GoalResponse, ClientTypeOK
    <2> QED BY <1>2, <2>1, <2>2, <2>3 DEF GoalResponse, ClientTypeOK
  <1>3. ASSUME NEW g \in ClientGoals, ResultCallback(g)
        PROVE  ClientTypeOK'
    <2>1. client' \in [at : Methods, goal : ClientGoals \cup {NoGoal}]
      BY <1>0, <1>3 DEF ResultCallback, ClientTypeOK, Methods
    <2>2. /\ available' \in BOOLEAN /\ result' \in ClientGoals \cup {NoGoal}
          /\ phase' \in [ClientGoals -> {"unsent", "asked", "known", "done"}]
      BY <1>3 DEF ResultCallback, ClientTypeOK
    <2> QED BY <1>3, <2>1, <2>2 DEF ResultCallback, ClientTypeOK
  <1>4. ASSUME NEW g \in ClientGoals, StartPlanExecution(g) \/ PyExecutePlan(g) \/ PyAccepted(g)
        PROVE  ClientTypeOK'
    <2>1. client' \in [at : Methods, goal : ClientGoals \cup {NoGoal}]
      BY <1>0, <1>4 DEF StartPlanExecution, PyExecutePlan, PyAccepted, Methods
    <2>2. phase' \in [ClientGoals -> {"unsent", "asked", "known", "done"}]
      BY <1>4 DEF StartPlanExecution, PyExecutePlan, PyAccepted, ClientTypeOK
    <2>3. requests' \in Seq(ClientGoals) /\ lost' \subseteq ClientGoals
      BY <1>4 DEF StartPlanExecution, PyExecutePlan, PyAccepted, ClientTypeOK, Lose
    <2> QED BY <1>4, <2>1, <2>2, <2>3 DEF StartPlanExecution, PyExecutePlan, PyAccepted, ClientTypeOK
  <1>5. CASE SendTimesOut \/ CancelEnds
    <2>1. client' \in [at : Methods, goal : ClientGoals \cup {NoGoal}]
      BY <1>0, <1>5 DEF SendTimesOut, CancelEnds, Forget, Methods
    <2>2. lost' \subseteq ClientGoals /\ executingPlan' \in BOOLEAN /\ available' \in BOOLEAN
      BY <1>5 DEF SendTimesOut, CancelEnds, Forget, Lose, ClientTypeOK, CallHasGoal, At
    <2> QED BY <1>5, <2>1, <2>2 DEF SendTimesOut, CancelEnds, ClientTypeOK
  <1>6. CASE NotFinished \/ Finished \/ NothingToCancel \/ ShouldNotCancelGoal \/ AskEnds
    <2>1. client' \in [at : Methods, goal : ClientGoals \cup {NoGoal}]
      BY <1>0, <1>6 DEF NotFinished, Finished, NothingToCancel, ShouldNotCancelGoal, AskEnds, Forget,
                        Methods
    <2>2. executingPlan' \in BOOLEAN /\ available' \in BOOLEAN
      BY <1>6 DEF NotFinished, Finished, NothingToCancel, ShouldNotCancelGoal, AskEnds, Forget,
                  OnlyTheCallChanges, ClientTypeOK
    <2> QED BY <1>6, <2>1, <2>2 DEF NotFinished, Finished, NothingToCancel, ShouldNotCancelGoal,
                                    AskEnds, OnlyTheCallChanges, ClientTypeOK
  <1>7. CASE ExecuteAndCheckPlan \/ CancelPlanExecution \/ Ask \/ PyAsk
    <2>1. client' \in [at : Methods, goal : ClientGoals \cup {NoGoal}]
      BY <1>0, <1>7 DEF ExecuteAndCheckPlan, CancelPlanExecution, Ask, PyAsk, Methods
    <2> QED BY <1>7, <2>1 DEF ExecuteAndCheckPlan, CancelPlanExecution, Ask, PyAsk,
                              OnlyTheCallChanges, ClientTypeOK
  <1>8. CASE ShouldCancelGoal
    <2>1. client' \in [at : Methods, goal : ClientGoals \cup {NoGoal}]
      BY <1>0, <1>8 DEF ShouldCancelGoal, Methods, ClientTypeOK
    <2>2. cancels' \subseteq ClientGoals
      BY <1>8 DEF ShouldCancelGoal, CallHasGoal, At, ClientTypeOK
    <2> QED BY <1>8, <2>1, <2>2 DEF ShouldCancelGoal, ClientTypeOK
  <1>9. CASE UNCHANGED allVars
    BY <1>9 DEF allVars, ClientTypeOK
  <1> QED BY <1>1, <1>2, <1>3, <1>4, <1>5, <1>6, <1>7, <1>8, <1>9
          DEF ComposedNext, Callbacks, CppMethods, PyMethods
-----------------------------------------------------------------------------
(* What the client knows of its goals                                      *)

\* A goal of the client becomes one of the server's when its request is taken.
LEMMA SentIsTaken ==
    ASSUME Server, NEW g \in ClientGoals, HandleAccepted(g)
    PROVE  requests # <<>> /\ g = Head(requests) /\ requests' = Tail(requests)
  <1>1. spin = [at |-> "wait", goal |-> NoGoal] /\ spin' = [at |-> "announce", goal |-> g]
    BY DEF HandleAccepted, SpinAt, SpinGoes
  <1>2. ~CycleStep
    BY <1>1 DEF CycleStep, TakePlan, StartPlan, TreeSucceeds, TreeFails, TreeEnds, PlanCancelled,
                PlanReplaced, FindPreviousActive, AbortPrevious, Replan, Reports, ReportAborted,
                ReportCancelled, ReportFailed, ReportError, ReportSucceded, Report
  <1>3. ASSUME NEW h \in Goals, SpinContinues(h) \/ HandleCancel(h) \/ RejectCancelRequest(h)
        PROVE  FALSE
    BY <1>1, <1>3 DEF SpinContinues, AnnounceGoal, RequestCancel, AcceptCancel, HandleCancel,
                      RejectCancelRequest, vars, SpinIdle, SpinGoes
  <1>4. PICK h \in Goals : Accept(h)
    BY <1>2, <1>3 DEF Server, AcceptCancelRequest
  <1>5. h = g
    BY <1>1, <1>4 DEF Accept, HandleAccepted, SpinGoes
  <1> QED BY <1>4, <1>5 DEF Accept

\* What the client knows stays true whatever the server does.
LEMMA PhaseIsTrueNext ==
    ASSUME GoalInv, ClientTypeOK, PhaseIsTrue, [ComposedNext]_allVars
    PROVE  PhaseIsTrue'
  <1>0. /\ requests \in Seq(ClientGoals)
        /\ phase \in [ClientGoals -> {"unsent", "asked", "known", "done"}]
        /\ ClientGoals \subseteq Goals
    BY ClientAssumption DEF ClientTypeOK
  <1> USE <1>0 DEF PhaseIsTrue
  <1>1. CASE Server
    <2>0. phase' = phase
      BY <1>1 DEF Server, clientVars
    <2>1. requests' = requests \/ (requests # <<>> /\ requests' = Tail(requests))
      BY <1>1 DEF Server, Accept, AcceptCancelRequest, RejectCancelRequest
    <2>2. \A i \in 1 .. Len(requests') : phase'[requests'[i]] # "unsent"
      BY <2>0, <2>1
    <2>3. ASSUME NEW g \in ClientGoals
          PROVE  /\ phase'[g] = "unsent" => goalState'[g] = "UNSENT"
                 /\ phase'[g] = "known" => goalState'[g] # "UNSENT"
                 /\ phase'[g] = "done" => goalState'[g] \in Settled
      <3>1. goalState[g] = "UNSENT" /\ goalState'[g] # "UNSENT" => phase[g] # "unsent"
        BY <1>1, GoalStateStep, ServerSteps, SentIsTaken
      <3> QED BY <2>0, <3>1, GoalStateStep, ServerSteps
    <2> QED BY <2>2, <2>3
  <1>2. ASSUME NEW g \in ClientGoals, GoalResponse(g)
        PROVE  PhaseIsTrue'
    BY <1>2 DEF GoalResponse, Aside, vars
  <1>3. ASSUME NEW g \in ClientGoals, ResultCallback(g)
        PROVE  PhaseIsTrue'
    BY <1>3 DEF ResultCallback, Aside, vars
  <1>4. ASSUME NEW g \in ClientGoals, StartPlanExecution(g) \/ PyExecutePlan(g)
        PROVE  PhaseIsTrue'
    <2>1. phase' = [phase EXCEPT ![g] = "asked"] /\ requests' = Append(requests, g)
          /\ goalState' = goalState
      BY <1>4 DEF StartPlanExecution, PyExecutePlan, Aside, vars
    <2> QED BY <2>1
  <1>5. ASSUME NEW g \in ClientGoals, PyAccepted(g)
        PROVE  PhaseIsTrue'
    BY <1>5 DEF PyAccepted, Aside, vars
  <1>6. CASE UNCHANGED <<vars, phase, requests>>
    BY <1>6 DEF vars
  <1> QED BY <1>1, <1>2, <1>3, <1>4, <1>5, <1>6
          DEF ComposedNext, Callbacks, CppMethods, PyMethods, SendTimesOut, ExecuteAndCheckPlan,
              NotFinished, Finished, NothingToCancel, CancelPlanExecution, ShouldCancelGoal,
              ShouldNotCancelGoal, CancelEnds, Ask, AskEnds, PyAsk, OnlyTheCallChanges, Aside,
              allVars, clientVars

\* The calls of the client keep the goal they are for.
LEMMA CallHasGoalNext ==
    ASSUME ClientTypeOK, CallHasGoal, [ComposedNext]_allVars
    PROVE  CallHasGoal'
  <1> USE DEF CallHasGoal, At, Goes
  <1>1. CASE UNCHANGED <<client, goalHandler, executingPlan>>
    BY <1>1
  <1>2. ASSUME NEW g \in ClientGoals, GoalResponse(g)
        PROVE  CallHasGoal'
    BY <1>2 DEF GoalResponse
  <1>3. ASSUME NEW g \in ClientGoals, ResultCallback(g)
        PROVE  CallHasGoal'
    BY <1>3 DEF ResultCallback, ClientTypeOK
  <1>4. ASSUME NEW g \in ClientGoals, StartPlanExecution(g) \/ PyExecutePlan(g) \/ PyAccepted(g)
        PROVE  CallHasGoal'
    BY <1>4 DEF StartPlanExecution, PyExecutePlan, PyAccepted
  <1>5. CASE \/ SendTimesOut \/ ExecuteAndCheckPlan \/ NotFinished \/ Finished
             \/ NothingToCancel \/ CancelPlanExecution
    BY <1>5 DEF SendTimesOut, ExecuteAndCheckPlan, NotFinished, Finished, NothingToCancel,
                CancelPlanExecution, Forget, OnlyTheCallChanges, ClientTypeOK
  <1>6. CASE \/ ShouldCancelGoal \/ ShouldNotCancelGoal \/ CancelEnds
             \/ Ask \/ AskEnds \/ PyAsk
    BY <1>6 DEF ShouldCancelGoal, ShouldNotCancelGoal, CancelEnds, Ask, AskEnds, PyAsk, Forget,
                OnlyTheCallChanges
  <1> QED BY <1>1, <1>2, <1>3, <1>4, <1>5, <1>6
          DEF ComposedNext, Callbacks, CppMethods, PyMethods, Server, allVars, clientVars
-----------------------------------------------------------------------------
(* A goal that is executed is in the hand of the client, or lost           *)

\* The methods that leave what the client knows of its goals as it is.
Others ==
    \/ ExecuteAndCheckPlan \/ NotFinished \/ NothingToCancel \/ CancelPlanExecution
    \/ ShouldCancelGoal \/ ShouldNotCancelGoal \/ Ask \/ AskEnds \/ PyAsk

\* A client loses a goal no later than it stops waiting for its answer.
LEMMA UnansweredIsLostNext ==
    ASSUME ClientTypeOK, CallHasGoal, UnansweredIsLost, [ComposedNext]_allVars
    PROVE  UnansweredIsLost'
  <1> USE DEF UnansweredIsLost, At, Goes
  <1>0. phase \in [ClientGoals -> {"unsent", "asked", "known", "done"}]
    BY DEF ClientTypeOK
  <1>1. CASE UNCHANGED <<client, phase, lost>>
    BY <1>1
  <1>2. ASSUME NEW g \in ClientGoals, GoalResponse(g)
        PROVE  UnansweredIsLost'
    BY <1>0, <1>2 DEF GoalResponse
  <1>3. ASSUME NEW g \in ClientGoals, ResultCallback(g)
        PROVE  UnansweredIsLost'
    BY <1>0, <1>3 DEF ResultCallback
  <1>4. ASSUME NEW g \in ClientGoals, StartPlanExecution(g) \/ PyExecutePlan(g)
        PROVE  UnansweredIsLost'
    BY <1>0, <1>4 DEF StartPlanExecution, PyExecutePlan
  <1>5. ASSUME NEW g \in ClientGoals, PyAccepted(g)
        PROVE  UnansweredIsLost'
    BY <1>0, <1>5 DEF PyAccepted, Lose
  <1>6. CASE SendTimesOut \/ CancelEnds
    BY <1>6 DEF SendTimesOut, CancelEnds, Lose, Forget
  <1>7. CASE Others \/ Finished
    BY <1>7 DEF Others, Finished, ExecuteAndCheckPlan, NotFinished, NothingToCancel,
                CancelPlanExecution, ShouldCancelGoal, ShouldNotCancelGoal, Ask, AskEnds, PyAsk,
                Forget, OnlyTheCallChanges
  <1> QED BY <1>1, <1>2, <1>3, <1>4, <1>5, <1>6, <1>7
          DEF ComposedNext, Callbacks, CppMethods, PyMethods, Others, Server, allVars, clientVars

\* A result that waits to be read is that of the goal in hand, or that goal is lost.
LEMMA ResultIsOfHandlerNext ==
    ASSUME ClientTypeOK, ResultIsOfHandler, [ComposedNext]_allVars
    PROVE  ResultIsOfHandler'
  <1>0. phase \in [ClientGoals -> {"unsent", "asked", "known", "done"}] /\ available \in BOOLEAN
    BY DEF ClientTypeOK
  <1> USE <1>0 DEF ResultIsOfHandler
  <1>1. CASE Server
    BY <1>1 DEF Server, clientVars, Results
  <1>2. ASSUME NEW g \in ClientGoals, GoalResponse(g)
        PROVE  ResultIsOfHandler'
    BY <1>2 DEF GoalResponse, Aside
  <1>3. ASSUME NEW g \in ClientGoals, ResultCallback(g)
        PROVE  ResultIsOfHandler'
    BY <1>3 DEF ResultCallback, Aside
  <1>4. ASSUME NEW g \in ClientGoals, StartPlanExecution(g) \/ PyExecutePlan(g) \/ PyAccepted(g)
        PROVE  ResultIsOfHandler'
    <2>1. /\ UNCHANGED <<available, result, preempted, goalHandler>>
          /\ lost \subseteq lost'
          /\ phase[g] # "done" /\ phase' \in [ClientGoals -> {"unsent", "asked", "known", "done"}]
          /\ \A h \in ClientGoals \ {g} : phase'[h] = phase[h]
      BY <1>4 DEF StartPlanExecution, PyExecutePlan, PyAccepted, Lose, Aside
    <2> QED BY <2>1
  <1>5. CASE SendTimesOut \/ CancelEnds \/ Finished
    <2>1. /\ UNCHANGED <<phase, result, preempted, goalHandler>>
          /\ lost \subseteq lost' /\ available' \in {available, FALSE}
      BY <1>5 DEF SendTimesOut, CancelEnds, Finished, Lose, Forget, Aside
    <2> QED BY <2>1
  <1>6. CASE Others
    <2>1. /\ UNCHANGED <<phase, result, preempted, goalHandler, lost>>
          /\ available' \in {available, FALSE}
      BY <1>6 DEF Others, ExecuteAndCheckPlan, NotFinished, NothingToCancel,
                  CancelPlanExecution, ShouldCancelGoal, ShouldNotCancelGoal, Ask, AskEnds, PyAsk,
                  Forget, OnlyTheCallChanges, Aside
    <2> QED BY <2>1
  <1>7. CASE UNCHANGED allVars
    BY <1>7 DEF allVars, clientVars
  <1> QED BY <1>1, <1>2, <1>3, <1>4, <1>5, <1>6, <1>7
          DEF ComposedNext, Callbacks, CppMethods, PyMethods, Others

\* Only the steps that lose a goal let it out of the hand of the client.
LEMMA KnownIsInHandNext ==
    ASSUME GoalInv, ClientInv, [ComposedNext]_allVars
    PROVE  KnownIsInHand'
  <1>0. /\ phase \in [ClientGoals -> {"unsent", "asked", "known", "done"}]
        /\ ClientGoals \subseteq Goals /\ NoGoal \notin Goals
        /\ goalHandler \in ClientGoals \cup {NoGoal} /\ executingPlan \in BOOLEAN
        /\ KnownIsInHand
    BY ClientAssumption, GoalsAssumption DEF ClientInv, ClientTypeOK
  <1> USE <1>0 DEF KnownIsInHand
  <1>1. CASE Server
    <2>1. ASSUME NEW g \in ClientGoals, phase'[g] = "known", goalState'[g] = "EXECUTING"
          PROVE  phase[g] = "known" /\ goalState[g] = "EXECUTING"
      <3>1. phase[g] = "known"
        BY <1>1, <2>1 DEF Server, clientVars
      <3>2. goalState[g] # "UNSENT"
        BY <3>1 DEF ClientInv, PhaseIsTrue
      <3> QED BY <2>1, <3>1, <3>2, GoalStateStep, ServerSteps
    <2> QED BY <1>1, <2>1 DEF Server, clientVars
  <1>2. ASSUME NEW g \in ClientGoals, GoalResponse(g)
        PROVE  KnownIsInHand'
    <2>1. goalState' = goalState /\ phase' = [phase EXCEPT ![g] = "known"]
      BY <1>2 DEF GoalResponse, Aside, vars
    <2>2. CASE client = [at |-> "sending", goal |-> g]
      BY <1>2, <2>1, <2>2 DEF GoalResponse
    <2>3. CASE client # [at |-> "sending", goal |-> g]
      <3>1. client \in [at : Methods, goal : ClientGoals \cup {NoGoal}]
        BY DEF ClientInv, ClientTypeOK
      <3>2. g \in lost
        BY <1>2, <2>3, <3>1 DEF GoalResponse, Spinning, ClientInv, UnansweredIsLost, At
      <3> QED BY <1>2, <2>1, <2>3, <3>2 DEF GoalResponse
    <2> QED BY <2>2, <2>3
  <1>3. ASSUME NEW g \in ClientGoals, ResultCallback(g)
        PROVE  KnownIsInHand'
    BY <1>3 DEF ResultCallback, Aside, vars
  <1>4. ASSUME NEW g \in ClientGoals, StartPlanExecution(g) \/ PyExecutePlan(g) \/ PyAccepted(g)
        PROVE  KnownIsInHand'
    BY <1>4 DEF StartPlanExecution, PyExecutePlan, PyAccepted, Lose, Aside, vars
  <1>5. CASE Finished
    <2>1. /\ goalState' = goalState /\ UNCHANGED <<phase, goalHandler, lost>>
          /\ executingPlan' = (executingPlan /\ result \in preempted)
      BY <1>5 DEF Finished, Aside, vars
    <2>2. \/ result \in preempted
          \/ goalHandler \in lost
          \/ phase[goalHandler] = "done"
      BY <1>5 DEF Finished, ClientInv, ResultIsOfHandler
    <2> QED BY <2>1, <2>2
  <1>6. CASE CancelEnds
    BY <1>6 DEF CancelEnds, Lose, Forget, Aside, vars, ClientInv, CallHasGoal, At
  <1>7. CASE ShouldNotCancelGoal
    BY <1>7 DEF ShouldNotCancelGoal, Forget, Aside, vars
  <1>8. CASE NothingToCancel
    BY <1>8 DEF NothingToCancel, Forget, Aside, vars
  <1>9. CASE SendTimesOut
    BY <1>9 DEF SendTimesOut, Lose, Aside, vars
  <1>10. CASE UNCHANGED <<goalState, phase, goalHandler, executingPlan, lost>>
    BY <1>10
  <1> QED BY <1>1, <1>2, <1>3, <1>4, <1>5, <1>6, <1>7, <1>8, <1>9, <1>10
          DEF ComposedNext, Callbacks, CppMethods, PyMethods, ExecuteAndCheckPlan, NotFinished,
              CancelPlanExecution, ShouldCancelGoal, Ask, AskEnds, PyAsk, OnlyTheCallChanges,
              Aside, vars, allVars, clientVars

-----------------------------------------------------------------------------
(* The client and the executor together                                    *)

\* A client that has done nothing knows nothing.
LEMMA ClientInvInit == ComposedInit => ClientInv
  <1> SUFFICES ASSUME ComposedInit PROVE ClientInv
    OBVIOUS
  <1>1. GoalInv
    BY GoalInvInit DEF ComposedInit
  <1>2. ClientTypeOK
    <2>1. client \in [at : Methods, goal : ClientGoals \cup {NoGoal}]
      BY DEF ComposedInit, ClientInit, Methods
    <2>2. phase \in [ClientGoals -> {"unsent", "asked", "known", "done"}]
      BY DEF ComposedInit, ClientInit
    <2>3. requests \in Seq(ClientGoals) /\ cancels = {} /\ lost = {} /\ preempted = {}
      BY DEF ComposedInit, ClientInit
    <2>4. /\ language \in Languages /\ goalHandler = NoGoal /\ result = NoGoal
          /\ executingPlan = FALSE /\ available = FALSE
      BY DEF ComposedInit, ClientInit
    <2> QED BY <2>1, <2>2, <2>3, <2>4 DEF ClientTypeOK
  <1>3. PhaseIsTrue /\ KnownIsInHand /\ UnansweredIsLost
    BY ClientAssumption
       DEF ComposedInit, ClientInit, Init, PhaseIsTrue, KnownIsInHand, UnansweredIsLost
  <1>4. ResultIsOfHandler /\ CallHasGoal
    BY DEF ComposedInit, ClientInit, ResultIsOfHandler, CallHasGoal, At
  <1> QED BY <1>1, <1>2, <1>3, <1>4 DEF ClientInv

\* Whatever the client and the executor do, what they know of each other fits.
THEOREM ClientInvCorrect == ComposedSpec => []ClientInv
  <1>1. ClientInv /\ GoalInv' /\ [ComposedNext]_allVars => ClientInv'
    BY ClientTypeNext, PhaseIsTrueNext, CallHasGoalNext, UnansweredIsLostNext,
       ResultIsOfHandlerNext, KnownIsInHandNext DEF ClientInv
  <1> QED BY <1>1, ClientInvInit, GoalInvHolds, PTL DEF ComposedSpec

\* A goal of the client that is executed, and that the client has heard of, is the
\* one it has the handle of, or it was lost in one of the ways the code leaves
\* (ExecutedIsInHand: start_plan_execution, cancel_plan_execution and
\* execute_and_check_plan).
THEOREM GoalIsInHand == ComposedSpec => []ExecutedIsInHand
  <1>1. ClientInv => ExecutedIsInHand
    <2> SUFFICES ASSUME ClientInv, NEW g \in ClientGoals,
                        goalState[g] = "EXECUTING", phase[g] # "asked"
                 PROVE  (goalHandler = g /\ executingPlan) \/ g \in lost
      BY DEF ExecutedIsInHand
    <2>1. phase[g] \in {"unsent", "known", "done"}
      BY DEF ClientInv, ClientTypeOK
    <2>2. phase[g] = "known"
      BY <2>1 DEF ClientInv, PhaseIsTrue, Settled
    <2> QED BY <2>2 DEF ClientInv, KnownIsInHand
  <1> QED BY <1>1, ClientInvCorrect, PTL
=============================================================================
