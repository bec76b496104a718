------------------------- MODULE BTPerformer_proofs -------------------------
(***************************************************************************)
(* For any number of goals and interruptions, and any performers: a        *)
(* confirmation is answered by one end, a success has a reason, and no     *)
(* goal is left executing on a server but those the code loses.            *)
(***************************************************************************)
EXTENDS BTPerformer, TLAPS

-----------------------------------------------------------------------------
(* What is told                                                            *)

\* A message comes after what was told before, or repeats some of it.
LEMMA TellAdds ==
    ASSUME told \in Seq(Messages), NEW m \in Messages, Tell(m)
    PROVE  \/ told' = Append(told, m)
           \/ told' = told /\ \E i \in 1 .. Len(told) : told[i] = m
  <1>1. CASE Repeats(m)
    <2>1. told # <<>> => Len(told) \in 1 .. Len(told)
      OBVIOUS
    <2> QED BY <1>1, <2>1 DEF Tell, Repeats
  <1>2. CASE ~Repeats(m)
    BY <1>2 DEF Tell
  <1> QED BY <1>1, <1>2

Ended == \E i \in 1 .. Len(told) : told[i] # "FEEDBACK"
ToldSuccess == \E i \in 1 .. Len(told) : told[i] = "SUCCESS"
LastIsEnd == \A i \in 1 .. Len(told) : told[i] # "FEEDBACK" => i = Len(told)

\* What a message does to the three.
LEMMA TellEffect ==
    ASSUME told \in Seq(Messages), NEW m \in Messages, Tell(m)
    PROVE  /\ told' \in Seq(Messages) /\ told' # <<>>
           /\ Ended' <=> Ended \/ m # "FEEDBACK"
           /\ ToldSuccess' <=> ToldSuccess \/ m = "SUCCESS"
           /\ ~Ended => LastIsEnd'
  <1>1. CASE told' = Append(told, m)
    <2>1. /\ told' \in Seq(Messages) /\ Len(told) \in Nat /\ Len(told') = Len(told) + 1
          /\ \A i \in 1 .. Len(told) : told'[i] = told[i]
          /\ told'[Len(told) + 1] = m
      BY <1>1
    <2>2. told' # <<>>
      BY <2>1
    <2>3. Ended' <=> Ended \/ m # "FEEDBACK"
      BY <2>1 DEF Ended
    <2>4. ToldSuccess' <=> ToldSuccess \/ m = "SUCCESS"
      BY <2>1 DEF ToldSuccess
    <2>5. ~Ended => LastIsEnd'
      BY <2>1 DEF Ended, LastIsEnd
    <2> QED BY <2>1, <2>2, <2>3, <2>4, <2>5
  <1>2. CASE told' = told /\ \E i \in 1 .. Len(told) : told[i] = m
    BY <1>2 DEF Ended, ToldSuccess, LastIsEnd
  <1> QED BY <1>1, <1>2, TellAdds

-----------------------------------------------------------------------------
(* Types                                                                   *)

\* Init: every variable starts in its type.
LEMMA TypeInit == Init => TypeOK
  <1> SUFFICES ASSUME Init PROVE TypeOK
    OBVIOUS
  <1>1. FreshLeaf \in LeafType
    BY DEF FreshLeaf, LeafType, LeafState, Statuses
  <1>2. /\ goals \in [Goals -> {"none"}] /\ known \in [Goals -> {"nothing"}]
        /\ sentGoals \in 0 .. MaxGoals /\ interrupts \in 0 .. MaxInterrupts
    BY PerformerAssumption DEF Init
  <1>3. told \in Seq(Messages)
    BY DEF Init
  <1>4. Idle \in ThreadType
    BY DEF Idle, ThreadType, Steps, Nexts
  <1>5. goals \in [Goals -> GoalStates] /\ known \in [Goals -> Known]
    BY <1>2 DEF GoalStates, Known
  <1> QED BY <1>1, <1>2, <1>3, <1>4, <1>5 DEF Init, TypeOK

\* Every step leaves a leaf with the fields of a leaf.
LEMMA LeafTyped ==
    ASSUME TypeOK, KnownIsTrue, LeafFits, [Next]_vars
    PROVE  leaf' \in LeafType
  <1>1. leaf \in LeafType /\ sentGoals \in 0 .. MaxGoals /\ MaxGoals \in Nat
    BY PerformerAssumption DEF TypeOK
  <1>2. FreshLeaf \in LeafType
    BY DEF FreshLeaf, LeafType, LeafState, Statuses
  <1>0. sentGoals + 1 \in Nat /\ (sentGoals < MaxGoals => sentGoals + 1 \in Goals)
    BY <1>1 DEF Goals
  <1> USE <1>1 DEF LeafType, LeafState, Statuses
  <1>3. CASE Hub \/ Author
    BY <1>2, <1>3
    DEF Hub, Author, ReceiveRequest, ReceiveReject, ActivationFails, Activate, ReceiveCancel,
        PyReceiveRequest, PyReceiveReject, PyReceiveConfirm, PyReceiveCancel, PySendFeedback,
        PyFinish, PyStep, leafVars
  <1>4. CASE Interrupts \/ Server \/ UNCHANGED vars
    BY <1>4 DEF Interrupts, TreeHaltsLeaf, TreeFails, Server, Answers, Settles, Becomes,
                AnswersCancel, vars, leafVars
  <1>5. CASE NoServer \/ StopsAtOnce \/ StopsGoal \/ StopsForgottenGoal \/ SendsNoRequest
    BY <1>5 DEF NoServer, StopsAtOnce, StopsGoal, StopsForgottenGoal, SendsNoRequest, leafVars
  <1>6. ASSUME NEW since \in Nat, NEW updated \in BOOLEAN, OnNewGoalReceived(since, updated)
        PROVE  leaf' \in LeafType
    <2>1. sentGoals + 1 \in Goals
      BY <1>0, <1>6 DEF OnNewGoalReceived
    <2>2. leaf' = [leaf EXCEPT !.state = "GOAL_SENT", !.status = "RUNNING",
                               !.sent = sentGoals + 1, !.available = FALSE,
                               !.since = since, !.updated = updated]
      BY <1>6 DEF OnNewGoalReceived
    <2> QED BY <1>6, <2>1, <2>2
  <1>7. CASE SendGoal \/ ReplacesGoal
    <2>1. leaf.since \in Nat /\ leaf.updated \in BOOLEAN
      OBVIOUS
    <2> QED BY <1>0, <1>6, <1>7, <2>1 DEF SendGoal, ReplacesGoal
  <1>8. CASE TickSent \/ TickRejected \/ KeepsGoal \/ TickRequest
    BY <1>8 DEF TickSent, TickRejected, KeepsGoal, TickRequest, leafVars, GoalIsGivenUp
  <1>9. CASE TickFinishing \/ TickCancelling \/ TickFinished \/ TickFailure
    BY <1>9 DEF TickFinishing, TickCancelling, TickFinished, TickFailure, TickAgain
  <1>10. CASE SendsRequest
    BY <1>0, <1>10 DEF SendsRequest
  <1>11. CASE GoalAccepted \/ GoalRejected \/ GivesUp \/ EndOfSpin
    BY <1>11 DEF GoalAccepted, GoalRejected, GivesUp, EndOfSpin, GoalIsGivenUp, Throws
  <1>12. CASE Completed \/ NoReply
    BY <1>12 DEF Completed, NoReply
  <1>13. CASE \/ HaltAndCancel \/ WaitForResult \/ AsksForForgottenGoal \/ CatchesException
              \/ TreeRuns \/ TreeEnds \/ UninitializedResult
    BY <1>13 DEF HaltAndCancel, WaitForResult, AsksForForgottenGoal, CatchesException, TreeRuns,
                 TreeEnds, UninitializedResult, leafVars, Throws
  <1>14. CASE EndOfCancel \/ HaltDone
    <2>1. \/ leaf' = Halted
          \/ \E status \in {"SUCCESS", "FAILURE"} :
                 leaf' = [leaf EXCEPT !.state = "GOAL_CANCELLING", !.status = status]
      BY <1>14 DEF EndOfCancel, HaltDone, Continue
    <2>2. Halted \in LeafType
      BY DEF Halted
    <2> QED BY <2>1, <2>2
  <1>15. CASE TreeRetries
    BY <1>15 DEF TreeRetries
  <1>16. CASE Receives
    BY <1>16 DEF Receives, OfClient, ReceiveAnswer, ReceiveResult, ReceiveReply, leafVars
  <1> QED BY <1>3, <1>4, <1>5, <1>7, <1>8, <1>9, <1>10, <1>11, <1>12, <1>13, <1>14, <1>15, <1>16
          DEF Next, DoWork, Spun

\* The types of the fields of the leaf.
LEMMA LeafFields ==
    ASSUME TypeOK
    PROVE  /\ leaf.state \in LeafState /\ leaf.status \in Statuses
           /\ leaf.sent \in Goals \cup {NoGoal} /\ leaf.handle \in Goals \cup {NoGoal}
           /\ leaf.result \in Goals \cup {NoGoal} /\ leaf.available \in BOOLEAN
  BY DEF TypeOK, LeafType

\* Where the thread is after a step.
LEMMA AtTyped ==
    ASSUME at \in ThreadType, leaf.status \in Statuses, [Next]_vars
    PROVE  at' \in ThreadType
  <1>0. /\ at' = at => at' \in ThreadType
        /\ \A step \in Steps, next \in Nexts : Goes(step, next) => at' \in ThreadType
        /\ at' = Idle => at' \in ThreadType
    <2>1. \A step \in Steps, next \in Nexts : [step |-> step, next |-> next] \in ThreadType
      BY DEF ThreadType
    <2>2. "idle" \in Steps /\ "nothing" \in Nexts
      BY DEF Steps, Nexts
    <2> QED BY <2>1, <2>2 DEF Goes, Idle
  <1> USE <1>0 DEF Steps, Nexts
  <1>1. CASE Hub \/ Author \/ Interrupts
    <2>1. \/ at' = at \/ Goes("halt", "deactivate") \/ Goes("halt", "tick")
          \/ Goes("halt", "FAILURE")
      BY <1>1
    DEF Hub, ReceiveRequest, ReceiveReject, ActivationFails, Activate, ReceiveCancel,
        PyReceiveRequest, PyReceiveReject, PyReceiveConfirm, PyReceiveCancel, PyStep,
        Author, PySendFeedback, PyFinish, Interrupts, TreeHaltsLeaf, TreeFails
    <2> QED BY <2>1
  <1>2. CASE Server \/ Receives \/ UNCHANGED vars
    BY <1>2 DEF Server, Answers, Settles, Becomes, AnswersCancel, Receives, ReceiveAnswer,
                ReceiveResult, ReceiveReply, vars
  <1>3. CASE DoWork
    BY <1>3
    DEF DoWork, Ticks, Returned, NoServer, StopsAtOnce, TickSent, TickRejected,
        StopsForgottenGoal, KeepsGoal, TickFinishing, TickCancelling, TickFinished, TickFailure,
        TickAgain, SendsNoRequest, TickRequest, SendGoal, ReplacesGoal, SendsRequest, StopsGoal,
        GoalIsGivenUp, Throws
  <1>4. CASE GoalAccepted \/ GoalRejected \/ GivesUp \/ EndOfSpin \/ Completed \/ NoReply
    BY <1>4 DEF Returned, GoalAccepted, GoalRejected, GivesUp, EndOfSpin, Completed, NoReply,
                GoalIsGivenUp, Throws
  <1>5. CASE HaltAndCancel \/ WaitForResult \/ AsksForForgottenGoal \/ CatchesException
    BY <1>5 DEF ThreadType, HaltAndCancel, WaitForResult, AsksForForgottenGoal, CatchesException,
                Throws
  <1>6. CASE EndOfCancel \/ HaltDone
    BY <1>6 DEF EndOfCancel, HaltDone, Continue, Returned
  <1>7. CASE TreeRuns \/ TreeRetries \/ TreeEnds \/ UninitializedResult
    BY <1>7 DEF Statuses, TreeRuns, TreeRetries, TreeEnds, UninitializedResult
  <1> QED BY <1>1, <1>2, <1>3, <1>4, <1>5, <1>6, <1>7 DEF Next, Spun

\* What the executor has been told grows by a message, begins anew or stays.
LEMMA ToldGrows ==
    ASSUME [Next]_vars
    PROVE  told' \in {told, <<>>} \/ \E m \in Messages : Tell(m)
  <1>0. "FEEDBACK" \in Messages /\ "SUCCESS" \in Messages /\ "FAILURE" \in Messages
    BY DEF Messages
  <1> USE DEF hubVars
  <1>1. CASE Hub \/ Author \/ Interrupts
    BY <1>0, <1>1
    DEF Hub, ReceiveRequest, ReceiveReject, ActivationFails, Activate, ReceiveCancel,
        PyReceiveRequest, PyReceiveReject, PyReceiveConfirm, PyReceiveCancel, PyStep,
        Author, PySendFeedback, PyFinish, Interrupts, TreeHaltsLeaf, TreeFails
  <1>2. CASE Server \/ Receives \/ UNCHANGED vars
    BY <1>2 DEF Server, Answers, Settles, Becomes, AnswersCancel, Receives, ReceiveAnswer,
                ReceiveResult, ReceiveReply, vars
  <1>3. CASE DoWork
    BY <1>3
    DEF DoWork, Ticks, NoServer, StopsAtOnce, TickSent, TickRejected, StopsForgottenGoal,
        KeepsGoal, TickFinishing, TickCancelling, TickFinished, TickFailure, TickAgain,
        SendsNoRequest, TickRequest, SendGoal, ReplacesGoal, SendsRequest, StopsGoal,
        GoalIsGivenUp, Throws
  <1>4. CASE GoalAccepted \/ GoalRejected \/ GivesUp \/ EndOfSpin \/ Completed \/ NoReply
    BY <1>4 DEF GoalAccepted, GoalRejected, GivesUp, EndOfSpin, Completed, NoReply, GoalIsGivenUp,
                Throws
  <1>5. CASE HaltAndCancel \/ WaitForResult \/ AsksForForgottenGoal \/ CatchesException
    BY <1>0, <1>5 DEF HaltAndCancel, WaitForResult, AsksForForgottenGoal, CatchesException, Throws
  <1>6. CASE EndOfCancel \/ HaltDone
    BY <1>0, <1>6 DEF EndOfCancel, HaltDone, Continue
  <1>7. CASE TreeRuns \/ TreeRetries \/ TreeEnds \/ UninitializedResult
    BY <1>0, <1>7 DEF TreeRuns, TreeRetries, TreeEnds, UninitializedResult
  <1> QED BY <1>1, <1>2, <1>3, <1>4, <1>5, <1>6, <1>7 DEF Next, Spun

\* The next goal is one of those that the bound allows.
LEMMA NextGoal ==
    ASSUME sentGoals \in 0 .. MaxGoals, sentGoals < MaxGoals
    PROVE  sentGoals + 1 \in Goals /\ sentGoals + 1 \in 0 .. MaxGoals
  BY PerformerAssumption DEF Goals

\* A goal is sent, or a server does something with one.
LEMMA GoalsTyped ==
    ASSUME TypeOK, [Next]_vars
    PROVE  /\ goals' \in [Goals -> GoalStates]
           /\ sentGoals' \in 0 .. MaxGoals
  <1> USE DEF leafVars, serverVars
  <1>0. goals \in [Goals -> GoalStates] /\ sentGoals \in 0 .. MaxGoals
    BY DEF TypeOK
  <1>1. CASE UNCHANGED <<goals, sentGoals>>
    BY <1>0, <1>1
  <1>2. CASE SendGoal \/ ReplacesGoal \/ SendsRequest
    <2>1. /\ goals' = [goals EXCEPT ![sentGoals + 1] = "sent"]
          /\ sentGoals' = sentGoals + 1 /\ sentGoals < MaxGoals
      BY <1>2 DEF SendGoal, ReplacesGoal, SendsRequest, OnNewGoalReceived
    <2> QED BY <1>0, <2>1, NextGoal DEF GoalStates
  <1>3. CASE Server
    <2>1. UNCHANGED sentGoals
      BY <1>3 DEF Server, Answers, Settles, Becomes, AnswersCancel
    <2>2. goals' = goals \/ \E g \in Goals, to \in GoalStates : goals' = [goals EXCEPT ![g] = to]
      BY <1>3 DEF Server, Answers, Settles, Becomes, AnswersCancel, GoalStates, Settled
    <2> QED BY <1>0, <2>1, <2>2
  <1>4. CASE Hub \/ Author \/ Interrupts
    BY <1>1, <1>4
    DEF Hub, ReceiveRequest, ReceiveReject, ActivationFails, Activate, ReceiveCancel,
        PyReceiveRequest, PyReceiveReject, PyReceiveConfirm, PyReceiveCancel, PyStep,
        Author, PySendFeedback, PyFinish, Interrupts, TreeHaltsLeaf, TreeFails
  <1>5. CASE Receives \/ UNCHANGED vars
    BY <1>1, <1>5 DEF Receives, ReceiveAnswer, ReceiveResult, ReceiveReply, vars
  <1>6. CASE DoWork
    BY <1>1, <1>2, <1>6
    DEF DoWork, Ticks, NoServer, StopsAtOnce, TickSent, TickRejected, StopsForgottenGoal,
        KeepsGoal, TickFinishing, TickCancelling, TickFinished, TickFailure, TickAgain,
        SendsNoRequest, TickRequest, StopsGoal, GoalIsGivenUp, Throws
  <1>7. CASE Spun
    BY <1>1, <1>7
    DEF Spun, GoalAccepted, GoalRejected, GivesUp, EndOfSpin, Completed, NoReply, HaltAndCancel,
        WaitForResult, AsksForForgottenGoal, CatchesException, EndOfCancel, HaltDone, TreeRuns,
        TreeRetries, TreeEnds, UninitializedResult, GoalIsGivenUp, Throws
  <1> QED BY <1>3, <1>4, <1>5, <1>6, <1>7 DEF Next

\* The goals that are cancelled or lost are goals.
LEMMA CancelTyped ==
    ASSUME TypeOK, LeafFits, [Next]_vars
    PROVE  toCancel' \subseteq Goals /\ unattended' \subseteq Goals
  <1> USE DEF leafVars, serverVars
  <1>0. /\ toCancel \subseteq Goals /\ unattended \subseteq Goals
        /\ leaf.handle \in Goals \cup {NoGoal} /\ leaf.sent \in Goals \cup {NoGoal}
    BY LeafFields DEF TypeOK
  <1>1. CASE UNCHANGED <<toCancel, unattended>>
    BY <1>0, <1>1
  <1>2. CASE StopsGoal \/ HaltAndCancel
    <2>1. leaf.handle \in Goals
      BY <1>0, <1>2 DEF LeafFits, StopsGoal, Ticks, HaltAndCancel, ShouldCancelGoal
    <2>2. toCancel' = toCancel \cup {leaf.handle}
      BY <1>2 DEF StopsGoal, HaltAndCancel
    <2>3. unattended' = unattended \/ unattended' = unattended \cup ({leaf.sent} \ {NoGoal})
      BY <1>2 DEF StopsGoal, HaltAndCancel, Lose
    <2> QED BY <1>0, <2>1, <2>2, <2>3
  <1>3. CASE Hub \/ Author \/ Interrupts
    BY <1>1, <1>3
    DEF Hub, ReceiveRequest, ReceiveReject, ActivationFails, Activate, ReceiveCancel,
        PyReceiveRequest, PyReceiveReject, PyReceiveConfirm, PyReceiveCancel, PyStep,
        Author, PySendFeedback, PyFinish, Interrupts, TreeHaltsLeaf, TreeFails
  <1>4. CASE Receives \/ UNCHANGED vars
    BY <1>1, <1>4 DEF Receives, ReceiveAnswer, ReceiveResult, ReceiveReply, vars
  <1>5. CASE Server
    BY <1>0, <1>5 DEF Server, Answers, Settles, Becomes, AnswersCancel
  <1>6. CASE TickSent \/ TickRejected
    <2>1. /\ toCancel' = toCancel
          /\ \/ unattended' = unattended
             \/ unattended' = unattended \cup ({leaf.sent, leaf.handle} \ {NoGoal})
      BY <1>6 DEF TickSent, TickRejected, GoalIsGivenUp, Lose
    <2> QED BY <1>0, <2>1
  <1>7. CASE DoWork
    BY <1>1, <1>2, <1>6, <1>7
    DEF DoWork, Ticks, NoServer, StopsAtOnce, StopsForgottenGoal, KeepsGoal, TickFinishing,
        TickCancelling, TickFinished, TickFailure, TickAgain, SendsNoRequest, TickRequest,
        SendGoal, ReplacesGoal, SendsRequest, OnNewGoalReceived
  <1>8. CASE GoalAccepted \/ GoalRejected \/ GivesUp \/ EndOfSpin \/ EndOfCancel \/ HaltDone
    BY <1>0, <1>8
    DEF GoalAccepted, GoalRejected, GivesUp, EndOfSpin, EndOfCancel, HaltDone, Lose,
        GoalIsGivenUp, Throws
  <1>9. CASE \/ Completed \/ NoReply \/ WaitForResult \/ AsksForForgottenGoal \/ CatchesException
             \/ TreeRuns \/ TreeRetries \/ TreeEnds \/ UninitializedResult
    BY <1>1, <1>9
    DEF Completed, NoReply, WaitForResult, AsksForForgottenGoal, CatchesException, TreeRuns,
        TreeRetries, TreeEnds, UninitializedResult, Throws
  <1> QED BY <1>2, <1>3, <1>4, <1>5, <1>7, <1>8, <1>9 DEF Next, Spun

\* What is known, and how often the tree has interfered.
LEMMA KnownTyped ==
    ASSUME TypeOK, [Next]_vars
    PROVE  /\ known' \in [Goals -> Known] /\ interrupts' \in 0 .. MaxInterrupts
           /\ setup' = setup
  <1>0. known \in [Goals -> Known] /\ interrupts \in 0 .. MaxInterrupts
    BY DEF TypeOK
  <1>1. CASE UNCHANGED <<known, interrupts, setup>>
    BY <1>0, <1>1
  <1>2. CASE TreeHaltsLeaf \/ TreeRetries
    <2>1. UNCHANGED <<known, setup>> /\ interrupts < MaxInterrupts /\ interrupts' = interrupts + 1
      BY <1>2 DEF TreeHaltsLeaf, TreeRetries
    <2> QED BY <1>0, <2>1, PerformerAssumption
  <1>3. CASE Hub \/ Author \/ TreeFails
    BY <1>1, <1>3
    DEF Hub, ReceiveRequest, ReceiveReject, ActivationFails, Activate, ReceiveCancel,
        PyReceiveRequest, PyReceiveReject, PyReceiveConfirm, PyReceiveCancel, PyStep,
        Author, PySendFeedback, PyFinish, TreeFails
  <1>4. CASE Receives
    <2>1. UNCHANGED <<interrupts, setup>>
      BY <1>4 DEF Receives, ReceiveAnswer, ReceiveResult, ReceiveReply
    <2>2. \E g \in Goals, k \in Known : known' = [known EXCEPT ![g] = k]
      BY <1>4 DEF Receives, OfClient, ReceiveAnswer, ReceiveResult, ReceiveReply, Known
    <2> QED BY <1>0, <2>1, <2>2
  <1>5. CASE Server \/ UNCHANGED vars
    BY <1>1, <1>5 DEF Server, Answers, Settles, Becomes, AnswersCancel, vars
  <1>6. CASE DoWork
    BY <1>1, <1>6
    DEF DoWork, Ticks, NoServer, StopsAtOnce, TickSent, TickRejected, StopsForgottenGoal,
        KeepsGoal, TickFinishing, TickCancelling, TickFinished, TickFailure, TickAgain,
        SendsNoRequest, TickRequest, SendGoal, ReplacesGoal, SendsRequest, StopsGoal,
        GoalIsGivenUp, Throws
  <1>7. CASE GoalAccepted \/ GoalRejected \/ GivesUp \/ EndOfSpin \/ Completed \/ NoReply
             \/ HaltAndCancel \/ WaitForResult \/ AsksForForgottenGoal \/ CatchesException
             \/ EndOfCancel \/ HaltDone \/ TreeRuns \/ TreeEnds \/ UninitializedResult
    BY <1>1, <1>7
    DEF GoalAccepted, GoalRejected, GivesUp, EndOfSpin, Completed, NoReply, HaltAndCancel,
        WaitForResult, AsksForForgottenGoal, CatchesException, EndOfCancel, HaltDone, TreeRuns,
        TreeEnds, UninitializedResult, GoalIsGivenUp, Throws
  <1> QED BY <1>2, <1>3, <1>4, <1>5, <1>6, <1>7 DEF Next, Spun, Interrupts

\* What the hub sees of the performer.
LEMMA HubTyped ==
    ASSUME TypeOK, [Next]_vars
    PROVE  /\ lifecycle' \in {"INACTIVE", "ACTIVE", "FINALIZED"} /\ committed' \in BOOLEAN
           /\ finished' \in BOOLEAN /\ events' \subseteq Events
  <1>0. /\ lifecycle \in {"INACTIVE", "ACTIVE", "FINALIZED"} /\ committed \in BOOLEAN
        /\ finished \in BOOLEAN /\ events \subseteq Events
    BY DEF TypeOK
  <1> USE DEF hubVars
  <1>1. CASE UNCHANGED <<lifecycle, committed, finished, events>>
    BY <1>0, <1>1
  <1>2. CASE Hub \/ Author
    BY <1>0, <1>2
    DEF Hub, ReceiveRequest, ReceiveReject, ActivationFails, Activate, ReceiveCancel,
        PyReceiveRequest, PyReceiveReject, PyReceiveConfirm, PyReceiveCancel, PyStep,
        Author, PySendFeedback, PyFinish, Events
  <1>3. CASE Interrupts \/ Receives \/ Server \/ UNCHANGED vars
    BY <1>1, <1>3 DEF Interrupts, TreeHaltsLeaf, TreeFails, Receives, ReceiveAnswer, ReceiveResult,
                      ReceiveReply, Server, Answers, Settles, Becomes, AnswersCancel, vars
  <1>4. CASE DoWork
    BY <1>0, <1>4
    DEF DoWork, Ticks, NoServer, StopsAtOnce, TickSent, TickRejected, StopsForgottenGoal,
        KeepsGoal, TickFinishing, TickCancelling, TickFinished, TickFailure, TickAgain,
        SendsNoRequest, TickRequest, SendGoal, ReplacesGoal, SendsRequest, StopsGoal, Events,
        GoalIsGivenUp, Throws
  <1>5. CASE Spun
    BY <1>0, <1>5
    DEF Spun, GoalAccepted, GoalRejected, GivesUp, EndOfSpin, Completed, NoReply, HaltAndCancel,
        WaitForResult, AsksForForgottenGoal, CatchesException, EndOfCancel, HaltDone, Continue,
        TreeRuns, TreeRetries, TreeEnds, UninitializedResult, Events, GoalIsGivenUp, Throws
  <1> QED BY <1>2, <1>3, <1>4, <1>5 DEF Next

\* Every step keeps the types, given what the leaf knows of its goals.
LEMMA TypeNext ==
    ASSUME TypeOK, KnownIsTrue, LeafFits, [Next]_vars
    PROVE  TypeOK'
  <1>1. told \in Seq(Messages) /\ <<>> \in Seq(Messages)
    BY DEF TypeOK
  <1>2. told' \in Seq(Messages)
    BY <1>1, ToldGrows, TellEffect
  <1> QED BY <1>2, LeafTyped, LeafFields, AtTyped, GoalsTyped, CancelTyped, KnownTyped, HubTyped
          DEF TypeOK

-----------------------------------------------------------------------------
(* Where the thread is, and what it has told                               *)

\* ThreadIsActive and EndIsToldOnce in terms of the ends that were told.
Where ==
    /\ IsPython => at.step = "idle"
    /\ at.next # "nothing" => at.step \in {"halt", "cancel", "result"}
    /\ at.step # "idle" => lifecycle # "INACTIVE" \/ at.step = "uninitialized"
    /\ at.next \in {"deactivate", "threw"} => lifecycle = "ACTIVE"
    /\ committed => lifecycle = "INACTIVE"
    /\ lifecycle = "ACTIVE" \/ IsPython => ~finished
    /\ at.step \notin {"idle", "uninitialized"} => ~finished
    /\ at.next = "deactivate" => "cancelled" \in events
    /\ at.next = "threw" \/ at.step \in {"catch", "uninitialized"} => "threw" \in events
    /\ at.step = "uninitialized" => lifecycle # "ACTIVE"

Ends ==
    /\ lifecycle # "INACTIVE" /\ ~finished /\ "threw" \notin events => ~Ended
    /\ at.step = "uninitialized" => Ended
    /\ "threw" \notin events => LastIsEnd
    /\ at.step = "idle" /\ lifecycle = "INACTIVE" /\ told # <<>> /\ ~Ended =>
           "cancelled" \in events \/ "failed" \in events

\* Two parts of the invariant, as what the thread and its messages satisfy.
LEMMA ThreadMeans ==
    /\ ThreadIsActive /\ EndIsToldOnce <=> Where /\ Ends
    /\ ThreadIsActive' /\ EndIsToldOnce' <=> Where' /\ Ends'
  BY DEF ThreadIsActive, EndIsToldOnce, Where, Ends, Ended, LastIsEnd, At

\* Where the thread is when the leaf has been ticked.
LEMMA TickGoes ==
    ASSUME DoWork
    PROVE  /\ at'.step \in {"returned", "answer", "some", "reply", "cancel", "catch"}
           /\ at'.next = IF StopsGoal THEN "stop" ELSE "nothing"
           /\ at'.step = "catch" => StopsForgottenGoal
  <1>1. CASE StopsGoal
    BY <1>1 DEF StopsGoal, Goes
  <1>2. CASE StopsForgottenGoal /\ ~StopsGoal
    BY <1>2 DEF StopsForgottenGoal, Throws, Goes
  <1>3. CASE ~StopsGoal /\ ~StopsForgottenGoal
    <2>1. \/ Goes("returned", "nothing") \/ Goes("answer", "nothing") \/ Goes("some", "nothing")
          \/ Goes("reply", "nothing")
      BY <1>3
      DEF DoWork, Returned, NoServer, StopsAtOnce, TickSent, TickRejected, KeepsGoal,
          TickFinishing, TickCancelling, TickFinished, TickFailure, TickAgain, SendsNoRequest,
          TickRequest, SendGoal, ReplacesGoal, SendsRequest, GoalIsGivenUp
    <2> QED BY <1>3, <2>1 DEF Goes
  <1> QED BY <1>1, <1>2, <1>3

\* The thread works only for a performer that has a timer and has told no end.
LEMMA WhereNext ==
    ASSUME TypeOK, Where, [Next]_vars
    PROVE  Where'
  <1>1. lifecycle \in {"INACTIVE", "ACTIVE", "FINALIZED"}
    BY DEF TypeOK
  <1>0. setup' = setup
    BY KnownTyped
  <1> USE <1>0, <1>1 DEF Where, hubVars, Goes, Idle, IsPython
  <1>2. CASE ReceiveRequest \/ ReceiveReject \/ ActivationFails \/ Activate
    BY <1>2 DEF ReceiveRequest, ReceiveReject, ActivationFails, Activate, At
  <1>3. CASE ReceiveCancel
    BY <1>3 DEF ReceiveCancel, At
  <1>4. CASE PyReceiveRequest \/ PyReceiveReject \/ PyReceiveConfirm \/ PyReceiveCancel
    BY <1>4 DEF PyReceiveRequest, PyReceiveReject, PyReceiveConfirm, PyReceiveCancel, PyStep, At
  <1>5. CASE Author
    BY <1>5 DEF Author, PySendFeedback, PyFinish, PyStep, At
  <1>6. CASE Interrupts
    BY <1>6 DEF Interrupts, TreeHaltsLeaf, TreeFails, Works, At
  <1>7. CASE Server \/ Receives \/ UNCHANGED vars
    <2>1. UNCHANGED <<at, lifecycle, committed, finished, events>>
      BY <1>7 DEF Server, Answers, Settles, Becomes, AnswersCancel, Receives, ReceiveAnswer,
                  ReceiveResult, ReceiveReply, vars
    <2> QED BY <2>1
  <1>8. CASE DoWork
    <2>1. /\ UNCHANGED <<lifecycle, committed, finished>> /\ lifecycle # "INACTIVE" /\ ~finished
          /\ events \subseteq events' /\ ~IsPython
      BY <1>8
      DEF DoWork, Ticks, Works, NoServer, StopsAtOnce, TickSent, TickRejected, StopsForgottenGoal,
          KeepsGoal, TickFinishing, TickCancelling, TickFinished, TickFailure, TickAgain,
          SendsNoRequest, TickRequest, SendGoal, ReplacesGoal, SendsRequest, StopsGoal,
          GoalIsGivenUp, Throws
    <2>2. /\ at'.step \in {"returned", "answer", "some", "reply", "cancel", "catch"}
          /\ at'.next # "nothing" => at'.step = "cancel" /\ at'.next = "stop"
          /\ at'.step = "catch" => "threw" \in events'
      <3>1. CASE StopsGoal
        BY <3>1 DEF StopsGoal
      <3>2. CASE ~StopsGoal
        BY <1>8, <3>2, TickGoes DEF StopsForgottenGoal, Throws
      <3> QED BY <3>1, <3>2
    <2> QED BY <2>1, <2>2
  <1>9. CASE Spun
    <2> USE DEF At, Returned
    <2>1. CASE GoalAccepted \/ GivesUp \/ EndOfSpin \/ Completed \/ NoReply
      BY <2>1 DEF GoalAccepted, GivesUp, EndOfSpin, Completed, NoReply, GoalIsGivenUp
    <2>2. CASE GoalRejected
      BY <2>2 DEF GoalRejected, Throws
    <2>3. CASE HaltAndCancel \/ WaitForResult
      BY <2>3 DEF HaltAndCancel, WaitForResult
    <2>4. CASE AsksForForgottenGoal
      BY <2>4 DEF AsksForForgottenGoal, Throws
    <2>5. CASE CatchesException
      BY <2>5 DEF CatchesException
    <2>6. CASE EndOfCancel \/ HaltDone
      <3>1. /\ at.step \in {"result", "halt"} /\ Continue
            /\ UNCHANGED <<committed, events>>
        BY <2>6 DEF EndOfCancel, HaltDone
      <3> QED BY <3>1 DEF Continue
    <2>7. CASE TreeRuns \/ TreeRetries \/ UninitializedResult
      BY <2>7 DEF TreeRuns, TreeRetries, UninitializedResult
    <2>8. CASE TreeEnds
      BY <2>8 DEF TreeEnds
    <2> QED BY <1>9, <2>1, <2>2, <2>3, <2>4, <2>5, <2>6, <2>7, <2>8 DEF Spun
  <1> QED BY <1>2, <1>3, <1>4, <1>5, <1>6, <1>7, <1>8, <1>9 DEF Next, Hub

\* What it has told ends once, and nothing follows an end.
LEMMA EndsNext ==
    ASSUME TypeOK, Where, Ends, [Next]_vars
    PROVE  Ends'
  <1>1. \A m \in Messages : Tell(m) =>
            /\ told' # <<>>
            /\ Ended' <=> Ended \/ m # "FEEDBACK"
            /\ ~Ended => LastIsEnd'
    BY TellEffect DEF TypeOK
  <1>2. told' = told => (Ended' <=> Ended) /\ (LastIsEnd' <=> LastIsEnd)
    BY DEF Ended, LastIsEnd
  <1>3. told' = <<>> => ~Ended' /\ LastIsEnd'
    BY DEF Ended, LastIsEnd
  <1>4. /\ "FEEDBACK" \in Messages /\ "SUCCESS" \in Messages /\ "FAILURE" \in Messages
        /\ at.next \in Nexts /\ lifecycle \in {"INACTIVE", "ACTIVE", "FINALIZED"}
    BY DEF TypeOK, Messages, ThreadType
  <1> USE DEF Goes, Idle
  \* a step of the thread that tells nothing and ends nothing
  <1>5. ASSUME UNCHANGED <<lifecycle, told, finished>>, lifecycle # "INACTIVE",
               events \subseteq events', at'.step # "uninitialized"
        PROVE  Ends'
    BY <1>2, <1>5 DEF Ends
  <1>6. ASSUME UNCHANGED <<lifecycle, told, events, finished>>, at' = at
        PROVE  Ends'
    BY <1>2, <1>6 DEF Ends
  <1>7. CASE ReceiveRequest \/ ReceiveReject \/ ActivationFails \/ Activate
    BY <1>2, <1>3, <1>4, <1>7
    DEF Ends, Where, ReceiveRequest, ReceiveReject, ActivationFails, Activate, At
  <1>8. CASE PyReceiveRequest \/ PyReceiveReject \/ PyReceiveConfirm \/ PyReceiveCancel
    BY <1>2, <1>3, <1>4, <1>8
    DEF Ends, Where, PyReceiveRequest, PyReceiveReject, PyReceiveConfirm, PyReceiveCancel,
        PyStep, At
  <1>9. CASE PySendFeedback
    <2>1. /\ Tell("FEEDBACK") /\ UNCHANGED <<lifecycle, events, at>> /\ lifecycle = "ACTIVE"
          /\ at.step = "idle" /\ ~finished
      BY <1>9 DEF PySendFeedback, PyStep, At, Where
    <2> QED BY <1>1, <1>4, <2>1 DEF Ends
  <1>10. CASE PyFinish
    <2>1. PICK message \in {"SUCCESS", "FAILURE"} : Tell(message)
      BY <1>10 DEF PyFinish
    <2>2. lifecycle = "ACTIVE" /\ lifecycle' = "INACTIVE" /\ events' = events \cup {"user"}
          /\ at' = at /\ at.step = "idle" /\ ~finished
      BY <1>10 DEF PyFinish, PyStep, At, Where
    <2> QED BY <1>1, <1>4, <2>1, <2>2 DEF Ends
  <1>11. CASE ReceiveCancel
    BY <1>5, <1>11 DEF ReceiveCancel
  <1>12. CASE Interrupts
    BY <1>5, <1>12
    DEF Interrupts, TreeHaltsLeaf, TreeFails, Works, hubVars
  <1>13. CASE Server \/ Receives \/ UNCHANGED vars
    BY <1>6, <1>13 DEF Server, Answers, Settles, Becomes, AnswersCancel, Receives, ReceiveAnswer,
                       ReceiveResult, ReceiveReply, vars, hubVars
  <1>14. CASE DoWork
    <2>1. /\ UNCHANGED <<lifecycle, told, finished>> /\ lifecycle # "INACTIVE"
          /\ events \subseteq events'
      BY <1>14
      DEF DoWork, Ticks, Works, NoServer, StopsAtOnce, TickSent, TickRejected, StopsForgottenGoal,
          KeepsGoal, TickFinishing, TickCancelling, TickFinished, TickFailure, TickAgain,
          SendsNoRequest, TickRequest, SendGoal, ReplacesGoal, SendsRequest, StopsGoal,
          GoalIsGivenUp, Throws
    <2>2. at'.step # "uninitialized"
      BY <1>14, TickGoes
    <2> QED BY <1>5, <2>1, <2>2
  <1>15. CASE \/ GoalAccepted \/ GoalRejected \/ GivesUp \/ EndOfSpin \/ Completed \/ NoReply
              \/ HaltAndCancel \/ WaitForResult \/ TreeEnds
    <2>1. /\ UNCHANGED <<lifecycle, told, finished>> /\ lifecycle # "INACTIVE"
          /\ events \subseteq events'
      BY <1>15
      DEF GoalAccepted, GoalRejected, GivesUp, EndOfSpin, Completed, NoReply, HaltAndCancel,
          WaitForResult, TreeEnds, Where, At, hubVars, Throws
    <2>2. at'.step # "uninitialized"
      BY <1>15
      DEF GoalAccepted, GoalRejected, GivesUp, EndOfSpin, Completed, NoReply, HaltAndCancel,
          WaitForResult, TreeEnds, Returned, GoalIsGivenUp, Throws
    <2> QED BY <1>5, <2>1, <2>2
  <1>16. CASE EndOfCancel \/ HaltDone
    <2>1. /\ at.step \in {"result", "halt"} /\ Continue /\ UNCHANGED events
          /\ lifecycle # "INACTIVE" /\ ~finished
      BY <1>16 DEF EndOfCancel, HaltDone, At, Where
    <2>2. CASE at.next = "tick"
      <3>1. Tell("FEEDBACK") /\ UNCHANGED <<lifecycle, finished>> /\ at'.step = "idle"
        BY <2>1, <2>2 DEF Continue
      <3> QED BY <1>1, <1>4, <2>1, <3>1 DEF Ends
    <2>3. CASE at.next = "deactivate"
      <3>1. UNCHANGED told /\ lifecycle' = "INACTIVE" /\ at'.step = "idle"
        BY <2>1, <2>3 DEF Continue
      <3> QED BY <1>2, <2>1, <2>3, <3>1 DEF Ends, Where
    <2>4. CASE at.next \in {"SUCCESS", "FAILURE"}
      <3>1. Tell(at.next) /\ finished' /\ at'.step = "idle"
        BY <2>1, <2>4 DEF Continue
      <3> QED BY <1>1, <1>4, <2>1, <2>4, <3>1 DEF Ends
    <2>5. CASE at.next = "threw"
      <3>1. Tell("FAILURE") /\ lifecycle' = "INACTIVE" /\ at'.step = "uninitialized"
        BY <2>1, <2>5 DEF Continue
      <3> QED BY <1>1, <1>4, <2>1, <2>5, <3>1 DEF Ends, Where
    <2>6. CASE at.next = "stop"
      <3>1. UNCHANGED <<lifecycle, told, finished>> /\ at'.step = "returned"
        BY <2>1, <2>6 DEF Continue, Returned
      <3> QED BY <1>5, <2>1, <3>1
    <2> QED BY <2>1, <2>2, <2>3, <2>4, <2>5, <2>6 DEF Continue
  <1>17. CASE AsksForForgottenGoal
    <2>1. at.step = "cancel" /\ lifecycle # "INACTIVE" /\ ~finished /\ UNCHANGED <<told, finished>>
      BY <1>17 DEF AsksForForgottenGoal, At, Where
    <2>2. CASE Throws /\ UNCHANGED lifecycle
      BY <1>5, <2>1, <2>2 DEF Throws
    <2>3. CASE lifecycle' = "FINALIZED" /\ at' = Idle /\ UNCHANGED events
      BY <1>2, <2>1, <2>3 DEF Ends
    <2> QED BY <1>17, <2>2, <2>3 DEF AsksForForgottenGoal
  <1>18. CASE CatchesException
    <2>1. /\ lifecycle # "INACTIVE" /\ "threw" \in events
          /\ UNCHANGED <<lifecycle, finished, events>>
      BY <1>18 DEF CatchesException, At, Where
    <2>2. CASE Goes("halt", "threw") /\ UNCHANGED told
      BY <1>5, <2>1, <2>2
    <2>3. CASE Goes("uninitialized", "nothing") /\ Tell("FAILURE")
      BY <1>1, <1>4, <2>1, <2>3 DEF Ends
    <2> QED BY <1>18, <2>2, <2>3 DEF CatchesException
  <1>19. CASE TreeRuns \/ TreeRetries
    <2>1. Tell("FEEDBACK") /\ UNCHANGED <<lifecycle, events, finished>> /\ at'.step = "idle"
          /\ lifecycle # "INACTIVE" /\ ~finished
      BY <1>19 DEF TreeRuns, TreeRetries, At, Where
    <2> QED BY <1>1, <1>4, <2>1 DEF Ends
  <1>20. CASE UninitializedResult
    <2>1. /\ UNCHANGED told \/ \E m \in Messages : Tell(m)
          /\ UNCHANGED <<lifecycle, events>> /\ at'.step = "idle"
          /\ "threw" \in events /\ Ended
      BY <1>4, <1>20 DEF UninitializedResult, At, Where, Ends
    <2> QED BY <1>1, <1>2, <2>1 DEF Ends
  <1> QED BY <1>7, <1>8, <1>9, <1>10, <1>11, <1>12, <1>13, <1>14, <1>15, <1>16, <1>17, <1>18,
             <1>19, <1>20
          DEF Next, Hub, Author, Spun

-----------------------------------------------------------------------------
(* What a success rests on                                                 *)

\* Every message is explained by what happened since the CONFIRM, which only a
\* new one makes forgotten.
LEMMA EventsStay ==
    ASSUME [Next]_vars
    PROVE  events \subseteq events' \/ told' = <<>>
  <1> USE DEF hubVars
  <1>1. CASE Hub
    BY <1>1
    DEF Hub, ReceiveRequest, ReceiveReject, ActivationFails, Activate, ReceiveCancel,
        PyReceiveRequest, PyReceiveReject, PyReceiveConfirm, PyReceiveCancel, PyStep
  <1>2. CASE Author \/ Interrupts
    BY <1>2 DEF Author, PySendFeedback, PyFinish, Interrupts, TreeHaltsLeaf, TreeFails
  <1>3. CASE Server \/ Receives \/ UNCHANGED vars
    BY <1>3 DEF Server, Answers, Settles, Becomes, AnswersCancel, Receives, ReceiveAnswer,
                ReceiveResult, ReceiveReply, vars
  <1>4. CASE DoWork
    BY <1>4
    DEF DoWork, NoServer, StopsAtOnce, TickSent, TickRejected, StopsForgottenGoal, KeepsGoal,
        TickFinishing, TickCancelling, TickFinished, TickFailure, TickAgain, SendsNoRequest,
        TickRequest, SendGoal, ReplacesGoal, SendsRequest, StopsGoal, GoalIsGivenUp, Throws
  <1>5. CASE Spun
    BY <1>5
    DEF Spun, GoalAccepted, GoalRejected, GivesUp, EndOfSpin, Completed, NoReply, HaltAndCancel,
        WaitForResult, AsksForForgottenGoal, CatchesException, EndOfCancel, HaltDone, TreeRuns,
        TreeRetries, TreeEnds, UninitializedResult, GoalIsGivenUp, Throws
  <1> QED BY <1>1, <1>2, <1>3, <1>4, <1>5 DEF Next

\* The steps after which a leaf may have another result.
ResultChanges == Activate \/ Completed \/ Receives

\* The leaf keeps its result but in the steps ResultChanges names.
LEMMA ResultStays ==
    ASSUME leaf \in LeafType, [Next]_vars, ~ResultChanges
    PROVE  leaf'.result = leaf.result
  <1> USE DEF leafVars, LeafType
  <1>1. CASE Hub
    BY <1>1
    DEF ResultChanges, Hub, ReceiveRequest, ReceiveReject, ActivationFails, ReceiveCancel,
        PyReceiveRequest, PyReceiveReject, PyReceiveConfirm, PyReceiveCancel, PyStep
  <1>2. CASE Author \/ Interrupts
    BY <1>2 DEF Author, PySendFeedback, PyFinish, PyStep, Interrupts, TreeHaltsLeaf, TreeFails
  <1>3. CASE Server \/ UNCHANGED vars
    BY <1>3 DEF Server, Answers, Settles, Becomes, AnswersCancel, vars
  <1>4. CASE DoWork
    BY <1>4
    DEF DoWork, NoServer, StopsAtOnce, TickSent, TickRejected, StopsForgottenGoal, KeepsGoal,
        TickFinishing, TickCancelling, TickFinished, TickFailure, TickAgain, SendsNoRequest,
        TickRequest, SendGoal, ReplacesGoal, SendsRequest, StopsGoal, OnNewGoalReceived,
        GoalIsGivenUp, Throws
  <1>5. CASE EndOfCancel \/ HaltDone
    BY <1>5 DEF EndOfCancel, HaltDone, Continue, Halted
  <1>6. CASE Spun /\ ~EndOfCancel /\ ~HaltDone
    BY <1>6
    DEF ResultChanges, Spun, GoalAccepted, GoalRejected, GivesUp, EndOfSpin, NoReply,
        HaltAndCancel, WaitForResult, AsksForForgottenGoal, CatchesException, TreeRuns,
        TreeRetries, TreeEnds, UninitializedResult, GoalIsGivenUp, Throws
  <1> QED BY <1>1, <1>2, <1>3, <1>4, <1>5, <1>6 DEF Next, ResultChanges

\* A goal that has ended stays as it is.
Final == Settled \cup {"answered", "rejected"}
Unsent == \A g \in Goals : g > sentGoals => goals[g] = "none"
Well == {"succeeded", "canceled", "answered"}

\* A goal that has ended on the server stays as it ended.
LEMMA FinalStays ==
    ASSUME TypeOK, Unsent, [Next]_vars, NEW g \in Goals, goals[g] \in Final
    PROVE  goals'[g] = goals[g]
  <1> USE DEF serverVars, Final, Settled
  <1>0. goals \in [Goals -> GoalStates] /\ sentGoals \in 0 .. MaxGoals
    BY DEF TypeOK
  <1>1. CASE UNCHANGED goals
    BY <1>1
  <1>2. CASE SendGoal \/ ReplacesGoal \/ SendsRequest
    <2>1. goals' = [goals EXCEPT ![sentGoals + 1] = "sent"]
      BY <1>2 DEF SendGoal, ReplacesGoal, SendsRequest, OnNewGoalReceived
    <2>2. g # sentGoals + 1
      BY <1>0, PerformerAssumption DEF Unsent, Goals
    <2> QED BY <1>0, <2>1, <2>2
  <1>3. CASE Server
    BY <1>0, <1>3 DEF Server, Answers, Settles, Becomes, AnswersCancel
  <1>4. CASE Hub \/ Author \/ Interrupts
    BY <1>1, <1>4
    DEF Hub, ReceiveRequest, ReceiveReject, ActivationFails, Activate, ReceiveCancel,
        PyReceiveRequest, PyReceiveReject, PyReceiveConfirm, PyReceiveCancel, PyStep,
        Author, PySendFeedback, PyFinish, Interrupts, TreeHaltsLeaf, TreeFails
  <1>5. CASE Receives \/ UNCHANGED vars
    BY <1>1, <1>5 DEF Receives, ReceiveAnswer, ReceiveResult, ReceiveReply, vars
  <1>6. CASE DoWork
    BY <1>1, <1>2, <1>6
    DEF DoWork, NoServer, StopsAtOnce, TickSent, TickRejected, StopsForgottenGoal, KeepsGoal,
        TickFinishing, TickCancelling, TickFinished, TickFailure, TickAgain, SendsNoRequest,
        TickRequest, StopsGoal, GoalIsGivenUp, Throws
  <1>7. CASE Spun
    BY <1>1, <1>7
    DEF Spun, GoalAccepted, GoalRejected, GivesUp, EndOfSpin, Completed, NoReply, HaltAndCancel,
        WaitForResult, AsksForForgottenGoal, CatchesException, EndOfCancel, HaltDone, TreeRuns,
        TreeRetries, TreeEnds, UninitializedResult, GoalIsGivenUp, Throws
  <1> QED BY <1>3, <1>4, <1>5, <1>6, <1>7 DEF Next

\* What has made a success earned stays, but for a new result.
LEMMA EarnedStays ==
    ASSUME TypeOK, KnownIsTrue, [Next]_vars, Earned, events \subseteq events'
    PROVE  \/ Earned'
           \/ ResultChanges /\ events \cap {"stopped", "again", "threw", "user"} = {}
  <1>1. CASE events \cap {"stopped", "again", "threw", "user"} # {}
    BY <1>1 DEF Earned
  <1>2. CASE events \cap {"stopped", "again", "threw", "user"} = {} /\ ~ResultChanges
    <2>1. leaf.result \in Goals /\ goals[leaf.result] \in Well
      BY <1>2, LeafFields DEF Earned, Well
    <2>2. leaf'.result = leaf.result
      BY <1>2, ResultStays DEF TypeOK
    <2>3. goals'[leaf.result] \in Well
      BY <2>1, FinalStays DEF Well, Final, Settled, KnownIsTrue, Unsent
    <2> QED BY <1>2, <2>1, <2>2, <2>3 DEF Earned, Well
  <1> QED BY <1>1, <1>2

\* The answers are taken only while the thread works.
LEMMA SpinsMeans ==
    ASSUME Spins
    PROVE  /\ at.step \in {"answer", "reply", "result", "some", "cancel", "halt"}
           /\ at.step = "halt" => leaf.status = "RUNNING"
  BY DEF Spins, At

\* A success is told only when it is earned, and stays so.
LEMMA SuccessNext ==
    ASSUME TypeOK, KnownIsTrue, Where, Ends, StatusFits, StatusIsEarned, SuccessIsEarned,
           [Next]_vars
    PROVE  SuccessIsEarned'
  <1> SUFFICES ASSUME ToldSuccess' PROVE Earned'
    BY DEF SuccessIsEarned, ToldSuccess
  <1>1. \A m \in Messages : Tell(m) => (ToldSuccess' <=> ToldSuccess \/ m = "SUCCESS")
    BY TellEffect DEF TypeOK
  <1>2. told' # <<>> /\ events \subseteq events'
    BY EventsStay DEF ToldSuccess
  <1>3. "FEEDBACK" \in Messages /\ "SUCCESS" \in Messages /\ "FAILURE" \in Messages
    BY DEF Messages
  <1>4. told' = told => ToldSuccess
    BY DEF ToldSuccess
  <1>5. ToldSuccess => Earned /\ Ended
    BY DEF SuccessIsEarned, ToldSuccess, Ended
  <1>6. CASE ResultChanges
    <2>1. UNCHANGED told /\ at.step # "idle"
      BY <1>2, <1>6, SpinsMeans
      DEF ResultChanges, Activate, Completed, Receives, ReceiveAnswer, ReceiveResult,
          ReceiveReply, hubVars, At
    <2>2. Earned /\ Ended
      BY <1>4, <1>5, <2>1
    <2>3. "threw" \in events
      BY <2>1, <2>2 DEF Where, Ends
    <2> QED BY <1>2, <2>3 DEF Earned
  <1>7. CASE ~ResultChanges
    <2>10. CASE PyFinish
      <3>1. "user" \in events'
        BY <2>10 DEF PyFinish
      <3> QED BY <3>1 DEF Earned
    <2>1. SUFFICES ASSUME ~PyFinish PROVE Earned
      BY <1>2, <1>7, <2>10, EarnedStays
    <2>2. CASE UNCHANGED told
      BY <1>4, <1>5, <2>2
    <2>3. CASE PySendFeedback \/ TreeRuns \/ TreeRetries \/ CatchesException
      BY <1>1, <1>3, <1>4, <1>5, <2>3 DEF PySendFeedback, TreeRuns, TreeRetries, CatchesException
    <2>4. CASE UninitializedResult
      BY <2>4 DEF UninitializedResult, Where, At, Earned
    <2>5. CASE EndOfCancel \/ HaltDone
      <3>1. Continue
        BY <2>5 DEF EndOfCancel, HaltDone
      <3>2. CASE at.next = "SUCCESS"
        BY <3>2 DEF StatusFits, StatusIsEarned
      <3>3. CASE at.next # "SUCCESS"
        BY <1>1, <1>3, <1>4, <1>5, <3>1, <3>3 DEF Continue
      <3> QED BY <3>2, <3>3
    <2>6. CASE Hub
      BY <1>2, <2>2, <2>6
      DEF Hub, ReceiveRequest, ReceiveReject, ActivationFails, Activate, ReceiveCancel,
          PyReceiveRequest, PyReceiveReject, PyReceiveConfirm, PyReceiveCancel, PyStep
    <2>7. CASE Interrupts \/ Server \/ UNCHANGED vars
      BY <2>2, <2>7 DEF Interrupts, TreeHaltsLeaf, TreeFails, Server, Answers, Settles, Becomes,
                        AnswersCancel, vars, hubVars
    <2>8. CASE DoWork
      BY <2>2, <2>8
      DEF DoWork, Ticks, NoServer, StopsAtOnce, TickSent, TickRejected, StopsForgottenGoal,
          KeepsGoal, TickFinishing, TickCancelling, TickFinished, TickFailure, TickAgain,
          SendsNoRequest, TickRequest, SendGoal, ReplacesGoal, SendsRequest, StopsGoal,
          GoalIsGivenUp, Throws
    <2>9. CASE GoalAccepted \/ GoalRejected \/ GivesUp \/ EndOfSpin \/ NoReply \/ HaltAndCancel
               \/ WaitForResult \/ AsksForForgottenGoal \/ TreeEnds
      BY <2>2, <2>9
      DEF GoalAccepted, GoalRejected, GivesUp, EndOfSpin, NoReply, HaltAndCancel, WaitForResult,
          AsksForForgottenGoal, CatchesException, TreeEnds, hubVars, GoalIsGivenUp, Throws
    <2> QED BY <1>7, <2>1, <2>3, <2>4, <2>5, <2>6, <2>7, <2>8, <2>9
            DEF Next, Author, Spun, ResultChanges
  <1> QED BY <1>6, <1>7

\* What the status of a leaf may be where the thread is.
LEMMA FitsNext ==
    ASSUME TypeOK, Where, LeafFits, StatusFits, [Next]_vars
    PROVE  StatusFits'
  <1>0. /\ leaf \in LeafType /\ leaf.status \in Statuses
        /\ lifecycle \in {"INACTIVE", "ACTIVE", "FINALIZED"}
    BY LeafFields DEF TypeOK
  <1>1. setup' = setup /\ (IsPython' <=> IsPython)
    BY KnownTyped DEF IsPython
  \* a step that leaves the leaf with its status, and the thread where it is
  <1>2. ASSUME at' = at, leaf'.status = leaf.status, events \subseteq events' \/ at.step = "idle",
               lifecycle' = "ACTIVE" \/ lifecycle' = lifecycle \/ IsPython
        PROVE  StatusFits'
    BY <1>0, <1>1, <1>2 DEF StatusFits, Where
  <1>3. CASE Hub
    <2>1. CASE Activate
      <3>1. at' = at /\ at.step = "idle" /\ ~IsPython /\ leaf'.status = "IDLE"
        BY <2>1 DEF Activate, At, FreshLeaf
      <3> QED BY <1>1, <3>1 DEF StatusFits, Where
    <2>2. CASE ReceiveCancel
      <3>1. /\ at.step = "idle" /\ at'.step = "halt" /\ at'.next = "deactivate" /\ leaf' = leaf
            /\ lifecycle' = lifecycle /\ lifecycle = "ACTIVE" /\ ~IsPython
        BY <2>2 DEF ReceiveCancel, At, Goes, leafVars
      <3> QED BY <1>0, <1>1, <3>1 DEF StatusFits
    <2>3. CASE Hub /\ ~Activate /\ ~ReceiveCancel
      BY <1>2, <2>3
      DEF Hub, ReceiveRequest, ReceiveReject, ActivationFails, At, leafVars,
          PyReceiveRequest, PyReceiveReject, PyReceiveConfirm, PyReceiveCancel, PyStep
    <2> QED BY <1>3, <2>1, <2>2, <2>3
  <1>4. CASE Author
    BY <1>2, <1>4 DEF Author, PySendFeedback, PyFinish, PyStep, At, leafVars
  <1>5. CASE Interrupts
    <2>1. /\ at.step = "idle" /\ lifecycle # "INACTIVE" /\ ~IsPython /\ leaf' = leaf
          /\ lifecycle' = lifecycle /\ at'.step = "halt" /\ at'.next \in {"tick", "FAILURE"}
      BY <1>5 DEF Interrupts, TreeHaltsLeaf, TreeFails, Works, At, Goes, leafVars, hubVars
    <2> QED BY <1>0, <1>1, <2>1 DEF StatusFits
  <1>6. CASE Server \/ UNCHANGED vars
    BY <1>2, <1>6 DEF Server, Answers, Settles, Becomes, AnswersCancel, leafVars, hubVars, vars
  <1>7. CASE Receives
    <2>1. leaf'.status = leaf.status
      BY <1>0, <1>7 DEF Receives, ReceiveAnswer, ReceiveResult, ReceiveReply, leafVars, LeafType
    <2> QED BY <1>2, <1>7, <2>1 DEF Receives, ReceiveAnswer, ReceiveResult, ReceiveReply, hubVars
  <1>8. CASE DoWork
    <2>1. at.step = "idle" /\ lifecycle # "INACTIVE" /\ lifecycle' = lifecycle /\ ~IsPython
      BY <1>8
      DEF DoWork, Ticks, Works, At, NoServer, StopsAtOnce, TickSent, TickRejected,
          StopsForgottenGoal, KeepsGoal, TickFinishing, TickCancelling, TickFinished, TickFailure,
          TickAgain, SendsNoRequest, TickRequest, SendGoal, ReplacesGoal, SendsRequest, StopsGoal
    <2>2. leaf.status \notin {"SUCCESS", "FAILURE"}
      BY <2>1 DEF StatusFits
    <2>3. CASE StopsGoal
      <3>1. /\ at'.step = "cancel" /\ at'.next = "stop" /\ "stopped" \in events'
            /\ leaf' = leaf
        BY <2>3 DEF StopsGoal, Goes, leafVars
      <3> QED BY <1>1, <2>1, <2>2, <3>1 DEF StatusFits
    <2>4. CASE ~StopsGoal
      <3>1. at'.next = "nothing"
        BY <1>8, <2>4, TickGoes
      <3>2. at'.step # "returned" => leaf'.status \notin {"SUCCESS", "FAILURE"}
        <4>1. CASE NoServer \/ StopsAtOnce \/ TickFinishing \/ TickCancelling \/ TickFinished
                   \/ TickFailure \/ SendsNoRequest \/ SendGoal \/ TickRejected
          <5>1. Returned
            BY <4>1 DEF NoServer, StopsAtOnce, TickFinishing, TickCancelling, TickFinished,
                        TickFailure, TickAgain, SendsNoRequest, SendGoal, TickRejected,
                        GoalIsGivenUp
          <5> QED BY <5>1 DEF Returned, Goes
        <4>2. CASE ReplacesGoal \/ SendsRequest
          BY <1>0, <4>2 DEF ReplacesGoal, SendsRequest, OnNewGoalReceived, LeafType
        <4>3. CASE KeepsGoal \/ TickRequest \/ StopsForgottenGoal
          BY <2>2, <4>3 DEF KeepsGoal, TickRequest, StopsForgottenGoal, leafVars
        <4>4. CASE TickSent
          BY <2>2, <4>4 DEF TickSent, GoalIsGivenUp, Returned, Goes
        <4> QED BY <1>8, <2>4, <4>1, <4>2, <4>3, <4>4 DEF DoWork
      <3> QED BY <1>1, <2>1, <3>1, <3>2 DEF StatusFits
    <2> QED BY <2>3, <2>4
  <1>9. CASE Spun
    <2>0. at.step # "idle" /\ ~IsPython
      BY <1>9 DEF Spun, GoalAccepted, GoalRejected, GivesUp, EndOfSpin, Completed, NoReply,
                  HaltAndCancel, WaitForResult, AsksForForgottenGoal, CatchesException,
                  EndOfCancel, HaltDone, TreeRuns, TreeRetries, TreeEnds, UninitializedResult, At,
                  Where
    <2>1. CASE GoalAccepted \/ GivesUp \/ EndOfSpin \/ Completed \/ NoReply
      <3>1. at'.step = "returned" /\ at'.next = "nothing" /\ lifecycle' = lifecycle
            /\ lifecycle # "INACTIVE"
        BY <2>1 DEF GoalAccepted, GivesUp, EndOfSpin, Completed, NoReply, Returned, Goes, hubVars,
                    At, Where, GoalIsGivenUp
      <3> QED BY <1>1, <2>0, <3>1 DEF StatusFits
    <2>2. CASE GoalRejected
      <3>1. /\ at.step = "answer" /\ at'.step = "catch" /\ at'.next = "nothing"
            /\ lifecycle' = lifecycle /\ lifecycle # "INACTIVE" /\ leaf'.status = leaf.status
        BY <1>0, <2>2 DEF GoalRejected, Throws, Goes, At, Where, LeafType
      <3> QED BY <1>0, <1>1, <2>0, <3>1 DEF StatusFits
    <2>3. CASE HaltAndCancel
      <3>1. /\ leaf'.status = "RUNNING" /\ leaf.status = "RUNNING" /\ at.step = "halt"
            /\ at'.step = "cancel" /\ at'.next = at.next /\ lifecycle' = lifecycle
            /\ lifecycle # "INACTIVE"
        BY <1>0, <2>3 DEF HaltAndCancel, ShouldCancelGoal, Goes, At, Where, hubVars
      <3> QED BY <1>0, <1>1, <2>0, <3>1 DEF StatusFits
    <2>4. CASE WaitForResult
      <3>1. /\ leaf' = leaf /\ at.step = "cancel" /\ at'.step = "result" /\ at'.next = at.next
            /\ lifecycle' = lifecycle /\ lifecycle # "INACTIVE" /\ events' = events
        BY <2>4 DEF WaitForResult, Goes, At, Where, leafVars, hubVars
      <3> QED BY <1>0, <1>1, <2>0, <3>1 DEF StatusFits
    <2>5. CASE AsksForForgottenGoal
      <3>1. /\ leaf' = leaf /\ at.step = "cancel" /\ at'.next = "nothing"
            /\ lifecycle' \in {lifecycle, "FINALIZED"} /\ lifecycle # "INACTIVE"
        BY <2>5 DEF AsksForForgottenGoal, Throws, Goes, Idle, At, Where, leafVars
      <3> QED BY <1>0, <1>1, <2>0, <3>1 DEF StatusFits
    <2>6. CASE CatchesException
      <3>1. /\ leaf' = leaf /\ at.step = "catch" /\ at'.next \in {"nothing", "threw"}
            /\ lifecycle' = lifecycle /\ lifecycle # "INACTIVE"
        BY <2>6 DEF CatchesException, Goes, At, Where, leafVars
      <3> QED BY <1>0, <1>1, <2>0, <3>1 DEF StatusFits
    <2>7. CASE EndOfCancel \/ HaltDone
      <3>1. Continue
        BY <2>7 DEF EndOfCancel, HaltDone
      <3>2. CASE at.next = "stop"
        <4>1. at'.step = "returned" /\ at'.next = "nothing" /\ lifecycle' = lifecycle
              /\ lifecycle # "INACTIVE"
          BY <2>7, <3>1, <3>2 DEF Continue, Returned, Goes, Where, EndOfCancel, HaltDone, At
        <4> QED BY <1>1, <2>0, <4>1 DEF StatusFits
      <3>3. CASE at.next # "stop"
        <4>1. leaf' = Halted /\ at'.step \in {"idle", "uninitialized"} /\ at'.next = "nothing"
          BY <3>1, <3>3 DEF Continue, Idle, Goes
        <4>2. leaf'.status = "IDLE"
          BY <1>0, <4>1 DEF Halted, LeafType
        <4> QED BY <1>1, <2>0, <4>1, <4>2 DEF StatusFits
      <3> QED BY <3>2, <3>3
    <2>8. CASE TreeRuns
      <3>1. at' = Idle /\ leaf' = leaf /\ leaf.status = "RUNNING" /\ lifecycle' = lifecycle
            /\ lifecycle # "INACTIVE"
        BY <2>8 DEF TreeRuns, leafVars, At, Where
      <3> QED BY <1>1, <2>0, <3>1 DEF StatusFits, Idle
    <2>9. CASE TreeRetries
      <3>1. at' = Idle /\ leaf'.status = "IDLE"
        BY <1>0, <2>9 DEF TreeRetries, LeafType
      <3> QED BY <1>1, <2>0, <3>1 DEF StatusFits, Idle
    <2>10. CASE TreeEnds
      <3>1. /\ at'.step = "halt" /\ at'.next = leaf.status /\ leaf' = leaf
            /\ lifecycle' = lifecycle /\ lifecycle # "INACTIVE"
            /\ leaf.status \in {"SUCCESS", "FAILURE"}
        BY <2>10 DEF TreeEnds, Goes, leafVars, hubVars, At, Where
      <3> QED BY <1>1, <2>0, <3>1 DEF StatusFits
    <2>11. CASE UninitializedResult
      <3>1. at' = Idle /\ leaf' = leaf /\ lifecycle' = lifecycle /\ at.step = "uninitialized"
        BY <2>11 DEF UninitializedResult, leafVars, At
      <3> QED BY <1>1, <2>0, <3>1 DEF StatusFits, Idle
    <2> QED BY <1>9, <2>1, <2>2, <2>3, <2>4, <2>5, <2>6, <2>7, <2>8, <2>9, <2>10, <2>11 DEF Spun
  <1> QED BY <1>3, <1>4, <1>5, <1>6, <1>7, <1>8, <1>9 DEF Next

\* A success is new for one of the reasons, or it was earned before.
LEMMA EarnedNext ==
    ASSUME TypeOK, KnownIsTrue, Where, StatusFits, StatusIsEarned, [Next]_vars
    PROVE  StatusIsEarned'
  <1> SUFFICES ASSUME leaf'.status = "SUCCESS", at'.step \in {"returned", "halt"}
               PROVE  Earned'
    BY DEF StatusIsEarned
  <1>0. leaf \in LeafType
    BY DEF TypeOK
  <1>1. CASE at' = at /\ leaf'.status = leaf.status
    <2>1. Earned /\ at.step # "idle"
      BY <1>1 DEF StatusIsEarned
    <2>2. ~ResultChanges
      BY <1>1, SpinsMeans DEF ResultChanges, Activate, Completed, Receives, ReceiveAnswer,
                              ReceiveResult, ReceiveReply, At
    <2>3. events \subseteq events'
      <3>1. ~Hub /\ ~Author
        BY <2>1 DEF Hub, Author, ReceiveRequest, ReceiveReject, ActivationFails, Activate,
                    ReceiveCancel, PyReceiveRequest, PyReceiveReject, PyReceiveConfirm,
                    PyReceiveCancel, PySendFeedback, PyFinish, PyStep, At
      <3>2. CASE Interrupts \/ Server \/ Receives \/ UNCHANGED vars
        BY <3>2 DEF Interrupts, TreeHaltsLeaf, TreeFails, Server, Answers, Settles, Becomes,
                    AnswersCancel, Receives, ReceiveAnswer, ReceiveResult, ReceiveReply, vars, hubVars
      <3>3. CASE DoWork
        BY <2>1, <3>3
        DEF DoWork, Ticks, Works, At, NoServer, StopsAtOnce, TickSent, TickRejected,
            StopsForgottenGoal, KeepsGoal, TickFinishing, TickCancelling, TickFinished,
            TickFailure, TickAgain, SendsNoRequest, TickRequest, SendGoal, ReplacesGoal,
            SendsRequest, StopsGoal, GoalIsGivenUp, Throws
      <3>4. CASE Spun
        BY <3>4
        DEF Spun, GoalAccepted, GoalRejected, GivesUp, EndOfSpin, Completed, NoReply,
            HaltAndCancel, WaitForResult, AsksForForgottenGoal, CatchesException, EndOfCancel,
            HaltDone, TreeRuns, TreeRetries, TreeEnds, UninitializedResult, hubVars,
            GoalIsGivenUp, Throws
      <3> QED BY <3>1, <3>2, <3>3, <3>4 DEF Next
    <2> QED BY <2>1, <2>2, <2>3, EarnedStays
  <1>2. CASE Hub \/ Author
    <2>1. at' = at \/ (at.step = "idle" /\ leaf' = leaf)
      BY <1>2 DEF Hub, Author, ReceiveRequest, ReceiveReject, ActivationFails, Activate,
                  ReceiveCancel, PyReceiveRequest, PyReceiveReject, PyReceiveConfirm,
                  PyReceiveCancel, PySendFeedback, PyFinish, PyStep, At, leafVars
    <2>2. at.step = "idle"
      BY <1>2 DEF Hub, Author, ReceiveRequest, ReceiveReject, ActivationFails, Activate,
                  ReceiveCancel, PyReceiveRequest, PyReceiveReject, PyReceiveConfirm,
                  PyReceiveCancel, PySendFeedback, PyFinish, PyStep, At
    <2> QED BY <2>1, <2>2 DEF StatusFits
  <1>3. CASE Interrupts
    <2>1. at.step = "idle" /\ leaf' = leaf
      BY <1>3 DEF Interrupts, TreeHaltsLeaf, TreeFails, Works, At, leafVars
    <2> QED BY <2>1 DEF StatusFits
  <1>4. CASE Server \/ UNCHANGED vars
    BY <1>1, <1>4 DEF Server, Answers, Settles, Becomes, AnswersCancel, leafVars, vars
  <1>5. CASE Receives
    <2>1. leaf'.status = leaf.status /\ at' = at
      BY <1>0, <1>5 DEF Receives, ReceiveAnswer, ReceiveResult, ReceiveReply, leafVars, LeafType
    <2> QED BY <1>1, <2>1
  <1>6. CASE DoWork
    <2>1. CASE StopsAtOnce \/ TickCancelling \/ TickFinished \/ TickFailure
      <3>1. "stopped" \in events' \/ "again" \in events'
        BY <2>1 DEF StopsAtOnce, TickCancelling, TickFinished, TickFailure, TickAgain
      <3> QED BY <3>1 DEF Earned
    <2>2. CASE TickFinishing
      <3>1. /\ leaf'.result = leaf.result /\ leaf.state = "GOAL_FINISHING" /\ goals' = goals
            /\ "stopped" \in events' \/ goals[leaf.result] # "aborted"
        BY <1>0, <2>2 DEF TickFinishing, Ticks, LeafType, serverVars
      <3> QED BY <3>1 DEF KnownIsTrue, Settled, Earned
    <2>3. CASE NoServer \/ SendGoal \/ ReplacesGoal \/ SendsNoRequest \/ SendsRequest
      BY <1>0, <2>3 DEF NoServer, SendGoal, ReplacesGoal, SendsNoRequest, SendsRequest,
                        OnNewGoalReceived, LeafType
    <2>4. CASE KeepsGoal \/ TickRequest \/ StopsGoal \/ StopsForgottenGoal
      BY <2>4 DEF KeepsGoal, TickRequest, StopsGoal, StopsForgottenGoal, Throws, Goes
    <2>5. CASE TickSent \/ TickRejected
      <3>1. CASE GoalIsGivenUp
        BY <1>0, <3>1 DEF GoalIsGivenUp, LeafType
      <3>2. CASE TickSent /\ ~GoalIsGivenUp
        BY <3>2 DEF TickSent, Goes
      <3>3. CASE TickRejected /\ ~GoalIsGivenUp
        BY <1>0, <3>3 DEF TickRejected, LeafType
      <3> QED BY <2>5, <3>1, <3>2, <3>3
    <2> QED BY <1>6, <2>1, <2>2, <2>3, <2>4, <2>5 DEF DoWork
  <1>7. CASE Spun
    <2>1. CASE GoalAccepted \/ GivesUp \/ EndOfSpin \/ NoReply \/ TreeRetries
      BY <1>0, <2>1 DEF GoalAccepted, GivesUp, EndOfSpin, NoReply, TreeRetries, LeafType,
                        GoalIsGivenUp
    <2>2. CASE GoalRejected
      BY <2>2 DEF GoalRejected, Throws, Goes
    <2>3. CASE Completed
      <3>1. leaf'.result = leaf.sent /\ known[leaf.sent] = "done" /\ at.step = "reply"
            /\ goals' = goals
        BY <1>0, <2>3 DEF Completed, At, LeafType, serverVars
      <3>2. leaf.sent \in Goals /\ setup.leaf = "service"
        BY <3>1, LeafFields DEF KnownIsTrue
      <3>3. goals[leaf.sent] = "answered"
        BY <3>1, <3>2 DEF KnownIsTrue, Settled
      <3> QED BY <3>1, <3>2, <3>3, PerformerAssumption DEF Earned, Goals
    <2>4. CASE HaltAndCancel \/ WaitForResult \/ AsksForForgottenGoal \/ TreeRuns
               \/ UninitializedResult
      BY <2>4 DEF HaltAndCancel, WaitForResult, AsksForForgottenGoal, TreeRuns,
                  UninitializedResult, Throws, Goes, Idle
    <2>5. CASE CatchesException
      <3>1. leaf' = leaf /\ at.step = "catch"
        BY <2>5 DEF CatchesException, At, leafVars
      <3> QED BY <3>1 DEF StatusFits
    <2>6. CASE EndOfCancel \/ HaltDone
      <3>1. Continue /\ events' = events
        BY <2>6 DEF EndOfCancel, HaltDone
      <3>2. CASE at.next = "stop"
        BY <3>1, <3>2 DEF StatusFits, Earned
      <3>3. CASE at.next # "stop"
        BY <1>0, <3>1, <3>3 DEF Continue, Idle, Goes
      <3> QED BY <3>2, <3>3
    <2>7. CASE TreeEnds
      <3>1. at.step = "returned" /\ leaf' = leaf /\ events' = events /\ goals' = goals
        BY <2>7 DEF TreeEnds, At, leafVars, hubVars, serverVars
      <3> QED BY <3>1 DEF StatusIsEarned, Earned
    <2> QED BY <1>7, <2>1, <2>2, <2>3, <2>4, <2>5, <2>6, <2>7 DEF Spun
  <1> QED BY <1>2, <1>3, <1>4, <1>5, <1>6, <1>7 DEF Next

-----------------------------------------------------------------------------
(* What is known of the goals                                              *)

\* What a step may make of a goal.
LEMMA GoalStep ==
    ASSUME TypeOK, Unsent, [Next]_vars, NEW g \in Goals
    PROVE  \/ goals'[g] = goals[g]
           \/ g = sentGoals' /\ sentGoals' = sentGoals + 1 /\ goals'[g] = "sent"
           \/ goals[g] = "sent" /\ setup.leaf = "service" /\ goals'[g] = "answered"
           \/ goals[g] = "sent" /\ setup.leaf = "action" /\ goals'[g] \in {"executing", "rejected"}
           \/ goals[g] \in {"executing", "cancelling"} /\ goals'[g] \in Settled \cup {"cancelling"}
  <1> USE DEF serverVars
  <1>0. goals \in [Goals -> GoalStates] /\ sentGoals \in 0 .. MaxGoals
    BY DEF TypeOK
  <1>1. CASE UNCHANGED goals
    BY <1>1
  <1>2. CASE SendGoal \/ ReplacesGoal \/ SendsRequest
    <2>1. goals' = [goals EXCEPT ![sentGoals + 1] = "sent"] /\ sentGoals' = sentGoals + 1
      BY <1>2 DEF SendGoal, ReplacesGoal, SendsRequest, OnNewGoalReceived
    <2> QED BY <1>0, <2>1
  <1>3. CASE Server
    BY <1>0, <1>3 DEF Server, Answers, Settles, Becomes, AnswersCancel, Settled
  <1>4. CASE Hub \/ Author \/ Interrupts
    BY <1>1, <1>4
    DEF Hub, ReceiveRequest, ReceiveReject, ActivationFails, Activate, ReceiveCancel,
        PyReceiveRequest, PyReceiveReject, PyReceiveConfirm, PyReceiveCancel, PyStep,
        Author, PySendFeedback, PyFinish, Interrupts, TreeHaltsLeaf, TreeFails
  <1>5. CASE Receives \/ UNCHANGED vars
    BY <1>1, <1>5 DEF Receives, ReceiveAnswer, ReceiveResult, ReceiveReply, vars
  <1>6. CASE DoWork
    BY <1>1, <1>2, <1>6
    DEF DoWork, NoServer, StopsAtOnce, TickSent, TickRejected, StopsForgottenGoal, KeepsGoal,
        TickFinishing, TickCancelling, TickFinished, TickFailure, TickAgain, SendsNoRequest,
        TickRequest, StopsGoal, GoalIsGivenUp, Throws
  <1>7. CASE Spun
    BY <1>1, <1>7
    DEF Spun, GoalAccepted, GoalRejected, GivesUp, EndOfSpin, Completed, NoReply, HaltAndCancel,
        WaitForResult, AsksForForgottenGoal, CatchesException, EndOfCancel, HaltDone, TreeRuns,
        TreeRetries, TreeEnds, UninitializedResult, GoalIsGivenUp, Throws
  <1> QED BY <1>3, <1>4, <1>5, <1>6, <1>7 DEF Next

\* The number of the goals that have been sent grows by one, or stays.
LEMMA SentStep ==
    ASSUME [Next]_vars
    PROVE  sentGoals' \in {sentGoals, sentGoals + 1}
  <1> USE DEF leafVars
  <1>1. CASE Hub \/ Author \/ Interrupts
    BY <1>1
    DEF Hub, ReceiveRequest, ReceiveReject, ActivationFails, Activate, ReceiveCancel,
        PyReceiveRequest, PyReceiveReject, PyReceiveConfirm, PyReceiveCancel, PyStep,
        Author, PySendFeedback, PyFinish, Interrupts, TreeHaltsLeaf, TreeFails
  <1>2. CASE Server \/ Receives \/ UNCHANGED vars
    BY <1>2 DEF Server, Answers, Settles, Becomes, AnswersCancel, Receives, ReceiveAnswer,
                ReceiveResult, ReceiveReply, vars
  <1>3. CASE DoWork
    BY <1>3
    DEF DoWork, NoServer, StopsAtOnce, TickSent, TickRejected, StopsForgottenGoal, KeepsGoal,
        TickFinishing, TickCancelling, TickFinished, TickFailure, TickAgain, SendsNoRequest,
        TickRequest, StopsGoal, SendGoal, ReplacesGoal, SendsRequest, OnNewGoalReceived,
        GoalIsGivenUp, Throws
  <1>4. CASE Spun
    BY <1>4
    DEF Spun, GoalAccepted, GoalRejected, GivesUp, EndOfSpin, Completed, NoReply, HaltAndCancel,
        WaitForResult, AsksForForgottenGoal, CatchesException, EndOfCancel, HaltDone, TreeRuns,
        TreeRetries, TreeEnds, UninitializedResult, GoalIsGivenUp, Throws
  <1> QED BY <1>1, <1>2, <1>3, <1>4 DEF Next

\* What is known only changes when the answers are taken.
LEMMA KnownStep ==
    ASSUME TypeOK, [Next]_vars, NEW g \in Goals
    PROVE  \/ known'[g] = known[g]
           \/ Receives /\ goals' = goals /\ known'[g] = "done" /\ goals[g] \in Settled \cup {"answered"}
           \/ Receives /\ goals' = goals /\ known'[g] = "rejected" /\ goals[g] = "rejected"
           \/ Receives /\ goals' = goals /\ known'[g] = "accepted"
  <1>0. known \in [Goals -> Known]
    BY DEF TypeOK
  <1>1. CASE UNCHANGED known
    BY <1>1
  <1>2. CASE Receives
    BY <1>0, <1>2 DEF Receives, ReceiveAnswer, ReceiveResult, ReceiveReply, serverVars
  <1>3. CASE Hub \/ Author \/ Interrupts
    BY <1>1, <1>3
    DEF Hub, ReceiveRequest, ReceiveReject, ActivationFails, Activate, ReceiveCancel,
        PyReceiveRequest, PyReceiveReject, PyReceiveConfirm, PyReceiveCancel, PyStep,
        Author, PySendFeedback, PyFinish, Interrupts, TreeHaltsLeaf, TreeFails
  <1>4. CASE Server \/ UNCHANGED vars
    BY <1>1, <1>4 DEF Server, Answers, Settles, Becomes, AnswersCancel, vars
  <1>5. CASE DoWork
    BY <1>1, <1>5
    DEF DoWork, Ticks, NoServer, StopsAtOnce, TickSent, TickRejected, StopsForgottenGoal,
        KeepsGoal, TickFinishing, TickCancelling, TickFinished, TickFailure, TickAgain,
        SendsNoRequest, TickRequest, StopsGoal, SendGoal, ReplacesGoal, SendsRequest,
        GoalIsGivenUp, Throws
  <1>6. CASE Spun
    BY <1>1, <1>6
    DEF Spun, GoalAccepted, GoalRejected, GivesUp, EndOfSpin, Completed, NoReply, HaltAndCancel,
        WaitForResult, AsksForForgottenGoal, CatchesException, EndOfCancel, HaltDone, TreeRuns,
        TreeRetries, TreeEnds, UninitializedResult, GoalIsGivenUp, Throws
  <1> QED BY <1>2, <1>3, <1>4, <1>5, <1>6 DEF Next

\* The parts of KnownIsTrue.
KnownOfGoals ==
    \A g \in Goals :
        /\ known[g] = "done" => goals[g] \in Settled \cup {"answered"}
        /\ known[g] = "rejected" => goals[g] = "rejected"
        /\ setup.leaf = "service" => goals[g] \in {"none", "sent", "answered"}
KnownOfResult ==
    /\ leaf.result # NoGoal => goals[leaf.result] \in Settled \cup {"answered"}
    /\ leaf.available \/ leaf.state = "GOAL_FINISHING" => leaf.result # NoGoal
KnownOfReply == at.step = "reply" => leaf.sent # NoGoal /\ setup.leaf = "service"

\* The parts of KnownIsTrue, proved one by one.
LEMMA KnownParts ==
    /\ KnownIsTrue <=> Unsent /\ KnownOfGoals /\ KnownOfResult /\ KnownOfReply
    /\ KnownIsTrue' <=> Unsent' /\ KnownOfGoals' /\ KnownOfResult' /\ KnownOfReply'
  BY DEF KnownIsTrue, Unsent, KnownOfGoals, KnownOfResult, KnownOfReply

\* What the client library knows of a goal is what the server made of it.
LEMMA KnownOfGoalsNext ==
    ASSUME TypeOK, Unsent, KnownOfGoals, [Next]_vars
    PROVE  Unsent' /\ KnownOfGoals'
  <1>0. goals \in [Goals -> GoalStates] /\ sentGoals \in 0 .. MaxGoals /\ setup' = setup
        /\ known \in [Goals -> Known]
    BY KnownTyped DEF TypeOK
  <1>1. ASSUME NEW g \in Goals, g > sentGoals'
        PROVE  goals'[g] = "none"
    <2>1. sentGoals \in Nat /\ g \in Nat /\ g > sentGoals
      BY <1>0, <1>1, SentStep, PerformerAssumption DEF Goals
    <2>2. goals[g] = "none" /\ g # sentGoals'
      BY <1>1, <2>1, SentStep DEF Unsent
    <2> QED BY <2>2, GoalStep
  <1>2. ASSUME NEW g \in Goals
        PROVE  /\ known'[g] = "done" => goals'[g] \in Settled \cup {"answered"}
               /\ known'[g] = "rejected" => goals'[g] = "rejected"
               /\ setup'.leaf = "service" => goals'[g] \in {"none", "sent", "answered"}
    <2>1. /\ known[g] = "done" => goals[g] \in Settled \cup {"answered"}
          /\ known[g] = "rejected" => goals[g] = "rejected"
          /\ setup.leaf = "service" => goals[g] \in {"none", "sent", "answered"}
      BY DEF KnownOfGoals
    <2>2. goals[g] \in Final => goals'[g] = goals[g]
      BY FinalStays
    <2>3. setup'.leaf = "service" => goals'[g] \in {"none", "sent", "answered"}
      BY <1>0, <2>1, GoalStep
    <2>4. CASE known'[g] = known[g]
      BY <2>1, <2>2, <2>3, <2>4 DEF Final
    <2>5. CASE known'[g] # known[g]
      <3>1. goals'[g] = goals[g]
        BY <2>5, KnownStep
      <3> QED BY <2>3, <2>5, <3>1, KnownStep
    <2> QED BY <2>4, <2>5
  <1> QED BY <1>1, <1>2 DEF Unsent, KnownOfGoals

\* A result the leaf took is that of a goal that has ended.
LEMMA KnownOfResultNext ==
    ASSUME TypeOK, Unsent, KnownOfGoals, KnownOfResult, KnownOfReply, [Next]_vars
    PROVE  KnownOfResult'
  <1>0. leaf \in LeafType /\ NoGoal \notin Goals
    BY PerformerAssumption DEF TypeOK, Goals
  <1>1. leaf'.result # NoGoal => goals'[leaf'.result] \in Settled \cup {"answered"}
    <2>1. CASE ~ResultChanges
      <3>1. leaf'.result = leaf.result
        BY <1>0, <2>1, ResultStays
      <3>2. leaf.result \in Goals \/ leaf.result = NoGoal
        BY LeafFields
      <3> QED BY <3>1, <3>2, FinalStays DEF KnownOfResult, Final
    <2>2. CASE Activate
      BY <2>2 DEF Activate, FreshLeaf
    <2>3. CASE Completed
      <3>1. leaf'.result = leaf.sent /\ goals' = goals /\ known[leaf.sent] = "done"
            /\ leaf.sent # NoGoal
        BY <1>0, <2>3 DEF Completed, LeafType, serverVars, At, KnownOfReply
      <3> QED BY <3>1, LeafFields DEF KnownOfGoals
    <2>4. CASE Receives
      <3>1. goals' = goals
        BY <2>4 DEF Receives, ReceiveAnswer, ReceiveResult, ReceiveReply, serverVars
      <3>2. leaf'.result = leaf.result \/ goals[leaf'.result] \in Settled
        BY <1>0, <2>4 DEF Receives, ReceiveAnswer, ReceiveResult, ReceiveReply, leafVars, LeafType
      <3> QED BY <3>1, <3>2 DEF KnownOfResult
    <2> QED BY <2>1, <2>2, <2>3, <2>4 DEF ResultChanges
  <1>2. leaf'.available \/ leaf'.state = "GOAL_FINISHING" => leaf'.result # NoGoal
    <2>1. CASE Activate
      BY <2>1 DEF Activate, FreshLeaf
    <2>2. CASE Completed
      <3>1. leaf'.result = leaf.sent /\ leaf.sent # NoGoal
        BY <1>0, <2>2 DEF Completed, LeafType, At, KnownOfReply
      <3> QED BY <3>1
    <2>3. CASE Receives
      BY <1>0, <2>3 DEF Receives, OfClient, ReceiveAnswer, ReceiveResult, ReceiveReply, leafVars,
                        LeafType, KnownOfResult
    <2>4. CASE ~ResultChanges
      <3>1. leaf'.result = leaf.result
        BY <1>0, <2>4, ResultStays
      <3>2. SUFFICES leaf'.available \/ leaf'.state = "GOAL_FINISHING" =>
                         leaf.available \/ leaf.state = "GOAL_FINISHING"
        BY <3>1 DEF KnownOfResult
      <3> USE <1>0 DEF leafVars, LeafType
      <3>3. CASE Hub
        BY <2>4, <3>3
        DEF ResultChanges, Hub, ReceiveRequest, ReceiveReject, ActivationFails, ReceiveCancel,
            PyReceiveRequest, PyReceiveReject, PyReceiveConfirm, PyReceiveCancel, PyStep
      <3>4. CASE Author \/ Interrupts \/ Server \/ UNCHANGED vars
        BY <3>4 DEF Author, PySendFeedback, PyFinish, PyStep, Interrupts, TreeHaltsLeaf, TreeFails,
                    Server, Answers, Settles, Becomes, AnswersCancel, vars
      <3>5. CASE DoWork
        BY <3>5
        DEF DoWork, NoServer, StopsAtOnce, TickSent, TickRejected, StopsForgottenGoal, KeepsGoal,
            TickFinishing, TickCancelling, TickFinished, TickFailure, TickAgain, SendsNoRequest,
            TickRequest, SendGoal, ReplacesGoal, SendsRequest, StopsGoal, OnNewGoalReceived,
            GoalIsGivenUp, Throws
      <3>6. CASE EndOfCancel \/ HaltDone
        BY <3>6 DEF EndOfCancel, HaltDone, Continue, Halted
      <3>7. CASE Spun /\ ~EndOfCancel /\ ~HaltDone
        BY <2>4, <3>7
        DEF ResultChanges, Spun, GoalAccepted, GoalRejected, GivesUp, EndOfSpin, NoReply,
            HaltAndCancel, WaitForResult, AsksForForgottenGoal, CatchesException, TreeRuns,
            TreeRetries, TreeEnds, UninitializedResult, GoalIsGivenUp, Throws
      <3> QED BY <2>4, <3>3, <3>4, <3>5, <3>6, <3>7 DEF Next, ResultChanges
    <2> QED BY <2>1, <2>2, <2>3, <2>4 DEF ResultChanges
  <1> QED BY <1>1, <1>2 DEF KnownOfResult

\* A reply is waited for by the leaf of a service that has sent a request.
LEMMA KnownOfReplyNext ==
    ASSUME TypeOK, KnownOfReply, [Next]_vars
    PROVE  KnownOfReply'
  <1>0. leaf \in LeafType /\ NoGoal \notin Goals /\ setup' = setup
    BY KnownTyped, PerformerAssumption DEF TypeOK, Goals
  <1> USE DEF KnownOfReply
  <1>1. CASE Receives
    BY <1>0, <1>1 DEF Receives, ReceiveAnswer, ReceiveResult, ReceiveReply, leafVars, LeafType
  <1>2. CASE Hub \/ Author
    BY <1>0, <1>2
    DEF Hub, ReceiveRequest, ReceiveReject, ActivationFails, Activate, ReceiveCancel,
        PyReceiveRequest, PyReceiveReject, PyReceiveConfirm, PyReceiveCancel, PyStep,
        Author, PySendFeedback, PyFinish, Goes, At, leafVars
  <1>3. CASE Interrupts \/ Server \/ UNCHANGED vars
    BY <1>0, <1>3 DEF Interrupts, TreeHaltsLeaf, TreeFails, Goes, leafVars, vars,
                      Server, Answers, Settles, Becomes, AnswersCancel
  <1>4. CASE SendsRequest
    <2>1. leaf'.sent = sentGoals + 1 /\ sentGoals + 1 \in Goals /\ setup.leaf = "service"
      BY <1>0, <1>4, NextGoal DEF SendsRequest, LeafType, TypeOK, Ticks
    <2> QED BY <1>0, <2>1
  <1>5. CASE TickRequest
    BY <1>0, <1>5 DEF TickRequest, Ticks, leafVars
  <1>6. CASE DoWork /\ ~SendsRequest /\ ~TickRequest
    <2>1. Goes("returned", "nothing") \/ Goes("answer", "nothing") \/ Goes("some", "nothing")
          \/ Goes("cancel", "stop") \/ Goes("catch", "nothing")
      BY <1>6
      DEF DoWork, Returned, NoServer, StopsAtOnce, TickSent, TickRejected, StopsForgottenGoal,
          KeepsGoal, TickFinishing, TickCancelling, TickFinished, TickFailure, TickAgain,
          SendsNoRequest, SendGoal, ReplacesGoal, StopsGoal, GoalIsGivenUp, Throws
    <2> QED BY <2>1 DEF Goes
  <1>7. CASE Spun
    <2>1. \/ \E step \in {"returned", "halt", "cancel", "result", "catch", "uninitialized"},
                next \in Nexts :
                 Goes(step, next)
          \/ at' = Idle
      BY <1>7
      DEF Spun, GoalAccepted, GoalRejected, GivesUp, EndOfSpin, Completed, NoReply, HaltAndCancel,
          WaitForResult, AsksForForgottenGoal, CatchesException, EndOfCancel, HaltDone, Continue,
          TreeRuns, TreeRetries, TreeEnds, UninitializedResult, Returned, TypeOK, ThreadType,
          Nexts, GoalIsGivenUp, Throws
    <2> QED BY <2>1 DEF Goes, Idle
  <1> QED BY <1>1, <1>2, <1>3, <1>4, <1>5, <1>6, <1>7 DEF Next

-----------------------------------------------------------------------------
(* The leaf and its goals                                                  *)

\* The fields of a leaf that say which goals it has in hand.
SameLeaf ==
    /\ leaf'.state = leaf.state /\ leaf'.status = leaf.status
    /\ leaf'.sent = leaf.sent /\ leaf'.handle = leaf.handle /\ leaf'.since = leaf.since

\* The state of the leaf of an action server goes with its status and its goals.
LEMMA LeafFitsNext ==
    ASSUME TypeOK, Where, StatusFits, LeafFits, KnownOfReply, [Next]_vars
    PROVE  LeafFits'
  <1> SUFFICES ASSUME setup'.leaf = "action" PROVE LeafFits'
    BY DEF LeafFits
  <1>0. /\ leaf \in LeafType /\ leaf.since \in Nat /\ NoGoal \notin Goals
        /\ setup.leaf = "action" /\ ~IsPython
        /\ sentGoals \in Nat /\ sentGoals' \in Nat /\ sentGoals' >= sentGoals
    BY KnownTyped, SentStep, PerformerAssumption DEF TypeOK, Goals, IsPython, LeafType
  <1>1. leaf.since <= sentGoals + 1 /\ leaf.since <= sentGoals' + 1
    BY <1>0 DEF LeafFits
  \* a step that leaves the leaf, and sends the thread where nothing is asked of the leaf
  <1>2. ASSUME SameLeaf, at'.step \notin {"answer", "some", "cancel", "result"}
        PROVE  LeafFits'
    BY <1>0, <1>1, <1>2 DEF SameLeaf, LeafFits
  <1>3. ASSUME SameLeaf, at' = at
        PROVE  LeafFits'
    BY <1>0, <1>1, <1>3 DEF SameLeaf, LeafFits
  <1>4. CASE Hub
    <2>1. CASE Activate
      <3>1. /\ leaf'.state = "IDLE" /\ leaf'.status = "IDLE" /\ leaf'.since = 1 /\ at' = at
            /\ at.step = "idle"
        BY <2>1 DEF Activate, FreshLeaf, At
      <3>2. leaf'.since <= sentGoals' + 1
        <4>1. sentGoals' \in Nat
          BY <1>0
        <4>2. \A n \in Nat : 1 <= n + 1
          OBVIOUS
        <4> QED BY <3>1, <4>1, <4>2
      <3>3. at'.step = "idle" /\ leaf'.status # "RUNNING"
        BY <3>1
      <3> QED BY <3>1, <3>2, <3>3 DEF LeafFits
    <2>2. CASE ReceiveCancel
      <3>1. SameLeaf /\ at'.step = "halt"
        BY <2>2 DEF ReceiveCancel, Goes, leafVars, SameLeaf
      <3> QED BY <1>2, <3>1
    <2>3. CASE Hub /\ ~Activate /\ ~ReceiveCancel
      BY <1>3, <2>3
      DEF Hub, ReceiveRequest, ReceiveReject, ActivationFails, SameLeaf, leafVars,
          PyReceiveRequest, PyReceiveReject, PyReceiveConfirm, PyReceiveCancel, PyStep
    <2> QED BY <1>4, <2>1, <2>2, <2>3
  <1>5. CASE Interrupts
    <2>1. SameLeaf /\ at'.step = "halt"
      BY <1>5 DEF Interrupts, TreeHaltsLeaf, TreeFails, Goes, leafVars, SameLeaf
    <2> QED BY <1>2, <2>1
  <1>6. CASE Author \/ Server \/ UNCHANGED vars
    BY <1>3, <1>6 DEF Author, PySendFeedback, PyFinish, PyStep, Server, Answers, Settles,
                      Becomes, AnswersCancel, SameLeaf, leafVars, vars
  <1>7. CASE Receives
    <2>1. SameLeaf
      BY <1>0, <1>7 DEF Receives, ReceiveAnswer, ReceiveResult, ReceiveReply, SameLeaf, leafVars,
                        LeafType
    <2> QED BY <1>3, <1>7, <2>1 DEF Receives, ReceiveAnswer, ReceiveResult, ReceiveReply
  <1>8. CASE DoWork
    <2>1. CASE NoServer \/ StopsAtOnce
      <3>1. /\ leaf'.status # "RUNNING" /\ leaf'.state = "IDLE" /\ leaf'.since = leaf.since
            /\ at'.step = "returned"
        BY <1>0, <2>1 DEF NoServer, StopsAtOnce, Ticks, LeafType, Returned, Goes
      <3> QED BY <1>1, <3>1 DEF LeafFits
    <2>2. CASE TickFinishing \/ TickCancelling \/ TickFinished \/ TickFailure
      <3>1. /\ leaf'.status # "RUNNING" /\ leaf'.state \in {"IDLE", "GOAL_FINISHED"}
            /\ leaf'.since = leaf.since
        BY <1>0, <2>2 DEF TickFinishing, TickCancelling, TickFinished, TickFailure, TickAgain,
                          LeafType
      <3>2. at'.step = "returned"
        BY <2>2 DEF TickFinishing, TickCancelling, TickFinished, TickFailure, TickAgain,
                    Returned, Goes
      <3> QED BY <1>1, <3>1, <3>2 DEF LeafFits
    <2>3. CASE SendGoal \/ ReplacesGoal
      <3>1. /\ leaf'.state = "GOAL_SENT" /\ leaf'.sent = sentGoals + 1 /\ sentGoals + 1 \in Goals
            /\ leaf'.since \in {sentGoals + 1, leaf.since} /\ sentGoals' = sentGoals + 1
        BY <1>0, <2>3, NextGoal DEF SendGoal, ReplacesGoal, OnNewGoalReceived, LeafType, TypeOK
      <3>2. at'.step \in {"returned", "some"}
        <4>1. Returned \/ Goes("some", "nothing")
          BY <2>3 DEF SendGoal, ReplacesGoal
        <4> QED BY <4>1 DEF Returned, Goes
      <3> QED BY <1>0, <1>1, <3>1, <3>2 DEF LeafFits
    <2>4. CASE StopsGoal
      <3>1. SameLeaf /\ at'.step = "cancel" /\ leaf.state = "GOAL_EXECUTING"
        BY <2>4 DEF StopsGoal, Goes, Ticks, leafVars, SameLeaf
      <3> QED BY <1>0, <1>1, <3>1 DEF LeafFits, SameLeaf
    <2>5. CASE StopsForgottenGoal
      <3>1. SameLeaf /\ at'.step = "catch"
        BY <2>5 DEF StopsForgottenGoal, Throws, Goes, leafVars, SameLeaf
      <3> QED BY <1>2, <3>1
    <2>6. ASSUME GoalIsGivenUp PROVE LeafFits'
      <3>1. /\ leaf'.state = "GOAL_FAILURE" /\ leaf'.status = "FAILURE" /\ at'.step = "returned"
            /\ leaf'.since = leaf.since
        BY <1>0, <2>6 DEF GoalIsGivenUp, Returned, Goes, LeafType
      <3> QED BY <1>1, <3>1 DEF LeafFits
    <2>7. CASE TickSent /\ ~GoalIsGivenUp
      <3>1. SameLeaf /\ leaf.state = "GOAL_SENT" /\ leaf.sent # NoGoal /\ at'.step = "answer"
        BY <2>7 DEF TickSent, Goes, Ticks, SameLeaf
      <3> QED BY <1>0, <1>1, <3>1 DEF LeafFits, SameLeaf
    <2>8. CASE TickRejected /\ ~GoalIsGivenUp
      <3>1. /\ leaf'.state = "GOAL_SENT" /\ at'.step = "returned" /\ leaf'.since = leaf.since
        BY <1>0, <2>8 DEF TickRejected, Returned, Goes, Ticks, LeafType
      <3> QED BY <1>1, <3>1 DEF LeafFits
    <2>9. CASE KeepsGoal
      <3>1. SameLeaf /\ leaf.state = "GOAL_EXECUTING" /\ at'.step = "some"
        BY <2>9 DEF KeepsGoal, Goes, Ticks, leafVars, SameLeaf
      <3> QED BY <1>0, <1>1, <3>1 DEF LeafFits, SameLeaf
    <2> QED BY <1>0, <1>8, <2>1, <2>2, <2>3, <2>4, <2>5, <2>6, <2>7, <2>8, <2>9
            DEF DoWork, SendsNoRequest, SendsRequest, TickRequest, Ticks
  <1>9. CASE Spun
    <2>1. CASE GoalAccepted
      <3>1. /\ leaf'.state = "GOAL_EXECUTING" /\ leaf'.sent = NoGoal /\ leaf'.handle = leaf.sent
            /\ leaf'.since = leaf.since /\ at.step = "answer" /\ at'.step = "returned"
        BY <1>0, <2>1 DEF GoalAccepted, At, Returned, Goes, LeafType
      <3>2. leaf.sent # NoGoal
        BY <1>0, <3>1 DEF LeafFits
      <3> QED BY <1>1, <3>1, <3>2 DEF LeafFits
    <2>2. CASE GoalRejected
      <3>1. /\ leaf'.state = leaf.state /\ leaf'.since = leaf.since /\ at.step = "answer"
            /\ at'.step = "catch"
        BY <1>0, <2>2 DEF GoalRejected, Throws, At, Goes, LeafType
      <3> QED BY <1>0, <1>1, <3>1 DEF LeafFits
    <2>3. CASE GivesUp
      <3>1. /\ leaf'.state = "GOAL_FAILURE" /\ leaf'.status = "FAILURE" /\ at'.step = "returned"
            /\ leaf'.since = leaf.since
        BY <1>0, <2>3 DEF GivesUp, GoalIsGivenUp, Returned, Goes, LeafType
      <3> QED BY <1>1, <3>1 DEF LeafFits
    <2>4. CASE EndOfSpin
      <3>1. /\ leaf'.state \in {leaf.state, "GOAL_FINISHING"} /\ at'.step = "returned"
            /\ leaf'.sent = leaf.sent /\ leaf'.handle = leaf.handle /\ at.step = "some"
            /\ leaf'.since = leaf.since
        BY <1>0, <2>4 DEF EndOfSpin, Returned, Goes, LeafType, At
      <3> QED BY <1>0, <1>1, <3>1 DEF LeafFits
    <2>5. CASE HaltAndCancel
      <3>1. SameLeaf /\ leaf.handle # NoGoal /\ at'.step = "cancel"
        BY <2>5 DEF HaltAndCancel, ShouldCancelGoal, Goes, SameLeaf
      <3> QED BY <1>0, <1>1, <3>1 DEF LeafFits, SameLeaf
    <2>6. CASE WaitForResult
      <3>1. SameLeaf /\ at.step = "cancel" /\ at'.step = "result"
        BY <2>6 DEF WaitForResult, At, Goes, SameLeaf, leafVars
      <3> QED BY <1>0, <1>1, <3>1 DEF LeafFits, SameLeaf
    <2>7. CASE AsksForForgottenGoal \/ CatchesException \/ TreeRuns \/ TreeEnds
              \/ UninitializedResult
      <3>1. SameLeaf /\ at'.step \in {"catch", "idle", "halt", "uninitialized"}
        BY <2>7 DEF AsksForForgottenGoal, CatchesException, TreeRuns, TreeEnds,
                    UninitializedResult, Throws, Goes, Idle, SameLeaf, leafVars
      <3> QED BY <1>2, <3>1
    <2>8. CASE EndOfCancel \/ HaltDone
      <3>1. Continue
        BY <2>8 DEF EndOfCancel, HaltDone
      <3>2. CASE at.next = "stop"
        <4>1. PICK status \in {"SUCCESS", "FAILURE"} :
                  leaf' = [leaf EXCEPT !.state = "GOAL_CANCELLING", !.status = status]
          BY <3>1, <3>2 DEF Continue
        <4>2. at'.step = "returned"
          BY <3>1, <3>2 DEF Continue, Returned, Goes
        <4>3. /\ leaf'.state = "GOAL_CANCELLING" /\ leaf'.status # "RUNNING"
              /\ leaf'.since = leaf.since
          BY <1>0, <4>1 DEF LeafType
        <4> QED BY <1>1, <4>2, <4>3 DEF LeafFits
      <3>3. CASE at.next # "stop"
        <4>1. leaf' = Halted /\ at'.step \in {"idle", "uninitialized"}
          BY <3>1, <3>3 DEF Continue, Idle, Goes
        <4>2. /\ leaf'.status = "IDLE" /\ leaf'.state = leaf.state /\ leaf'.sent = leaf.sent
              /\ leaf'.handle = leaf.handle /\ leaf'.since = leaf.since
          BY <1>0, <4>1 DEF Halted, LeafType
        <4> QED BY <1>0, <1>1, <4>1, <4>2 DEF LeafFits
      <3> QED BY <3>2, <3>3
    <2>9. CASE TreeRetries
      <3>1. /\ at'.step = "idle" /\ leaf'.status = "IDLE" /\ leaf'.since = leaf.since
            /\ leaf'.state = leaf.state /\ leaf'.sent = leaf.sent /\ leaf'.handle = leaf.handle
        BY <1>0, <2>9 DEF TreeRetries, Idle, LeafType
      <3> QED BY <1>0, <1>1, <3>1 DEF LeafFits
    <2>10. CASE Completed \/ NoReply
      BY <1>0, <2>10 DEF Completed, NoReply, At, KnownOfReply
    <2> QED BY <1>9, <2>1, <2>2, <2>3, <2>4, <2>5, <2>6, <2>7, <2>8, <2>9, <2>10 DEF Spun
  <1> QED BY <1>4, <1>5, <1>6, <1>7, <1>8, <1>9 DEF Next

\* A goal of an action server that may be executed, and that nobody has lost.
Live(g) == goals[g] \in {"sent", "executing"} /\ g \notin unattended
InHand(g) ==
    /\ leaf.since <= g
    /\ \/ /\ at.step \notin {"cancel", "result", "catch", "uninitialized"} /\ ~finished
          /\ leaf.status = "RUNNING" /\ leaf.state # "GOAL_FINISHING"
          /\ g = leaf.sent \/ g = leaf.handle
       \/ at.step \in {"cancel", "result"} /\ g = leaf.handle

\* A goal is lost for good.
LEMMA LostStays ==
    ASSUME [Next]_vars
    PROVE  unattended \subseteq unattended'
  <1> USE DEF leafVars, Lose
  <1>1. CASE Hub \/ Author \/ Interrupts
    BY <1>1
    DEF Hub, ReceiveRequest, ReceiveReject, ActivationFails, Activate, ReceiveCancel,
        PyReceiveRequest, PyReceiveReject, PyReceiveConfirm, PyReceiveCancel, PyStep,
        Author, PySendFeedback, PyFinish, Interrupts, TreeHaltsLeaf, TreeFails
  <1>2. CASE Server \/ Receives \/ UNCHANGED vars
    BY <1>2 DEF Server, Answers, Settles, Becomes, AnswersCancel, Receives, ReceiveAnswer,
                ReceiveResult, ReceiveReply, vars
  <1>3. CASE DoWork
    BY <1>3
    DEF DoWork, NoServer, StopsAtOnce, TickSent, TickRejected, StopsForgottenGoal, KeepsGoal,
        TickFinishing, TickCancelling, TickFinished, TickFailure, TickAgain, SendsNoRequest,
        TickRequest, StopsGoal, SendGoal, ReplacesGoal, SendsRequest, GoalIsGivenUp, Throws
  <1>4. CASE GoalAccepted \/ GoalRejected \/ GivesUp \/ EndOfSpin \/ HaltAndCancel
             \/ EndOfCancel \/ HaltDone
    BY <1>4 DEF GoalAccepted, GoalRejected, GivesUp, EndOfSpin, HaltAndCancel, EndOfCancel,
                HaltDone, GoalIsGivenUp, Throws
  <1>5. CASE \/ Completed \/ NoReply \/ WaitForResult \/ AsksForForgottenGoal \/ CatchesException
             \/ TreeRuns \/ TreeRetries \/ TreeEnds \/ UninitializedResult
    BY <1>5 DEF Completed, NoReply, WaitForResult, AsksForForgottenGoal, CatchesException,
                TreeRuns, TreeRetries, TreeEnds, UninitializedResult, Throws
  <1> QED BY <1>1, <1>2, <1>3, <1>4, <1>5 DEF Next, Spun

\* A goal that is live after a step has just been sent, or was live before it.
LEMMA LiveStep ==
    ASSUME TypeOK, Unsent, [Next]_vars, NEW g \in Goals, Live(g)'
    PROVE  \/ Live(g)
           \/ g = sentGoals' /\ sentGoals' = sentGoals + 1 /\ goals[g] # goals'[g]
  <1>1. g \notin unattended /\ goals'[g] \in {"sent", "executing"}
    BY LostStays DEF Live
  <1> QED BY <1>1, GoalStep DEF Live, Settled

\* No goal is forgotten: what is live is in hand.
LEMMA AttendedNext ==
    ASSUME TypeOK, KnownIsTrue, Where, StatusFits, LeafFits, Attended, [Next]_vars
    PROVE  Attended'
  <1> SUFFICES ASSUME setup'.leaf = "action", NEW g \in Goals, Live(g)' PROVE InHand(g)'
    BY DEF Attended, Live, InHand
  <1>0. /\ leaf \in LeafType /\ NoGoal \notin Goals /\ setup.leaf = "action" /\ ~IsPython
        /\ lifecycle \in {"INACTIVE", "ACTIVE", "FINALIZED"} /\ sentGoals \in Nat /\ g \in Nat
        /\ leaf.sent \in Goals \cup {NoGoal} /\ leaf.handle \in Goals \cup {NoGoal}
        /\ leaf.since \in Nat
    BY KnownTyped, LeafFields, PerformerAssumption DEF TypeOK, Goals, IsPython, LeafType
  <1>1. Live(g) => InHand(g)
    BY <1>0 DEF Attended, Live, InHand
  <1>2. goals'[g] \in {"sent", "executing"} /\ g \notin unattended'
    BY DEF Live
  <1>3. ASSUME UNCHANGED sentGoals PROVE InHand(g)
    <2>1. sentGoals' # sentGoals + 1
      BY <1>0, <1>3
    <2> QED BY <1>1, <2>1, LiveStep DEF KnownIsTrue, Unsent
  \* a step that leaves the leaf, and the thread on the same side of a cancellation
  <1>4. ASSUME SameLeaf, UNCHANGED <<sentGoals, finished>>,
               \/ at'.step \in {"cancel", "result"} /\ at.step \in {"cancel", "result"}
               \/ /\ at'.step \notin {"cancel", "result", "catch", "uninitialized"}
                  /\ at.step \notin {"cancel", "result"}
        PROVE  InHand(g)'
    BY <1>3, <1>4 DEF SameLeaf, InHand
  <1>5. CASE Hub
    <2>1. CASE Activate
      <3>1. UNCHANGED sentGoals /\ at.step = "idle" /\ lifecycle = "INACTIVE"
        BY <1>0, <2>1 DEF Activate, At, Where
      <3> QED BY <1>0, <1>3, <3>1 DEF InHand, StatusFits
    <2>2. CASE ReceiveCancel
      <3>1. UNCHANGED <<leaf, sentGoals, finished>> /\ at.step = "idle" /\ at'.step = "halt"
        BY <2>2 DEF ReceiveCancel, At, Goes, leafVars
      <3> QED BY <1>4, <3>1 DEF SameLeaf
    <2>3. CASE Hub /\ ~Activate /\ ~ReceiveCancel
      <3>1. UNCHANGED <<leaf, sentGoals, at, finished>> /\ at.step = "idle"
        BY <1>5, <2>3
        DEF Hub, ReceiveRequest, ReceiveReject, ActivationFails, leafVars, At,
            PyReceiveRequest, PyReceiveReject, PyReceiveConfirm, PyReceiveCancel, PyStep
      <3> QED BY <1>4, <3>1 DEF SameLeaf
    <2> QED BY <1>5, <2>1, <2>2, <2>3
  <1>6. CASE Interrupts
    <2>1. UNCHANGED <<leaf, sentGoals, finished>> /\ at.step = "idle" /\ at'.step = "halt"
      BY <1>6 DEF Interrupts, TreeHaltsLeaf, TreeFails, Works, At, Goes, leafVars, hubVars
    <2> QED BY <1>4, <2>1 DEF SameLeaf
  <1>7. CASE Author \/ Server \/ UNCHANGED vars
    <2>1. UNCHANGED <<leaf, sentGoals, at, finished>>
      BY <1>7 DEF Author, PySendFeedback, PyFinish, PyStep, Server, Answers, Settles,
                  Becomes, AnswersCancel, leafVars, hubVars, vars
    <2> QED BY <1>3, <2>1 DEF InHand
  <1>8. CASE Receives
    <2>1. SameLeaf
      BY <1>0, <1>8 DEF Receives, ReceiveAnswer, ReceiveResult, ReceiveReply, SameLeaf, leafVars,
                        LeafType
    <2>2. UNCHANGED <<sentGoals, at, finished>>
      BY <1>8 DEF Receives, ReceiveAnswer, ReceiveResult, ReceiveReply, leafVars, hubVars
    <2> QED BY <1>3, <2>1, <2>2 DEF InHand, SameLeaf
  <1>9. CASE DoWork
    <2>0. at.step = "idle" /\ ~finished /\ UNCHANGED finished
      BY <1>9
      DEF DoWork, Ticks, Works, At, NoServer, StopsAtOnce, TickSent, TickRejected,
          StopsForgottenGoal, KeepsGoal, TickFinishing, TickCancelling, TickFinished, TickFailure,
          TickAgain, SendsNoRequest, TickRequest, SendGoal, ReplacesGoal, SendsRequest, StopsGoal
    <2>1. CASE NoServer \/ StopsAtOnce \/ TickFinishing \/ TickCancelling \/ TickFinished
               \/ TickFailure
      <3>1. UNCHANGED sentGoals
        BY <2>1 DEF NoServer, StopsAtOnce, TickFinishing, TickCancelling, TickFinished,
                    TickFailure, TickAgain
      <3>2. leaf.state \in {"IDLE", "GOAL_FINISHING", "GOAL_CANCELLING", "GOAL_FINISHED",
                            "GOAL_FAILURE"}
        BY <2>1 DEF NoServer, StopsAtOnce, TickFinishing, TickCancelling, TickFinished,
                    TickFailure, TickAgain, Ticks
      <3> QED BY <1>0, <1>3, <2>0, <3>1, <3>2 DEF InHand, LeafFits
    <2>2. CASE SendGoal \/ ReplacesGoal
      <3>1. /\ leaf'.state = "GOAL_SENT" /\ leaf'.sent = sentGoals + 1
            /\ leaf'.status = "RUNNING" /\ leaf'.handle = leaf.handle
            /\ sentGoals' = sentGoals + 1
            /\ \/ leaf.state = "IDLE" /\ leaf'.since = sentGoals + 1
               \/ leaf.state = "GOAL_EXECUTING" /\ leaf'.since = leaf.since
        BY <1>0, <2>2 DEF SendGoal, ReplacesGoal, OnNewGoalReceived, LeafType, Ticks
      <3>2. at'.step \in {"returned", "some"}
        <4>1. Returned \/ Goes("some", "nothing")
          BY <2>2 DEF SendGoal, ReplacesGoal
        <4> QED BY <4>1 DEF Returned, Goes
      <3>3. CASE Live(g)
        <4>1. leaf.state = "GOAL_EXECUTING" /\ leaf.sent = NoGoal
          BY <1>0, <1>1, <2>0, <3>1, <3>3 DEF InHand, LeafFits
        <4>2. leaf'.since <= g /\ g = leaf'.handle
          BY <1>0, <1>1, <2>0, <3>1, <3>3, <4>1 DEF InHand
        <4> QED BY <2>0, <3>1, <3>2, <4>2 DEF InHand
      <3>4. CASE ~Live(g)
        <4>1. g = leaf'.sent
          BY <3>1, <3>4, LiveStep DEF KnownIsTrue, Unsent
        <4>2. leaf.since <= sentGoals + 1
          BY <1>0 DEF LeafFits
        <4>3. leaf'.since <= g
          BY <3>1, <4>1, <4>2, <1>0
        <4> QED BY <2>0, <3>1, <3>2, <4>1, <4>3 DEF InHand
      <3> QED BY <3>3, <3>4
    <2>3. CASE StopsGoal
      <3>1. /\ leaf' = leaf /\ leaf.state = "GOAL_EXECUTING"
            /\ UNCHANGED sentGoals /\ at'.step = "cancel"
        BY <2>3 DEF StopsGoal, Goes, Ticks, leafVars
      <3> QED BY <1>0, <1>3, <2>0, <3>1 DEF InHand, LeafFits
    <2>4. CASE StopsForgottenGoal
      <3>1. /\ known[leaf.handle] = "done" /\ leaf.state = "GOAL_EXECUTING"
            /\ UNCHANGED <<sentGoals, goals, unattended>>
        BY <2>4 DEF StopsForgottenGoal, Ticks, leafVars, serverVars
      <3>2. g = leaf.handle /\ goals[g] \in {"sent", "executing"}
        BY <1>0, <1>2, <1>3, <2>0, <3>1 DEF InHand, LeafFits
      <3> QED BY <3>1, <3>2 DEF KnownIsTrue, Settled
    <2>5. ASSUME GoalIsGivenUp, UNCHANGED sentGoals PROVE FALSE
      <3>1. unattended' = unattended \cup ({leaf.sent, leaf.handle} \ {NoGoal})
        BY <2>5 DEF GoalIsGivenUp, Lose
      <3> QED BY <1>0, <1>2, <1>3, <2>0, <2>5, <3>1 DEF InHand
    <2>6. CASE (TickSent \/ KeepsGoal) /\ ~GoalIsGivenUp
      <3>1. UNCHANGED <<leaf, sentGoals>> /\ at'.step \in {"answer", "some"}
        BY <2>6 DEF TickSent, KeepsGoal, Goes, leafVars
      <3> QED BY <1>4, <2>0, <3>1 DEF SameLeaf
    <2>7. CASE TickRejected /\ ~GoalIsGivenUp
      <3>1. /\ leaf'.status = "RUNNING" /\ leaf'.state = leaf.state /\ leaf'.sent = leaf.sent
            /\ leaf'.handle = leaf.handle /\ leaf'.since = leaf.since
            /\ UNCHANGED sentGoals /\ at'.step = "returned"
        BY <1>0, <2>7 DEF TickRejected, Returned, Goes, LeafType
      <3> QED BY <1>3, <2>0, <3>1 DEF InHand
    <2>8. TickSent \/ TickRejected \/ KeepsGoal => UNCHANGED sentGoals
      BY DEF TickSent, TickRejected, KeepsGoal, leafVars
    <2> QED BY <1>0, <1>9, <2>1, <2>2, <2>3, <2>4, <2>5, <2>6, <2>7, <2>8
            DEF DoWork, SendsNoRequest, SendsRequest, TickRequest, Ticks
  <1>10. CASE Spun
    <2>0. UNCHANGED sentGoals /\ UNCHANGED goals
      BY <1>10
      DEF Spun, GoalAccepted, GoalRejected, GivesUp, EndOfSpin, Completed, NoReply, HaltAndCancel,
          WaitForResult, AsksForForgottenGoal, CatchesException, EndOfCancel, HaltDone, TreeRuns,
          TreeRetries, TreeEnds, UninitializedResult, leafVars, serverVars
    <2>1. InHand(g) /\ goals[g] \in {"sent", "executing"} /\ known[g] # "done"
      BY <1>2, <1>3, <2>0 DEF KnownIsTrue, Settled
    <2>2. CASE GoalAccepted
      <3>1. /\ leaf'.state = "GOAL_EXECUTING" /\ leaf'.status = "RUNNING"
            /\ leaf'.handle = leaf.sent /\ leaf'.since = leaf.since
            /\ at.step = "answer" /\ at'.step = "returned" /\ UNCHANGED finished
            /\ unattended' = unattended \cup ({leaf.handle} \ {NoGoal})
        BY <1>0, <2>2 DEF GoalAccepted, At, Returned, Goes, LeafType, Lose, hubVars
      <3> QED BY <1>0, <1>2, <2>1, <3>1 DEF InHand
    <2>3. CASE GoalRejected
      <3>1. /\ known[leaf.sent] = "rejected" /\ at.step = "answer"
            /\ unattended' = unattended \cup ({leaf.handle} \ {NoGoal})
        BY <2>3 DEF GoalRejected, At, Lose
      <3>2. g # leaf.sent
        BY <2>1, <3>1 DEF KnownIsTrue
      <3> QED BY <1>0, <1>2, <2>1, <3>1, <3>2 DEF InHand
    <2>4. CASE GivesUp
      <3>1. /\ at.step = "answer"
            /\ unattended' = unattended \cup ({leaf.sent, leaf.handle} \ {NoGoal})
        BY <2>4 DEF GivesUp, GoalIsGivenUp, At, Lose
      <3> QED BY <1>0, <1>2, <2>1, <3>1 DEF InHand
    <2>5. CASE EndOfSpin
      <3>1. at.step = "some" /\ at'.step = "returned" /\ UNCHANGED finished
        BY <2>5 DEF EndOfSpin, At, Returned, Goes, hubVars
      <3>2. CASE leaf.available
        <4>1. unattended' = unattended \cup (({leaf.sent, leaf.handle} \ {leaf.result}) \ {NoGoal})
          BY <2>5, <3>2 DEF EndOfSpin, Lose
        <4>2. g # leaf.result
          BY <1>0, <2>1, <3>2 DEF KnownIsTrue, Settled
        <4> QED BY <1>0, <1>2, <2>1, <3>1, <4>1, <4>2 DEF InHand
      <3>3. CASE ~leaf.available
        <4>1. leaf'.status = "RUNNING" /\ leaf'.state = leaf.state /\ leaf'.sent = leaf.sent
              /\ leaf'.handle = leaf.handle /\ leaf'.since = leaf.since
          BY <1>0, <2>5, <3>3 DEF EndOfSpin, LeafType
        <4> QED BY <2>1, <3>1, <4>1 DEF InHand
      <3> QED BY <3>2, <3>3
    <2>6. CASE HaltAndCancel
      <3>1. /\ leaf' = leaf /\ at.step = "halt" /\ at'.step = "cancel"
            /\ unattended' = unattended \cup ({leaf.sent} \ {NoGoal})
        BY <2>6 DEF HaltAndCancel, At, Goes, Lose
      <3> QED BY <1>0, <1>2, <2>1, <3>1 DEF InHand
    <2>7. CASE WaitForResult
      <3>1. leaf' = leaf /\ at.step = "cancel" /\ at'.step = "result" /\ UNCHANGED finished
        BY <2>7 DEF WaitForResult, At, Goes, leafVars, hubVars
      <3> QED BY <1>4, <2>0, <3>1 DEF SameLeaf
    <2>8. CASE AsksForForgottenGoal
      <3>1. at.step = "cancel" /\ known[leaf.handle] = "done"
        BY <2>8 DEF AsksForForgottenGoal, At
      <3> QED BY <2>1, <3>1 DEF InHand
    <2>9. CASE CatchesException \/ UninitializedResult
      BY <2>1, <2>9 DEF CatchesException, UninitializedResult, At, InHand
    <2>10. CASE EndOfCancel
      <3>1. /\ at.step = "result"
            /\ unattended' = unattended \cup
                   ((IF known[leaf.handle] = "done" THEN {} ELSE {leaf.handle}) \ {NoGoal})
        BY <2>10 DEF EndOfCancel, At, Lose
      <3>2. g = leaf.handle
        BY <2>1, <3>1 DEF InHand
      <3> QED BY <1>0, <1>2, <2>1, <3>1, <3>2
    <2>11. CASE HaltDone
      <3>1. /\ at.step = "halt"
            /\ leaf.status = "RUNNING" => unattended' = unattended \cup ({leaf.sent} \ {NoGoal})
        BY <1>0, <2>11 DEF HaltDone, At, Lose
      <3>2. leaf.status = "RUNNING" /\ g \in {leaf.sent, leaf.handle} /\ leaf.since <= g
        BY <2>1, <3>1 DEF InHand
      <3>3. g # leaf.handle
        BY <1>0, <2>1, <2>11, <3>2 DEF HaltDone, ShouldCancelGoal
      <3> QED BY <1>0, <1>2, <3>1, <3>2, <3>3
    <2>12. CASE TreeRuns \/ TreeEnds
      <3>1. /\ leaf' = leaf /\ at.step = "returned" /\ at'.step \in {"idle", "halt"}
            /\ UNCHANGED finished
        BY <2>12 DEF TreeRuns, TreeEnds, At, Goes, Idle, leafVars, hubVars
      <3> QED BY <1>4, <2>0, <3>1 DEF SameLeaf
    <2>13. CASE TreeRetries
      BY <2>1, <2>13 DEF TreeRetries, At, InHand
    <2>14. CASE Completed \/ NoReply
      BY <1>0, <2>14 DEF Completed, NoReply, At, KnownIsTrue
    <2> QED BY <1>10, <2>2, <2>3, <2>4, <2>5, <2>6, <2>7, <2>8, <2>9, <2>10, <2>11, <2>12, <2>13,
               <2>14
            DEF Spun
  <1> QED BY <1>5, <1>6, <1>7, <1>8, <1>9, <1>10 DEF Next

-----------------------------------------------------------------------------
(* The theorems                                                            *)

\* A performer that was not asked has sent no goal and published nothing.
LEMMA PerformerInvInit == Init => PerformerInv
  <1> SUFFICES ASSUME Init PROVE PerformerInv
    OBVIOUS
  <1>1. TypeOK
    BY TypeInit
  <1>2. told = <<>> /\ at.step = "idle" /\ at.next = "nothing"
    BY DEF Init, Idle
  <1>3. ThreadIsActive /\ EndIsToldOnce /\ SuccessIsEarned
    BY <1>2 DEF Init, ThreadIsActive, EndIsToldOnce, SuccessIsEarned
  <1>4. StatusFits /\ StatusIsEarned /\ LeafFits
    BY <1>2 DEF Init, FreshLeaf, StatusFits, StatusIsEarned, LeafFits
  <1>5. KnownIsTrue /\ Attended
    BY <1>2 DEF Init, FreshLeaf, KnownIsTrue, Attended
  <1> QED BY <1>1, <1>3, <1>4, <1>5 DEF PerformerInv

\* Every step of performer, leaf, client library and server keeps the invariant.
LEMMA PerformerInvNext == PerformerInv /\ [Next]_vars => PerformerInv'
  <1> SUFFICES ASSUME PerformerInv, [Next]_vars PROVE PerformerInv'
    OBVIOUS
  <1>1. /\ TypeOK /\ Where /\ Ends /\ StatusFits /\ StatusIsEarned /\ KnownIsTrue /\ LeafFits
        /\ Attended /\ SuccessIsEarned /\ Unsent /\ KnownOfGoals /\ KnownOfResult /\ KnownOfReply
    BY ThreadMeans, KnownParts DEF PerformerInv
  <1>2. TypeOK'
    BY <1>1, TypeNext
  <1>3. ThreadIsActive' /\ EndIsToldOnce'
    BY <1>1, WhereNext, EndsNext, ThreadMeans
  <1>4. StatusFits' /\ StatusIsEarned' /\ SuccessIsEarned'
    BY <1>1, FitsNext, EarnedNext, SuccessNext
  <1>5. KnownIsTrue'
    BY <1>1, KnownOfGoalsNext, KnownOfResultNext, KnownOfReplyNext, KnownParts
  <1>6. LeafFits' /\ Attended'
    BY <1>1, LeafFitsNext, AttendedNext
  <1> QED BY <1>2, <1>3, <1>4, <1>5, <1>6 DEF PerformerInv

\* The inductive invariant, which joins what the leaf, its client and the thread
\* know, holds of every performer.
THEOREM PerformerInvCorrect == Spec => []PerformerInv
  BY PerformerInvInit, PerformerInvNext, PTL DEF Spec

\* Every variable has its type.
THEOREM TypeCorrect == Spec => []TypeOK
  <1>1. PerformerInv => TypeOK
    BY DEF PerformerInv
  <1> QED BY <1>1, PerformerInvCorrect, PTL

\* The executor is told one end of an action, and nothing after it, unless the
\* tree threw; a performer ends without an end only when it was cancelled or
\* could not be activated (finish, do_work, action_hub_callback).
THEOREM OneEnd == Spec => []EndIsToldOnce
  <1>1. PerformerInv => EndIsToldOnce
    BY DEF PerformerInv
  <1> QED BY <1>1, PerformerInvCorrect, PTL

\* A SUCCESS that the executor is told was earned (tick, check_future, do_work).
THEOREM SuccessHasReason == Spec => []SuccessIsEarned
  <1>1. PerformerInv => SuccessIsEarned
    BY DEF PerformerInv
  <1> QED BY <1>1, PerformerInvCorrect, PTL

\* What a performer that is no longer active, or has ended after it failed to stop,
\* leaves executing on a server it has lost before (halt, cancel_goal, tick).
THEOREM OnlyLostAreLeft == Spec => []NothingLeftBehind
  <1>1. PerformerInv => NothingLeftBehind
    <2> SUFFICES ASSUME PerformerInv, At("idle"), lifecycle = "INACTIVE" \/ finished,
                        NEW g \in Goals, setup.leaf = "action", goals[g] \in {"sent", "executing"}
                 PROVE  g \in unattended
      BY DEF NothingLeftBehind
    <2>1. at.step = "idle" /\ (leaf.status = "IDLE" \/ finished)
      BY DEF At, PerformerInv, StatusFits
    <2> QED BY <2>1 DEF PerformerInv, Attended
  <1> QED BY <1>1, PerformerInvCorrect, PTL

=============================================================================
