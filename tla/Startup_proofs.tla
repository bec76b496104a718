--------------------------- MODULE Startup_proofs ---------------------------
(***************************************************************************)
(* However often nodes die, are changed by others, answer late or not at   *)
(* all: the manager never runs ahead of a node, and a start that returned  *)
(* true has activated every node that was left alone.                      *)
(***************************************************************************)
EXTENDS Startup, TLAPS

-----------------------------------------------------------------------------
(* The script                                                              *)

\* Seventeen steps, each about one of the four nodes: they are configured in turn,
\* then activated in turn, and in the end looked at.
LEMMA ScriptLength == Len(Script) = 17
  BY DEF Script

\* Whom each step of startup_function concerns.
LEMMA ScriptNodes ==
    /\ Script[1].node = "planner"
    /\ Script[2].node = "planner"
    /\ Script[3].node = "domain_expert"
    /\ Script[4].node = "domain_expert"
    /\ Script[5].node = "problem_expert"
    /\ Script[6].node = "problem_expert"
    /\ Script[7].node = "executor"
    /\ Script[8].node = "executor"
    /\ Script[9].node = "planner"
    /\ Script[10].node = "domain_expert"
    /\ Script[11].node = "problem_expert"
    /\ Script[12].node = "planner"
    /\ Script[13].node = "executor"
    /\ Script[14].node = "domain_expert"
    /\ Script[15].node = "problem_expert"
    /\ Script[16].node = "planner"
    /\ Script[17].node = "executor"
  BY DEF Script, Step

\* What each step of startup_function does.
LEMMA ScriptDoes ==
    /\ Script[1].do = "CONFIGURE"
    /\ Script[2].do = "until inactive"
    /\ Script[3].do = "CONFIGURE"
    /\ Script[4].do = "until inactive"
    /\ Script[5].do = "CONFIGURE"
    /\ Script[6].do = "until inactive"
    /\ Script[7].do = "CONFIGURE"
    /\ Script[8].do = "until inactive"
    /\ Script[9].do = "ok"
    /\ Script[10].do = "ACTIVATE"
    /\ Script[11].do = "ACTIVATE"
    /\ Script[12].do = "ACTIVATE"
    /\ Script[13].do = "ACTIVATE"
    /\ Script[14].do = "look"
    /\ Script[15].do = "look"
    /\ Script[16].do = "look"
    /\ Script[17].do = "look"
  BY DEF Script, Step

\* The places of the script by what is done there.
LEMMA ScriptIndex ==
    ASSUME NEW i \in 1 .. Len(Script)
    PROVE  \/ i = 1 \/ i = 3 \/ i = 5 \/ i = 7
           \/ i = 2 \/ i = 4 \/ i = 6 \/ i = 8 \/ i = 9
           \/ i = 10 \/ i = 11 \/ i = 12 \/ i = 13
           \/ i = 14 \/ i = 15 \/ i = 16 \/ i = 17
  <1>1. i \in 1 .. 17
    BY ScriptLength
  <1> QED BY <1>1

\* Every step concerns one of the managed nodes.
LEMMA ScriptTyped ==
    ASSUME NEW i \in 1 .. Len(Script)
    PROVE  Script[i].node \in Nodes
  BY ScriptIndex, ScriptNodes DEF Nodes

\* The only transitions of one node are to be configured and then to be activated.
LEMMA ScriptOrder ==
    ASSUME NEW i \in 1 .. Len(Script), NEW j \in 1 .. Len(Script), i < j,
           Script[i].do \in Transitions, Script[j].do \in Transitions,
           Script[i].node = Script[j].node
    PROVE  Script[i].do = "CONFIGURE" /\ Script[j].do = "ACTIVATE"
  <1>1. /\ i = 1 \/ i = 3 \/ i = 5 \/ i = 7 \/ i = 10 \/ i = 11 \/ i = 12 \/ i = 13
        /\ j = 1 \/ j = 3 \/ j = 5 \/ j = 7 \/ j = 10 \/ j = 11 \/ j = 12 \/ j = 13
    BY ScriptIndex, ScriptDoes DEF Transitions
  <1>2. CASE (i = 1 \/ i = 3 \/ i = 5 \/ i = 7) /\ (j = 10 \/ j = 11 \/ j = 12 \/ j = 13)
    BY <1>2, ScriptDoes
  <1>3. CASE j = 1 \/ j = 3 \/ j = 5 \/ j = 7
    <2>1. i = 1 \/ i = 3 \/ i = 5
      BY <1>1, <1>3
    <2>2. CASE i = 1
      BY <1>3, <2>2, ScriptNodes
    <2>3. CASE i = 3
      BY <1>3, <2>3, ScriptNodes
    <2>4. CASE i = 5
      BY <1>3, <2>4, ScriptNodes
    <2> QED BY <2>1, <2>2, <2>3, <2>4
  <1>4. CASE i = 10 \/ i = 11 \/ i = 12 \/ i = 13
    <2>1. j = 11 \/ j = 12 \/ j = 13
      BY <1>1, <1>4
    <2>2. CASE j = 11
      BY <1>4, <2>2, ScriptNodes
    <2>3. CASE j = 12
      BY <1>4, <2>3, ScriptNodes
    <2>4. CASE j = 13
      BY <1>4, <2>4, ScriptNodes
    <2> QED BY <2>1, <2>2, <2>3, <2>4
  <1> QED BY <1>1, <1>2, <1>3, <1>4

-----------------------------------------------------------------------------
(* Types                                                                   *)

\* Init: every variable starts in its type.
LEMMA TypeInit == Init => TypeOK
  <1> SUFFICES ASSUME Init PROVE TypeOK
    OBVIOUS
  <1>1. lifecycle \in [Nodes -> States]
    BY DEF Init, States
  <1>2. pc \in 1 .. Len(Script)
    BY ScriptLength DEF Init
  <1> QED BY <1>1, <1>2, StartupAssumption DEF Init, TypeOK

\* Every step keeps the types.
LEMMA TypeNext ==
    ASSUME TypeOK, [Next]_vars
    PROVE  TypeOK'
  <1> USE DEF TypeOK, managerVars, nodeVars
  <1>1. ASSUME Proceeds \/ Fails \/ Unknown
        PROVE  /\ pc' \in 1 .. Len(Script) /\ at' \in {"ready", "waiting", "blocked"}
               /\ result' \in {"running", "true", "false"}
    BY <1>1, ScriptLength DEF Proceeds, Fails, Unknown
  <1>2. CASE Sends
    <2>1. request' \in Requests
      BY <1>2, ScriptTyped DEF Sends, Requests, Changes, Looks, Does, Node
    <2> QED BY <1>2, <2>1 DEF Sends
  <1>3. CASE NoService \/ CheckOk \/ ChangeAnswered \/ ChangeTimesOut \/ StateAnswered \/ LateState
    BY <1>1, <1>3
    DEF NoService, CheckOk, ChangeAnswered, ChangeTimesOut, StateAnswered, LateState
  <1>4. CASE StateTimesOut \/ Shutdown
    BY <1>4 DEF StateTimesOut, Shutdown
  <1>5. ASSUME NEW n \in Nodes, Serves(n)
        PROVE  TypeOK'
    <2>1. request \in Requests
      BY <1>5 DEF Serves, Succeeds, Refuses, TellsState, Pending
    <2>2. request' \in Requests
      BY <1>5, <2>1 DEF Serves, Succeeds, Refuses, TellsState, Requests
    <2>3. lifecycle' \in [Nodes -> States]
      BY <1>5 DEF Serves, Succeeds, Refuses, TellsState, Transitions, To, States
    <2> QED BY <1>5, <2>2, <2>3 DEF Serves, Succeeds, Refuses, TellsState
  <1>6. ASSUME NEW n \in Nodes, Disturbs(n)
        PROVE  faults' \in 0 .. MaxFaults /\ disturbed' \subseteq Nodes
    BY <1>6, StartupAssumption DEF Disturbs
  <1>7. ASSUME NEW n \in Nodes, Appears(n)
        PROVE  TypeOK'
    BY <1>7 DEF Appears, States
  <1>8. ASSUME NEW n \in Nodes, Dies(n)
        PROVE  TypeOK'
    <2>1. lifecycle' \in [Nodes -> States]
      BY <1>8 DEF Dies, States
    <2>2. request' \in Requests \cup {NoRequest}
      BY <1>8 DEF Dies, Pending, Requests
    <2> QED BY <1>6, <1>8, <2>1, <2>2 DEF Dies, Disturbs
  <1>9. ASSUME NEW n \in Nodes, NEW t \in Transitions, Operate(n, t)
        PROVE  TypeOK'
    <2>1. lifecycle' \in [Nodes -> States]
      BY <1>9 DEF Operate, Transitions, To, States
    <2> QED BY <1>6, <1>9, <2>1 DEF Operate, Disturbs
  <1>10. CASE UNCHANGED vars
    BY <1>10 DEF vars
  <1> QED BY <1>2, <1>3, <1>4, <1>5, <1>7, <1>8, <1>9, <1>10 DEF Next, Manager

\* Every variable stays within its type: in particular the script never runs out.
THEOREM TypeCorrect == Spec => []TypeOK
  <1> QED BY TypeInit, TypeNext, PTL DEF Spec

-----------------------------------------------------------------------------
(* The manager and the nodes                                               *)

\* What AsFarAsScript says of one step.
Finished(do) == IF do = "CONFIGURE" THEN {"INACTIVE", "ACTIVE"} ELSE {"ACTIVE"}

\* When the manager goes on to the next step, the one it leaves has been done.
LEMMA ProceedsInOrder ==
    ASSUME StartInv, TypeOK', Proceeds, Runs, UNCHANGED nodeVars,
           Changes /\ Node \notin disturbed => lifecycle[Node] = To[Does]
    PROVE  AsFarAsScript'
  <1> SUFFICES ASSUME NEW i \in 1 .. Len(Script),
                      Script[i].do \in Transitions, Script[i].node \notin disturbed
               PROVE  /\ i < pc' => lifecycle[Script[i].node] \in Finished(Script[i].do)
                      /\ i > pc' => lifecycle[Script[i].node] \notin Finished(Script[i].do)
    BY DEF AsFarAsScript, Finished, nodeVars
  <1>1. i # pc => /\ i < pc => lifecycle[Script[i].node] \in Finished(Script[i].do)
                  /\ i > pc => lifecycle[Script[i].node] \notin Finished(Script[i].do)
    BY DEF StartInv, AsFarAsScript, Finished
  <1>2. i = pc => lifecycle[Script[i].node] \in Finished(Script[i].do)
    <2>1. Script[i].do \in {"CONFIGURE", "ACTIVATE"}
      BY ScriptIndex, ScriptDoes DEF Transitions
    <2> QED BY <2>1 DEF Changes, Does, Node, To, Finished
  <1>3. pc \in 1 .. Len(Script) /\ pc' \in {pc, pc + 1} /\ (pc' = pc => pc = Len(Script))
    BY ScriptLength DEF Proceeds, StartInv, TypeOK
  <1> QED BY <1>1, <1>2, <1>3, ScriptLength

\* Going on to the next step of the script keeps the invariant, if the step is done.
LEMMA ProceedsKeeps ==
    ASSUME StartInv, TypeOK', Runs, Proceeds, UNCHANGED <<validates, ok, request, nodeVars>>,
           Changes => /\ request # NoRequest => request.answer # "none"
                      /\ Node \notin disturbed => lifecycle[Node] = To[Does]
    PROVE  StartInv'
  <1> USE DEF StartInv, nodeVars
  <1>1. AsFarAsScript'
    BY ProceedsInOrder
  <1>2. PendingIsOfStep'
    BY DEF PendingIsOfStep, Proceeds, Changes, Does, Node
  <1>3. AnswerIsOfStep' /\ TrueAtTheEnd'
    BY DEF AnswerIsOfStep, TrueAtTheEnd, Proceeds, Runs
  <1> QED BY <1>1, <1>2, <1>3

\* A step that fails, or that is tried again, keeps the invariant.
LEMMA StaysKeeps ==
    ASSUME StartInv, TypeOK', Fails \/ Unknown, UNCHANGED <<validates, ok, request, nodeVars>>
    PROVE  StartInv'
  <1>1. pc' = pc /\ (result' = "false" \/ (at' = "ready" /\ result' = result))
    BY DEF Fails, Unknown
  <1> QED BY <1>1 DEF StartInv, nodeVars, PendingIsOfStep, AnswerIsOfStep, TrueAtTheEnd,
                      AsFarAsScript, Runs, Does, Node

\* What a node does, once it is known which steps keep their place in the script.
LEMMA NodeKeeps ==
    ASSUME StartInv, TypeOK', UNCHANGED managerVars, disturbed \subseteq disturbed',
           NEW n \in Nodes,
           \A m \in Nodes \ {n} : lifecycle'[m] = lifecycle[m],
           \/ n \in disturbed' \/ lifecycle'[n] = lifecycle[n]
           \/ lifecycle[n] = "ABSENT" /\ lifecycle'[n] = "UNCONFIGURED"
    PROVE  AsFarAsScript'
  <1> SUFFICES ASSUME NEW i \in 1 .. Len(Script),
                      Script[i].do \in Transitions, Script[i].node \notin disturbed'
               PROVE  /\ i < pc => lifecycle'[Script[i].node] \in Finished(Script[i].do)
                      /\ i > pc => lifecycle'[Script[i].node] \notin Finished(Script[i].do)
    BY DEF AsFarAsScript, Finished, managerVars
  <1>1. /\ i < pc => lifecycle[Script[i].node] \in Finished(Script[i].do)
        /\ i > pc => lifecycle[Script[i].node] \notin Finished(Script[i].do)
    BY DEF StartInv, AsFarAsScript, Finished
  <1>2. Script[i].node \in Nodes
    BY ScriptTyped
  <1> QED BY <1>1, <1>2 DEF Finished

\* A transition is made only by the node that the step under way is about.
LEMMA SucceedsInOrder ==
    ASSUME StartInv, TypeOK', NEW n \in Nodes, Succeeds(n)
    PROVE  StartInv'
  <1>1. /\ request \in Requests /\ request.do = Does /\ request.node = n /\ Node = n
        /\ Does \in Transitions
    BY DEF StartInv, TypeOK, PendingIsOfStep, Succeeds, Pending
  <1>2. Does \in {"CONFIGURE", "ACTIVATE"}
    BY <1>1, ScriptIndex, ScriptDoes DEF StartInv, TypeOK, Does, Transitions
  <1>3. /\ lifecycle \in [Nodes -> States] /\ lifecycle'[n] = To[Does]
        /\ \A m \in Nodes \ {n} : lifecycle'[m] = lifecycle[m]
        /\ request'.answer = "success" /\ request'.do = request.do
        /\ request'.node = request.node
    BY <1>1 DEF StartInv, TypeOK, Succeeds, Requests
  <1>4. PendingIsOfStep' /\ AnswerIsOfStep' /\ TrueAtTheEnd'
    <2>1. request' # NoRequest
      BY <1>1, StartupAssumption DEF Succeeds, Requests
    <2> QED BY <1>1, <1>3, <2>1 DEF StartInv, PendingIsOfStep, AnswerIsOfStep, TrueAtTheEnd,
               Succeeds, managerVars, Does, Node, Runs, Changes
  <1>5. AsFarAsScript'
    <2> SUFFICES ASSUME NEW i \in 1 .. Len(Script),
                        Script[i].do \in Transitions, Script[i].node \notin disturbed
                 PROVE  /\ i < pc => lifecycle'[Script[i].node] \in Finished(Script[i].do)
                        /\ i > pc => lifecycle'[Script[i].node] \notin Finished(Script[i].do)
      BY DEF AsFarAsScript, Finished, Succeeds, managerVars
    <2>1. /\ i < pc => lifecycle[Script[i].node] \in Finished(Script[i].do)
          /\ i > pc => lifecycle[Script[i].node] \notin Finished(Script[i].do)
      BY DEF StartInv, AsFarAsScript, Finished
    <2>2. CASE Script[i].node # n
      BY <1>3, <2>1, <2>2, ScriptTyped
    <2>3. CASE Script[i].node = n
      <3>1. pc \in 1 .. Len(Script)
        BY DEF StartInv, TypeOK
      <3>2. i < pc => Does = "ACTIVATE"
        BY <1>1, <2>3, <3>1, ScriptOrder DEF Does, Node
      <3>3. i > pc => Does = "CONFIGURE" /\ Script[i].do = "ACTIVATE"
        BY <1>1, <2>3, <3>1, ScriptOrder DEF Does, Node
      <3> QED BY <1>3, <2>3, <3>2, <3>3 DEF To, Finished
    <2> QED BY <2>2, <2>3
  <1> QED BY <1>4, <1>5 DEF StartInv

\* Every step of the manager and of the nodes keeps the invariant.
LEMMA StartInvNext ==
    ASSUME StartInv, [Next]_vars
    PROVE  StartInv'
  <1>0. TypeOK /\ TypeOK'
    BY TypeNext DEF StartInv
  <1>1. CASE Sends
    <2>1. request' \in Requests
      BY <1>0, <1>1, ScriptTyped DEF Sends, TypeOK, Requests, Changes, Looks, Does, Node
    <2>2. request' # NoRequest
      BY <2>1, StartupAssumption
    <2> QED BY <1>0, <1>1, <2>2 DEF StartInv, Sends, PendingIsOfStep, AnswerIsOfStep, TrueAtTheEnd,
               AsFarAsScript, nodeVars, Does, Node, Runs
  <1>2. CASE NoService \/ ChangeTimesOut \/ LateState
    BY <1>0, <1>2, StaysKeeps DEF NoService, ChangeTimesOut, LateState
  <1>3. CASE CheckOk
    <2>1. ~Changes
      BY <1>3 DEF CheckOk, Changes, Transitions
    <2> QED BY <1>0, <1>3, <2>1, ProceedsKeeps, StaysKeeps DEF CheckOk
  <1>4. CASE ChangeAnswered
    <2>1. CASE request.answer = "success"
      <3>1. Node \notin disturbed => lifecycle[Node] = To[Does]
        BY <1>4, <2>1 DEF StartInv, AnswerIsOfStep, ChangeAnswered, Answered
      <3> QED BY <1>0, <1>4, <2>1, <3>1, ProceedsKeeps DEF ChangeAnswered, Answered
    <2>2. CASE request.answer # "success"
      BY <1>0, <1>4, <2>2, StaysKeeps DEF ChangeAnswered
    <2> QED BY <2>1, <2>2
  <1>5. CASE StateAnswered
    <2>1. ~Changes
      BY <1>5 DEF StateAnswered, Looks, Changes, Transitions
    <2> QED BY <1>0, <1>5, <2>1, ProceedsKeeps, StaysKeeps DEF StateAnswered, Answered
  <1>6. CASE StateTimesOut \/ Shutdown
    BY <1>0, <1>6
    DEF StartInv, StateTimesOut, Shutdown, PendingIsOfStep, AnswerIsOfStep, TrueAtTheEnd,
        AsFarAsScript, nodeVars, managerVars, Does, Node, Runs, Changes
  <1>7. ASSUME NEW n \in Nodes, Refuses(n) \/ TellsState(n)
        PROVE  StartInv'
    <2>1. /\ request \in Requests /\ request.answer = "none"
          /\ request' = [request EXCEPT !.answer = request'.answer]
          /\ request'.answer \in States \cup {"failure"}
          /\ UNCHANGED <<nodeVars, managerVars>>
      BY <1>0, <1>7 DEF Refuses, TellsState, Pending, TypeOK, Requests
    <2>2. /\ request' # NoRequest /\ request'.do = request.do /\ request'.node = request.node
          /\ request'.answer \notin {"none", "success"}
      BY <2>1, StartupAssumption DEF Requests, States
    <2> QED BY <1>0, <2>1, <2>2 DEF StartInv, PendingIsOfStep, AnswerIsOfStep, TrueAtTheEnd,
               AsFarAsScript, nodeVars, managerVars, Does, Node, Runs, Changes
  <1>8. ASSUME NEW n \in Nodes, Appears(n)
        PROVE  StartInv'
    <2>1. AsFarAsScript'
      BY <1>0, <1>8, NodeKeeps DEF Appears, TypeOK
    <2>2. AnswerIsOfStep'
      <3>1. Changes => Does \in {"CONFIGURE", "ACTIVATE"} /\ Node \in Nodes
        BY <1>0, ScriptTyped, ScriptIndex, ScriptDoes
        DEF TypeOK, Changes, Does, Node, Transitions
      <3>2. \A m \in Nodes : lifecycle[m] # "ABSENT" => lifecycle'[m] = lifecycle[m]
        BY <1>0, <1>8 DEF Appears, TypeOK
      <3> QED BY <1>8, <3>1, <3>2
          DEF StartInv, AnswerIsOfStep, Appears, managerVars, Changes, Does, Node, Runs, To
    <2> QED BY <1>0, <1>8, <2>1, <2>2
        DEF StartInv, Appears, PendingIsOfStep, TrueAtTheEnd, managerVars, Does, Node
  <1>9. ASSUME NEW n \in Nodes, Disturbs(n),
               \A m \in Nodes \ {n} : lifecycle'[m] = lifecycle[m],
               \/ request' = request
               \/ Pending(n) /\ request' = [request EXCEPT !.answer = "lost"]
        PROVE  StartInv'
    <2>1. AsFarAsScript'
      BY <1>0, <1>9, NodeKeeps DEF Disturbs
    <2>2. request' # request => /\ request \in Requests /\ request' \in Requests
                                /\ request' # NoRequest
                                /\ request'.do = request.do /\ request'.node = request.node
                                /\ request'.answer = "lost"
      BY <1>0, <1>9, StartupAssumption DEF Pending, TypeOK, Requests
    <2>3. AnswerIsOfStep'
      <3>1. Node \in Nodes
        BY <1>0, ScriptTyped DEF TypeOK, Node
      <3> QED BY <1>9, <2>2, <3>1
          DEF StartInv, AnswerIsOfStep, Disturbs, Pending, managerVars, Changes, Does, Node, Runs
    <2> QED BY <1>0, <1>9, <2>1, <2>2, <2>3
        DEF StartInv, Disturbs, PendingIsOfStep, TrueAtTheEnd, managerVars, Does, Node
  <1>10. ASSUME NEW n \in Nodes, Dies(n)
         PROVE  StartInv'
    BY <1>0, <1>9, <1>10 DEF Dies, TypeOK
  <1>11. ASSUME NEW n \in Nodes, NEW t \in Transitions, Operate(n, t)
         PROVE  StartInv'
    BY <1>0, <1>9, <1>11 DEF Operate, TypeOK
  <1>12. CASE UNCHANGED vars
    BY <1>0, <1>12
    DEF vars, StartInv, PendingIsOfStep, AnswerIsOfStep, TrueAtTheEnd, AsFarAsScript, nodeVars,
        managerVars, Does, Node, Runs, Changes
  <1> QED BY <1>0, <1>1, <1>2, <1>3, <1>4, <1>5, <1>6, <1>7, <1>8, <1>10, <1>11, <1>12,
             SucceedsInOrder DEF Next, Manager, Serves

\* Init: no node exists and nothing was asked of any.
LEMMA StartInvInit == Init => StartInv
  <1> SUFFICES ASSUME Init PROVE StartInv
    OBVIOUS
  <1>1. AsFarAsScript
    <2>1. \A n \in Nodes : lifecycle[n] = "ABSENT"
      BY DEF Init
    <2> QED BY <2>1, ScriptTyped, ScriptLength DEF Init, AsFarAsScript
  <1> QED BY <1>1, TypeInit
      DEF Init, StartInv, PendingIsOfStep, AnswerIsOfStep, TrueAtTheEnd, Runs

\* StartInv is an invariant.
THEOREM StartInvCorrect == Spec => []StartInv
  <1> QED BY StartInvInit, StartInvNext, PTL DEF Spec

\* The manager never runs ahead of a node that was left alone, nor a node ahead of it.
THEOREM StaysWithScript == Spec => []AsFarAsScript
  <1>1. StartInv => AsFarAsScript
    BY DEF StartInv
  <1> QED BY <1>1, StartInvCorrect, PTL

\* A start that returned true has activated every node that was left alone.
THEOREM TrueMeansActive ==
    Spec => [](result = "true" => \A n \in Nodes \ disturbed : lifecycle[n] = "ACTIVE")
  <1>1. StartInv => (result = "true" => \A n \in Nodes \ disturbed : lifecycle[n] = "ACTIVE")
    <2> SUFFICES ASSUME StartInv, result = "true", NEW n \in Nodes \ disturbed
                 PROVE  lifecycle[n] = "ACTIVE"
      OBVIOUS
    <2>1. pc = 17
      BY ScriptLength DEF StartInv, TrueAtTheEnd
    <2>2. \A i \in {10, 11, 12, 13} :
              /\ Script[i].do = "ACTIVATE"
              /\ Script[i].node \notin disturbed => lifecycle[Script[i].node] = "ACTIVE"
      <3> SUFFICES ASSUME NEW i \in {10, 11, 12, 13}
                   PROVE  /\ Script[i].do = "ACTIVATE"
                          /\ Script[i].node \notin disturbed =>
                                 lifecycle[Script[i].node] = "ACTIVE"
        OBVIOUS
      <3>1. Script[i].do = "ACTIVATE"
        BY ScriptDoes
      <3>2. i \in 1 .. Len(Script) /\ i < pc
        BY <2>1, ScriptLength
      <3> QED BY <3>1, <3>2 DEF StartInv, AsFarAsScript, Transitions
    <2> QED BY <2>2, ScriptNodes DEF Nodes
  <1> QED BY <1>1, StartInvCorrect, PTL

=============================================================================
