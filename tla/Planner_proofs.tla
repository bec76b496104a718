--------------------------- MODULE Planner_proofs ---------------------------
(***************************************************************************)
(* For any solvers, directories they may share, and requests: the plans of *)
(* an answer are for the problem of its request, no planner is left over   *)
(* when the node rests, and no result that counts is that of a solver that *)
(* was cancelled.                                                          *)
(***************************************************************************)
EXTENDS Planner, TLAPS

-----------------------------------------------------------------------------
(* Values                                                                  *)

\* What a solver may return or leave in a file is of the declared types.
LEMMA ValuesAre ==
    /\ NotFound \in Values
    /\ \A r \in Requests : Found(r) \in Values
    /\ \A kind \in Raised : Exception(kind) \in Values
    /\ Blank \in Contents
  BY DEF NotFound, Found, Exception, Values, Raised, Blank, Contents, Outputs

\* A value tells its kind and its problem.
LEMMA ValuesDiffer ==
    /\ NotFound.kind \notin Raised /\ NotFound.for = None
    /\ \A r : Found(r).kind \notin Raised /\ Found(r).for = r
    /\ \A kind : Exception(kind).kind = kind
  BY DEF NotFound, Found, Exception, Raised

-----------------------------------------------------------------------------
(* Types                                                                   *)

\* Init: every variable starts in its type.
LEMMA TypeInit == Init => TypeOK
  <1> SUFFICES ASSUME Init PROVE TypeOK
    OBVIOUS
  <1>1. node \in [phase : {"idle", "waiting", "collecting", "ending", "validating", "ended"},
                  request : Requests \cup {None},
                  service : {"get_plan", "get_plan_array", "validate_domain", None}]
    BY DEF Init, Idle
  <1>2. DOMAIN results = {}
    BY DEF Init
  <1>3. /\ request \in [Requests -> {"waiting", "served", "answered"}]
        /\ answer \in [Requests -> SUBSET (Requests \cup {None})]
    BY DEF Init
  <1>4. /\ value \in [Solvers -> Values]
        /\ output \in [Solvers -> Contents] /\ file \in [Directories -> Contents]
    BY ValuesAre DEF Init
  <1> QED BY <1>1, <1>2, <1>3, <1>4 DEF Init, TypeOK

NodeType ==
    [phase : {"idle", "waiting", "collecting", "ending", "validating", "ended"},
     request : Requests \cup {None},
     service : {"get_plan", "get_plan_array", "validate_domain", None}]

\* The files of a solver have their types.
LEMMA DirectoryTyped ==
    ASSUME TypeOK, NEW s \in Solvers
    PROVE  directory[s] \in Directories
  BY PlannerAssumption DEF TypeOK

\* The thread of a solver and the process it started keep the types.
LEMMA SolverTypes ==
    ASSUME TypeOK, NEW s \in Solvers,
           SolverNext(s) \/ Monitor(s) \/ PlannerEnds(s)
    PROVE  TypeOK'
  <1> USE DEF TypeOK, SolverAside, requestVars
  <1>1. directory[s] \in Directories
    BY DirectoryTyped
  <1>2. ASSUME NEW v \in Values, Done(s, v)
        PROVE  /\ value' \in [Solvers -> Values]
               /\ thread' \in [Solvers -> {"none", "writing", "starting", "opening", "reading",
                                           "parsing", "done"}]
    BY <1>2 DEF Done
  <1>3. CASE Prepare(s)
    <2>1. node.request \in Requests \cup {None}
      OBVIOUS
    <2> QED BY <1>1, <1>2, <1>3, <2>1, ValuesAre DEF Prepare
  <1>4. ASSUME Forked(s)
        PROVE  /\ running' \in [Solvers -> BOOLEAN]
               /\ fate' \in [Solvers -> {"none", "alive", "exited", "failed", "cancelled", "late",
                                         "zombie"}]
               /\ output' \in [Solvers -> Contents]
    <2>1. [for |-> problem[directory[s]], holds |-> "nothing"] \in Contents
      BY <1>1 DEF Contents, Outputs
    <2> QED BY <1>4, <2>1 DEF Forked
  <1>5. CASE Fork(s)
    BY <1>4, <1>5 DEF Fork
  <1>6. CASE OpenPlan(s)
    BY <1>1, <1>6, ValuesAre DEF OpenPlan
  <1>7. CASE OpenFails(s)
    BY <1>2, <1>7, ValuesAre DEF OpenFails
  <1>8. CASE PyStart(s)
    BY <1>1, <1>2, <1>4, <1>8, ValuesAre DEF PyStart
  <1>9. CASE Monitor(s)
    BY <1>9 DEF Monitor, MonitorCancels, MonitorTimesOut, Kill
  <1>10. CASE PlannerEnds(s)
    <2>1. output' \in [Solvers -> Contents]
      BY <1>10 DEF PlannerEnds, Contents
    <2> QED BY <1>10, <2>1 DEF PlannerEnds
  <1>11. CASE Wait(s)
    <2>1. \A o \in Printed(s) : [output[s] EXCEPT !.holds = o] \in Contents
      BY DEF Printed, Contents, Outputs
    <2>2. file' = file \/ \E c \in Contents : file' = [file EXCEPT ![directory[s]] = c]
      BY <1>11, <2>1 DEF Wait, Finish
    <2>3. file' \in [Directories -> Contents]
      BY <2>2
    <2> QED BY <1>2, <1>11, <2>3, ValuesAre DEF Wait, Finish
  <1>12. CASE Parse(s)
    <2>1. \E v \in Values : Done(s, v)
      <3>1. file[directory[s]].for \in Requests \cup {None}
        BY <1>1 DEF Contents
      <3>2. Found(file[directory[s]].for) \in Values
        BY <3>1 DEF Found, Values
      <3> QED BY <1>12, <3>2, ValuesAre DEF Parse, Raised
    <2> QED BY <1>2, <1>12, <2>1 DEF Parse
  <1> QED BY <1>3, <1>5, <1>6, <1>7, <1>8, <1>9, <1>10, <1>11, <1>12 DEF SolverNext

\* The planner node keeps the types.
LEMMA NodeTypes ==
    ASSUME TypeOK,
           \/ Lifecycle \/ Waiting \/ Ending
           \/ \E r \in Requests : Launch(r) \/ Validate(r)
    PROVE  TypeOK'
  <1> USE DEF TypeOK, NodeAside, requestVars, solverVars
  <1>1. CASE Lifecycle
    <2>1. node' \in {node, [Idle EXCEPT !.phase = "ended"]}
      BY <1>1 DEF Lifecycle, OnConfigure, ConfigureFails, PyOnCleanup
    <2>2. node' \in NodeType
      BY <2>1 DEF Idle, NodeType
    <2>3. UNCHANGED <<language, directory, requestVars, results, solverVars>> /\ served' \in BOOLEAN
      BY <1>1 DEF Lifecycle, OnConfigure, ConfigureFails, PyOnCleanup, Quiet
    <2> QED BY <2>2, <2>3 DEF NodeType
  <1>2. ASSUME NEW s \in Solvers, Fetch(s) \/ PyFetch(s)
        PROVE  TypeOK'
    <2>1. ASSUME NEW v \in Values, TakeResult(s, v)
          PROVE  DOMAIN results' \subseteq Solvers /\ \A t \in DOMAIN results' : results'[t] \in Values
      BY <2>1 DEF TakeResult
    <2>2. ASSUME Fail(s)
          PROVE  node' \in NodeType /\ UNCHANGED results
      BY <2>2 DEF Fail, NodeType
    <2>3. /\ UNCHANGED <<language, directory, served, requestVars, solverVars>>
          /\ \/ Fail(s)
             \/ UNCHANGED node /\ \E v \in Values : TakeResult(s, v)
      BY <1>2, ValuesAre DEF Fetch, PyFetch, TakeResult
    <2> QED BY <2>1, <2>2, <2>3 DEF NodeType
  <1>3. ASSUME Release
        PROVE  /\ DOMAIN results' = {} /\ thread' \in [Solvers -> {"none"}]
               /\ value' \in [Solvers -> Values] /\ output' \in [Solvers -> Contents]
               /\ fate' \in [Solvers -> {"none", "zombie"}]
    BY <1>3, ValuesAre DEF Release
  <1>4. ASSUME NEW plans \in SUBSET (Requests \cup {None}), Respond(plans)
        PROVE  /\ node' \in NodeType
               /\ request' \in [Requests -> {"waiting", "served", "answered"}]
               /\ answer' \in [Requests -> SUBSET (Requests \cup {None})]
    BY <1>4 DEF Respond, NodeType, Idle
  <1>5. CASE Collect \/ PyCollect
    <2>1. Plans \in SUBSET (Requests \cup {None})
      BY DEF Plans, Values
    <2>2. ASSUME Deliver
          PROVE  \E plans \in SUBSET (Requests \cup {None}) : Respond(plans)
      BY <2>1, <2>2 DEF Deliver
    <2>3. CASE Deliver /\ Release
      BY <1>3, <1>4, <1>5, <2>2, <2>3 DEF Collect, PyCollect, Release, NodeType
    <2>4. CASE ~(Deliver /\ Release)
      <3>1. /\ node' = [node EXCEPT !.phase = "ending"]
            /\ UNCHANGED <<language, directory, served, requestVars, results, solverVars>>
        BY <1>5, <2>4 DEF Collect, PyCollect
      <3> QED BY <3>1
    <2> QED BY <2>3, <2>4
  <1>6. CASE Cancel \/ End
    <2>1. node' \in NodeType
      BY <1>6 DEF Cancel, End, NodeType, Idle
    <2> QED BY <1>6, <2>1 DEF Cancel, End, NodeType
  <1>7. CASE Validated
    BY <1>4, <1>7 DEF Validated, NodeType
  <1>8. ASSUME NEW r \in Requests, Launch(r) \/ Validate(r)
        PROVE  TypeOK'
    <2>1. node' \in NodeType /\ request' \in [Requests -> {"waiting", "served", "answered"}]
      BY <1>8 DEF Launch, Validate, NodeType
    <2> QED BY <1>8, <2>1 DEF Launch, Validate, NodeType
  <1> QED BY <1>1, <1>2, <1>5, <1>6, <1>7, <1>8 DEF Waiting, Ending

\* Every step keeps the types.
LEMMA TypeNext ==
    ASSUME TypeOK, [Next]_vars
    PROVE  TypeOK'
  <1>1. CASE UNCHANGED vars
    BY <1>1 DEF vars, requestVars, solverVars, TypeOK
  <1> QED BY <1>1, NodeTypes, SolverTypes DEF Next

\* Every variable stays within its type.
THEOREM TypeCorrect == Spec => []TypeOK
  <1> QED BY TypeInit, TypeNext, PTL DEF Spec

-----------------------------------------------------------------------------
(* The threads of a request                                                *)

\* Every step keeps the solver threads within the request they were launched for.
LEMMA ThreadsNext ==
    ASSUME TypeOK, ThreadsAreOfRequest, [Next]_vars
    PROVE  ThreadsAreOfRequest'
  <1> USE DEF ThreadsAreOfRequest, requestVars, solverVars
  <1>1. CASE Lifecycle
    BY <1>1 DEF Lifecycle, OnConfigure, ConfigureFails, PyOnCleanup, Quiet, Idle
  <1>2. ASSUME NEW r \in Requests, Launch(r)
        PROVE  ThreadsAreOfRequest'
    BY <1>2 DEF Launch
  <1>3. ASSUME NEW r \in Requests, Validate(r)
        PROVE  ThreadsAreOfRequest'
    BY <1>3 DEF Validate
  <1>4. ASSUME NEW s \in Solvers, Fetch(s) \/ PyFetch(s)
        PROVE  ThreadsAreOfRequest'
    <2>1. ASSUME NEW v, TakeResult(s, v)
          PROVE  \A t \in DOMAIN results' : t \in DOMAIN results \/ t = s
      BY <2>1 DEF TakeResult
    <2> QED BY <1>4, <2>1 DEF TypeOK, Fetch, PyFetch, TakeResult, Fail
  <1>5. ASSUME Release
        PROVE  DOMAIN results' = {} /\ \A s \in Solvers : thread'[s] = "none"
    BY <1>5 DEF Release
  <1>6. CASE Collect \/ PyCollect
    <2>1. CASE Deliver /\ Release
      BY <1>5, <2>1 DEF Deliver, Respond, Idle
    <2>2. CASE ~(Deliver /\ Release)
      BY <1>6, <2>2 DEF Collect, PyCollect, TypeOK
    <2> QED BY <2>1, <2>2
  <1>7. CASE Cancel \/ End
    BY <1>7 DEF Cancel, End, Idle, TypeOK
  <1>8. CASE Validated
    BY <1>8 DEF Validated, Respond, Idle
  <1>9. ASSUME NEW s \in Solvers, SolverNext(s)
        PROVE  ThreadsAreOfRequest'
    <2>1. /\ thread[s] \notin {"none", "done"}
          /\ \A t \in Solvers \ {s} : thread'[t] = thread[t]
          /\ UNCHANGED <<node, results>>
      BY <1>9 DEF TypeOK, SolverNext, Prepare, Fork, OpenPlan, OpenFails, PyStart, Wait, Finish,
                  Parse, Done, SolverAside
    <2> QED BY <2>1 DEF TypeOK
  <1>10. ASSUME NEW s \in Solvers, Monitor(s) \/ PlannerEnds(s)
         PROVE  ThreadsAreOfRequest'
    BY <1>10 DEF Monitor, MonitorCancels, MonitorTimesOut, Kill, PlannerEnds, SolverAside
  <1>11. CASE UNCHANGED vars
    BY <1>11 DEF vars
  <1> QED BY <1>1, <1>2, <1>3, <1>4, <1>6, <1>7, <1>8, <1>9, <1>10, <1>11 DEF Next, Waiting, Ending

-----------------------------------------------------------------------------
(* Planners that are left over                                             *)

\* Only a planner whose plan file could not be opened is left without a reader.
LEMMA UnreadNext ==
    ASSUME TypeOK, ThreadsAreOfRequest, UnreadIsZombie, [Next]_vars
    PROVE  UnreadIsZombie'
  <1> USE DEF UnreadIsZombie, requestVars, solverVars
  <1>1. CASE Lifecycle \/ Waiting \/ Cancel \/ End \/ Validated
    BY <1>1 DEF Lifecycle, OnConfigure, ConfigureFails, PyOnCleanup, Quiet, Waiting, Fetch,
                PyFetch, Cancel, End, Validated
  <1>2. ASSUME NEW r \in Requests, Launch(r)
        PROVE  UnreadIsZombie'
    BY <1>2 DEF Launch, ThreadsAreOfRequest
  <1>3. ASSUME NEW r \in Requests, Validate(r)
        PROVE  UnreadIsZombie'
    BY <1>3 DEF Validate
  <1>4. CASE Collect \/ PyCollect
    <2>1. \/ Release /\ \A s \in Pending : thread[s] = "done"
          \/ UNCHANGED solverVars
      BY <1>4 DEF Collect, PyCollect
    <2>2. CASE Release /\ \A s \in Pending : thread[s] = "done"
      <3>1. \A s \in Solvers : thread[s] = "done"
        BY <2>2 DEF Pending, ThreadsAreOfRequest
      <3> QED BY <2>2, <3>1 DEF Release
    <2> QED BY <2>1, <2>2
  <1>5. ASSUME NEW s \in Solvers, SolverNext(s)
        PROVE  UnreadIsZombie'
    BY <1>5 DEF TypeOK, SolverNext, Prepare, Fork, Forked, OpenPlan, OpenFails, PyStart, Wait,
                Finish, Parse, Done
  <1>6. ASSUME NEW s \in Solvers, Monitor(s) \/ PlannerEnds(s)
        PROVE  UnreadIsZombie'
    BY <1>6 DEF TypeOK, Monitor, MonitorCancels, MonitorTimesOut, Kill, PlannerEnds
  <1>7. CASE UNCHANGED vars
    BY <1>7 DEF vars
  <1> QED BY <1>1, <1>2, <1>3, <1>4, <1>5, <1>6, <1>7 DEF Next, Ending

-----------------------------------------------------------------------------
(* Cancels                                                                 *)

\* Every step leaves the solvers whose results count uncancelled.
LEMMA CancelNext ==
    ASSUME TypeOK, ThreadsAreOfRequest, CancelComesLast, StoppedForCause, [Next]_vars
    PROVE  CancelComesLast' /\ StoppedForCause'
  <1> USE DEF CancelComesLast, StoppedForCause, requestVars, solverVars
  <1>1. CASE Lifecycle
    BY <1>1 DEF Lifecycle, OnConfigure, ConfigureFails, PyOnCleanup, Quiet, Idle
  <1>2. ASSUME NEW r \in Requests, Launch(r) \/ Validate(r)
        PROVE  CancelComesLast' /\ StoppedForCause'
    BY <1>2 DEF Launch, Validate
  <1>3. ASSUME NEW s \in Solvers, Fetch(s) \/ PyFetch(s)
        PROVE  CancelComesLast' /\ StoppedForCause'
    <2>1. ASSUME NEW v, TakeResult(s, v)
          PROVE  \A t \in DOMAIN results' : t \in DOMAIN results \/ t = s
      BY <2>1 DEF TakeResult
    <2> QED BY <1>3, <2>1 DEF TypeOK, Fetch, PyFetch, TakeResult, Fail
  <1>4. CASE Collect \/ PyCollect
    <2>1. CASE Deliver /\ Release
      <3>1. DOMAIN results' = {} /\ \A s \in Solvers : fate'[s] # "cancelled"
        BY <2>1 DEF Release
      <3> QED BY <2>1, <3>1 DEF Deliver, Respond, Idle
    <2>2. CASE ~(Deliver /\ Release)
      BY <1>4, <2>2 DEF Collect, PyCollect, TypeOK
    <2> QED BY <2>1, <2>2
  <1>5. CASE Cancel \/ End
    BY <1>5 DEF Cancel, End, Idle, TypeOK
  <1>6. CASE Validated
    BY <1>6 DEF Validated, Respond, Idle
  <1>7. ASSUME NEW s \in Solvers, SolverNext(s)
        PROVE  CancelComesLast' /\ StoppedForCause'
    <2>1. s \notin DOMAIN results
      BY <1>7 DEF ThreadsAreOfRequest, SolverNext, Prepare, Fork, OpenPlan, OpenFails, PyStart,
                  Wait, Parse
    <2> QED BY <1>7, <2>1 DEF TypeOK, SolverNext, Prepare, Fork, Forked, OpenPlan, OpenFails,
               PyStart, Wait, Finish, Parse, Done, SolverAside
  <1>8. ASSUME NEW s \in Solvers, Monitor(s)
        PROVE  CancelComesLast' /\ StoppedForCause'
    BY <1>8 DEF TypeOK, ThreadsAreOfRequest, Monitor, MonitorCancels, MonitorTimesOut, Kill,
                SolverAside
  <1>9. ASSUME NEW s \in Solvers, PlannerEnds(s)
        PROVE  CancelComesLast' /\ StoppedForCause'
    BY <1>9 DEF TypeOK, PlannerEnds, SolverAside
  <1>10. CASE UNCHANGED vars
    BY <1>10 DEF vars
  <1> QED BY <1>1, <1>2, <1>3, <1>4, <1>5, <1>6, <1>7, <1>8, <1>9, <1>10 DEF Next, Waiting, Ending

-----------------------------------------------------------------------------
(* What solvers read is about the request                                  *)

\* The part of FilesAreOfRequest that is about one solver, and about the request r.
FilesAreFor(s, r) ==
    /\ thread[s] = "starting" => problem[directory[s]] = r
    /\ thread[s] \in {"opening", "reading"} => output[s].for = r
    /\ thread[s] \in {"reading", "parsing"} /\ file[directory[s]].holds = "plan" =>
           file[directory[s]].for = r

ValueIsFor(v, r) == v \in {NotFound, Found(r)} \/ \E kind \in Raised : v = Exception(kind)

\* FilesAreOfRequest, as what holds of each solver.
LEMMA FilesAreParts ==
    FilesAreOfRequest <=>
        \A s \in Solvers :
            /\ FilesAreFor(s, node.request)
            /\ thread[s] = "done" /\ node.phase # "ended" => ValueIsFor(value[s], node.request)
            /\ s \in DOMAIN results /\ node.phase # "ended" =>
                   results[s] \in {NotFound, Found(node.request)}
  BY DEF FilesAreOfRequest, FilesAreFor, ValueIsFor

\* A step of a solver leaves the files for the request as they are or puts in what is
\* about the request, and that is what it returns.
LEMMA SolverFiles ==
    ASSUME TypeOK, ThreadsAreOfRequest, FilesAreOfRequest, NEW s \in Solvers,
           SolverNext(s) \/ Monitor(s) \/ PlannerEnds(s)
    PROVE  FilesAreOfRequest'
  <1> DEFINE r == node.request
  <1>1. UNCHANGED <<node, directory, results>>
    BY DEF SolverNext, Prepare, Fork, OpenPlan, OpenFails, PyStart, Wait, Finish, Parse, Monitor,
           MonitorCancels, MonitorTimesOut, Kill, PlannerEnds, SolverAside
  <1>2. \A t \in Solvers : directory[t] \in Directories
    BY DirectoryTyped
  <1>3. ASSUME \A t \in Solvers : FilesAreFor(t, r)',
               thread'[s] = "done" /\ thread[s] # "done" => ValueIsFor(value'[s], r),
               thread[s] = "done" => UNCHANGED <<thread, value>>,
               \A t \in Solvers \ {s} : thread'[t] = thread[t] /\ value'[t] = value[t]
        PROVE  FilesAreOfRequest'
    <2>1. \A t \in Solvers :
              /\ thread'[t] = "done" /\ node.phase # "ended" => ValueIsFor(value'[t], r)
              /\ t \in DOMAIN results /\ node.phase # "ended" =>
                     results[t] \in {NotFound, Found(r)}
      BY <1>3, FilesAreParts
    <2> QED BY <1>1, <1>3, <2>1 DEF FilesAreOfRequest, FilesAreFor, ValueIsFor
  <1> USE DEF TypeOK, FilesAreFor, Done
  <1>4. ASSUME NEW v
        PROVE  Done(s, v) /\ thread[s] # "done" =>
                  /\ thread'[s] = "done" /\ value'[s] = v
                  /\ \A t \in Solvers \ {s} : thread'[t] = thread[t] /\ value'[t] = value[t]
    OBVIOUS
  <1>5. ValueIsFor(NotFound, r)
    BY DEF ValueIsFor
  <1>6. \A t \in Solvers : FilesAreFor(t, r)
    BY FilesAreParts
  <1>7. CASE Prepare(s)
    BY <1>1, <1>2, <1>3, <1>4, <1>5, <1>6, <1>7 DEF Prepare
  <1>8. CASE Fork(s)
    BY <1>1, <1>2, <1>3, <1>6, <1>8 DEF Fork, Forked
  <1>9. CASE OpenPlan(s)
    BY <1>1, <1>2, <1>3, <1>6, <1>9 DEF OpenPlan, Blank
  <1>10. CASE OpenFails(s)
    BY <1>1, <1>2, <1>3, <1>4, <1>5, <1>6, <1>10 DEF OpenFails
  <1>11. CASE PyStart(s)
    BY <1>1, <1>2, <1>3, <1>4, <1>5, <1>6, <1>11 DEF PyStart, Forked, Blank
  <1>12. CASE Monitor(s)
    BY <1>1, <1>3, <1>6, <1>12 DEF Monitor, MonitorCancels, MonitorTimesOut, Kill
  <1>13. CASE PlannerEnds(s)
    <2>1. \A t \in Solvers : output'[t].for = output[t].for
      BY <1>13 DEF PlannerEnds, Contents
    <2> QED BY <1>1, <1>3, <1>6, <1>13, <2>1 DEF PlannerEnds
  <1>14. CASE Wait(s)
    <2>1. output[s].for = r
      BY <1>6, <1>14 DEF Wait
    <2>2. \/ file' = file
          \/ \E c \in Contents : c.for = r /\ file' = [file EXCEPT ![directory[s]] = c]
      <3>1. \A o \in Printed(s) : /\ [output[s] EXCEPT !.holds = o] \in Contents
                                  /\ [output[s] EXCEPT !.holds = o].for = r
        BY <2>1 DEF Printed, Contents, Outputs
      <3> QED BY <1>14, <3>1 DEF Wait, Finish
    <2>3. \A t \in Solvers :
              thread[t] \in {"reading", "parsing"} /\ file'[directory[t]].holds = "plan" =>
                  file'[directory[t]].for = r
      BY <1>2, <1>6, <2>2
    <2> QED BY <1>1, <1>3, <1>4, <1>5, <1>6, <1>14, <2>3 DEF Wait, Finish
  <1>15. CASE Parse(s)
    <2>1. \E v : Done(s, v) /\ ValueIsFor(v, r)
      BY <1>6, <1>15 DEF Parse, ValueIsFor, Raised
    <2> QED BY <1>1, <1>3, <1>4, <1>6, <1>15, <2>1 DEF Parse
  <1> QED BY <1>7, <1>8, <1>9, <1>10, <1>11, <1>12, <1>13, <1>14, <1>15 DEF SolverNext

\* The steps of the planner node keep the files and results to the request at hand.
LEMMA NodeFiles ==
    ASSUME TypeOK, ThreadsAreOfRequest, FilesAreOfRequest,
           \/ Lifecycle \/ Waiting \/ Ending
           \/ \E r \in Requests : Launch(r) \/ Validate(r)
    PROVE  FilesAreOfRequest'
  <1> USE DEF requestVars, solverVars, NodeAside
  <1>1. CASE Lifecycle
    <2>1. \A s \in Solvers : thread[s] \in {"none", "done"}
      BY <1>1 DEF ThreadsAreOfRequest, Lifecycle, OnConfigure, ConfigureFails, PyOnCleanup, Quiet
    <2>2. node' = node \/ node'.phase = "ended"
      BY <1>1 DEF Lifecycle, OnConfigure, ConfigureFails, PyOnCleanup, Idle
    <2> QED BY <1>1, <2>1, <2>2
        DEF FilesAreOfRequest, Lifecycle, OnConfigure, ConfigureFails, PyOnCleanup, Quiet
  <1>2. ASSUME NEW r \in Requests, Launch(r)
        PROVE  FilesAreOfRequest'
    BY <1>2 DEF Launch, ThreadsAreOfRequest, FilesAreOfRequest
  <1>3. ASSUME NEW r \in Requests, Validate(r)
        PROVE  FilesAreOfRequest'
    BY <1>3 DEF Validate, ThreadsAreOfRequest, FilesAreOfRequest
  <1>4. ASSUME NEW s \in Solvers, Fetch(s) \/ PyFetch(s)
        PROVE  FilesAreOfRequest'
    <2>1. ASSUME NEW v \in {NotFound, Found(node.request)}, TakeResult(s, v)
          PROVE  \A t \in DOMAIN results' :
                     results'[t] = v \/ (t \in DOMAIN results /\ results'[t] = results[t])
      BY <2>1 DEF TakeResult
    <2>2. /\ UNCHANGED <<language, directory, served, requestVars, solverVars>>
          /\ \/ Fail(s)
             \/ \E v \in {NotFound, Found(node.request)} : TakeResult(s, v)
      <3>1. thread[s] = "done" /\ node.phase # "ended" =>
                ValueIsFor(value[s], node.request)
        BY FilesAreParts
      <3>2. thread[s] = "done" /\ node.phase # "ended" /\ value[s].kind \notin Raised =>
                value[s] \in {NotFound, Found(node.request)}
        BY <3>1, ValuesDiffer DEF ValueIsFor
      <3> QED BY <1>4, <3>2 DEF Fetch, PyFetch, TakeResult
    <2>3. CASE Fail(s)
      BY <2>2, <2>3 DEF Fail, FilesAreOfRequest, TypeOK
    <2>4. ASSUME NEW v \in {NotFound, Found(node.request)}, TakeResult(s, v)
          PROVE  FilesAreOfRequest'
      <3>1. UNCHANGED node
        BY <2>4 DEF TakeResult
      <3> QED BY <2>1, <2>2, <2>4, <3>1 DEF FilesAreOfRequest
    <2> QED BY <2>2, <2>3, <2>4
  <1>5. CASE Collect \/ PyCollect
    <2>1. \/ Deliver /\ Release /\ UNCHANGED directory
          \/ /\ node' = [node EXCEPT !.phase = "ending"] /\ node.phase # "ended"
             /\ UNCHANGED <<directory, results, solverVars>>
      BY <1>5 DEF Collect, PyCollect
    <2>2. CASE Deliver /\ Release /\ UNCHANGED directory
      <3>1. DOMAIN results' = {} /\ \A s \in Solvers : thread'[s] = "none"
        BY <2>2 DEF Release
      <3> QED BY <3>1 DEF FilesAreOfRequest
    <2>3. CASE /\ node' = [node EXCEPT !.phase = "ending"] /\ node.phase # "ended"
               /\ UNCHANGED <<directory, results, solverVars>>
      BY <2>3 DEF FilesAreOfRequest, TypeOK
    <2> QED BY <2>1, <2>2, <2>3
  <1>6. CASE Cancel
    BY <1>6 DEF Cancel, FilesAreOfRequest, TypeOK
  <1>7. CASE End
    BY <1>7 DEF End, Idle, FilesAreOfRequest, TypeOK
  <1>8. CASE Validated
    BY <1>8 DEF Validated, ThreadsAreOfRequest, FilesAreOfRequest
  <1> QED BY <1>1, <1>2, <1>3, <1>4, <1>5, <1>6, <1>7, <1>8 DEF Waiting, Ending

\* Every step keeps the files and results to the request at hand.
LEMMA FilesNext ==
    ASSUME TypeOK, ThreadsAreOfRequest, FilesAreOfRequest, [Next]_vars
    PROVE  FilesAreOfRequest'
  <1>1. CASE UNCHANGED vars
    BY <1>1 DEF vars, requestVars, solverVars, FilesAreOfRequest
  <1> QED BY <1>1, NodeFiles, SolverFiles DEF Next

\* The plans of a response are for the request, for the results are.
LEMMA AnswerNext ==
    ASSUME TypeOK, ThreadsAreOfRequest, FilesAreOfRequest, AnswersAreOfRequest, [Next]_vars
    PROVE  AnswersAreOfRequest'
  <1> USE DEF AnswersAreOfRequest
  <1>1. ASSUME NEW plans \in SUBSET {node.request}, Respond(plans)
        PROVE  AnswersAreOfRequest'
    BY <1>1 DEF Respond, TypeOK
  <1>2. CASE Collect \/ PyCollect
    <2>1. node.phase = "collecting" /\ (Deliver \/ UNCHANGED answer)
      BY <1>2 DEF Collect, PyCollect, requestVars
    <2>2. Plans \subseteq {node.request}
      BY <2>1, ValuesDiffer DEF Plans, FilesAreOfRequest, TypeOK
    <2>3. Deliver => \E plans \in SUBSET {node.request} : Respond(plans)
      BY <2>2 DEF Deliver
    <2> QED BY <1>1, <2>1, <2>3
  <1>3. CASE Validated
    BY <1>1, <1>3 DEF Validated
  <1>4. CASE UNCHANGED answer
    BY <1>4
  <1>5. ASSUME ~Collect, ~PyCollect, ~Validated
        PROVE  UNCHANGED answer
    <2>1. CASE Lifecycle \/ Waiting \/ Cancel \/ End \/ (\E r \in Requests : Launch(r) \/ Validate(r))
      BY <2>1 DEF Lifecycle, OnConfigure, ConfigureFails, PyOnCleanup, Quiet, Waiting, Fetch,
                  PyFetch, Cancel, End, Launch, Validate, requestVars
    <2>2. CASE \E s \in Solvers : SolverNext(s) \/ Monitor(s) \/ PlannerEnds(s)
      BY <2>2 DEF SolverNext, Prepare, Fork, OpenPlan, OpenFails, PyStart, Wait, Finish, Parse,
                  Monitor, MonitorCancels, MonitorTimesOut, Kill, PlannerEnds, SolverAside, requestVars
    <2>3. CASE UNCHANGED vars
      BY <2>3 DEF vars, requestVars
    <2> QED BY <1>5, <2>1, <2>2, <2>3 DEF Next, Ending
  <1> QED BY <1>2, <1>3, <1>4, <1>5

-----------------------------------------------------------------------------
(* The theorems                                                            *)

\* Init: nothing was asked, so nothing runs and nothing was answered.
LEMMA PlannerInvInit == Init => PlannerInv
  <1> SUFFICES ASSUME Init PROVE PlannerInv
    OBVIOUS
  <1>1. node.phase = "idle" /\ DOMAIN results = {}
    BY DEF Init, Idle
  <1>2. \A s \in Solvers : thread[s] = "none" /\ ~running[s] /\ fate[s] = "none"
    BY DEF Init
  <1>3. \A r \in Requests : answer[r] = {}
    BY DEF Init
  <1> QED BY <1>1, <1>2, <1>3, TypeInit
      DEF PlannerInv, ThreadsAreOfRequest, FilesAreOfRequest, UnreadIsZombie, CancelComesLast,
          AnswerIsForRequest, AnswersAreOfRequest, StoppedForCause

\* PlannerInv is an invariant.
THEOREM PlannerInvCorrect == Spec => []PlannerInv
  <1>1. PlannerInv /\ [Next]_vars => PlannerInv'
    BY TypeNext, ThreadsNext, FilesNext, UnreadNext, CancelNext, AnswerNext
    DEF PlannerInv, AnswerIsForRequest
  <1> QED BY <1>1, PlannerInvInit, PTL DEF Spec

\* The plans of an answer are for the problem of its request, whatever files earlier
\* requests and other solvers have left in the directories.
THEOREM AnswersAreForRequests == Spec => []AnswerIsForRequest
  <1>1. PlannerInv => AnswerIsForRequest
    BY DEF PlannerInv
  <1> QED BY <1>1, PlannerInvCorrect, PTL

\* A result that counts is never that of a solver that was cancelled.
THEOREM ResultsAreUncancelled == Spec => []StoppedForCause
  <1>1. PlannerInv => StoppedForCause
    BY DEF PlannerInv, AnswerIsForRequest
  <1> QED BY <1>1, PlannerInvCorrect, PTL

\* When the node rests or has ended no planner runs but those whose plan file could
\* not be opened.
THEOREM PlannersAreOver == Spec => []NothingRunsOn
  <1>1. PlannerInv => NothingRunsOn
    BY DEF PlannerInv, ThreadsAreOfRequest, UnreadIsZombie, NothingRunsOn
  <1> QED BY <1>1, PlannerInvCorrect, PTL

=============================================================================
