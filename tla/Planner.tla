------------------------------- MODULE Planner -------------------------------
(***************************************************************************)
(* The planner: a lifecycle node that serves one request at a time, with a *)
(* thread for each plan solver, the process each thread starts and the     *)
(* thread that watches over it.  There are two of it, the C++ node with    *)
(* the solver POPF and the Python node; a deployment has one.              *)
(*                                                                         *)
(* The C++ solver starts "ros2 run popf popf": a wrapper, which starts the *)
(* planner proper and waits for it.  A kill hits the wrapper only, and the *)
(* pipe that is read to its end stays open until the planner ends too.  In *)
(* Python the command is the planner, and writes its file itself.          *)
(***************************************************************************)
EXTENDS FiniteSets

CONSTANTS
    Languages,      \* which of the two nodes there may be
    Solvers,        \* the plan solvers
    Directories,    \* the directories for their files
    Layouts,        \* what their parameters output_dir may be
    Requests,       \* the requests, each for a problem of its own
    Installed,      \* the plugin.xml entries of the installed packages
    BaseClass,      \* the base class of plan solver plugins
    None

ASSUME PlannerAssumption ==
    /\ Languages \subseteq {"cpp", "python"}
    /\ Layouts \subseteq [Solvers -> Directories]
    /\ None \notin Requests

VARIABLES
    language,       \* of the node
    directory,      \* output_dir of each solver
    served,         \* do the services exist
    request,        \* is each request waiting, served, or answered
    answer,         \* the plans of its answer: the problems they are for
    node,           \* [phase, request, service]: what its thread does
    results,        \* results: what the node took from the futures
    thread,         \* how far the thread of each solver is
    value,          \* the value or exception its future will have
    cancelled,      \* cancel_requested_ of each solver
    running,        \* does the planner that a solver started run
    fate,           \* of the process that the solver forked
    output,         \* what its planner prints
    problem,        \* the files domain.pddl and problem.pddl of a directory
    file            \* its file "plan"

requestVars == <<request, answer>>
solverVars == <<thread, value, cancelled, running, fate, output, problem, file>>
vars == <<language, directory, served, requestVars, node, results, solverVars>>

Outputs == {"plan", "nothing", "malformed"}

Raised == {"raised", "RuntimeError"}

\* What the future of a solver holds: a plan for the problem of a request,
\* no plan, or an exception.
Values == [kind : {"plan", "none"} \cup Raised, for : Requests \cup {None}]

Found(r) == [kind |-> "plan", for |-> r]

NotFound == [kind |-> "none", for |-> None]

Exception(kind) == [kind |-> kind, for |-> None]

\* Nothing is printed, or in the file.
Blank == [for |-> None, holds |-> "nothing"]

\* What is printed, or in a file.
Contents == [for : Requests \cup {None}, holds : Outputs]

Idle == [phase |-> "idle", request |-> None, service |-> None]

Init ==
    /\ language \in Languages
    /\ directory \in Layouts
    /\ served = FALSE
    /\ request = [r \in Requests |-> "waiting"]
    /\ answer = [r \in Requests |-> {}]
    /\ node = Idle
    /\ results = [s \in {} |-> NotFound]
    /\ thread = [s \in Solvers |-> "none"]
    /\ value = [s \in Solvers |-> NotFound]
    /\ cancelled = [s \in Solvers |-> FALSE]
    /\ running = [s \in Solvers |-> FALSE]
    /\ fate = [s \in Solvers |-> "none"]
    /\ output = [s \in Solvers |-> Blank]
    /\ problem = [d \in Directories |-> None]
    /\ file = [d \in Directories |-> Blank]

-----------------------------------------------------------------------------
(* Plugins of the Python node *)

\* The entries of readable files with a type and the right base class.
Discover ==
    {p \in Installed : p.readable /\ p.base = BaseClass /\ p.typed}

\* Of entries with one name, any: the last of an order nobody chose.
Load(name) ==
    \E p \in Discover : p.name = name /\ p.importable /\ p.hasClass /\ p.constructs

-----------------------------------------------------------------------------
(* Lifecycle: being active makes no difference. *)

Quiet == node.phase = "idle" /\ UNCHANGED <<language, directory, requestVars, results, solverVars>>

OnConfigure == Quiet /\ ~served /\ served' = TRUE /\ UNCHANGED node

\* A plugin that is not found ends the C++ node, with exit(-1); the Python
\* node stays unconfigured, without services.
ConfigureFails ==
    /\ Quiet /\ ~served
    /\ \/ /\ language = "cpp"
          /\ node' = [Idle EXCEPT !.phase = "ended"]
       \/ /\ language = "python" /\ \E s \in Solvers : ~Load(s)
          /\ UNCHANGED node
    /\ UNCHANGED served

\* The C++ node goes on to serve.
PyOnCleanup ==
    /\ Quiet /\ language = "python" /\ served
    /\ served' = FALSE
    /\ UNCHANGED node

-----------------------------------------------------------------------------
(* PlannerNode::get_plan_array *)

NodeAside == UNCHANGED <<language, directory, served>>

\* The request was answered.  Its client may have stopped to wait: its timeout
\* is 15 s from the moment it sends or what its parameter says, in C++, and
\* 10 s in Python.
Respond(plans) ==
    LET r == node.request
    IN  /\ request' = [request EXCEPT ![r] = "answered"]
        /\ answer' = [answer EXCEPT ![r] = plans]
        /\ node' = Idle

\* One std::async, or one task of the pool, for each solver.
Launch(r) ==
    /\ node.phase = "idle" /\ served
    /\ request[r] = "waiting"
    /\ request' = [request EXCEPT ![r] = "served"]
    /\ \E service \in {"get_plan", "get_plan_array"} :
          node' = [phase |-> "waiting", request |-> r, service |-> service]
    /\ thread' = [s \in Solvers |-> "writing"]
    /\ NodeAside
    /\ UNCHANGED <<answer, results, value, cancelled, running, fate, output, problem, file>>

Pending == Solvers \ DOMAIN results

\* The results are a map from the solvers that were ready in time.
TakeResult(s, v) ==
    /\ node.phase = "waiting" /\ s \in Pending /\ thread[s] = "done"
    /\ results' = [t \in DOMAIN results \cup {s} |->
                      IF t = s THEN v ELSE results[t]]
    /\ UNCHANGED node

\* An exception of a solver that is ready in time is not caught.
Fail(s) ==
    /\ node.phase = "waiting" /\ s \in Pending /\ thread[s] = "done"
    /\ node' = [node EXCEPT !.phase = "ending"]
    /\ UNCHANGED results

Fetch(s) ==
    /\ language = "cpp"
    /\ \/ value[s].kind \notin Raised /\ TakeResult(s, value[s])
       \/ value[s].kind \in Raised /\ Fail(s)
    /\ NodeAside /\ UNCHANGED <<requestVars, solverVars>>

\* The Python node catches RuntimeError only.
PyFetch(s) ==
    /\ language = "python"
    /\ \/ value[s].kind \notin Raised /\ TakeResult(s, value[s])
       \/ value[s].kind = "RuntimeError" /\ TakeResult(s, NotFound)
       \/ value[s].kind = "raised" /\ Fail(s)
    /\ NodeAside /\ UNCHANGED <<requestVars, solverVars>>

\* The wait is over: no result is missing, or the timeout has passed.  The
\* solvers whose result is missing are cancelled.
Cancel ==
    /\ node.phase = "waiting"
    /\ node' = [node EXCEPT !.phase = "collecting"]
    /\ cancelled' = [s \in Solvers |-> cancelled[s] \/ s \in Pending]
    /\ NodeAside
    /\ UNCHANGED <<requestVars, results, thread, value, running, fate, output, problem, file>>

\* The problems that the plans of the solvers are for.
Plans == {results[s].for : s \in {t \in DOMAIN results : results[t] # NotFound}}

\* The response of get_plan_array is all of them, of get_plan the shortest;
\* their lengths are left open.
Deliver ==
    \E plans \in IF node.service = "get_plan_array" \/ Plans = {} THEN {Plans}
                 ELSE {{p} : p \in Plans} :
        Respond(plans)

\* The threads have ended, and the maps of the function are gone.
Release ==
    /\ results' = [s \in {} |-> NotFound]
    /\ thread' = [s \in Solvers |-> "none"]
    /\ value' = [s \in Solvers |-> NotFound]
    /\ fate' = [s \in Solvers |-> IF fate[s] = "zombie" THEN "zombie" ELSE "none"]
    /\ output' = [s \in Solvers |-> Blank]
    /\ UNCHANGED <<cancelled, running, problem, file>>

\* The cancelled solvers are waited for without bound; what they found, or
\* raise, counts no more.
Collect ==
    /\ language = "cpp" /\ node.phase = "collecting"
    /\ \A s \in Pending : thread[s] = "done"
    /\ Deliver
    /\ Release
    /\ NodeAside

\* A solver that is not ready 0.1 s later raises a TimeoutError in the Python
\* node, which like any but a RuntimeError ends it.
PyCollect ==
    /\ language = "python" /\ node.phase = "collecting"
    /\ \/ /\ \A s \in Pending : thread[s] = "done" /\ value[s].kind # "raised"
          /\ Deliver
          /\ Release
       \/ /\ \E s \in Pending : thread[s] # "done" \/ value[s].kind = "raised"
          /\ node' = [node EXCEPT !.phase = "ending"]
          /\ UNCHANGED <<requestVars, results, solverVars>>
    /\ NodeAside

\* Before an exception leaves the function, the destructors of the futures, or
\* of the pool, wait for the threads.
End ==
    /\ node.phase = "ending"
    /\ \A s \in Solvers : thread[s] = "done"
    /\ node' = [Idle EXCEPT !.phase = "ended"]
    /\ NodeAside /\ UNCHANGED <<requestVars, results, solverVars>>

\* validate_domain: the first solver runs its planner on files of their own,
\* on the thread of the node, and waits for it.  Its verdict is left open.
Validate(r) ==
    /\ node.phase = "idle" /\ served
    /\ request[r] = "waiting"
    /\ request' = [request EXCEPT ![r] = "served"]
    /\ node' = [phase |-> "validating", request |-> r, service |-> "validate_domain"]
    /\ NodeAside /\ UNCHANGED <<answer, results, solverVars>>

Validated ==
    /\ node.phase = "validating"
    /\ Respond({})
    /\ NodeAside /\ UNCHANGED <<results, solverVars>>

-----------------------------------------------------------------------------
(* A solver: POPFPlanSolver::getPlan, get_plan *)

SolverAside == UNCHANGED <<language, directory, served, requestVars, node, results>>

\* The thread returns v.
Done(s, v) ==
    /\ thread' = [thread EXCEPT ![s] = "done"]
    /\ value' = [value EXCEPT ![s] = v]

\* The folders cannot be made, or the domain and the problem are written.
Prepare(s) ==
    /\ thread[s] = "writing"
    /\ \/ Done(s, NotFound) /\ UNCHANGED problem
       \/ /\ thread' = [thread EXCEPT ![s] = "starting"]
          /\ problem' = [problem EXCEPT ![directory[s]] = node.request]
          /\ UNCHANGED value
    /\ SolverAside /\ UNCHANGED <<cancelled, running, fate, output, file>>

Forked(s) ==
    /\ running' = [running EXCEPT ![s] = TRUE]
    /\ fate' = [fate EXCEPT ![s] = "alive"]
    /\ output' = [output EXCEPT ![s] = [for |-> problem[directory[s]], holds |-> "nothing"]]

\* execute_planner resets the flag of an earlier cancel, and of one that came
\* just now.
Fork(s) ==
    /\ language = "cpp" /\ thread[s] = "starting"
    /\ cancelled' = [cancelled EXCEPT ![s] = FALSE]
    /\ Forked(s)
    /\ thread' = [thread EXCEPT ![s] = "opening"]
    /\ SolverAside /\ UNCHANGED <<value, problem, file>>

\* Mutant of OpenPlan: what an earlier planner wrote is not truncated.
OpenPlanAppending(s) ==
    /\ language = "cpp" /\ thread[s] = "opening"
    /\ thread' = [thread EXCEPT ![s] = "reading"]
    /\ SolverAside /\ UNCHANGED <<value, cancelled, running, fate, output, problem, file>>

OpenPlan(s) ==
    /\ language = "cpp" /\ thread[s] = "opening"
    /\ thread' = [thread EXCEPT ![s] = "reading"]
    /\ file' = [file EXCEPT ![directory[s]] = Blank]
    /\ SolverAside /\ UNCHANGED <<value, cancelled, running, fate, output, problem>>

\* If the file cannot be opened the wrapper is killed, and nobody waits for it
\* or for its planner, which prints to a broken pipe.
OpenFails(s) ==
    /\ language = "cpp" /\ thread[s] = "opening"
    /\ Done(s, NotFound)
    /\ fate' = [fate EXCEPT ![s] = "zombie"]
    /\ SolverAside /\ UNCHANGED <<cancelled, running, output, problem, file>>

\* Python opens the file first, and fails before there is a process.
PyStart(s) ==
    /\ language = "python" /\ thread[s] = "starting"
    /\ cancelled' = [cancelled EXCEPT ![s] = FALSE]
    /\ \/ /\ file' = [file EXCEPT ![directory[s]] = Blank]
          /\ Forked(s)
          /\ thread' = [thread EXCEPT ![s] = "reading"]
          /\ UNCHANGED value
       \/ Done(s, NotFound) /\ UNCHANGED <<running, fate, output, file>>
    /\ SolverAside /\ UNCHANGED problem

\* SIGKILL: the process killed is the planner itself in Python only.
Kill(s, cause) ==
    /\ fate' = [fate EXCEPT ![s] = cause]
    /\ running' = [running EXCEPT ![s] = @ /\ language = "cpp"]
    /\ SolverAside /\ UNCHANGED <<thread, value, cancelled, output, problem, file>>

\* The monitor thread sees the flag.
MonitorCancels(s) ==
    /\ thread[s] \in {"opening", "reading"} /\ fate[s] = "alive" /\ cancelled[s]
    /\ Kill(s, "cancelled")

\* Mutant of MonitorTimesOut: only a cancel stops the planner.
MonitorNeverTimesOut(s) == FALSE /\ Kill(s, "late")

\* The time of the solver, measured by the monitor thread, is over.
MonitorTimesOut(s) ==
    /\ thread[s] \in {"opening", "reading"} /\ fate[s] = "alive" /\ ~cancelled[s]
    /\ Kill(s, "late")

\* The planner ends; its wrapper follows, if it is still there.
PlannerEnds(s) ==
    /\ running[s]
    /\ running' = [running EXCEPT ![s] = FALSE]
    /\ \E status \in {"exited", "failed"} :
          fate' = [fate EXCEPT ![s] = IF @ = "alive" THEN status ELSE @]
    /\ \E o \in Outputs : output' = [output EXCEPT ![s].holds = o]
    /\ SolverAside /\ UNCHANGED <<thread, value, cancelled, problem, file>>

Alone(s) == \A t \in Solvers \ {s} : directory[t] # directory[s]

\* What a reader finds in the file: solvers that share a directory truncate it
\* and write over one another.
Printed(s) ==
    IF Alone(s) THEN {output[s].holds}
    ELSE {output[s].holds, "nothing", "malformed"}

Stopped(s) ==
    \/ fate[s] \in {"cancelled", "late", "failed"}
    \/ language = "python" /\ cancelled[s]

\* All output is read and in the file, the process was waited for, and its
\* status tells whether it was killed or failed.
Finish(s) ==
    /\ IF output[s].holds = "nothing" THEN UNCHANGED file
       ELSE \E o \in Printed(s) :
          file' = [file EXCEPT ![directory[s]] = [output[s] EXCEPT !.holds = o]]
    /\ \/ Stopped(s) /\ Done(s, NotFound)
       \/ /\ ~Stopped(s)
          /\ thread' = [thread EXCEPT ![s] = "parsing"]
          /\ UNCHANGED value
    /\ SolverAside /\ UNCHANGED <<cancelled, running, fate, output, problem>>

\* Mutant of Wait: the thread waits for its child, not for the pipe.
WaitForWrapper(s) == thread[s] = "reading" /\ fate[s] # "alive" /\ Finish(s)

Wait(s) == thread[s] = "reading" /\ ~running[s] /\ Finish(s)

\* parse_plan_result: numbers that cannot be read raise.
Parse(s) ==
    /\ thread[s] = "parsing"
    /\ LET f == file[directory[s]]
       IN  \/ f.holds = "plan" /\ Done(s, Found(f.for))
           \/ f.holds = "nothing" /\ Done(s, NotFound)
           \/ /\ f.holds = "malformed"
              /\ \E e \in (IF language = "cpp" THEN {"raised"} ELSE Raised) : Done(s, Exception(e))
    /\ SolverAside /\ UNCHANGED <<cancelled, running, fate, output, problem, file>>

-----------------------------------------------------------------------------
Lifecycle ==
    OnConfigure \/ ConfigureFails \/ PyOnCleanup

Waiting == \E s \in Solvers : Fetch(s) \/ PyFetch(s)

Ending == Cancel \/ Collect \/ PyCollect \/ End \/ Validated

SolverNext(s) ==
    \/ Prepare(s) \/ Fork(s) \/ OpenPlan(s) \/ OpenFails(s) \/ PyStart(s)
    \/ Wait(s) \/ Parse(s)

Monitor(s) == MonitorCancels(s) \/ MonitorTimesOut(s)

Next ==
    \/ Lifecycle
    \/ \E r \in Requests : Launch(r) \/ Validate(r)
    \/ Waiting \/ Ending
    \/ \E s \in Solvers : SolverNext(s) \/ Monitor(s) \/ PlannerEnds(s)

\* Threads go on and times pass.  A planner need not end by itself, so the
\* requests of the C++ node depend on those that do.
Fairness ==
    /\ WF_vars(Waiting \/ Ending)
    /\ \A s \in Solvers : WF_vars(SolverNext(s)) /\ WF_vars(Monitor(s))

PlannersEnd == \A s \in Solvers : WF_vars(language = "cpp" /\ PlannerEnds(s))

Spec == Init /\ [][Next]_vars /\ Fairness

SpecWithEnds == Spec /\ PlannersEnd

-----------------------------------------------------------------------------
\* A result that counts is never that of a solver that was cancelled: a cancel
\* does not reach into the next request, whose solver has the same flag.
StoppedForCause == \A s \in DOMAIN results : fate[s] # "cancelled"

\* What a client gets is for the problem it sent.
AnswersAreOfRequest == \A r \in Requests : answer[r] \subseteq {r}

\* Every plan that a client gets is for the problem it sent: neither files of
\* earlier requests, nor cancelled solvers, nor solvers that share a directory
\* bring in another.
AnswerIsForRequest == AnswersAreOfRequest /\ StoppedForCause

\* When the node is through with a request no planner is left over that it
\* started, though a kill does not reach it: the thread of the solver reads the
\* pipe to its end.  Apart from those whose plan file could not be opened.
NothingRunsOn ==
    node.phase \in {"idle", "ended"} =>
        \A s \in Solvers : running[s] => fate[s] = "zombie"

\* Every variable has its type.
TypeOK ==
    /\ language \in Languages /\ directory \in Layouts /\ served \in BOOLEAN
    /\ request \in [Requests -> {"waiting", "served", "answered"}]
    /\ answer \in [Requests -> SUBSET (Requests \cup {None})]
    /\ node \in [phase : {"idle", "waiting", "collecting", "ending", "validating", "ended"},
                 request : Requests \cup {None},
                 service : {"get_plan", "get_plan_array", "validate_domain", None}]
    /\ DOMAIN results \subseteq Solvers /\ \A s \in DOMAIN results : results[s] \in Values
    /\ thread \in [Solvers -> {"none", "writing", "starting", "opening", "reading", "parsing",
                               "done"}]
    /\ value \in [Solvers -> Values]
    /\ cancelled \in [Solvers -> BOOLEAN] /\ running \in [Solvers -> BOOLEAN]
    /\ fate \in [Solvers -> {"none", "alive", "exited", "failed", "cancelled", "late", "zombie"}]
    /\ output \in [Solvers -> Contents] /\ file \in [Directories -> Contents]
    /\ problem \in [Directories -> Requests \cup {None}]

\* The threads of solvers are there for the request that the node is busy with, and
\* none works when it is not.
ThreadsAreOfRequest ==
    /\ node.phase \notin {"idle", "ended"} => node.request \in Requests
    /\ node.phase \in {"idle", "validating"} =>
           DOMAIN results = {} /\ \A s \in Solvers : thread[s] = "none"
    /\ node.phase = "ended" => \A s \in Solvers : thread[s] \in {"none", "done"}
    /\ \A s \in DOMAIN results : thread[s] = "done"

\* From the problem that is written to the plan that is read, whatever a solver uses
\* is about this request: what was there before is gone when it comes to it, and the
\* others that may write to the same directory work for the same request.
FilesAreOfRequest ==
    \A s \in Solvers :
        /\ thread[s] = "starting" => problem[directory[s]] = node.request
        /\ thread[s] \in {"opening", "reading"} => output[s].for = node.request
        /\ thread[s] \in {"reading", "parsing"} /\ file[directory[s]].holds = "plan" =>
               file[directory[s]].for = node.request
        /\ thread[s] = "done" /\ node.phase # "ended" =>
               \/ value[s] \in {NotFound, Found(node.request)}
               \/ \E kind \in Raised : value[s] = Exception(kind)
        /\ s \in DOMAIN results /\ node.phase # "ended" =>
               results[s] \in {NotFound, Found(node.request)}

\* A planner whose output nobody reads is one whose plan file could not be opened.
UnreadIsZombie ==
    \A s \in Solvers :
        running[s] /\ thread[s] \notin {"opening", "reading"} => fate[s] = "zombie"

\* As long as results count no solver of the request is cancelled, nor is one that
\* runs about to be.
CancelComesLast ==
    /\ node.phase \in {"idle", "validating", "waiting"} =>
           \A s \in Solvers : fate[s] # "cancelled"
    /\ node.phase = "waiting" =>
           \A s \in Solvers : thread[s] \in {"opening", "reading"} => ~cancelled[s]

PlannerInv ==
    /\ TypeOK /\ ThreadsAreOfRequest /\ FilesAreOfRequest /\ UnreadIsZombie /\ CancelComesLast
    /\ AnswerIsForRequest

\* Every request that is taken is answered, or the node ends: no combination of
\* timeouts, lost cancels and exceptions blocks it, as long as planners that were
\* started by a wrapper end.
RequestsEnd ==
    \A r \in Requests :
        request[r] = "served" ~> request[r] = "answered" \/ node.phase = "ended"
=============================================================================
