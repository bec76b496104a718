# A TLA+ model of the PlanSys2 planning system

PlanSys2 (the packages `plansys2_*` of this repository) plans with PDDL and executes the plans on
robots over ROS 2. Here its nodes are modelled, the clients they are called through, and what
happens between them: which messages may be late, lost or overtaken, which threads interleave, what
is left behind when a step fails. The definitions keep the names of the code where TLA+ allows it;
`PROJECT.json` maps each of them to the lines it stands for, and lists the hazards of the code at
their lines with the properties that are about them.

## 1. The system

| Component | State | Operations | Hard behaviour | What makes it correct |
|---|---|---|---|---|
| **Executor node** `ExecutorNode` | `executor_state_`, `new_plan_received_`, `cancel_requested_`, three goal handles, `runtime_info_` | action server `execute_plan`, `execution_cycle` at 50 Hz in a detached thread, service `get_plan` | two threads share plain members without a lock; goals replace and cancel one another | one plan at a time, no goal forgotten, an accepted cancel ends its goal |
| **Executor client** `ExecutorClient` (C++, Python) | `goal_handler_`, `executing_plan_`, last result | start, replan, check, cancel | late acceptance, results of an earlier goal, answers taken only while it spins | a plan that runs is in the client's hand, its end is reported |
| **Actions hub** `ActionExecutor`, `ActionExecutorClient` | status, chosen performer, timers and publisher of each plan item; lifecycle and `committed_` of each performer | REQUEST, RESPONSE, CONFIRM, REJECT, FEEDBACK, FINISH, CANCEL on one topic | retries, a timeout that races an answer, late and misdirected messages | one performer per action, nobody waits for an idle performer, nothing runs on after a cancel |
| **BT performers** `BTAction`, `BtActionNode`, `BtServiceNode` | a tree, a goal of another action server | activate, `do_work`, `tick`, `halt` | lost answers, halts, exceptions, trees that cannot be made | one FINISH for a CONFIRM, success is earned, no goal left running unawares |
| **Plan builder** `SimpleBTBuilder` (also `SequentialBTBuilder`, `STNBTBuilder`) | the action graph | `get_graph`, `get_tree`, `get_dotgraph` | decides from predicates which actions may overlap | the tree contains the plan, and reorders it only where that changes nothing |
| **Tree nodes** `WaitAction`, `WaitAtStartReq`, `ApplyAtStartEffect`, `CheckOverAllReq`, `ExecuteAction`, `CheckAtEndReq`, `ApplyAtEndEffect`, `RestoreAtStartEffect` (also `CheckTimeout`, `CheckAction`) | the shared `action_map`, the problem | one tick of each | reads of the problem and of executors between which performers finish | requirements hold when and while an action runs, effects are applied once |
| **Evaluation** `evaluate`, `check`, `apply` | none of its own | conditions and effects, with a client or on a copy | a call for every leaf, others change the knowledge between, calls without an answer | a check tells what was so, an effect is applied whole |
| **Problem expert** `ProblemExpert`, its node and clients | instances, predicates, functions, goal; lifecycle; cached problem and update time of clients | 22 services, three topics | every order of requests in every lifecycle state; stale copies | facts are about things that exist, texts can be read again, changes are noticed |
| **Domain expert** `DomainExpert`, `DomainReader`, its node and clients | the domain, read only once configured; cached domain | 13 services, one topic, `on_configure` | several files in one domain, broken files, swallowed exceptions | a configured domain is whole, and means what its files mean |
| **Planner** `PlannerNode`, `PlanSolverBase`, POPF, `Planner.py` | a thread, a child process and a monitor for each solver | `get_plan`, `get_plan_array`, `validate_domain` | timeout, lost cancel, shared files, a kill that hits a wrapper | the plan is for the request, nothing runs on, requests end |
| **Lifecycle manager** | the script of the start-up | configure and activate four nodes | late and lost answers, nodes that refuse or die | never ahead of a node, and it ends |
| **PDDL parser** | trees, the tables of `Domain` | text to tree and back | what is written is read by another process | a text means what its tree means |
| **`State`, `DerivedResolutionGraph`** | predicates, what rules have inferred and how often, the graph of the rules | add, infer, retract, cut the graph, traverse it | rules that infer the same, rules in a circle, sets without order | counts are references, nothing inferred outlives its rules, rules are listed after those they need |
| **Terminal, tools, bringup** | – | – | – | – |

How they interact: a client sends a plan to `execute_plan`; `execution_cycle` builds the tree with
the plan builder, from the domain and the problem, and ticks it until it ends, is cancelled or
replaced. `ExecuteAction` ticks an `ActionExecutor`, which bargains over the topic `actions_hub`
with the performers; a performer may itself tick a tree whose leaves call other action servers. The
other tree nodes read and write the problem through `ProblemExpertClient`. The clients of the
experts send a request and spin their own node until the response or a timeout; they also keep what
the topics of the experts have told them. The planner is given domain and problem as text. The
lifecycle manager brings up planner, experts and executor. `State` is a class of `plansys2_core` that
holds such a problem with its derived predicates; at this commit only its tests call it.

## 2. The modules

| Module | Models | Composes |
|---|---|---|
| `ActionHub` | `ActionExecutor.cpp`, `ActionExecutorClient.cpp`, `cancel_all_running_actions` | |
| `ExecutionCycle` | `handle_goal`, `handle_cancel`, `handle_accepted`, `execution_cycle` | |
| `ExecutorClient` | `ExecutorClient.cpp`, `ExecutorClient.py` | `ExecutionCycle` |
| `BTPerformer` | `BTAction.cpp`, `BTActionNode.hpp`, `BTServiceNode.hpp`, the Python performer | |
| `PlanGraph` | `get_graph`, `get_tree` of `SimpleBTBuilder` as operators, and `apply` of effects | |
| `PlanTree` | the default action tree, ticked | `PlanGraph` |
| `Knowledge` | `ProblemExpert.cpp` as operators from a knowledge base to an answer and a knowledge base | |
| `FactBase` | what the problem expert promises, abstractly | |
| `ProblemExpert` | `ProblemExpertNode.cpp`: services, lifecycle, topics | `Knowledge`, `FactBase` |
| `ServiceCalls` | the calls of one client to the services of one node | |
| `ExpertClients` | `ProblemExpertClient` in C++ and Python | `ProblemExpert`, `ServiceCalls` |
| `Formulas` | `evaluate`, `check`, `apply`, `RestoreAtStartEffect`, `toString` and `fromString` | `Knowledge` |
| `DomainText` | `DomainReader.cpp`, the sections of `Domain.hpp`, `DomainExpert.cpp` as operators | |
| `DomainExpert` | `DomainExpertNode.cpp` and `DomainExpertClient` in C++ and Python | `DomainText`, `ServiceCalls` |
| `Planner` | `PlannerNode.cpp`, `PlanSolverBase.cpp`, `popf_plan_solver.cpp`, `Planner.py`, `PlanSolverBase.py` | |
| `Startup` | `lifecycle_manager.cpp` and the node around it | |
| `DerivedGraph` | `DerivedResolutionGraph.cpp` as operators from a graph to a graph | |
| `State` | `State.cpp`, `State.hpp`: the methods that change something | `DerivedGraph` |
| `RuleOrder` | the methods that list rules: the traversals, step by step, and Tarjan's algorithm | `State` |
| `Execution_proofs` | theorems about `ExecutionCycle` and `ExecutorClient` | `ExecutorClient` |
| `ProblemExpert_proofs` | theorems about `ProblemExpert` and `ExpertClients` | `ExpertClients` |
| `ActionHub_proofs`, `BTPerformer_proofs`, `DomainExpert_proofs`, `Planner_proofs`, `Startup_proofs` | theorems about the module of the name | that module |
| `State_proofs` | theorems about `State` and `RuleOrder` | `RuleOrder` |
| `MC*` | instances for TLC | |

**ActionHub.** One FIFO per publisher and subscriber: the topic is reliable and ordered. The state
of an executor is `status`, `performer`, `waiting` (has it a timer) and `publishing` (is its
publisher activated; an inactive one drops messages). `cycle` and `spin` are the program counters
of the two threads. A callback is one step, except where the other thread can come between a test
and the write that follows: `tick` is `Tick`, `RequestForPerformers`, `ArmTimer` or
`DealingTimeout`, `Expire`, `ExpiryFailsPlan`/`ExpiryOverwritten`; `cancel` is `Visit`, `Cancel`,
`SendCancel`; a RESPONSE is `ReceiveResponse` and `ConfirmPerformer`/`RejectPerformer`. A performer
is one thread: each callback is one step. The tree is here no more than `Predecessors`; the 30 and 1
second timers may fire at any time.

**ExecutionCycle.** The members of `ExecutorNode` that the two threads share, and the state
`rclcpp_action` keeps of each goal (external: `Released` is the destructor of a goal handle,
`AcceptCancel` the library marking a goal as canceling, a wrong transition throws and ends the
process: `cycle = "crashed"`). Trees end when they like (`TreeSucceeds`, `TreeFails`); a tick that
throws leaves `status` unset, which is the same choice. Of making a tree (`init_plan_for_execution`,
`replan_for_execution`) it has the outcome.

**ExecutorClient** adds a client to it. `requests` and `cancels` are on their way to the server;
answers and results are delivered only in a method that spins (`Spinning`), so a result that comes
between two calls is taken in the next one, whatever goal that is about. `phase` is what the client
knows of each goal. `lost` collects the goals that the code gives up, and why is told at the property
that excepts them.

**BTPerformer** cuts the thread of a performer where it spins: activation, `do_work`, `tick` of the
leaf, `halt` with its cancel. `told` is what the executor has heard since the CONFIRM. What is above
the leaf in the tree is of the library (external) and may halt it, tick it again or fail in spite of
it. After an exception `do_work` reads a result that was never written (`BTAction.cpp:196`): any of
its values is possible. The client of an action server forgets a goal with its result, and throws when
it is asked about it again: when the user's `on_tick` ends a goal that is done (`StopsForgottenGoal`), and
when the result comes while `cancel_goal` spins for the answer of the cancel (`AsksForForgottenGoal`, line
381 of `BTActionNode.hpp`). Out of a tick this is caught by `do_work`. Out of `on_deactivate` it is not: the node
takes the error transition, whose default handler (of the library) leaves it FINALIZED, and the timer,
which `ActionExecutorClient::on_deactivate` would have reset, goes on ticking the tree. `ActionHub` has
performers whose deactivation does not fail. One that is FINALIZED answers no REQUEST either; the end that it
tells after the CANCEL is taken by its executor like a FINISH that had been on its way (`ReceiveFinish`, which
does not look at the state).

**PlanGraph.** Predicates are values, an action is a record of sequences of requirements and sets
of effects, and a graph keeps its arcs as sequences, since the order of the lists decides which node
`get_node_satisfy` returns. Numeric functions, disjunctions and quantified requirements are left out,
and a negated requirement is a predicate of its own. An action does not add and delete one predicate
at one instant, so the order of its effects does not matter.

**PlanTree.** `stage` says how far each subtree has come, `status` what `get_status` of its executor
is, `cursor` which subtree is ticked next: a tick visits them in the order of the tree. The tick of
one subtree is one step; performers finish between any two. `Start` is the pass through
`WaitAction`, `WaitAtStartReq`, `ApplyAtStartEffect`, `CheckOverAllReq` and the first
`ExecuteAction`; `Succeed` the pass through `CheckAtEndReq` and `ApplyAtEndEffect`; `Fail` any check
that fails, which fails the tree. Only the plan changes the problem.

**Knowledge** keeps instances as a function from names to types, `functions` as one from atoms to
values (`None` where there is none), and a goal as its root connective and its subgoals. A subgoal is
what the code asks of it: literals, bounds, and whether they are below another connective, where
`getFunctions` does not look. Derived predicates are ground rules over stored predicates: one
exists if a rule fires; it is listed by `getPredicates` only if its arguments are instances of exactly
the type of the parameter. **ProblemExpert** has an action for every service and transition. A request
before the first configuration is refused, one afterwards is served whatever the lifecycle state is;
messages are dropped unless the node is active, and `outcome` tells which topics the code names for
each service. **FactBase** has four steps: learn facts about known things, forget a thing with
what is about it, retract a fact, start again.

**ServiceCalls** is the shape that all methods of the four clients of the experts have: look for the
service (C++ without bound, Python once), send, spin, return an answer or a value of failure. A call
without an answer is to the node like one of another client. **ExpertClients** and **DomainExpert** give
a record for every method of both languages, and add what the client keeps: `cached`, with the
message or answer it came from, `dated` (is `update_time_` later than the last change) and the messages
that wait until the client spins. The spinning takes topics and response in any order.

**Formulas.** A tree is a record with its type and children. `Evaluate` is the recursion of
`evaluate`, replayed from the answers it has had: it ends or names its next call, and everything may
happen before that is served. `ServeCopy` answers the same calls from the vectors of a copy. Numbers
are whole and quotients exact. The atoms of the effects are not heads of rules, and no modifier of an
effect reads what another one changes. `Written` is the tree that `fromString` makes of what `toString`
has written, or `Unreadable`.

**DomainText** keeps of a file its sections and of a section its entries; `JointDomain` joins files as
`DomainReader` does, `Parse` reads a section if everything before it was readable, as the parser does
with its exceptions. "either" types are left out. A requirement that the parser does not know is taken
to sort before `:typing`. **DomainExpert** reads files one by one in `on_configure`; POPF's verdict on a
domain is a free choice, a parser that ends the process is not.

**Planner.** `thread[s]` is how far the thread of a solver is, `fate[s]` what became of the process it
forked, `running[s]` whether a planner runs: `ros2 run` is taken to start POPF as a child, so that the
kill hits the wrapper and the pipe stays open, and a command in Python to be the planner itself.
`problem` and `file` are the files of a directory, tagged with the request they are for. What a plan
says is abstract.

**Startup.** `Script` is `startup_function` step by step; a call of `change_state` may be answered, be
late, be refused, or be waited for without bound (`LateState`, the `get()` after a timeout). Nodes come,
die, and are changed by others, as often as `MaxFaults` says.

**DerivedGraph.** A graph is a record of edges, nodes, roots, rules and actions, which the code keeps in
five containers that have to agree. A rule is its head and what it needs; of a condition only the names
that occur in it matter, as for `addEdgeFromPreconditions`. **State** has an action for each method that changes
something, for any of the sets of rules in `Domains` (`rules`, which never changes); `ungroundDerivedPredicate`
notes the rules it will visit in `pending`, and visits one of them in a step. `decoded`, `both` and `cleared` are
history, and needed to say where the properties do not hold. **RuleOrder** adds the methods that only read the
graph: `Begin` is the call, with the nodes it starts `from` and the graph that is `walked` (the whole or
what can be reached), `Finish` the return, and there is a step for every visit of a node. The sets of the code have
no order, so that any order of the neighbours is possible. `job` says which of the traversals it is: depth first,
`waiting` for all parents (`check_dependencies`), `backwards` from actions, or strongConnect with its calls as
`frames`. The recursive helper and the loop with a stack of the code visit the same nodes.

## 3. What is checked

| Run | Instance | States | What it shows |
|---|---|---|---|
| `hub_safety` | 2 executors of different actions, 2 performers, one specialized and able to fail its activation | 2.2 million | no double execution, a RUNNING executor is served, a committed performer is accounted for, a choice is for life |
| `hub_liveness` | 2 executors, 1 performer | 75 thousand | what is started settles, what is cancelled stops |
| `goal_client` | a client in either language with 2 goals, sent, replaced and cancelled at any time | 74 thousand | one goal at a time, pending goals kept, what is sent settles; a plan that runs is in its client's hand or given up in a way the code leaves; its end is reported |
| `plan_tree` | 968 plans: every sequential plan of at most 5 actions of a house with 2 robots, 2 rooms, a door and an object | 145 thousand | success means the result of the plan, failures are explained, the states of the graph are right, the tree ends or starves |
| `formulas` | 6 conditions, 2 effects, 2 jobs, 2 changes by others, 1 lost call | 253 thousand | a check tells of each leaf what was so, an effect is applied whole, restoring undoes it, a copy foresees it, a text keeps the meaning |
| `problem` | an instance and a constant of different types, a derived predicate, a function, goals of each shape | 38 thousand | references hold, texts are read again, the fact base is implemented |
| `clients` | one client with the methods of both languages, and other clients | 542 thousand | a copy that messages have made is current, changes are noticed |
| `planner` | 2 solvers with one directory or two, 2 requests, either language | 1.4 million | the answer is for the request, nothing runs on, cancels do not reach the next request, requests end |
| `domain` | 8 lists of files, sound and broken | 905 thousand | a configured domain is whole, joining keeps the meaning, a client's copy is current |
| `performers` | leaves for actions and services under three kinds of tree, and Python; 2 goals, 1 interruption | 181 thousand | the end is told once, success is earned, nothing is left behind unawares, no performer stays active when it is told to stop, executions end |
| `startup` | 4 nodes, 2 faults | 57 thousand | the manager is never ahead of its nodes, the start ends |
| `state` | 10 domains: one with 4 rules, two of them for one predicate and one that needs itself, and 9 ways in which 3 rules depend on one another; 2 actions; every traversal from every start | 65 thousand | counts are references, what is inferred has its rule, the union is whole, a cut keeps what is needed; no rule is listed before one it needs, each one once, the components are the classes of rules that need one another, in order |

`ImplementsFactBase` is the refinement: `FactBase` with `things` the names that have a type and `facts`
what is stored. Every property has a mutant of the code in `PROJECT.json` under which TLC finds it violated.

Two comments say otherwise than the code does. `State.hpp:131` says that `getDerivedPredicatesDepthFirst`
returns all derived predicates: a rule in a circle, and each one that needs such a rule, waits for a parent that is
never visited, and is left out (`DerivedResolutionGraph.cpp:210`); `ListedInOrder` says so. `State.hpp:119` says
that the components for given nodes come in reverse topological order: they are reversed (`State.cpp:117`) and
come in topological order, as those of the overload without parameters, whose comment says so, and as
`ComponentsInOrder` does.

**Bounds.** `MaxQueue` limits retries and FEEDBACKs only: a timer fires, and a performer reports, into
FIFOs shorter than it. At 1 a retry is still sent after the first REQUEST was taken, answered,
rejected or confirmed, which are the cases that differ. Two executors and two performers are the least
with a competition for a performer, a choice between performers, and a cancellation of one action while
the other one is dealt. Two goals are the least in which one replaces the other, is cancelled in its place, or
has an older result; that a third may overtake the second while it is pending is covered by the proofs, which hold
for any goals. Plans of 3 actions lose a
contradiction or an action, 4 are needed for an action with arcs from two branches, 5 leave room for one more
after those. `MaxInbox` 1 is the history depth of the publishers and lets a message wait across a call.
The names of `problem` cover an instance, a constant, a name that is both, and an unknown type. Two
jobs in `formulas` are an effect and its restoration, or a check after it; two changes by others are the
least that put back what they took. Three rules are the least in which a circle has a rule before it and
another behind it: independent, in a row, with a short cut, the circle of two before or behind the third, that of
three, and a rule that needs itself at each place of the row. Two rules for one predicate are the least with a
count of 2. The traversals start from states with nothing but rules (`Bare`): they read nothing else. Two
solvers and two requests are the least in which a solver is late
for the next request and meets another one's files. Two faults let a node die and come back, or two nodes
fail at once. No symmetry is used: the instances distinguish their members.

**Fairness.** In `ActionHub` both threads run for ever; the spin thread serves its subscriptions in
turn, so each is served though it is often busy with another (SF). Performers take their messages, but
their work need not end: `StartedSettles` assumes that it does (`WorkEnds`), `CancelledStops` does not.
An executor that stays DEALING is past its 30 seconds at some time (WF on the timeout is part of the
cycle's step). In `ExecutionCycle` both threads go on, and a tick that finds a flag raised acts on it; no
tree is obliged to end, no client to do anything. `ExecutorClient` keeps that, and requests reach a spin thread
that serves others too (SF); `StartedIsReported` assumes that trees end and that the client goes on asking
(`TreesEnd`, `KeepsAsking`). In `PlanTree` the tree is ticked for ever and performers end their work,
well or badly. In `Planner` the threads of node, solvers and monitors go on; `RequestsEnd` also needs that
a planner ends that no kill reaches (`PlannersEnd`). In `BTPerformer` the thread goes on, and what it spins for is
taken if it comes again and again (SF); `ExecutionEnds` assumes servers that answer (`ServersAnswer`),
its parts about a performer that is told to stop do not. In `Startup` the manager and the nodes that are
there go on, and an answer in time is
possible again and again (SF). The specifications of the two expert clients are fair to the client, whose
waits have timeouts, and to nobody else.

Deadlock is checked in `problem` and `state`. Elsewhere it is not: an executor without goals, a performer that nobody
asks, a plan that is over, a client with nothing to do may wait for ever.

**Exceptions named in the properties** are what the code leaves open, and what the properties would
otherwise find violated.

* `RunningIsServed` sets aside performers whose `on_activate` failed (they tell nobody) and holds while
  the plan goes on. When it ends, only RUNNING executors are cancelled: one that is DEALING confirms a
  RESPONSE that comes late, and its action starts for a plan that is over (`ExecutorNode.cpp:575`).
* `CommittedIsAccounted` admits the lost REJECT: the publisher is deactivated by the FINISH handler
  (`ActionExecutor.cpp:114`), and a RESPONSE handled later is rejected in vain. With the same ground
  action twice in a plan a CONFIRM is lost too, and the two executors hear each other's messages
  (`ActionExecutor.cpp:99`): the instance has different actions, and so has `DistinctActions` in the proofs.
* `RequestsSettle` says that an accepted cancel of the current goal has an end. `cancel_requested_` is not
  reset when a goal ends, and then cancels the next one (`ExecutorNode.cpp:726`).
  It admits `Wedged`, the state REPLANNING in which a canceling goal is
  waited for and nobody cancels it, and the crash.
* `GoalIfPlanned` is about trees that have all the actions: one without arcs that is no root is dropped.
  `FailureIsExplained` admits that two actions that exclude each other overlap, since not all
  contradictions are found, and an action may start before the effects at end of the one it waits for
  (`wait_action_node.cpp:45`).
* `EndsOrStarves` admits `WaitAtStartReq` waiting for a requirement another action has deleted.
* `ExecutedIsInHand` lists its five: a start that timed out and is executed, a cancel whose answer is not
  looked at, a goal that was replaced, a result of an older goal taken for this one's, and the call in
  Python, which never returns.
* `CheckIsExplained` leaves out checks with a call that had no answer (an absent answer counts as an
  absent predicate, so that its negation is true), negations above a connective (`evaluate` turns the
  leaves round and not the connectives, `toString` both) and functions that do not exist.
* `AppliedIsWhole` trusts the result of `apply`, which the tree nodes ignore, as `apply` ignores that of
  `updateFunction`: of numbers it says something only if every call was answered. Its part `RestoreUndoes` is
  about predicates that the effect did change; modifiers are applied a second time.
* `ForeseenIsDone` leaves out quantifiers, whose instances a copy takes from its predicates, and derived
  predicates of unknown objects, which exist but are not listed.
* `TextKeepsMeaning` is about texts that can be read: a predicate right below `exists` is refused (and
  its null pointer used), a name in a comparison is read as a function, a negated comparison of sums
  has a parenthesis too many. `(= function number)` is written and read but always fails in `evaluate`.
* `RoundTrip` leaves out constants whose name an instance of another type has taken, and stored
  predicates that are also derived.
* `CacheIsCurrent` of `clients` is about copies made by a message: an answer of `get_problem` that messages
  have overtaken overwrites the newer problem. There and in `ChangesAreNoticed`, `exempt` are changes that
  the node does not publish: changes while it is inactive, removals that fail, values of functions. C++
  `existPredicate` ignores the field `success`.
* `NothingRunsOn` admits the planner whose output file could not be opened; `RequestsEnd` the end of the
  Python node by a `TimeoutError` that nobody catches (`Planner.py:422`).
* `ConfiguredIsWhole` leaves out an empty `model_file`: it configures and activates whatever an earlier
  configuration that failed has left.
* `SuccessIsEarned` admits the tree that ticks its leaf again, and an exception; `NothingLeftBehind` the
  goals in `unattended`: given up before they were accepted, replaced, or not cancelled in time. A halt does not
  reset `state_` of the leaf. `EndIsToldOnce` says nothing of what is told after an exception.
* `CancelledStops` is about performers whose deactivation does not fail, as `ActionHub` has them.
  `ExecutionEnds` does not say that a cancelled performer stops: if the result of its goal comes before the
  answer of the cancel, it is FINALIZED instead of INACTIVE (`BTActionNode.hpp:381`, `BTAction.cpp:187`), its
  timer keeps ticking, and it tells an end after the CANCEL. With an `on_tick` that ends or replaces goals
  not even this end is certain. `NothingLeftBehind` holds for such a performer once it has told its end.
* `StartupEnds` and `AsFarAsScript` leave out nodes that died or that somebody else has changed
  (`disturbed`), and a shutdown, during which the loop that waits for "inactive" never ends. A start that failed
  rolls nothing back.
* `ListedInOrder` leaves out rules that need a circle where parents are waited for, as told above.
* `InferredIsSupported` admits what came with a message (`decoded`): a message does not say which rule has
  inferred what, so that nothing retracts it (`State.cpp:64`). `UnionIsWhole` admits what has been stored and
  inferred at once (`both`): it leaves the union with the first of the two (`State.hpp:230`).
  `CutKeepsNeeded` is about graphs that still have the rules: a cut for other actions takes some away, and
  `clear()` keeps rules and forgets their edges (`cleared`).

## 4. What is proved

TLAPS proves the following for every value of the constants: any sets of executors, performers, goals,
nodes, solvers, files, names and requests, and any bound on queues and faults. The inductive invariants are
conjunctions of named parts, defined in the module of the component after its properties; TLC has
evaluated each of them on the instance of the run before it was proved. Every proof that a step keeps
an invariant has a step for each action.

* **`ActionHub_proofs`.** `TypeCorrect`; `ChoiceCorrect`, that `ChoiceInv` is an invariant;
  `DispatchIsExclusive`, that it implies `NoDuplicateExecution` when the executors have different
  ground actions (`DistinctActions`); `ChoiceIsForLife`, the action property `ChosenForLife`.
  `NoDuplicateExecution` is not inductive: two performers are active for one action only if two
  CONFIRMs were published for it, which depends on the state an executor was in when the RESPONSE was
  tested. `ChoiceInv` follows that chain: an executor that is IDLE or DEALING, or about to confirm, has
  chosen nobody (`Unchosen`); who answers manages the action (`OffersMatch`); a CONFIRM on its way is
  for the chosen performer (`ConfirmsMatch`); an active performer is the chosen one of an executor
  of its action (`ActiveIsChosen`).
  `HandOverCorrect`, `RunningHasServer`, `CommittedHasExchange`: also under `DistinctActions`, that
  `HandOverInv` is an invariant and implies `RunningIsServed` and `CommittedIsAccounted`. These two say
  that something *exists* on its way, so a step that takes a message must put the next one in its place.
  `ExchangeIsOne` therefore counts: a performer has one exchange with one executor, and it is in
  exactly one of its stages (a RESPONSE on its way, one that is looked at, an answer on its way, the
  action itself, a FINISH); that of the chosen performer is never that of another executor (`RunningIsChosen`), an
  executor that has published nothing is unheard of (`SilentIsUnheard`), and who is cancelled belongs to a
  plan that has ended (`CancelEndsPlan`). Without `DistinctActions` both are false, as section 3 says.
* **`Execution_proofs`.** Of the cycle alone: `TypeCorrect`; `GoalInvCorrect`, that `GoalInv` is an
  invariant; `TakesOneGoalAtATime`, the action property `OneGoalAtATime`; `PendingCorrect`, that
  `PendingIsKept` is one. `OneGoalAtATime` needs to know that an idle executor has reported the goal it took
  last (`IdleHasReported`), that only an active goal is aborted (`AbortIsDue`) and that handles are set
  where they are used (`HandlesAreSet`).
  Of the cycle with its client: `ServesAsAlone`, that every step of the composition is one of the cycle
  or a stutter, so that `GoalInv` holds there too; `ClientInvCorrect`; and `GoalIsInHand`, that
  `ExecutedIsInHand` is an invariant. `ClientInv` relates what the client believes of a goal (`phase`) to
  what the server has (`PhaseIsTrue`): a goal without an answer is waited for or lost (`UnansweredIsLost`), a call has
  its goal until it returns (`CallHasGoal`), a result taken for the end of the plan is that of the goal in
  hand or that goal is lost (`ResultIsOfHandler`).
* **`ProblemExpert_proofs`.** `TypeCorrect`; `ReferencesCorrect`, that `ReferencesHold` is an invariant;
  `KnowledgeIsFactBase`, that `Spec` implies `Facts!Spec`, the refinement. The invariant is `SoundInv`,
  types and groundedness together: an instance may only be added with another type because
  `removeInstance` has taken along what used it. Lemmas say of every operator of `Knowledge` that it keeps
  knowledge bases grounded and what it does to things and facts; a service then is one of the four steps of
  `FactBase`, or a stutter. A problem text is read as one such step: what it adds is about names that
  are instances or constants once its objects are added. `TextIsReadAgain`: `RoundTrip` is an invariant if the
  domain gives each
  constant one type (`OneTypeEach`; the parser does not refuse a constant listed twice, `Domain.hpp:263`, and
  its text then gives the instance of that name either type).
  Of the node with its clients, in the same module: `ServesAsNode`, that the node with clients implements the
  node alone, and so
  with `KnowledgeIsFactBase` the fact base; `CopyInvCorrect`, `CopyIsCurrent` (`CacheIsCurrent`) and
  `NoChangeIsMissed` (`ChangesAreNoticed`). `CacheIsCurrent` says nothing of a copy that is older than the
  texts that wait; the invariant adds that the *newest* text, whether it waits or has been taken, is the problem
  of the node (`LastTextIsCurrent`).
* **`State_proofs`.** `StateInvCorrect`, `CountsAreRight` (`CountsAreReferences`, a part of the next),
  `InferredHasRule`
  (`InferredIsSupported`), `UnionIsRight` (`UnionIsWhole`), for any finite sets of rules and any predicates, and
  `QueriesOnlyRead`: with the methods that list rules the state behaves like `State` alone, so that all of it
  holds there too.
  A retraction forgets the predicates whose count is 1, so that what is inferred is right only if the
  counts are, and counts are cardinalities: the lemmas say that inferring adds one rule to the set and retracting
  takes one from each (`AddingCounts`, `RetractingCounts`). That the union is whole also needs that predicates
  stored and inferred at once are remembered (`BothIsRemembered`).
  Of the graph: `GraphInvCorrect`, that `GraphInv` is an invariant, and `CutIsExact` (`CutKeepsNeeded`), for
  every domain, all actions and any earlier cuts. The code adds edges one by one in loops over unordered sets, and
  marks what it visits; the lemmas give both in closed form. Edges added in any order make the graph `Joined` with
  all of them (`AddEdgesJoins`, `AddNeedsJoins`, `SubGraphFacts`, `PruneFacts`), and what is visited is the least set
  that has the start and is closed under the edges (`ClosureIsLeastClosed`). A cut is exact because the
  nodes that are left have *all* the edges they need (`NeedsKnown`), even if other rules were taken away before;
  only `clearState`, which keeps rules and forgets edges, breaks that (`cleared`).
  Of the traversals: `RulesAreListedInOrder` (`ListedInOrder`), for every graph, every start and every order of
  iteration. `WalkInv` says that a node not yet visited is still to come from a start or from the stack; where parents
  are waited for that is not so, and `WaitInv` says instead that a node is on the stack once all its parents have been
  visited, and that what has been visited depends on no cycle. As long as a node that depends on none is missing, one
  of those it depends on is ready (`SomeNodeIsNext`): so nothing but the cycles is left out.
  `ComponentsAreInOrder` (`ComponentsInOrder`), for every graph and every order of its rules and children.
  `CircleInv` has what Tarjan's algorithm rests on: a rule under way leads to all above it on the stack, and all of
  these lead back to a rule under way (`PathInv`); a component that has been found leads into earlier ones only
  (`FoundInv`); and the lowlink of a call is the number of a rule that it leads to, no child of its part of the stack
  having a smaller one (`LowInv`). So when a call ends with its own number for a lowlink, what is above it on the stack
  is closed but for earlier components, and is the circle (`ComponentIsCircle`).
  These facts need induction over rounds, sets and sequences. It is put first-order: a set of numbers has a least
  one and a set of finite sets a smallest one (`LeastNatural`, `SmallestSet`, from the minimum of a well-founded
  relation), and the counterexamples to a claim are such a set. `StateAssumption` says that domains are finite and so
  is what a rule or an action needs.
* **`DomainExpert_proofs`.** `DomainInvCorrect`, `ConfigurationIsWhole` (`ConfiguredIsWhole`),
  `CopyOfDomainIsCurrent` (`CacheIsCurrent`). `DomainAssumption` says that every list names files that
  have a content. The argument for the copy is again about the newest text (`NewestIsCurrent`).
* **`Planner_proofs`.** `TypeCorrect`, `PlannerInvCorrect`, `AnswersAreForRequests`
  (`AnswerIsForRequest`), `ResultsAreUncancelled` (`StoppedForCause`, a part of it), `PlannersAreOver`
  (`NothingRunsOn`). Files are shared by the solvers of a directory and outlive a request, so
  `PlannerInv` tells which request each of them is for: threads are there for the request at hand
  (`ThreadsAreOfRequest`), from the problem that is written to the plan that is read everything is about it
  (`FilesAreOfRequest`), a planner whose output nobody reads is a zombie (`UnreadIsZombie`), and no solver is
  cancelled
  while results count (`CancelComesLast`).
* **`BTPerformer_proofs`.** `PerformerInvCorrect`, `TypeCorrect`, `OneEnd` (`EndIsToldOnce`),
  `SuccessHasReason` (`SuccessIsEarned`), `OnlyLostAreLeft` (`NothingLeftBehind`). `PerformerInv`
  says for each place of the thread what it has told and whether its timer exists (`ThreadIsActive`), which
  status the leaf may have and why (`StatusFits`, `StatusIsEarned`), that what is known of a goal has happened
  (`KnownIsTrue`), how the state of the leaf goes with its handles (`LeafFits`), and who looks after a goal
  that may be executed: a leaf that runs, a cancel under way, or nobody, and then it is one of the
  `unattended` (`Attended`).
* **`Startup_proofs`.** `TypeCorrect`, `StartInvCorrect`, `StaysWithScript` (`AsFarAsScript`) and
  `TrueMeansActive`: when `startup_function` returns true, every node that nobody disturbed is active.
  `StartInv` adds what is on its way: a transition that a node may still make is that of the step under way, even
  when the manager has given up waiting for it (`PendingIsOfStep`), and one answered with success has been
  made (`AnswerIsOfStep`).

Assumptions on constants are `NoPerformer`, `NoGoal` and their kind (values outside the sets they are
beside), finite or typed parameters, and the three named above: `DistinctActions`, `OneTypeEach`,
`DomainAssumption`. The first two are hypotheses of the theorems that need them, the others
are assumptions of the modules, which TLC evaluates on every run.

The type invariants `TypeOK` of these modules are proved and not listed in the runs. Only model-checked:

* all liveness properties (`StartedSettles`, `CancelledStops`, `RequestsSettle`, `StartedIsReported`,
  `EndsOrStarves`, `RequestsEnd`, `ExecutionEnds`, `StartupEnds`):
  fairness and ENABLED are out of the prover's reach;
* `GoalIfPlanned` and `FailureIsExplained` of `PlanTree`: they say what the graph of a
  plan, built by folds over its actions, makes true, and need an induction over plans;
* the four invariants of `Formulas`, whose operators are `RECURSIVE` over trees;
* `JoiningKeepsMeaning` of `DomainExpert`: what the parser makes of a joint text is computed from
  the data of the files, and was checked for the lists of the run.

## 5. What is not modelled

* **Plan builders.** `get_tree_from_plan` only loads `SimpleBTBuilder`; the STN builder is disabled and the
  sequential one makes a chain of the same subtrees. The dot graph is text. `ComputeBT` writes the tree
  that `PlanTree` ticks to a file.
* **Execution.** Feedback, the remaining plan and what the `get_plan` services answer (asking has no effect); of
  `init_plan_for_execution` and `replan_for_execution` the outcome is modelled, not the executors inherited by
  a replan,
  which looks for executors of the same action at time 0 only (`ExecutorNode.cpp:542`), and the performers
  whose answers reach executors that a replan has destroyed (`ExecutorNode.cpp:758`). `CheckTimeout`, which
  measures from the making of the tree, is not in the default tree, `CheckAction` belongs to the STN builder.
  `Startup` is the lifecycle of the executor node; that one activated again starts a second thread for
  the cycle (`ExecutorNode.cpp:211`) is not followed further.
* **Performers.** Status messages of an action server that arrive before the result or without it (the
  status of a goal is that of its result here), what authors of a performer do
  besides FEEDBACK and FINISH, the missing arguments in Python's `should_execute`, loggers and Groot.
* **Planner.** The lengths of timeouts: a value below a second is cut to zero (`PlannerNode.cpp:71`), and
  `PlannerClient.cpp:33` reads one that was never set. A kill of a process that was reaped before
  (`PlanSolverBase.cpp:89`).
* **Domain expert.** `validate_using_planner_node` calls a service from the callback that would have to take
  the answer: it always times out, so that the configuration fails; `Startup` has that as a failure to
  configure. `get_domain_constants`, which the README of the package lists (`plansys2_domain_expert`), is
  made by no node; a client in Python finds no such service. `getConstants` of an unknown type adds the type
  to a table.
* **Parser.** Tokens, numbers, `parser::pddl::Instance`, printing, and what a malformed text does before it
  is refused.
* **`State` and `DerivedResolutionGraph`.** Printing, the DOT export, hashes, and the equality of whole graphs,
  which compares numbers that nodes get in the order in which they are added. `hasDerivedPredicates`, whose
  result is the opposite of its name (`getEdgeNumber() == 0`), and the other getters.
* Terminal, tools, bringup and tests are input and output.

## 6. Plan

Done: goals, hub and performers; the plan's graph and tree; the experts, their clients and what is evaluated
with them; the planner; the start-up; `State` and its rules; the safety invariants of all state machines but
`PlanTree` and `Formulas` proved.
What could come next, in this order:

1. Proofs: the parts of `PlanTree` that do not depend on how the graph was built (the order of the stages, the
   action properties of the tree).
2. The composition of cycle, tree and hub for a replan: inherited executors, effects applied once, performers
   of the old plan released.
3. `SequentialBTBuilder` beside `PlanGraph`, and numeric effects in both.
