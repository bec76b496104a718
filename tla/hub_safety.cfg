\* Two independent actions, two performers of which the second is specialized
\* and may fail to activate.
SPECIFICATION Spec
CONSTANTS
  e1 = e1
  e2 = e2
  p1 = p1
  p2 = p2
  Executors <- MCExecutors
  Performers <- MCPerformers
  ActionOf <- MCActionOf
  Predecessors <- MCNoOrder
  Managed <- MCManaged
  Specialized <- MCSpecialized
  AnyArgument = ""
  Fallible = {p2}
  NoExecutor = NoExecutor
  NoPerformer = NoPerformer
  MaxQueue = 1
INVARIANTS
  NoDuplicateExecution
  RunningIsServed
  CommittedIsAccounted
PROPERTIES
  ChosenForLife
\* Once the plan has ended and every performer is idle, nothing remains to be done.
CHECK_DEADLOCK FALSE
