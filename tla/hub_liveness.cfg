\* Two actions that compete for one performer; every thread makes progress.
SPECIFICATION FairSpec
CONSTANTS
  e1 = e1
  e2 = e2
  p1 = p1
  p2 = p2
  Executors <- MCExecutors
  Performers <- MCAlone
  ActionOf <- MCActionOf
  Predecessors <- MCNoOrder
  Managed <- MCManaged
  Specialized <- MCSpecialized
  AnyArgument = ""
  Fallible = {}
  NoExecutor = NoExecutor
  NoPerformer = NoPerformer
  MaxQueue = 1
PROPERTIES
  StartedSettles
  CancelledStops
CHECK_DEADLOCK FALSE
