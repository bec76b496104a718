\* The client sends and cancels two goals.
CONSTANTS
    g1 = g1
    g2 = g2
    Goals <- MCGoals
    ClientGoals <- MCClientGoals
    NoGoal = NoGoal
    Overlapping = TRUE
    Languages = {"cpp", "py"}
SPECIFICATION ComposedSpec
INVARIANTS
    ExecutedIsInHand
    PendingIsKept
PROPERTIES
    OneGoalAtATime
    RequestsSettle
    StartedIsReported
\* Clients may stop sending goals; the executor then waits for ever.
CHECK_DEADLOCK FALSE
