\* Two goals, and one interruption by the tree.
CONSTANTS
    MaxGoals = 2
    MaxInterrupts = 1
    NoGoal = NoGoal
    Setups <- MCSetups
SPECIFICATION Spec
INVARIANTS
    EndIsToldOnce
    SuccessIsEarned
    NothingLeftBehind
PROPERTIES
    ExecutionEnds
\* A performer that nobody asks anything waits.
CHECK_DEADLOCK FALSE
