CONSTANTS
    MaxLength = 5
    Plans <- MCPlans
    Initially <- MCInitially
SPECIFICATION FairSpec
INVARIANTS
    GoalIfPlanned
    FailureIsExplained
PROPERTY EndsOrStarves
CHECK_DEADLOCK FALSE
