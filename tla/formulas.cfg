\* Two jobs of the executor, two changes by others, one call without an answer.
CONSTANTS
    None = None
    Names <- MCNames
    Types <- MCTypes
    Constants <- MCConstants
    Signature <- MCSignature
    Predicates <- MCPredicates
    Functions <- MCFunctions
    Values = {0, 1, 2, 3, 4, 5}
    Rules <- MCRules
    Subgoals = {}
    Conditions <- MCConditions
    Effects <- MCEffects
    Start <- MCStart
    Assigned = {2}
    MaxJobs = 2
    MaxChanges = 2
    MaxLost = 1
SPECIFICATION Spec
INVARIANTS
    CheckIsExplained
    AppliedIsWhole
    ForeseenIsDone
    TextKeepsMeaning
CHECK_DEADLOCK FALSE
