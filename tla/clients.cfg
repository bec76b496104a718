\* One client with every method of both languages, and others beside it.
CONSTANTS
    None = None
    Names <- MCNames
    Types <- MCTypes
    Constants <- MCConstants
    Signature <- MCSignature
    Predicates <- MCPredicates
    Functions <- MCFunctions
    Values = {1}
    Rules = {}
    Subgoals = {}
    RequestedTypes <- MCTypes
    RequestedGoals <- MCGoals
    Problems <- MCProblems
    ProblemFile = None
    Methods <- MCMethods
    Services <- MCServices
    MaxInbox = 1
SPECIFICATION ClientSpec
INVARIANTS
    CacheIsCurrent
    ChangesAreNoticed
CHECK_DEADLOCK FALSE
