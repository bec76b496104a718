\* One name of each kind, and every request there is about them.
CONSTANTS
    None = None
    Names <- MCNames
    Types <- MCTypes
    Constants <- MCConstants
    Signature <- MCSignature
    Predicates <- MCPredicates
    Functions <- MCFunctions
    Values <- MCValues
    Rules <- MCRules
    Subgoals <- MCSubgoals
    RequestedTypes <- MCRequestedTypes
    RequestedGoals <- MCGoals
    Problems <- MCProblems
    ProblemFile <- MCProblemFile
SPECIFICATION Spec
INVARIANTS
    ReferencesHold
    RoundTrip
PROPERTIES
    ImplementsFactBase
