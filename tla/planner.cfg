\* Both nodes, two solvers, and a request for each service.
CONSTANTS
    None = None
    s1 = s1
    s2 = s2
    Languages = {"cpp", "python"}
    Solvers = {s1, s2}
    Directories = {"d1", "d2"}
    Layouts <- MCLayouts
    Requests = {"q1", "q2"}
    Installed <- MCInstalled
    BaseClass = "PlanSolverBase"
SPECIFICATION SpecWithEnds
INVARIANTS
    AnswerIsForRequest
    NothingRunsOn
PROPERTIES
    RequestsEnd

CHECK_DEADLOCK FALSE
