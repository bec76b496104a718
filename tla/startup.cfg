\* Two faults: a node that dies and one that is changed, or the same twice.
CONSTANTS
    MaxFaults = 2
    NoRequest = NoRequest
SPECIFICATION Spec
INVARIANTS
    AsFarAsScript
PROPERTIES
    StartupEnds
\* The start has ended, or waits for ever for an answer that is lost.
CHECK_DEADLOCK FALSE
