\* A predicate that two rules infer and that may be stored as well.  Three rules are
\* the least in which a cycle has a rule before it or behind it.
CONSTANTS
    Objects = {door}
    Ground = {"open door"}
    HeadOf <- MCHeadOf
    Domains <- MCDomains
    Actions <- MCActions
SPECIFICATION QuerySpec
INVARIANTS
    InferredIsSupported
    UnionIsWhole
    ListedInOrder
    ComponentsInOrder
PROPERTIES
    CutKeepsNeeded
