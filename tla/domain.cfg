\* Eight lists of files, changed and configured at any time.
CONSTANTS
    None = None
    Content <- MCContent
    Known <- MCKnown
    ModelFiles <- MCModelFiles
    Asked <- MCAsked
    Methods <- MCMethods
    Services <- MCNodeServices
    MaxInbox = 1
SPECIFICATION Spec
INVARIANTS
    ConfiguredIsWhole
    CacheIsCurrent
    JoiningKeepsMeaning
CHECK_DEADLOCK FALSE
