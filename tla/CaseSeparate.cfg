SPECIFICATION Spec
CONSTANTS
    None = None
    Objects <- FileObjects
    Kind <- FileKind
    CaseOf <- FileCase
    Refs <- FileRefs
    Reviewed = {"finding"}
    Unsupported = {"note"}
    Threads = {"t1", "t2"}
    Connections = {"t1", "t2"}
    ConnectionOf <- OwnConnection
INVARIANT TypeOK
INVARIANT AuditChain
INVARIANT ObjectsAudited
INVARIANT ReferencesHold
INVARIANT AckedIsLogged
PROPERTY ImplementsPromise
