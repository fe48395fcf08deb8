SPECIFICATION Spec
CONSTANTS
    None = None
    Objects <- FileObjects
    Kind <- FileKind
    CaseOf <- FileCase
    Refs <- FileRefs
    Reviewed = {"finding"}
    Unsupported = {"note"}
    Threads = {"t1", "t2"}
    Connections = {"k"}
    ConnectionOf <- SharedConnection
INVARIANT ObjectsAudited
