\* The caches under every legal sequence of stack operators and writes.  Two
\* values, so that an answer shows which dictionary it came from.
SPECIFICATION Spec
CONSTANTS
    op = op  x = x  message = message  newerror = newerror
    v1 = v1  v2 = v2
    systemdict = systemdict  globaldict = globaldict
    userdict = userdict  errordict = errordict
    Name = {op, x}
    Value = {v1, v2}
    Dict <- MCDict
    SystemDict = systemdict  GlobalDict = globaldict
    UserDict = userdict  ErrorDict = errordict
    Null = Null  Freed = Freed  Unbound = Unbound
    BaseNames = {op}
    StopName = op  EndName = op
    ErrNames = {}
    EraseNames = {}
    Arrays <- MCArrays
    Definable = {x}
    Narrowable = {userdict}
    InitBind <- MCInitBind
    MaxDepth = 4
    MaxRefs = 2
INVARIANTS
    TypeOK
    LookupIsTopmost
    BaseIsBottom
    RefsCoverStack
    SnapshotFresh
PROPERTIES
    ImplementsNamespaces
    LockedUnchanged
CHECK_DEADLOCK FALSE
