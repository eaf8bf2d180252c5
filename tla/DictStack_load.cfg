\* load against its comment, for a name the C++ code fetches from the base.
SPECIFICATION Spec
CONSTANTS
    op = op  x = x  message = message  newerror = newerror
    v1 = v1  v2 = v2
    systemdict = systemdict  globaldict = globaldict
    userdict = userdict  errordict = errordict
    Name = {op, x}
    Value = {v1}
    Dict <- MCDict
    SystemDict = systemdict  GlobalDict = globaldict
    UserDict = userdict  ErrorDict = errordict
    Null = Null  Freed = Freed  Unbound = Unbound
    BaseNames = {op}
    StopName = op  EndName = op
    ErrNames = {}
    EraseNames = {}
    Arrays <- MCArrays
    Definable = {op, x}
    Narrowable = {userdict}
    InitBind <- MCInitBind
    MaxDepth = 4
    MaxRefs = 2
INVARIANTS
    LoadStartsAtTop
CHECK_DEADLOCK FALSE
