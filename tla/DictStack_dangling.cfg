\* print_error against the comment of undef.
SPECIFICATION Spec
CONSTANTS
    op = op  x = x  message = message  newerror = newerror
    v1 = v1  v2 = v2
    systemdict = systemdict  globaldict = globaldict
    userdict = userdict  errordict = errordict
    Name = {op, message, newerror}
    Value = {v1}
    Dict <- MCDict
    SystemDict = systemdict  GlobalDict = globaldict
    UserDict = userdict  ErrorDict = errordict
    Null = Null  Freed = Freed  Unbound = Unbound
    BaseNames = {op}
    StopName = op  EndName = op
    ErrNames = {message, newerror}
    EraseNames = {message}
    Arrays <- MCFewArrays
    Definable = {message, newerror}
    Narrowable = {}
    InitBind <- MCInitBind
    MaxDepth = 4
    MaxRefs = 2
INVARIANTS
    NoDanglingSlot
CHECK_DEADLOCK FALSE
