\* errordict on the stack while raiseerror and print_error write it, and
\* programs that bind the names the C++ code fetches from the base.
SPECIFICATION Spec
CONSTANTS
    op = op  x = x  message = message  newerror = newerror
    v1 = v1  v2 = v2
    systemdict = systemdict  globaldict = globaldict
    userdict = userdict  errordict = errordict
    Name = {op, message, newerror}
    Value = {v1}
    Dict <- MCDict
    SystemDict = systemdict  GlobalDict = globaldict
    UserDict = userdict  ErrorDict = errordict
    Null = Null  Freed = Freed  Unbound = Unbound
    BaseNames = {op}
    StopName = op  EndName = op
    ErrNames = {message, newerror}
    EraseNames = {message}
    Arrays <- MCFewArrays
    Definable = {op}
    Narrowable = {}
    InitBind <- MCInitBind
    MaxDepth = 4
    MaxRefs = 2
INVARIANTS
    CacheCoherent
    BasecacheCoherent
CHECK_DEADLOCK FALSE
