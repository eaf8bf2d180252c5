\* A list inside a longer one.
SPECIFICATION Spec
CONSTANTS
    integer = integer  double = double  string = string
    Type <- MCType
    AnyType = AnyType  NullType = NullType
    f = f  g = g
    Func = {f, g}  NoFunc = NoFunc
    ParamLists <- MCShortAndLong
    Stacks <- MCStacks
    MaxVariants = 2
INVARIANTS
    VariantAnswers
