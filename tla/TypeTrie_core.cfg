\* Variants added in every order, and every stack against every trie.
SPECIFICATION Spec
CONSTANTS
    integer = integer  double = double  string = string
    Type <- MCType
    AnyType = AnyType  NullType = NullType
    f = f  g = g
    Func = {f, g}  NoFunc = NoFunc
    ParamLists <- MCParamLists
    Stacks <- MCStacks
    MaxVariants = 3
INVARIANTS
    WildcardLast
    TrieIsVariants
    LookupIsGreedy
