\* Two dictionaries opened inside stopped, which stop then leaves.
SPECIFICATION Spec
CONSTANTS
    Programs <- StopProgram
    Procedures <- MCProcedures
    Literals <- MCLiterals
    ConstNames <- MCConstNames
    Tries <- MCTries
    IntBits = 4
    MaxOperands = 12
    MaxExec = 24
INVARIANTS
    StopRestoresDictionaries
