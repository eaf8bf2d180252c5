\* return against the tail call.
SPECIFICATION Spec
CONSTANTS
    Programs <- ReturnProgram
    Procedures <- MCProcedures
    Literals <- MCLiterals
    ConstNames <- MCConstNames
    Tries <- MCTries
    IntBits = 4
    MaxOperands = 12
    MaxExec = 24
INVARIANTS
    ReturnLeavesNearestProcedure
