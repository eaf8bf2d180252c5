\* Every construct nested in every other one, and left in every way; signals at any step.
SPECIFICATION Spec
CONSTANTS
    Programs <- AllPrograms
    Procedures <- MCProcedures
    Literals <- MCLiterals
    ConstNames <- MCConstNames
    Tries <- MCTries
    IntBits = 4
    MaxOperands = 12
    MaxExec = 24
INVARIANTS
    TypeOK
    FramesIntact
    StaleOpIsUnwinding
    EndsAsMeant
PROPERTIES
    SignalTaken
