\* All texts up to a length, read call by call.
SPECIFICATION Spec
CONSTANTS
    Inputs <- MCInputs
    MaxInteger = 10
INVARIANTS
    TypeOK
    SymbolIsItsText
    TokenIsItsSymbols
    PositionIsCounted
PROPERTIES
    CallReturns
CHECK_DEADLOCK FALSE
