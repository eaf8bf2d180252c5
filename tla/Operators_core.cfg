\* Programs on containers, on shared ones, on saved states, and on every pair of numbers.
SPECIFICATION Spec
CONSTANTS
    MaxObjects = 9
    CharSize = 2
    Modulus = 32
    LongBits = 5
    IntBits = 4
    Precision = 2
    MaxFinite = 96
    Order <- ContainerOrder
    Libm <- MCLibm
    Programs <- AllPrograms
    RawReads <- MCRawReads
    MaxStack = 4
INVARIANTS
    TypeOK
    UnreadableIsBlind
    RoundTrips
    CompactIsLeaf
    ComparisonsAreAnOrder
    NumbersAgree
PROPERTIES
    FailureLeavesOperands
    NarrowedIsFrozen
    LeaksAreKnown
    ExtensionIsPrivate
    ResultsAreOwn
    SavedStateIsWhole
