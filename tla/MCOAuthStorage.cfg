SPECIFICATION Spec
CONSTANTS
    Ops = {o1, o2, o3}
    Keys = {k1, k2}
    Missing = Missing
    Torn = Torn
    None = None
INVARIANTS
    TypeOK
    AlwaysReadable
PROPERTIES
    LockIsGivenUp
    ImplementsMaps
    OperationsEnd
