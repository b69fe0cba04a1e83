CONSTANTS
    Keys = {k1, k2}
    Resources = {own, other}
    Own = own
    TTL = 2
    Horizon = 4
    Missing = missing
    Torn = torn
    None = none
SPECIFICATION Spec
INVARIANTS
    TypeOK
    TokensSurviveRestarts
    TornOnlyBeforeFirstToken
PROPERTIES
    KeyFixedByFirstToken
    RestartsRecover
