\* Two clients, two scopes; two flows, so that one can be approved twice.
CONSTANTS
    Clients = {c1, c2}
    Scopes = {profile, email}
    DefaultScopes = {profile, email}
    FlowIds = {f1, f2}
    CodeIds = {k1, k2}
    TokenIds = {r1, r2}
    FlowTTL = 1
    CodeTTL = 1
    RefreshTTL = 1
    Horizon = 3
    Absent = Absent
SPECIFICATION Spec
SYMMETRY Symmetry
INVARIANTS
    TypeOK
    SingleCredential
    OneCodePerFlow
    WithinConsent
PROPERTIES
    TimelyRedemption
    ImplementsLifecycle
