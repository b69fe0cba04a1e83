\* Two calls, and a log that one of them can fill.
CONSTANTS
    ToolCall = {t1, t2}
    MaxLog = 2
    None = None
SPECIFICATION Spec
SYMMETRY Symmetry
INVARIANTS
    TypeOK
    DryRunsChangeNothing
    RefusalsAreFinal
    DeniedAppliesAreErrors
    GuardErrsOnlyOnUnclearReplies
    LatestCallsAreLogged
PROPERTY
    ImplementsPromises
