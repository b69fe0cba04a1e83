SPECIFICATION Spec
CONSTANTS
    Deletes = {d1}
    Recipes = {r1, r2, r3}
    Mentions = {"not", "listed"}
    PageLimit = 2
    MaxScan = 4
    None = None
INVARIANTS
    TypeOK
    UnforcedDeletesWereUnused
    QuietScansCount
PROPERTIES
    ScanAdvances
    ScanEnds
