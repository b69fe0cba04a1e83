SPECIFICATION Spec
CONSTANTS
    Deletes = {d1}
    Recipes = {r1, r2}
    Mentions = {"not", "listed", "garnish"}
    PageLimit = 2
    MaxScan = 4
    None = None
INVARIANT ReferencedDeletesAreBlocked
