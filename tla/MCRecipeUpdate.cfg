SPECIFICATION Spec
CONSTANTS
    UpdateCalls = {u1, u2}
    Edits = {e1, e2}
    Carried = {tools}
    Uncarried = {glassware}
    Original = Original
    Empty = Empty
    Cleared = Cleared
    None = None
SYMMETRY Symmetry
INVARIANTS
    TypeOK
    LostWritesRaced
    ClearedOnlyBlindly
PROPERTY UpdatesDoAsAsked
