SPECIFICATION Spec
CONSTANTS
    UpdateCalls = {u1}
    Edits = {}
    Carried = {tools}
    Uncarried = {glassware}
    Original = Original
    Empty = Empty
    Cleared = Cleared
    None = None
INVARIANT FullPayload
