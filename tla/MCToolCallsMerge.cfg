\* An apply whose reply has a count of zero and a list of one id.
CONSTANTS
    ToolCall = {t1, t2}
    MaxLog = 2
    None = None
SPECIFICATION Spec
SYMMETRY Symmetry
INVARIANTS
    NotExecutedMeansUnchanged
