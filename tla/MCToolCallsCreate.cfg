\* A create_recipe whose reply says dry_run=true.
CONSTANTS
    ToolCall = {t1, t2}
    MaxLog = 2
    None = None
SPECIFICATION Spec
SYMMETRY Symmetry
INVARIANTS
    EveryToolIsGuarded
