SPECIFICATION Spec
CONSTANTS
    Players = {p}
    MaxCalls = 3
    None = None
INVARIANTS Isolated
CHECK_DEADLOCK FALSE
