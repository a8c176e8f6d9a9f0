SPECIFICATION Spec
CONSTANTS
    w1 = w1
    Workers = {w1}
    Main = Main
    None = None
    MaxHolders = 2
    MaxMoves = 2
    MaxCalls = 1
    MaxEdits = 0
INVARIANTS CleanIsStored
CHECK_DEADLOCK FALSE
