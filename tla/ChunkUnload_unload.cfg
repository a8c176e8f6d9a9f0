SPECIFICATION Spec
CONSTANTS
    w1 = w1
    w2 = w2
    Workers = {w1, w2}
    Main = Main
    None = None
    MaxHolders = 2
    MaxMoves = 2
    MaxCalls = 1
    MaxEdits = 0
INVARIANTS RemovedIsUnused OneUnload LoadsAreAwaited NothingLost
PROPERTIES UnloadsEnd RequestsEnd LevelsArrive
CHECK_DEADLOCK FALSE
