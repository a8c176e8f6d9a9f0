SPECIFICATION Spec
CONSTANTS
    w1 = w1
    Workers = {w1}
    Main = Main
    None = None
    MaxHolders = 2
    MaxMoves = 2
    MaxCalls = 2
    MaxEdits = 0
INVARIANTS CandidatesQueued
CHECK_DEADLOCK FALSE
