CONSTANTS
    a = a  b = b  c = c  x = x  y = y
    Tasks <- MCTasks
    Keys <- MCKeys
    Region <- Bridge
    Priority <- Urgent
    Throwing = {c}
    Clients = {main}
    Workers = {w1, w2}
    Abortable = {b}
    Api = {"shutdown", "stopPool", "cancel", "abort", "prune"}
    None = None
SPECIFICATION Spec
INVARIANTS NoPermitLost ToldOnce OutstandingIsExact RestsOnlySettled
SYMMETRY WorkerSymmetry
CHECK_DEADLOCK FALSE
