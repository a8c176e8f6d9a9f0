CONSTANTS
    a = a  b = b  c = c  x = x  y = y
    Tasks <- MCTasks
    Keys <- MCKeys
    Region <- Bridge
    Priority <- Urgent
    Throwing = {c}
    Clients = {main}
    Workers = {w1, w2}
    Abortable = {}
    Api = {"cancel"}
    None = None
SPECIFICATION Spec
INVARIANTS RegionsDisjoint WaitingCountsBlockers ClaimAndRemovalSafe
PROPERTIES ImplementsRegionTasks StalePermitStaysStale
SYMMETRY WorkerSymmetry
CHECK_DEADLOCK FALSE
