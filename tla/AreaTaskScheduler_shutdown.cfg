CONSTANTS
    a = a  b = b  c = c  x = x  y = y
    Tasks <- MCTasks
    Keys <- MCKeys
    Region <- Bridge
    Priority <- Normal
    Throwing = {}
    Clients = {main}
    Workers = {w1}
    Abortable = {b}
    Api = {"shutdown", "stopPool", "cancel", "abort", "prune"}
    None = None
SPECIFICATION FairSpec
INVARIANTS ShutdownLeavesNothing PendingKeepsBody
PROPERTIES AcceptedTasksEnd ShutdownReturns
CHECK_DEADLOCK FALSE
