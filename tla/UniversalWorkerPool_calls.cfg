CONSTANTS
    a = a  b = b
    Tasks <- TwoTasks
    Priority <- Urgent
    Clients = {main, other}
    Owner = main
    Workers = {w1, w2}
    Api = {"abort", "cancel", "prune", "wait", "shutdown"}
    None = None
SPECIFICATION FairSpec
INVARIANTS ToldOnce
PROPERTIES ImplementsTaskPool WaitMeansIdle WaitReturns ShutdownReturns
CHECK_DEADLOCK FALSE
