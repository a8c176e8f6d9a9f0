CONSTANTS
    a = a  b = b  c = c  x = x  y = y
    Tasks <- MCTasks
    Keys <- MCKeys
    Region <- Bridge
    Priority <- Normal
    Throwing = {a}
    Clients = {main}
    Workers = {w1}
    Abortable = {}
    Api = {}
    None = None
SPECIFICATION Spec
INVARIANTS AssertionsHold
CHECK_DEADLOCK FALSE
