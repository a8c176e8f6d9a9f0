CONSTANTS
    a = a  b = b  c = c  x = x  y = y
    Tasks <- MCTasks
    Keys <- MCKeys
    Region <- Bridge
    Priority <- Normal
    Throwing = {}
    Clients = {main}
    Workers = {w1}
    Abortable = {}
    Api = {"shutdown"}
    None = None
SPECIFICATION Spec
INVARIANTS NoNullBody
CHECK_DEADLOCK FALSE
