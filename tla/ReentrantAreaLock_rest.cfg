CONSTANTS
    a = a  b = b  c = c  main = main  w = w  x = x
    Threads = {main, w, x}
    Sections = {a, b, c}
    Areas <- MCAreas
    Nesting = {}
    Programs <- Crossing
    Slots <- MCSlots
    NoNode = NoNode
SPECIFICATION Spec
INVARIANTS RestsOnlyFree
CHECK_DEADLOCK FALSE
