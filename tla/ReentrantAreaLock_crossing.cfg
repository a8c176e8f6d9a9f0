CONSTANTS
    a = a  b = b  c = c  main = main  w = w  x = x
    Threads = {main, w, x}
    Sections = {a, b, c}
    Areas <- MCAreas
    Nesting = {}
    Programs <- Crossing
    Slots <- MCSlots
    NoNode = NoNode
SPECIFICATION FairSpec
INVARIANTS WokenOnce
PROPERTIES ImplementsAreaOwnership ParkedIsWoken
CHECK_DEADLOCK FALSE
