CONSTANTS
    a = a  b = b  c = c  main = main  w = w  x = x
    Threads = {main, w, x}
    Sections = {a, b, c}
    Areas <- MCAreas
    Nesting = {main}
    Programs <- Unloading
    Slots <- MCSlots
    NoNode = NoNode
SPECIFICATION FairSpec
PROPERTIES ParkedIsWoken
CHECK_DEADLOCK FALSE
