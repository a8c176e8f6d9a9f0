CONSTANTS
    c1 = c1  c2 = c2  r1 = r1  r2 = r2
    Chunks <- Two
    Top = 2
    Border = 1
    Required <- Required2
    Area <- Area2
    Requests = {}
    Wanted <- WantNothing
    Path <- Leaving
    Outcomes = {"missing"}
    Workers = {w1, w2}
    None = None
SPECIFICATION Spec
INVARIANT ReferencesExact
CHECK_DEADLOCK FALSE
