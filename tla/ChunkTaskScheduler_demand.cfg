CONSTANTS
    c1 = c1  c2 = c2  r1 = r1  r2 = r2
    Chunks <- Two
    Top = 2
    Border = 1
    Required <- Required2
    Area <- Area2
    Requests = {r1}
    Wanted <- WantNext
    Path <- Rising
    Outcomes = {"hit", "missing"}
    Workers = {w1, w2}
    None = None
SPECIFICATION FairSpec
INVARIANTS ReferencesExact
PROPERTIES RequestsAnswered TicketsHonoured
CHECK_DEADLOCK FALSE
