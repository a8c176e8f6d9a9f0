CONSTANTS
    forced = forced  portal = portal  cooldown = cooldown
    Chunks <- Row4
    Distance <- Distance4
    MaxLevel = 3
    Full = 2
    Tickets <- Kinds
    Level <- LevelOf
    Lifespan <- LifespanOf
    Forced = forced
    Registrable <- TimedAtTwo
    Players = {p1, p2}
    Spots = {2, 3}
    ViewDistances = {0, 1}
    FirstView = 1
    MaxCalls = 3
    None = None
SPECIFICATION Spec
INVARIANTS SourcesExact
CHECK_DEADLOCK FALSE
