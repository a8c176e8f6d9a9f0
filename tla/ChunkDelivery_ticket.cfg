SPECIFICATION Spec
CONSTANTS
    Players = {p}
    MaxCalls = 3
    None = None
INVARIANTS TicketAlwaysOwed
CHECK_DEADLOCK FALSE
