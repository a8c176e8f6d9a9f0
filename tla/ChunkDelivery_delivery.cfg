SPECIFICATION Spec
CONSTANTS
    Players = {p}
    MaxCalls = 4
    None = None
INVARIANTS NoGhost UpToDate TicketIsOwed LitOnce
PROPERTIES Delivered
CHECK_DEADLOCK FALSE
