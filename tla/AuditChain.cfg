SPECIFICATION AuditSpec
CONSTANTS
    Workspaces = {ws1, ws2}
    Actions = {a1, a2}
    Appenders = {w1, w2}
    MaxEntries = 4
SYMMETRY Interchangeable
INVARIANT Anchored
CHECK_DEADLOCK FALSE
