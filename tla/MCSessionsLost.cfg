CONSTANTS
    h1 = h1
    h2 = h2
    Handlers = {h1, h2}
    Requests = {}
    Updates <- MCUpdates
    ThemeRow = ThemeRow
    Rows <- MCRows
    Values <- MCValues
    Absent = Absent
    Inserted = Inserted
    NoWrite = NoWrite
    NoObject = NoObject
    TTL = 1
SPECIFICATION Spec
INVARIANT AcknowledgedKept
SYMMETRY Symmetric
CHECK_DEADLOCK FALSE
