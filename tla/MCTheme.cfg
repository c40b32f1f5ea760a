CONSTANTS
    h1 = h1
    h2 = h2
    h3 = h3
    Handlers = {h1, h2, h3}
    Requests = {h1, h2}
    Updates <- MCUpdates
    ThemeRow = ThemeRow
    Rows <- MCRows
    Values <- MCValues
    Absent = Absent
    Inserted = Inserted
    NoWrite = NoWrite
    NoObject = NoObject
    TTL = 2
SPECIFICATION FairSpec
INVARIANTS TypeOK AloneMeansKept CacheAgrees
PROPERTY StaleThemeExpires
CHECK_DEADLOCK FALSE
