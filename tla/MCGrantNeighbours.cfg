\* Two grants in the hands of a handler and the expiry pass, with times of two zones.
CONSTANTS
    Grants = {g1, g2}
    Requests = {p1}
    Passes = {loop}
    Vouchers = {v1, v2}
    NoVoucher = NoVoucher
    NoGrant = NoGrant
    MaxTime = 2
    Grace = 0
    MaxRetries = 0
    MaxRequests = 3
    MaxCrashes = 0
    MaxErrors = 0
    Offsets = {0, 1}
    Faults = {}
SPECIFICATION RaceSpec
SYMMETRY Interchangeable
INVARIANTS RowsConsistent NoOrphanVoucher ClosedMeansCutOff ActiveMeansAccess
PROPERTIES ImplementsContract
\* The bounded requests served and the clock run out, nothing is left to do.
CHECK_DEADLOCK FALSE
