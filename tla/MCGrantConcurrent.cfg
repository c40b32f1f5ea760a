\* Two handlers and one expiry pass on one grant; bad replies, a failing database
\* session and a crash.
CONSTANTS
    Grants = {g1}
    Requests = {p1, p2}
    Passes = {loop}
    Vouchers = {v1, v2}
    NoVoucher = NoVoucher
    NoGrant = NoGrant
    MaxTime = 2
    Grace = 1
    MaxRetries = 0
    MaxRequests = 3
    MaxCrashes = 1
    MaxErrors = 1
    Offsets = {0}
    Faults = {"failure", "exception"}
SPECIFICATION RaceSpec
SYMMETRY Interchangeable
INVARIANTS TypeOK RowsConsistent ChangesAudited NoOrphanVoucher ClosedMeansCutOff ActiveMeansAccess
PROPERTIES ImplementsContract
\* The bounded requests served and the clock run out, nothing is left to do.
CHECK_DEADLOCK FALSE
