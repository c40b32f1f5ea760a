\* Two guests at one address, or one twice, and an administrator.
CONSTANTS
    Clients = {c1}
    MaxAttempts = 2
    Window = 1
    Lockout = 1
    Handlers = {p1, p2}
    Admins = {a1}
    Vouchers = {v1}
    Unknown = Unknown
    MaxUses <- Twice
    MaxTime = 2
    MaxRequests = 4
    MaxDeletes = 1
    MaxCrashes = 1
    CanFail = TRUE
SPECIFICATION Spec
SYMMETRY Interchangeable
INVARIANTS TypeOK AttemptsBounded OverLimitMeansLocked VoucherRowsConsistent UsesCounted
PROPERTIES DeactivatedUnused ImplementsContract
\* The bounded requests and the clock run out, nothing is left to do.
CHECK_DEADLOCK FALSE
