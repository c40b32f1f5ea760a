\* Two requests with one single-use voucher; nothing fails.
CONSTANTS
    Clients = {c1}
    MaxAttempts = 2
    Window = 1
    Lockout = 1
    Handlers = {p1, p2}
    Admins = {a1}
    Vouchers = {v1}
    Unknown = Unknown
    MaxUses <- Once
    MaxTime = 0
    MaxRequests = 2
    MaxDeletes = 0
    MaxCrashes = 0
    CanFail = FALSE
SPECIFICATION Spec
INVARIANTS NoReuse
\* The bounded requests and the clock run out, nothing is left to do.
CHECK_DEADLOCK FALSE
