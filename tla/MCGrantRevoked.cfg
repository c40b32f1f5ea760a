\* A revocation during a slow activation; a controller without faults.
CONSTANTS
    Grants = {g1}
    Requests = {p1, p2}
    Passes = {loop}
    Vouchers = {v1, v2}
    NoVoucher = NoVoucher
    NoGrant = NoGrant
    MaxTime = 2
    Grace = 0
    MaxRetries = 0
    MaxRequests = 2
    MaxCrashes = 0
    MaxErrors = 0
    Offsets = {0}
    Faults = {}
SPECIFICATION Spec
PROPERTIES RevokedStaysRevoked
\* The bounded requests served and the clock run out, nothing is left to do.
CHECK_DEADLOCK FALSE
