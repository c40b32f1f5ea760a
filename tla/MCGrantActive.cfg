\* A controller that may answer without success.
CONSTANTS
    Grants = {g1}
    Requests = {p1}
    Passes = {loop}
    Vouchers = {v1, v2}
    NoVoucher = NoVoucher
    NoGrant = NoGrant
    MaxTime = 2
    Grace = 0
    MaxRetries = 0
    MaxRequests = 1
    MaxCrashes = 0
    MaxErrors = 0
    Offsets = {0}
    Faults = {"failure"}
SPECIFICATION Spec
INVARIANTS ActiveMeansProvisioned
\* The bounded requests served and the clock run out, nothing is left to do.
CHECK_DEADLOCK FALSE
