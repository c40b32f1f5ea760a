\* Two overlapping handlers, one pass, a retry, a failing database session and a
\* crash, under fairness.
CONSTANTS
    Grants = {g1}
    Requests = {p1, p2}
    Passes = {loop}
    Vouchers = {v1}
    NoVoucher = NoVoucher
    NoGrant = NoGrant
    MaxTime = 2
    Grace = 0
    MaxRetries = 1
    MaxRequests = 2
    MaxCrashes = 1
    MaxErrors = 1
    Offsets = {0}
    Faults = {"exception", "late_effect", "no_controller"}
SPECIFICATION FairSpec
PROPERTIES DueGrantsClose
\* The bounded requests served and the clock run out, nothing is left to do.
CHECK_DEADLOCK FALSE
