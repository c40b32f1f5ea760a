CONSTANTS
    q1 = q1
    q2 = q2
    q3 = q3
    b1 = b1
    Requests = {q1, q2, q3}
    Bookings = {b1}
    NoBooking = NoBooking
    NoGrant = NoGrant
    ListLimit = 1
SPECIFICATION FairSpec
INVARIANTS TypeOK DuplicatesBounded RepliesTrue
PROPERTY ListedDueClose
CHECK_DEADLOCK FALSE
