--------------------------- MODULE BookingIngestion ---------------------------
(***************************************************************************)
(* How bookings become grants: POST /api/grants, POST                      *)
(* /api/grants/ingest-event and the portal all end in                      *)
(* GrantManager.create_grant; and how far back list_grants, with which     *)
(* the duplicate checks and the expiry scheduler see the table, reaches.   *)
(*                                                                         *)
(* A request looks for its booking in the newest ListLimit grants, then    *)
(* again by booking id, and inserts in a third session.  A grant is named  *)
(* after the request that made it, and stamped with created_at before the  *)
(* insert.  booking_id is not unique in the table.  Each session is one    *)
(* step here (SharedConnection has the sessions that overlap).  What a     *)
(* grant goes through afterwards is GrantLifecycle; here it becomes due    *)
(* and is closed.                                                          *)
(***************************************************************************)
EXTENDS Naturals, FiniteSets

CONSTANTS
    Requests,
    Bookings,
    NoBooking,    \* booking_id IS NULL
    NoGrant,
    ListLimit     \* the limit list_grants is called with

ASSUME BookingAssumption ==
    /\ IsFiniteSet(Requests)
    /\ NoBooking \notin Bookings /\ NoGrant \notin Requests
    /\ ListLimit \in Nat \ {0}

VARIABLES
    rows,      \* the grants in the table
    stamp,     \* created_at of each grant, 0 before it has one
    due,       \* grants past their end and the grace period
    closed,    \* grants that are expired
    request,   \* where each request is
    peak       \* history: how many requests for a booking were past both checks at once

vars == <<rows, stamp, due, closed, request, peak>>

Request == [kind: {"none", "post", "ingest"},
            booking: Bookings \cup {NoBooking},
            at: {"idle", "list", "check", "insert", "answered", "refused", "lost"},
            answer: Requests \cup {NoGrant}]
Idle == [kind |-> "none", booking |-> NoBooking, at |-> "idle", answer |-> NoGrant]

Init ==
    /\ rows = {}
    /\ stamp = [q \in Requests |-> 0]
    /\ due = {} /\ closed = {}
    /\ request = [q \in Requests |-> Idle]
    /\ peak = [b \in Bookings |-> 0]

GrantsOf(b) == {g \in rows : request[g].booking = b}
Inserting(b) == {q \in Requests : request[q].at = "insert" /\ request[q].booking = b}

\* created_at of a grant made now.
Stamped(q) == [stamp EXCEPT ![q] = Cardinality({p \in Requests : stamp[p] # 0}) + 1]

\* The grants list_grants returns: ORDER BY created_at DESC LIMIT ListLimit.
\* The faulty variant takes the oldest.
ListedOldest == {g \in rows : Cardinality({h \in rows : stamp[h] < stamp[g]}) < ListLimit}
Listed == {g \in rows : Cardinality({h \in rows : stamp[h] > stamp[g]}) < ListLimit}

-----------------------------------------------------------------------------
\* A grant without a booking is not looked for. The portal makes such grants.
PostGrant(q, b) ==
    /\ request[q].at = "idle"
    /\ request' = [request EXCEPT ![q] =
          [kind |-> "post", booking |-> b, answer |-> NoGrant,
           at |-> IF b = NoBooking THEN "insert" ELSE "list"]]
    /\ stamp' = IF b = NoBooking THEN Stamped(q) ELSE stamp
    /\ UNCHANGED <<rows, due, closed, peak>>

\* An event has to name a booking, and the name may be null.
IngestEvent(q, b) ==
    /\ request[q].at = "idle"
    /\ request' = [request EXCEPT ![q] =
          [kind |-> "ingest", booking |-> b, answer |-> NoGrant, at |-> "list"]]
    /\ UNCHANGED <<rows, stamp, due, closed, peak>>

\* The newest grant of the booking among those listed. The faulty variant does
\* not compare the bookings.
MatchesAny(q, g) == TRUE
Matches(q, g) == request[g].booking = request[q].booking

\* The first check: a post is refused with 409, an event is answered with the
\* newest grant of the booking.
ListFinds(q, g) ==
    /\ request[q].at = "list"
    /\ g \in Listed /\ Matches(q, g)
    /\ \A h \in Listed : Matches(q, h) => stamp[h] <= stamp[g]
    /\ request' = [request EXCEPT ![q] =
          IF @.kind = "ingest" THEN [@ EXCEPT !.at = "answered", !.answer = g]
          ELSE [@ EXCEPT !.at = "refused"]]
    /\ UNCHANGED <<rows, stamp, due, closed, peak>>

ListFindsNone(q) ==
    /\ request[q].at = "list"
    /\ \A g \in Listed : ~ Matches(q, g)
    /\ request' = [request EXCEPT ![q].at = "check"]
    /\ UNCHANGED <<rows, stamp, due, closed, peak>>

\* The second check, over the whole table: one grant raises ValueError, several
\* make the query itself raise. An event with a null booking is not checked.
\* The faulty variant trusts the list.
TakenNever(b) == FALSE
Taken(b) == b # NoBooking /\ GrantsOf(b) # {}

CheckRefuses(q) ==
    /\ request[q].at = "check"
    /\ Taken(request[q].booking)
    /\ request' = [request EXCEPT ![q].at = "refused"]
    /\ UNCHANGED <<rows, stamp, due, closed, peak>>

Larger(m, n) == IF m < n THEN n ELSE m

CheckPasses(q) ==
    /\ request[q].at = "check"
    /\ ~ Taken(request[q].booking)
    /\ request' = [request EXCEPT ![q].at = "insert"]
    /\ peak' = [b \in Bookings |-> Larger(peak[b], Cardinality(Inserting(b)'))]
    /\ stamp' = Stamped(q)
    /\ UNCHANGED <<rows, due, closed>>

Insert(q) ==
    /\ request[q].at = "insert"
    /\ rows' = rows \cup {q}
    /\ request' = [request EXCEPT ![q] = [@ EXCEPT !.at = "answered", !.answer = q]]
    /\ UNCHANGED <<stamp, due, closed, peak>>

\* The request fails or the process ends, before or after the insert.
Lose(q) ==
    /\ request[q].at \in {"list", "check", "insert"}
    /\ \/ rows' = rows
       \/ request[q].at = "insert" /\ rows' = rows \cup {q}
    /\ request' = [request EXCEPT ![q].at = "lost"]
    /\ UNCHANGED <<stamp, due, closed, peak>>

-----------------------------------------------------------------------------
BecomeDue(g) ==
    /\ g \in rows \ due
    /\ due' = due \cup {g}
    /\ UNCHANGED <<rows, stamp, closed, request, peak>>

\* A pass of the expiry scheduler closes the due grants it has listed. The
\* faulty variant does not look at the end of the grant.
ClosableAll == Listed
Closable == Listed \cap due

Pass ==
    /\ closed' = closed \cup Closable
    /\ UNCHANGED <<rows, stamp, due, request, peak>>

Next ==
    \/ \E q \in Requests, b \in Bookings \cup {NoBooking} : PostGrant(q, b) \/ IngestEvent(q, b)
    \/ \E q \in Requests : \/ \E g \in rows : ListFinds(q, g)
                           \/ ListFindsNone(q) \/ CheckRefuses(q) \/ CheckPasses(q)
                           \/ Insert(q) \/ Lose(q) \/ BecomeDue(q)
    \/ Pass

Spec == Init /\ [][Next]_vars

\* The scheduler's loop goes on.
FairSpec == Spec /\ WF_vars(Pass)

-----------------------------------------------------------------------------
(* Properties.                                                             *)

\* Types; grants have created_at, and only due ones are closed.
TypeOK ==
    /\ closed \subseteq due /\ due \subseteq rows /\ rows \subseteq Requests
    /\ stamp \in [Requests -> Nat] /\ \A g \in rows : stamp[g] > 0
    /\ request \in [Requests -> Request]
    /\ peak \in [Bookings -> Nat]

\* A booking gets no more grants than there were requests for it past both
\* checks at once (event_ingestion.py:152, grant_manager.py:67): one, unless
\* requests overlapped there, whatever ListLimit hides and however often an event
\* is sent again.
DuplicatesBounded == \A b \in Bookings : Cardinality(GrantsOf(b)) <= peak[b]

\* What a request is told is so: the grant it is answered with was made for its
\* booking, and a booking is refused only when it has a grant.
RepliesTrue ==
    \A q \in Requests :
        /\ request[q].at = "answered" =>
              /\ request[q].answer \in rows
              /\ request[request[q].answer].booking = request[q].booking
        /\ request[q].at = "refused" => GrantsOf(request[q].booking) # {}

Overdue(g) ==
    /\ g \in due \ closed
    /\ Cardinality({h \in rows : stamp[h] > stamp[g]}) < ListLimit

\* A due grant does not stay open with fewer than ListLimit newer ones in the
\* table (expiry_scheduler.py:134), however many older ones there are; nothing is
\* promised to a grant with more.
ListedDueClose == \A g \in Requests : Overdue(g) ~> ~ Overdue(g)
===============================================================================
