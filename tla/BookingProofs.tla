----------------------------- MODULE BookingProofs -----------------------------
(***************************************************************************)
(* The safety properties of BookingIngestion, for any number of requests   *)
(* and bookings and any limit.                                             *)
(***************************************************************************)
EXTENDS BookingIngestion, FiniteSetTheorems, TLAPS

USE BookingAssumption

\* A grant in the table was made by a request that is over.
RowsOver == \A g \in rows : request[g].at \in {"answered", "lost"}

\* A request that is past the stamp has one.
InsertingStamped == \A q \in Requests : request[q].at = "insert" => stamp[q] > 0

BookingInv ==
    /\ TypeOK
    /\ RowsOver
    /\ InsertingStamped

-----------------------------------------------------------------------------
(* What the helpers return.                                                *)

LEMMA StampedType ==
    ASSUME stamp \in [Requests -> Nat], NEW q \in Requests
    PROVE  /\ Stamped(q) \in [Requests -> Nat]
           /\ Stamped(q)[q] > 0
           /\ \A p \in Requests : p # q => Stamped(q)[p] = stamp[p]
<1> DEFINE earlier == {p \in Requests : stamp[p] # 0}
<1>1. Cardinality(earlier) \in Nat
  <2>1. IsFiniteSet(earlier)
    BY FS_Subset DEF BookingAssumption
  <2> QED BY <2>1, FS_CardinalityType
<1> HIDE DEF earlier
<1>2. Stamped(q) = [stamp EXCEPT ![q] = Cardinality(earlier) + 1]
  BY DEF Stamped, earlier
<1> QED BY <1>1, <1>2

LEMMA LargerType ==
    ASSUME NEW i \in Nat, NEW j \in Nat
    PROVE  Larger(i, j) \in Nat /\ i <= Larger(i, j) /\ j <= Larger(i, j)
BY DEF Larger

LEMMA FiniteSubset ==
    ASSUME NEW S \in SUBSET Requests
    PROVE  IsFiniteSet(S) /\ Cardinality(S) \in Nat
BY FS_Subset, FS_CardinalityType DEF BookingAssumption

LEMMA InsertingFinite ==
    ASSUME NEW b
    PROVE  Cardinality(Inserting(b)) \in Nat /\ Cardinality(Inserting(b)') \in Nat
<1>1. Inserting(b) \in SUBSET Requests /\ Inserting(b)' \in SUBSET Requests
  BY DEF Inserting
<1> QED BY <1>1, FiniteSubset

-----------------------------------------------------------------------------
(* Types, and where the makers of the grants are.                          *)

LEMMA BookingInvInit == Init => BookingInv
BY DEF Init, BookingInv, TypeOK, RowsOver, InsertingStamped, Idle, Request

LEMMA BookingInvStep == BookingInv /\ [Next]_vars => BookingInv'
<1> SUFFICES ASSUME BookingInv, [Next]_vars PROVE BookingInv'
  OBVIOUS
<1> USE DEF BookingInv, TypeOK, RowsOver, InsertingStamped
<1>1. ASSUME NEW q \in Requests, NEW b \in Bookings \cup {NoBooking}, PostGrant(q, b)
      PROVE  BookingInv'
  <2>1. request' \in [Requests -> Request] /\ request'[q].at \in {"list", "insert"}
    BY <1>1 DEF PostGrant, Request
  <2>2. stamp' \in [Requests -> Nat] /\ (request'[q].at = "insert" => stamp'[q] > 0)
        /\ \A p \in Requests : p # q => stamp'[p] = stamp[p]
    BY <1>1, StampedType DEF PostGrant, Request
  <2>3. q \notin rows
    BY <1>1 DEF PostGrant
  <2>4. \A p \in Requests : p # q => request'[p] = request[p]
    BY <1>1 DEF PostGrant
  <2> QED BY <1>1, <2>1, <2>2, <2>3, <2>4 DEF PostGrant
<1>2. ASSUME NEW q \in Requests, NEW b \in Bookings \cup {NoBooking}, IngestEvent(q, b)
      PROVE  BookingInv'
  <2>1. request' \in [Requests -> Request] /\ request'[q].at = "list" /\ q \notin rows
    <3>1. [kind |-> "ingest", booking |-> b, answer |-> NoGrant, at |-> "list"] \in Request
      BY DEF Request
    <3> QED BY <1>2, <3>1 DEF IngestEvent
  <2>2. \A p \in Requests : p # q => request'[p] = request[p]
    BY <1>2 DEF IngestEvent
  <2> QED BY <1>2, <2>1, <2>2 DEF IngestEvent
<1>3. ASSUME NEW q \in Requests, NEW g \in rows, ListFinds(q, g)
      PROVE  BookingInv'
  <2>1. /\ [request[q] EXCEPT !.at = "answered", !.answer = g] \in Request
        /\ [request[q] EXCEPT !.at = "refused"] \in Request
    <3>1. request[q] \in Request /\ g \in Requests
      OBVIOUS
    <3> HIDE DEF BookingInv
    <3> QED BY <3>1 DEF Request
  <2>2. request' \in [Requests -> Request] /\ request'[q].at \in {"answered", "refused"}
    BY <1>3, <2>1 DEF ListFinds, Request
  <2>3. \A p \in Requests : p # q => request'[p] = request[p]
    BY <1>3 DEF ListFinds
  <2>4. q \notin rows
    BY <1>3 DEF ListFinds
  <2> QED BY <1>3, <2>2, <2>3, <2>4 DEF ListFinds
<1>4. ASSUME NEW q \in Requests, ListFindsNone(q) PROVE BookingInv'
  BY <1>4 DEF ListFindsNone, Request
<1>5. ASSUME NEW q \in Requests, CheckRefuses(q) PROVE BookingInv'
  BY <1>5 DEF CheckRefuses, Request
<1>6. ASSUME NEW q \in Requests, CheckPasses(q) PROVE BookingInv'
  <2>1. request' \in [Requests -> Request] /\ q \notin rows
    BY <1>6 DEF CheckPasses, Request
  <2>2. stamp' \in [Requests -> Nat] /\ stamp'[q] > 0
        /\ \A p \in Requests : p # q => stamp'[p] = stamp[p]
    BY <1>6, StampedType DEF CheckPasses
  <2>3. peak' \in [Bookings -> Nat]
    BY <1>6, InsertingFinite, LargerType DEF CheckPasses
  <2>4. \A p \in Requests : p # q => request'[p] = request[p]
    BY <1>6 DEF CheckPasses
  <2> QED BY <1>6, <2>1, <2>2, <2>3, <2>4 DEF CheckPasses
<1>7. ASSUME NEW q \in Requests, Insert(q) PROVE BookingInv'
  <2>1. [request[q] EXCEPT !.at = "answered", !.answer = q] \in Request
    <3>1. request[q] \in Request
      OBVIOUS
    <3> HIDE DEF BookingInv
    <3> QED BY <3>1 DEF Request
  <2>2. request' \in [Requests -> Request] /\ request'[q].at = "answered"
    BY <1>7, <2>1 DEF Insert, Request
  <2>3. \A p \in Requests : p # q => request'[p] = request[p]
    BY <1>7 DEF Insert
  <2>4. request[q].at = "insert" /\ stamp[q] > 0
    BY <1>7 DEF Insert
  <2> QED BY <1>7, <2>2, <2>3, <2>4 DEF Insert
<1>8. ASSUME NEW q \in Requests, Lose(q) PROVE BookingInv'
  BY <1>8 DEF Lose, Request
<1>9. ASSUME NEW g \in Requests, BecomeDue(g) PROVE BookingInv'
  BY <1>9 DEF BecomeDue
<1>10. CASE Pass
  BY <1>10 DEF Pass, Closable
<1>11. CASE UNCHANGED vars
  BY <1>11 DEF vars
<1> QED
  BY <1>1, <1>2, <1>3, <1>4, <1>5, <1>6, <1>7, <1>8, <1>9, <1>10, <1>11 DEF Next

\* Every variable of the ingestion keeps its type (event_ingestion.py,
\* api/grants.py), grants have created_at, and only due ones are closed.
THEOREM TypeCorrect == Spec => []TypeOK
<1>1. BookingInv => TypeOK
  BY DEF BookingInv
<1> QED BY BookingInvInit, BookingInvStep, <1>1, PTL DEF Spec

LEMMA BookingInvHolds == Spec => []BookingInv
BY BookingInvInit, BookingInvStep, PTL DEF Spec

-----------------------------------------------------------------------------
(* Two grants of a booking need two requests past both checks at once.     *)

\* The grants of a booking, and those that are on their way.
Claims(b) == GrantsOf(b) \cup Inserting(b)
ClaimsBounded == \A b \in Bookings : Cardinality(Claims(b)) <= peak[b]

LEMMA ClaimsFinite ==
    ASSUME TypeOK, NEW b
    PROVE  /\ Claims(b) \in SUBSET Requests /\ GrantsOf(b) \in SUBSET Claims(b)
           /\ IsFiniteSet(Claims(b)) /\ Cardinality(Claims(b)) \in Nat
<1>1. Claims(b) \in SUBSET Requests /\ GrantsOf(b) \in SUBSET Claims(b)
  BY DEF Claims, GrantsOf, Inserting, TypeOK
<1> QED BY <1>1, FiniteSubset

\* The claims only grow where a request passes the second check.
LEMMA ClaimsShrink ==
    ASSUME BookingInv, BookingInv', ClaimsBounded, UNCHANGED peak,
           \A b \in Bookings : Claims(b)' \subseteq Claims(b)
    PROVE  ClaimsBounded'
<1> SUFFICES ASSUME NEW b \in Bookings PROVE Cardinality(Claims(b)') <= peak'[b]
  BY DEF ClaimsBounded
<1>1. IsFiniteSet(Claims(b)) /\ Cardinality(Claims(b)) \in Nat /\ Claims(b)' \in SUBSET Requests
  BY ClaimsFinite DEF BookingInv, TypeOK, Claims, GrantsOf, Inserting
<1>2. Cardinality(Claims(b)') <= Cardinality(Claims(b)) /\ Cardinality(Claims(b)') \in Nat
  BY <1>1, FS_Subset, FiniteSubset
<1>3. Cardinality(Claims(b)) <= peak[b] /\ peak[b] \in Nat /\ peak'[b] = peak[b]
  BY DEF ClaimsBounded, BookingInv, TypeOK
<1> QED BY <1>1, <1>2, <1>3

LEMMA ClaimsInit == Init => ClaimsBounded
<1> SUFFICES ASSUME Init, NEW b \in Bookings PROVE Cardinality(Claims(b)) <= peak[b]
  BY DEF ClaimsBounded
<1>1. Claims(b) = {}
  BY DEF Init, Claims, GrantsOf, Inserting, Idle
<1>2. peak[b] = 0
  BY DEF Init
<1> QED BY <1>1, <1>2, FS_EmptySet

LEMMA ClaimsStep == BookingInv /\ BookingInv' /\ ClaimsBounded /\ [Next]_vars => ClaimsBounded'
<1> SUFFICES ASSUME BookingInv, BookingInv', ClaimsBounded, [Next]_vars PROVE ClaimsBounded'
  OBVIOUS
<1> USE DEF BookingInv, TypeOK, RowsOver, Claims, GrantsOf, Inserting
<1>1. ASSUME NEW q \in Requests, NEW b \in Bookings \cup {NoBooking}, PostGrant(q, b)
      PROVE  ClaimsBounded'
  <2>1. q \notin rows /\ (request'[q].at = "insert" => request'[q].booking \notin Bookings)
    BY <1>1 DEF PostGrant, Request, BookingAssumption
  <2>2. \A p \in Requests : p # q => request'[p] = request[p]
    BY <1>1 DEF PostGrant
  <2>3. UNCHANGED <<rows, peak>>
    BY <1>1 DEF PostGrant
  <2> QED BY <2>1, <2>2, <2>3, ClaimsShrink
<1>2. ASSUME NEW q \in Requests, NEW b \in Bookings \cup {NoBooking}, IngestEvent(q, b)
      PROVE  ClaimsBounded'
  BY <1>2, ClaimsShrink DEF IngestEvent, Request
<1>3. ASSUME NEW q \in Requests, NEW g \in rows, ListFinds(q, g)
      PROVE  ClaimsBounded'
  BY <1>3, ClaimsShrink DEF ListFinds, Request
<1>4. ASSUME NEW q \in Requests, ListFindsNone(q) PROVE ClaimsBounded'
  BY <1>4, ClaimsShrink DEF ListFindsNone, Request
<1>5. ASSUME NEW q \in Requests, CheckRefuses(q) PROVE ClaimsBounded'
  BY <1>5, ClaimsShrink DEF CheckRefuses, Request
<1>6. ASSUME NEW q \in Requests, CheckPasses(q) PROVE ClaimsBounded'
  <2> SUFFICES ASSUME NEW b \in Bookings PROVE Cardinality(Claims(b)') <= peak'[b]
    BY DEF ClaimsBounded
  <2>1. peak'[b] = Larger(peak[b], Cardinality(Inserting(b)')) /\ peak[b] \in Nat
    BY <1>6 DEF CheckPasses
  <2>2. CASE request[q].booking = b
    <3>1. GrantsOf(b)' = {}
      BY <1>6, <2>2 DEF CheckPasses, Taken, BookingAssumption
    <3>2. Claims(b)' = Inserting(b)'
      BY <3>1
    <3> HIDE DEF Claims, GrantsOf, Inserting, BookingInv, TypeOK
    <3> QED BY <2>1, <3>2, InsertingFinite, LargerType
  <2>3. CASE request[q].booking # b
    <3>1. Claims(b)' = Claims(b)
      BY <1>6, <2>3 DEF CheckPasses, Request
    <3> HIDE DEF Claims, GrantsOf, Inserting, TypeOK
    <3>2. Cardinality(Claims(b)) \in Nat /\ Cardinality(Claims(b)) <= peak[b]
      BY ClaimsFinite DEF ClaimsBounded, BookingInv
    <3>3. peak[b] <= peak'[b] /\ peak'[b] \in Nat
      BY <2>1, InsertingFinite, LargerType
    <3> QED BY <2>1, <3>1, <3>2, <3>3
  <2> QED BY <2>2, <2>3
<1>7. ASSUME NEW q \in Requests, Insert(q) PROVE ClaimsBounded'
  BY <1>7, ClaimsShrink DEF Insert, Request
<1>8. ASSUME NEW q \in Requests, Lose(q) PROVE ClaimsBounded'
  BY <1>8, ClaimsShrink DEF Lose, Request
<1>9. ASSUME NEW g \in Requests, BecomeDue(g) PROVE ClaimsBounded'
  BY <1>9, ClaimsShrink DEF BecomeDue
<1>10. CASE Pass
  BY <1>10, ClaimsShrink DEF Pass
<1>11. CASE UNCHANGED vars
  BY <1>11, ClaimsShrink DEF vars
<1> QED
  BY <1>1, <1>2, <1>3, <1>4, <1>5, <1>6, <1>7, <1>8, <1>9, <1>10, <1>11 DEF Next

\* A booking has at most as many grants as there were requests for it past both
\* duplicate checks at once (event_ingestion.py:152, grant_manager.py:67).
THEOREM DuplicatesAlwaysBounded == Spec => []DuplicatesBounded
<1>1. BookingInv /\ ClaimsBounded => DuplicatesBounded
  <2> SUFFICES ASSUME BookingInv, ClaimsBounded, NEW b \in Bookings
               PROVE  Cardinality(GrantsOf(b)) <= peak[b]
    BY DEF DuplicatesBounded
  <2>1. GrantsOf(b) \in SUBSET Claims(b) /\ IsFiniteSet(Claims(b))
        /\ Cardinality(Claims(b)) \in Nat /\ Claims(b) \in SUBSET Requests
    BY ClaimsFinite DEF BookingInv
  <2>2. Cardinality(GrantsOf(b)) <= Cardinality(Claims(b)) /\ Cardinality(GrantsOf(b)) \in Nat
    BY <2>1, FS_Subset, FiniteSubset
  <2> QED BY <2>1, <2>2 DEF ClaimsBounded, BookingInv, TypeOK
<1> QED BY BookingInvHolds, ClaimsInit, ClaimsStep, <1>1, PTL DEF Spec

-----------------------------------------------------------------------------
(* The answers.                                                            *)

LEMMA RepliesInit == Init => RepliesTrue
BY DEF Init, RepliesTrue, Idle

LEMMA RepliesStep == BookingInv /\ RepliesTrue /\ [Next]_vars => RepliesTrue'
<1> SUFFICES ASSUME BookingInv, RepliesTrue, [Next]_vars PROVE RepliesTrue'
  OBVIOUS
<1> USE DEF BookingInv, TypeOK, RowsOver, RepliesTrue, GrantsOf
<1>1. ASSUME NEW q \in Requests, NEW b \in Bookings \cup {NoBooking}, PostGrant(q, b)
      PROVE  RepliesTrue'
  BY <1>1 DEF PostGrant, Request
<1>2. ASSUME NEW q \in Requests, NEW b \in Bookings \cup {NoBooking}, IngestEvent(q, b)
      PROVE  RepliesTrue'
  BY <1>2 DEF IngestEvent, Request
<1>3. ASSUME NEW q \in Requests, NEW g \in rows, ListFinds(q, g)
      PROVE  RepliesTrue'
  BY <1>3 DEF ListFinds, Request, Matches
<1>4. ASSUME NEW q \in Requests, ListFindsNone(q) PROVE RepliesTrue'
  BY <1>4 DEF ListFindsNone, Request
<1>5. ASSUME NEW q \in Requests, CheckRefuses(q) PROVE RepliesTrue'
  BY <1>5 DEF CheckRefuses, Request, Taken
<1>6. ASSUME NEW q \in Requests, CheckPasses(q) PROVE RepliesTrue'
  BY <1>6 DEF CheckPasses, Request
<1>7. ASSUME NEW q \in Requests, Insert(q) PROVE RepliesTrue'
  BY <1>7 DEF Insert, Request
<1>8. ASSUME NEW q \in Requests, Lose(q) PROVE RepliesTrue'
  BY <1>8 DEF Lose, Request
<1>9. ASSUME NEW g \in Requests, BecomeDue(g) PROVE RepliesTrue'
  BY <1>9 DEF BecomeDue
<1>10. CASE Pass
  BY <1>10 DEF Pass
<1>11. CASE UNCHANGED vars
  BY <1>11 DEF vars
<1> QED
  BY <1>1, <1>2, <1>3, <1>4, <1>5, <1>6, <1>7, <1>8, <1>9, <1>10, <1>11 DEF Next

\* The grant a request is answered with is its booking's, and a booking is
\* refused only when it has a grant (api/grants.py:42, event_ingestion.py:155).
THEOREM RepliesAlwaysTrue == Spec => []RepliesTrue
BY BookingInvHolds, RepliesInit, RepliesStep, PTL DEF Spec
===============================================================================
