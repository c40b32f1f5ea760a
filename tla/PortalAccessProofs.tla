------------------------- MODULE PortalAccessProofs -------------------------
(***************************************************************************)
(* What holds of PortalAccess for any clients, handlers, vouchers, limits, *)
(* errors and restarts: types, the bounds of the rate limiter and the      *)
(* consistency of voucher rows.                                            *)
(***************************************************************************)
EXTENDS PortalAccess, FiniteSetTheorems, TLAPS

\* The limiter at a time: types, finite counts, lockouts where they are due.
LimiterOK ==
    /\ attempts \in [Clients -> SUBSET [at: Time, of: 1 .. MaxRequests]]
    /\ lockouts \in [Clients -> {Never} \cup 0 .. MaxTime + Lockout]
    /\ \A c \in Clients : IsFiniteSet(attempts[c])
    /\ OverLimitMeansLocked

\* What a handler has established by the time it is where it is.
TaskOK(t) ==
    /\ t.pc # "idle" => t.id # 0
    /\ t.pc \in {"use", "create", "activate", "report"} => t.code \in Vouchers
    /\ t.pc \in {"decide", "use"} /\ t.code \in Vouchers => Consistent(t.code, t.copy)

DeletionOK(d) ==
    d.pc = "save" => d.code \in Vouchers /\ Consistent(d.code, d.copy)

\* The inductive invariant: the copies in flight are as consistent as the rows
\* they came from and will replace.
IInv ==
    /\ TypeOK
    /\ LimiterOK
    /\ AttemptsBounded
    /\ VoucherRowsConsistent
    /\ \A p \in Handlers : TaskOK(task[p])
    /\ \A a \in Admins : DeletionOK(admin[a])

-----------------------------------------------------------------------------

LEMMA Constants ==
    /\ MaxAttempts \in Nat \ {0} /\ Window \in Nat /\ Lockout \in Nat
    /\ MaxTime \in Nat /\ MaxRequests \in Nat /\ MaxDeletes \in Nat
    /\ MaxCrashes \in Nat
    /\ Unknown \notin Vouchers
    /\ MaxUses \in [Vouchers -> {Unlimited} \cup (Nat \ {0})]
    /\ Clients # {} /\ IsFiniteSet(Handlers)
BY LimiterAssumption, PortalAssumption

LEMMA IdleTypes ==
    /\ NoVoucher \in Voucher
    /\ Idle \in Task /\ Idle.pc = "idle"
    /\ NoDeletion \in Deletion /\ NoDeletion.pc = "idle"
BY Constants DEF NoVoucher, Voucher, Idle, Task, NoDeletion, Deletion

LEMMA NoVoucherOK ==
    ASSUME NEW v \in Vouchers
    PROVE  Consistent(v, NoVoucher) /\ ~ Exhausted(v, NoVoucher)
BY Constants DEF Consistent, Exhausted, NoVoucher, Unlimited

LEMMA HandlersCount ==
    ASSUME NEW S \in SUBSET Handlers
    PROVE  /\ IsFiniteSet(S)
           /\ Cardinality(S) \in Nat /\ Cardinality(Handlers) \in Nat
           /\ Cardinality(S) <= Cardinality(Handlers)
BY Constants, FS_Subset, FS_CardinalityType

-----------------------------------------------------------------------------
(* The operators of the limiter.                                           *)

\* Pruning keeps the set finite and does not add to it.
LEMMA RecentFewer ==
    ASSUME NEW S, IsFiniteSet(S), NEW t
    PROVE  /\ Recent(S, t) \subseteq S
           /\ IsFiniteSet(Recent(S, t))
           /\ Cardinality(Recent(S, t)) \in Nat /\ Cardinality(S) \in Nat
           /\ Cardinality(Recent(S, t)) <= Cardinality(S)
<1>1. Recent(S, t) \subseteq S
  BY DEF Recent
<1> QED
  BY <1>1, FS_Subset, FS_CardinalityType

\* A step that gives client c the failures F and the lockout l, which is one if
\* the failures reach the limit.
LEMMA LimiterMoves ==
    ASSUME LimiterOK, NEW c \in Clients,
           NEW F \in SUBSET [at: Time, of: 1 .. MaxRequests], IsFiniteSet(F),
           NEW l \in {Never} \cup 0 .. MaxTime + Lockout,
           AtLimit(F) => l # Never,
           attempts' = [attempts EXCEPT ![c] = F],
           lockouts' = [lockouts EXCEPT ![c] = l]
    PROVE  LimiterOK' /\ \A d \in Clients : attempts'[d] = IF d = c THEN F ELSE attempts[d]
<1>1. \A d \in Clients : attempts'[d] = IF d = c THEN F ELSE attempts[d]
  BY DEF LimiterOK
<1>2. \A d \in Clients : lockouts'[d] = IF d = c THEN l ELSE lockouts[d]
  BY DEF LimiterOK
<1>3. \A d \in Clients : IsFiniteSet(attempts'[d])
  BY <1>1 DEF LimiterOK
<1>4. OverLimitMeansLocked'
  BY <1>1, <1>2 DEF LimiterOK, OverLimitMeansLocked, AtLimit
<1>5. /\ attempts' \in [Clients -> SUBSET [at: Time, of: 1 .. MaxRequests]]
      /\ lockouts' \in [Clients -> {Never} \cup 0 .. MaxTime + Lockout]
  BY DEF LimiterOK
<1> QED
  BY <1>1, <1>3, <1>4, <1>5 DEF LimiterOK

\* A lockout begun now ends in time.
LEMMA LockoutEnds ==
    ASSUME NEW t \in Time
    PROVE  t + Lockout \in 0 .. MaxTime + Lockout /\ t + Lockout # Never
BY Constants DEF Time, Never

\* A check adds no failure, and leaves fewer than the limit if it allows.
LEMMA CheckKeeps ==
    ASSUME LimiterOK, now \in Time, NEW c \in Clients, CheckRateLimit(c, now)
    PROVE  /\ LimiterOK'
           /\ \A d \in Clients : attempts'[d] \subseteq attempts[d]
           /\ Allowed(c, now) => Cardinality(attempts'[c]) < MaxAttempts
<1>1. CASE LockedOut(c, now)
  <2>1. UNCHANGED limiter
    BY <1>1 DEF CheckRateLimit
  <2>2. ~ Allowed(c, now)
    BY <1>1 DEF Allowed
  <2> QED
    BY <2>1, <2>2 DEF limiter, LimiterOK, OverLimitMeansLocked
<1>2. CASE ~ LockedOut(c, now)
  <2> DEFINE F == Counted(c, now)
             l == LockoutIf(F, now, Never)
  <2>1. attempts' = [attempts EXCEPT ![c] = F] /\ lockouts' = [lockouts EXCEPT ![c] = l]
    BY <1>2 DEF CheckRateLimit
  <2>2. F \subseteq attempts[c] /\ IsFiniteSet(F)
    BY RecentFewer, FS_EmptySet DEF Counted, LimiterOK
  <2>3. F \in SUBSET [at: Time, of: 1 .. MaxRequests]
    BY <2>2 DEF LimiterOK
  <2>4. l \in {Never} \cup 0 .. MaxTime + Lockout /\ (AtLimit(F) => l # Never)
    BY LockoutEnds DEF LockoutIf
  <2>5. LimiterOK' /\ \A d \in Clients : attempts'[d] = IF d = c THEN F ELSE attempts[d]
    <3> HIDE DEF F, l
    <3> QED
      BY <2>1, <2>2, <2>3, <2>4, LimiterMoves
  <2>6. Cardinality(F) \in Nat
    BY <2>2, FS_CardinalityType
  <2>7. Allowed(c, now) => Cardinality(F) < MaxAttempts
    BY <2>6, Constants DEF Allowed, AtLimit
  <2> HIDE DEF F, l
  <2> QED
    BY <2>2, <2>5, <2>7
<1> QED
  BY <1>1, <1>2

\* A failure adds one at most.
LEMMA FailureKeeps ==
    ASSUME LimiterOK, now \in Time, NEW c \in Clients, NEW n \in 1 .. MaxRequests,
           RecordFailure(c, now, n)
    PROVE  /\ LimiterOK'
           /\ \A d \in Clients : d # c => attempts'[d] = attempts[d]
           /\ Cardinality(attempts'[c]) <= Cardinality(attempts[c]) + 1
<1> DEFINE G == attempts[c] \cup {[at |-> now, of |-> n]}
           F == Recent(G, now)
           l == LockoutIf(F, now, lockouts[c])
<1>1. attempts' = [attempts EXCEPT ![c] = F] /\ lockouts' = [lockouts EXCEPT ![c] = l]
  BY DEF RecordFailure, LimiterOK
<1>2. /\ IsFiniteSet(G) /\ Cardinality(G) <= Cardinality(attempts[c]) + 1
      /\ Cardinality(attempts[c]) \in Nat
  <2>1. IsFiniteSet(attempts[c])
    BY DEF LimiterOK
  <2>2. Cardinality(attempts[c]) \in Nat
    BY <2>1, FS_CardinalityType
  <2>3. /\ IsFiniteSet(G)
        /\ Cardinality(G) = IF [at |-> now, of |-> n] \in attempts[c]
                            THEN Cardinality(attempts[c])
                            ELSE Cardinality(attempts[c]) + 1
    BY <2>1, FS_AddElement
  <2> HIDE DEF G
  <2> QED
    BY <2>2, <2>3
<1>3. F \subseteq G /\ IsFiniteSet(F) /\ Cardinality(F) <= Cardinality(G)
      /\ Cardinality(F) \in Nat /\ Cardinality(G) \in Nat
  <2> HIDE DEF G
  <2> QED
    BY <1>2, RecentFewer
<1>4. F \in SUBSET [at: Time, of: 1 .. MaxRequests]
  <2>1. [at |-> now, of |-> n] \in [at: Time, of: 1 .. MaxRequests]
    OBVIOUS
  <2>2. attempts[c] \subseteq [at: Time, of: 1 .. MaxRequests]
    BY DEF LimiterOK
  <2> QED
    BY <1>3, <2>1, <2>2
<1>5. l \in {Never} \cup 0 .. MaxTime + Lockout /\ (AtLimit(F) => l # Never)
  BY LockoutEnds DEF LockoutIf, LimiterOK
<1>6. LimiterOK' /\ \A d \in Clients : attempts'[d] = IF d = c THEN F ELSE attempts[d]
  <2> HIDE DEF F, l
  <2> QED
    BY <1>1, <1>3, <1>4, <1>5, LimiterMoves
<1>7. Cardinality(F) <= Cardinality(attempts[c]) + 1
  <2> HIDE DEF F, G
  <2> QED
    BY <1>2, <1>3
<1> HIDE DEF F, G, l
<1> QED
  BY <1>6, <1>7

LEMMA SuccessKeeps ==
    ASSUME LimiterOK, NEW c \in Clients, RecordSuccess(c)
    PROVE  LimiterOK' /\ \A d \in Clients : attempts'[d] \subseteq attempts[d]
<1>1. IsFiniteSet({}) /\ Cardinality({}) = 0
  BY FS_EmptySet
<1>2. ~ AtLimit({})
  BY <1>1, Constants DEF AtLimit
<1>3. LimiterOK' /\ \A d \in Clients : attempts'[d] = IF d = c THEN {} ELSE attempts[d]
  BY <1>1, <1>2, LimiterMoves DEF RecordSuccess
<1> QED
  BY <1>3

-----------------------------------------------------------------------------
(* Copies and rows.                                                        *)

LEMMA UsedConsistent ==
    ASSUME NEW v \in Vouchers, NEW row \in Voucher, Consistent(v, row), Accepts(v, row)
    PROVE  Used(v, row) \in Voucher /\ Consistent(v, Used(v, row))
<1> DEFINE next == [row EXCEPT !.uses = @ + 1]
<1>1. /\ next \in Voucher /\ next.uses = row.uses + 1 /\ row.uses \in Nat
      /\ row.status = "active"
  BY DEF Voucher, Accepts
<1>2. /\ Used(v, row).uses = row.uses + 1
      /\ Used(v, row).status = IF Exhausted(v, next) THEN "inactive" ELSE "active"
      /\ Used(v, row) \in Voucher
  BY <1>1 DEF Used, Voucher
<1>3. Exhausted(v, Used(v, row)) => Exhausted(v, next)
  BY <1>1, <1>2 DEF Exhausted
<1>4. MaxUses[v] \in {Unlimited} \cup (Nat \ {0})
  BY Constants
<1>5. MaxUses[v] # Unlimited => Used(v, row).uses <= MaxUses[v]
  BY <1>1, <1>2, <1>4 DEF Accepts, Exhausted
<1> HIDE DEF next
<1> QED
  BY <1>2, <1>3, <1>5 DEF Consistent

LEMMA DeactivatedConsistent ==
    ASSUME NEW v \in Vouchers, NEW row \in Voucher, Consistent(v, row)
    PROVE  Deactivated(row) \in Voucher /\ Consistent(v, Deactivated(row))
BY DEF Deactivated, Voucher, Consistent, Exhausted

\* A step that stores one consistent row keeps the table so.
LEMMA OneRow ==
    ASSUME IInv, NEW v \in Vouchers, NEW row \in Voucher, Consistent(v, row),
           rows' = [rows EXCEPT ![v] = row]
    PROVE  rows' \in [Vouchers -> Voucher] /\ VoucherRowsConsistent'
<1>1. rows' \in [Vouchers -> Voucher]
  BY DEF IInv, TypeOK
<1>2. ASSUME NEW w \in Vouchers PROVE Consistent(w, rows'[w])
  <2>1. rows'[w] = IF w = v THEN row ELSE rows[w]
    BY DEF IInv, TypeOK
  <2>2. Consistent(w, rows[w])
    BY DEF IInv, VoucherRowsConsistent
  <2> QED
    BY <2>1, <2>2
<1> QED
  BY <1>1, <1>2 DEF VoucherRowsConsistent

LEMMA SameRows ==
    ASSUME IInv, UNCHANGED rows
    PROVE  rows' \in [Vouchers -> Voucher] /\ VoucherRowsConsistent'
BY DEF IInv, TypeOK, VoucherRowsConsistent

-----------------------------------------------------------------------------
(* One handler moves.                                                      *)

\* The types of what a handler's step leaves to the other lemmas.
CountsOK ==
    /\ now \in Time
    /\ served \in 0 .. MaxRequests
    /\ deletes \in 0 .. MaxDeletes
    /\ crashes \in 0 .. MaxCrashes
    /\ made \in [Vouchers -> Nat]
    /\ off \subseteq Vouchers /\ raced \subseteq Vouchers

LEMMA CountsStay ==
    ASSUME IInv, UNCHANGED <<now, served, deletes, crashes, made, off, raced>>
    PROVE  CountsOK'
BY DEF IInv, TypeOK, CountsOK

\* The failures of a client and its handlers in flight stay within the bound if
\* the failures grow only with a handler that ends.
LEMMA BoundKept ==
    ASSUME IInv, LimiterOK', NEW p \in Handlers, NEW t \in Task,
           task' = [task EXCEPT ![p] = t],
           task[p].pc # "idle",
           t.pc # "idle" => t.client = task[p].client,
           \A d \in Clients : d # task[p].client => attempts'[d] \subseteq attempts[d],
           \/ attempts'[task[p].client] \subseteq attempts[task[p].client]
           \/ /\ t.pc = "idle"
              /\ Cardinality(attempts'[task[p].client])
                    <= Cardinality(attempts[task[p].client]) + 1
    PROVE  AttemptsBounded'
<1> SUFFICES ASSUME NEW d \in Clients
             PROVE  Cardinality(attempts'[d]) + Cardinality(InFlight(d)')
                      <= MaxAttempts - 1 + Cardinality(Handlers)
  BY DEF AttemptsBounded
<1>1. \A r \in Handlers : task'[r] = IF r = p THEN t ELSE task[r]
  BY DEF IInv, TypeOK
<1>2. InFlight(d) \subseteq Handlers /\ InFlight(d)' \subseteq InFlight(d)
  BY <1>1 DEF InFlight
<1>3. Cardinality(attempts[d]) \in Nat /\ Cardinality(attempts'[d]) \in Nat
  BY FS_CardinalityType DEF IInv, LimiterOK
<1>4. /\ Cardinality(InFlight(d)) \in Nat /\ Cardinality(InFlight(d)') \in Nat
      /\ Cardinality(InFlight(d)') <= Cardinality(InFlight(d))
      /\ IsFiniteSet(InFlight(d)) /\ Cardinality(Handlers) \in Nat
  BY <1>2, HandlersCount, FS_Subset
<1>5. Cardinality(attempts[d]) + Cardinality(InFlight(d))
        <= MaxAttempts - 1 + Cardinality(Handlers)
  BY DEF IInv, AttemptsBounded
<1>6. CASE attempts'[d] \subseteq attempts[d]
  <2>1. Cardinality(attempts'[d]) <= Cardinality(attempts[d])
    BY <1>6, FS_Subset DEF IInv, LimiterOK
  <2> QED
    BY <2>1, <1>3, <1>4, <1>5, Constants
<1>7. CASE ~ (attempts'[d] \subseteq attempts[d])
  <2>1. /\ d = task[p].client /\ t.pc = "idle"
        /\ Cardinality(attempts'[d]) <= Cardinality(attempts[d]) + 1
    BY <1>7
  <2>2. p \in InFlight(d) /\ InFlight(d)' = InFlight(d) \ {p}
    BY <1>1, <2>1 DEF InFlight
  <2>3. Cardinality(InFlight(d)') = Cardinality(InFlight(d)) - 1
    BY <2>2, <1>4, FS_RemoveElement
  <2> QED
    BY <2>1, <2>3, <1>3, <1>4, <1>5, Constants
<1> QED
  BY <1>6, <1>7

LEMMA HandlerMoves ==
    ASSUME IInv, NEW p \in Handlers, NEW t \in Task, TaskOK(t),
           task' = [task EXCEPT ![p] = t], UNCHANGED admin,
           rows' \in [Vouchers -> Voucher], VoucherRowsConsistent',
           LimiterOK', AttemptsBounded', CountsOK'
    PROVE  IInv'
<1>1. TypeOK'
  BY DEF IInv, TypeOK, CountsOK, LimiterOK
<1>2. ASSUME NEW r \in Handlers PROVE TaskOK(task'[r])
  <2>1. task'[r] = IF r = p THEN t ELSE task[r]
    BY DEF IInv, TypeOK
  <2> QED
    BY <2>1 DEF IInv
<1>3. \A a \in Admins : DeletionOK(admin'[a])
  BY DEF IInv
<1> QED
  BY <1>1, <1>2, <1>3 DEF IInv

-----------------------------------------------------------------------------
(* One lemma per action.                                                   *)

LEMMA AuthenticateKeeps ==
    ASSUME IInv, NEW p \in Handlers, NEW c \in Clients,
           NEW code \in Vouchers \cup {Unknown}, Authenticate(p, c, code)
    PROVE  IInv'
<1> DEFINE t == [Idle EXCEPT !.pc = "lookup", !.client = c, !.code = code, !.id = served + 1]
<1>1. served \in 0 .. MaxRequests /\ served < MaxRequests /\ now \in Time /\ task[p] = Idle
  BY DEF Authenticate, IInv, TypeOK
<1>2. /\ t \in Task /\ t.pc = "lookup" /\ t.client = c /\ t.id = served + 1
      /\ TaskOK(t) /\ Idle \in Task /\ TaskOK(Idle) /\ Idle.pc = "idle"
  <2>1. served + 1 \in 0 .. MaxRequests /\ served + 1 # 0
    BY <1>1, Constants
  <2>2. Idle \in Task /\ Idle.pc = "idle"
    BY IdleTypes
  <2>3. t \in Task /\ t.pc = "lookup" /\ t.client = c /\ t.id = served + 1
    BY <2>1, <2>2 DEF Task
  <2>4. TaskOK(t) /\ TaskOK(Idle)
    <3> HIDE DEF t
    <3> QED
      BY <2>1, <2>2, <2>3 DEF TaskOK
  <2> QED
    BY <2>2, <2>3, <2>4
<1>3. /\ LimiterOK'
      /\ \A d \in Clients : attempts'[d] \subseteq attempts[d]
      /\ Allowed(c, now) => Cardinality(attempts'[c]) < MaxAttempts
  BY <1>1, CheckKeeps DEF Authenticate, IInv
<1>4. rows' \in [Vouchers -> Voucher] /\ VoucherRowsConsistent'
  BY SameRows DEF Authenticate
<1>5. CountsOK'
  BY <1>1, Constants DEF Authenticate, IInv, TypeOK, CountsOK, history
<1>6. \A d \in Clients :
        /\ Cardinality(attempts[d]) \in Nat /\ Cardinality(attempts'[d]) \in Nat
        /\ Cardinality(attempts'[d]) <= Cardinality(attempts[d])
  BY <1>3, FS_Subset, FS_CardinalityType DEF IInv, LimiterOK
<1> HIDE DEF t
<1>7. CASE ~ Allowed(c, now)
  <2>1. UNCHANGED task
    BY <1>7 DEF Authenticate
  <2>2. task' = [task EXCEPT ![p] = Idle]
    BY <2>1, <1>1 DEF IInv, TypeOK
  <2>3. AttemptsBounded'
    <3> SUFFICES ASSUME NEW d \in Clients
                 PROVE  Cardinality(attempts'[d]) + Cardinality(InFlight(d)')
                          <= MaxAttempts - 1 + Cardinality(Handlers)
      BY DEF AttemptsBounded
    <3>1. InFlight(d)' = InFlight(d)
      BY <2>1 DEF InFlight
    <3>2. Cardinality(InFlight(d)) \in Nat /\ Cardinality(Handlers) \in Nat
      BY HandlersCount DEF InFlight
    <3>3. Cardinality(attempts[d]) + Cardinality(InFlight(d))
            <= MaxAttempts - 1 + Cardinality(Handlers)
      BY DEF IInv, AttemptsBounded
    <3> QED
      BY <3>1, <3>2, <3>3, <1>6, Constants
  <2> QED
    BY <2>2, <2>3, <1>2, <1>3, <1>4, <1>5, HandlerMoves DEF Authenticate
<1>8. CASE Allowed(c, now)
  <2>1. task' = [task EXCEPT ![p] = t]
    BY <1>8 DEF Authenticate, t
  <2>2. \A r \in Handlers : task'[r] = IF r = p THEN t ELSE task[r]
    BY <2>1 DEF IInv, TypeOK
  <2>3. AttemptsBounded'
    <3> SUFFICES ASSUME NEW d \in Clients
                 PROVE  Cardinality(attempts'[d]) + Cardinality(InFlight(d)')
                          <= MaxAttempts - 1 + Cardinality(Handlers)
      BY DEF AttemptsBounded
    <3>1. /\ Cardinality(InFlight(d)) \in Nat /\ Cardinality(Handlers) \in Nat
          /\ Cardinality(InFlight(d)') \in Nat
          /\ Cardinality(InFlight(d)') <= Cardinality(Handlers)
      <4>1. InFlight(d)' \in SUBSET Handlers /\ InFlight(d) \in SUBSET Handlers
        BY DEF InFlight
      <4> QED
        BY <4>1, HandlersCount
    <3>2. CASE d = c
      BY <3>1, <3>2, <1>3, <1>6, <1>8, Constants
    <3>3. CASE d # c
      <4>1. InFlight(d)' = InFlight(d)
        BY <3>3, <2>2, <1>1, <1>2 DEF InFlight
      <4>2. Cardinality(attempts[d]) + Cardinality(InFlight(d))
              <= MaxAttempts - 1 + Cardinality(Handlers)
        BY DEF IInv, AttemptsBounded
      <4> QED
        BY <4>1, <4>2, <3>1, <1>6, Constants
    <3> QED
      BY <3>2, <3>3
  <2> QED
    BY <2>1, <2>3, <1>2, <1>3, <1>4, <1>5, HandlerMoves DEF Authenticate
<1> QED
  BY <1>7, <1>8

\* A step of a handler in flight that leaves limiter and counters alone.
LEMMA QuietStep ==
    ASSUME IInv, NEW p \in Handlers, NEW t \in Task, TaskOK(t), task[p].pc # "idle",
           t.pc # "idle" => t.client = task[p].client,
           task' = [task EXCEPT ![p] = t], UNCHANGED <<limiter, admin>>,
           rows' \in [Vouchers -> Voucher], VoucherRowsConsistent', CountsOK'
    PROVE  IInv'
<1>1. LimiterOK'
  BY DEF IInv, LimiterOK, limiter, OverLimitMeansLocked
<1>2. \A d \in Clients : attempts'[d] \subseteq attempts[d]
  BY DEF limiter
<1>3. task[p].client \in Clients
  BY DEF IInv, TypeOK, Task
<1>4. AttemptsBounded'
  BY <1>1, <1>2, <1>3, BoundKept
<1> QED
  BY <1>1, <1>4, HandlerMoves

LEMMA LookupKeeps ==
    ASSUME IInv, NEW p \in Handlers, Lookup(p)
    PROVE  IInv'
<1>1. task[p] \in Task /\ TaskOK(task[p]) /\ task[p].pc = "lookup"
  BY DEF IInv, TypeOK, Lookup
<1>2. rows' \in [Vouchers -> Voucher] /\ VoucherRowsConsistent'
  BY SameRows DEF Lookup
<1>3. CountsOK'
  BY DEF Lookup, MarkRace, IInv, TypeOK, CountsOK
<1>4. CASE task[p].code \in Vouchers
  <2> DEFINE t == [task[p] EXCEPT !.pc = "decide", !.copy = rows[task[p].code]]
  <2>1. task' = [task EXCEPT ![p] = t]
    BY <1>4 DEF Lookup, IInv, TypeOK
  <2>2. rows[task[p].code] \in Voucher /\ Consistent(task[p].code, rows[task[p].code])
    BY <1>4 DEF IInv, TypeOK, VoucherRowsConsistent
  <2>3. t \in Task /\ t.client = task[p].client /\ TaskOK(t)
    BY <1>1, <1>4, <2>2 DEF Task, TaskOK
  <2> HIDE DEF t
  <2> QED
    BY <2>1, <2>3, <1>1, <1>2, <1>3, QuietStep DEF Lookup
<1>5. CASE task[p].code \notin Vouchers
  <2> DEFINE t == [task[p] EXCEPT !.pc = "decide"]
  <2>1. task' = [task EXCEPT ![p] = t]
    BY <1>5 DEF Lookup, IInv, TypeOK
  <2>2. t \in Task /\ t.client = task[p].client /\ TaskOK(t)
    BY <1>1, <1>5 DEF Task, TaskOK
  <2> HIDE DEF t
  <2> QED
    BY <2>1, <2>2, <1>1, <1>2, <1>3, QuietStep DEF Lookup
<1> QED
  BY <1>4, <1>5

LEMMA FailKeeps ==
    ASSUME IInv, NEW p \in Handlers, task[p].pc # "idle", Fail(p)
    PROVE  IInv'
<1>1. task[p] \in Task /\ TaskOK(task[p]) /\ now \in Time
  BY DEF IInv, TypeOK
<1>2. task[p].client \in Clients /\ task[p].id \in 1 .. MaxRequests
  BY <1>1, Constants DEF Task, TaskOK
<1>3. /\ LimiterOK'
      /\ \A d \in Clients : d # task[p].client => attempts'[d] = attempts[d]
      /\ Cardinality(attempts'[task[p].client]) <= Cardinality(attempts[task[p].client]) + 1
  BY <1>1, <1>2, FailureKeeps DEF Fail, IInv
<1>4. task' = [task EXCEPT ![p] = Idle] /\ Idle \in Task /\ Idle.pc = "idle" /\ TaskOK(Idle)
  BY IdleTypes DEF Fail, TaskOK
<1>5. AttemptsBounded'
  BY <1>2, <1>3, <1>4, BoundKept
<1>6. CountsOK'
  BY CountsStay DEF Fail, history
<1>7. rows' \in [Vouchers -> Voucher] /\ VoucherRowsConsistent'
  BY SameRows DEF Fail
<1> QED
  BY <1>3, <1>4, <1>5, <1>6, <1>7, HandlerMoves DEF Fail

LEMMA AcceptKeeps ==
    ASSUME IInv, NEW p \in Handlers, Accept(p)
    PROVE  IInv'
<1> DEFINE t == [task[p] EXCEPT !.pc = "use", !.copy = Used(task[p].code, task[p].copy)]
<1>1. task[p] \in Task /\ TaskOK(task[p]) /\ task[p].pc = "decide"
  BY DEF IInv, TypeOK, Accept
<1>2. /\ task[p].code \in Vouchers /\ Accepts(task[p].code, task[p].copy)
      /\ Consistent(task[p].code, task[p].copy) /\ task[p].copy \in Voucher
  BY <1>1 DEF Accept, Redeemable, TaskOK, Task
<1>3. /\ Used(task[p].code, task[p].copy) \in Voucher
      /\ Consistent(task[p].code, Used(task[p].code, task[p].copy))
  BY <1>2, UsedConsistent
<1>4. task' = [task EXCEPT ![p] = t]
  BY DEF Accept, IInv, TypeOK
<1>5. t \in Task /\ t.client = task[p].client /\ TaskOK(t)
  BY <1>1, <1>2, <1>3 DEF Task, TaskOK
<1>6. rows' \in [Vouchers -> Voucher] /\ VoucherRowsConsistent'
  BY SameRows DEF Accept
<1>7. CountsOK'
  BY CountsStay DEF Accept, history
<1> HIDE DEF t
<1> QED
  BY <1>1, <1>4, <1>5, <1>6, <1>7, QuietStep DEF Accept

LEMMA SaveUseKeeps ==
    ASSUME IInv, NEW p \in Handlers, SaveUse(p)
    PROVE  IInv'
<1> DEFINE t == [task[p] EXCEPT !.pc = "create"]
<1>1. task[p] \in Task /\ TaskOK(task[p]) /\ task[p].pc = "use"
  BY DEF IInv, TypeOK, SaveUse
<1>2. /\ task[p].code \in Vouchers /\ task[p].copy \in Voucher
      /\ Consistent(task[p].code, task[p].copy)
  BY <1>1 DEF TaskOK, Task
<1>3. rows' \in [Vouchers -> Voucher] /\ VoucherRowsConsistent'
  BY <1>2, OneRow DEF SaveUse
<1>4. task' = [task EXCEPT ![p] = t]
  BY DEF SaveUse, IInv, TypeOK
<1>5. t \in Task /\ t.client = task[p].client /\ TaskOK(t)
  BY <1>1, <1>2 DEF Task, TaskOK
<1>6. CountsOK'
  BY CountsStay DEF SaveUse, history
<1> HIDE DEF t
<1> QED
  BY <1>1, <1>3, <1>4, <1>5, <1>6, QuietStep DEF SaveUse

LEMMA CreateGrantKeeps ==
    ASSUME IInv, NEW p \in Handlers, CreateGrant(p)
    PROVE  IInv'
<1> DEFINE t == [task[p] EXCEPT !.pc = "activate"]
<1>1. /\ task[p] \in Task /\ TaskOK(task[p]) /\ task[p].pc = "create"
      /\ task[p].code \in Vouchers
  BY DEF IInv, TypeOK, CreateGrant, TaskOK
<1>2. task' = [task EXCEPT ![p] = t]
  BY DEF CreateGrant, IInv, TypeOK
<1>3. t \in Task /\ t.client = task[p].client /\ TaskOK(t)
  BY <1>1 DEF Task, TaskOK
<1>4. rows' \in [Vouchers -> Voucher] /\ VoucherRowsConsistent'
  BY SameRows DEF CreateGrant
<1>5. CountsOK'
  BY <1>1 DEF CreateGrant, IInv, TypeOK, CountsOK
<1> HIDE DEF t
<1> QED
  BY <1>1, <1>2, <1>3, <1>4, <1>5, QuietStep DEF CreateGrant

LEMMA SucceedKeeps ==
    ASSUME IInv, NEW p \in Handlers, Succeed(p)
    PROVE  IInv'
<1> DEFINE t == [task[p] EXCEPT !.pc = "report"]
<1>1. task[p] \in Task /\ TaskOK(task[p]) /\ task[p].pc = "activate"
  BY DEF IInv, TypeOK, Succeed
<1>2. task' = [task EXCEPT ![p] = t]
  BY DEF Succeed, IInv, TypeOK
<1>3. t \in Task /\ t.client = task[p].client /\ TaskOK(t) /\ task[p].client \in Clients
  BY <1>1 DEF Task, TaskOK
<1>4. LimiterOK' /\ \A d \in Clients : attempts'[d] \subseteq attempts[d]
  BY <1>3, SuccessKeeps DEF Succeed, IInv
<1>5. rows' \in [Vouchers -> Voucher] /\ VoucherRowsConsistent'
  BY SameRows DEF Succeed
<1>6. CountsOK'
  BY CountsStay DEF Succeed, history
<1> HIDE DEF t
<1>7. AttemptsBounded'
  BY <1>1, <1>2, <1>3, <1>4, BoundKept
<1> QED
  BY <1>2, <1>3, <1>4, <1>5, <1>6, <1>7, HandlerMoves DEF Succeed

\* A handler that has answered, or whose lookup raised.
LEMMA LeaveKeeps ==
    ASSUME IInv, NEW p \in Handlers, task[p].pc # "idle", Leave(p)
    PROVE  IInv'
<1>1. task[p].pc # "idle" /\ task' = [task EXCEPT ![p] = Idle]
  BY DEF Leave
<1>2. Idle \in Task /\ Idle.pc = "idle" /\ TaskOK(Idle)
  BY IdleTypes DEF TaskOK
<1>3. rows' \in [Vouchers -> Voucher] /\ VoucherRowsConsistent'
  BY SameRows DEF Leave
<1>4. CountsOK'
  BY CountsStay DEF Leave, history
<1> QED
  BY <1>1, <1>2, <1>3, <1>4, QuietStep DEF Leave

\* A step that leaves the handlers and the limiter alone.
LEMMA AdminMoves ==
    ASSUME IInv, UNCHANGED <<task, limiter>>,
           admin' \in [Admins -> Deletion], \A a \in Admins : DeletionOK(admin'[a]),
           rows' \in [Vouchers -> Voucher], VoucherRowsConsistent', CountsOK'
    PROVE  IInv'
<1>1. LimiterOK' /\ AttemptsBounded'
  BY DEF IInv, LimiterOK, limiter, OverLimitMeansLocked, AttemptsBounded, InFlight
<1>2. TypeOK'
  BY <1>1 DEF IInv, TypeOK, CountsOK, LimiterOK
<1>3. \A p \in Handlers : TaskOK(task'[p])
  BY DEF IInv
<1> QED
  BY <1>1, <1>2, <1>3 DEF IInv

LEMMA CreateVoucherKeeps ==
    ASSUME IInv, NEW v \in Vouchers, CreateVoucher(v)
    PROVE  IInv'
<1> DEFINE row == [rows[v] EXCEPT !.status = "active"]
<1>1. rows[v] \in Voucher /\ rows[v].status = "none" /\ Consistent(v, rows[v])
  BY DEF CreateVoucher, IInv, TypeOK, VoucherRowsConsistent
<1>2. row \in Voucher /\ row.uses = rows[v].uses
  BY <1>1 DEF Voucher
<1>3. ~ Exhausted(v, rows[v])
  BY <1>1 DEF Consistent
<1>4. Consistent(v, row)
  BY <1>1, <1>2, <1>3 DEF Consistent, Exhausted
<1>5. rows' = [rows EXCEPT ![v] = row]
  BY DEF CreateVoucher, IInv, TypeOK
<1>6. rows' \in [Vouchers -> Voucher] /\ VoucherRowsConsistent'
  <2> HIDE DEF row
  <2> QED
    BY <1>2, <1>4, <1>5, OneRow
<1>7. CountsOK'
  BY CountsStay DEF CreateVoucher, history
<1>8. admin' \in [Admins -> Deletion] /\ \A a \in Admins : DeletionOK(admin'[a])
  BY DEF CreateVoucher, IInv, TypeOK
<1> QED
  BY <1>6, <1>7, <1>8, AdminMoves DEF CreateVoucher

LEMMA DeleteVoucherKeeps ==
    ASSUME IInv, NEW a \in Admins, NEW v \in Vouchers, DeleteVoucher(a, v)
    PROVE  IInv'
<1> DEFINE d == [pc |-> "save", code |-> v, copy |-> Deactivated(rows[v])]
<1>1. rows[v] \in Voucher /\ Consistent(v, rows[v])
  BY DEF IInv, TypeOK, VoucherRowsConsistent
<1>2. d \in Deletion /\ DeletionOK(d)
  BY <1>1, DeactivatedConsistent DEF Deletion, DeletionOK
<1>3. admin' = [admin EXCEPT ![a] = d]
  BY DEF DeleteVoucher
<1> HIDE DEF d
<1>4. admin' \in [Admins -> Deletion] /\ \A b \in Admins : DeletionOK(admin'[b])
  BY <1>2, <1>3 DEF IInv, TypeOK
<1>5. rows' \in [Vouchers -> Voucher] /\ VoucherRowsConsistent'
  BY SameRows DEF DeleteVoucher
<1>6. CountsOK'
  BY Constants DEF DeleteVoucher, MarkRace, IInv, TypeOK, CountsOK
<1> QED
  BY <1>4, <1>5, <1>6, AdminMoves DEF DeleteVoucher

LEMMA SaveInactiveKeeps ==
    ASSUME IInv, NEW a \in Admins, SaveInactive(a)
    PROVE  IInv'
<1>1. /\ admin[a].code \in Vouchers /\ admin[a].copy \in Voucher
      /\ Consistent(admin[a].code, admin[a].copy)
  BY DEF SaveInactive, IInv, TypeOK, Deletion, DeletionOK
<1>2. rows' \in [Vouchers -> Voucher] /\ VoucherRowsConsistent'
  BY <1>1, OneRow DEF SaveInactive
<1>3. NoDeletion \in Deletion /\ DeletionOK(NoDeletion)
  BY IdleTypes DEF DeletionOK
<1>4. admin' \in [Admins -> Deletion] /\ \A b \in Admins : DeletionOK(admin'[b])
  BY <1>3 DEF SaveInactive, IInv, TypeOK
<1>5. CountsOK'
  BY <1>1 DEF SaveInactive, IInv, TypeOK, CountsOK
<1> QED
  BY <1>2, <1>4, <1>5, AdminMoves DEF SaveInactive

LEMMA SaveInactiveFailsKeeps ==
    ASSUME IInv, NEW a \in Admins, SaveInactiveFails(a)
    PROVE  IInv'
<1>1. rows' \in [Vouchers -> Voucher] /\ VoucherRowsConsistent'
  BY SameRows DEF SaveInactiveFails
<1>2. NoDeletion \in Deletion /\ DeletionOK(NoDeletion)
  BY IdleTypes DEF DeletionOK
<1>3. admin' \in [Admins -> Deletion] /\ \A b \in Admins : DeletionOK(admin'[b])
  BY <1>2 DEF SaveInactiveFails, IInv, TypeOK
<1>4. CountsOK'
  BY CountsStay DEF SaveInactiveFails, history
<1> QED
  BY <1>1, <1>3, <1>4, AdminMoves DEF SaveInactiveFails

LEMMA TickKeeps ==
    ASSUME IInv, Tick
    PROVE  IInv'
<1>1. CountsOK'
  BY Constants DEF Tick, IInv, TypeOK, CountsOK, Time, history
<1>2. rows' \in [Vouchers -> Voucher] /\ VoucherRowsConsistent'
  BY SameRows DEF Tick
<1>3. admin' \in [Admins -> Deletion] /\ \A a \in Admins : DeletionOK(admin'[a])
  BY DEF Tick, IInv, TypeOK
<1> QED
  BY <1>1, <1>2, <1>3, AdminMoves DEF Tick

\* With no failures and no handlers the bound is that of an idle system.
LEMMA NothingInFlight ==
    ASSUME task = [p \in Handlers |-> Idle], LimiterInit
    PROVE  LimiterOK /\ AttemptsBounded
<1>1. IsFiniteSet({}) /\ Cardinality({}) = 0
  BY FS_EmptySet
<1>2. LimiterOK
  BY <1>1, Constants DEF LimiterInit, LimiterOK, OverLimitMeansLocked
<1>3. \A c \in Clients : InFlight(c) = {} /\ attempts[c] = {}
  BY IdleTypes DEF InFlight, LimiterInit
<1>4. Cardinality(Handlers) \in Nat
  BY Constants, FS_CardinalityType
<1>5. ASSUME NEW c \in Clients
      PROVE  Cardinality(attempts[c]) = 0 /\ Cardinality(InFlight(c)) = 0
  BY <1>1, <1>3
<1>6. AttemptsBounded
  BY <1>4, <1>5, Constants DEF AttemptsBounded
<1> QED
  BY <1>2, <1>6

LEMMA InitIInv == Init => IInv
<1> SUFFICES ASSUME Init PROVE IInv
  OBVIOUS
<1>1. LimiterOK /\ AttemptsBounded
  BY NothingInFlight DEF Init
<1>2. VoucherRowsConsistent
  BY NoVoucherOK DEF Init, VoucherRowsConsistent
<1>3. \A p \in Handlers : TaskOK(task[p])
  BY IdleTypes DEF Init, TaskOK
<1>4. \A a \in Admins : DeletionOK(admin[a])
  BY IdleTypes DEF Init, DeletionOK
<1>5. TypeOK
  BY <1>1, IdleTypes, Constants DEF Init, TypeOK, LimiterOK, Time
<1> QED
  BY <1>1, <1>2, <1>3, <1>4, <1>5 DEF IInv

LEMMA RestartKeeps ==
    ASSUME IInv, Restart
    PROVE  IInv'
<1>1. (task = [p \in Handlers |-> Idle])' /\ LimiterInit'
  BY DEF Restart, LimiterInit
<1>2. LimiterOK' /\ AttemptsBounded'
  <2>1. IsFiniteSet({}) /\ Cardinality({}) = 0
    BY FS_EmptySet
  <2>2. LimiterOK'
    BY <1>1, <2>1, Constants DEF LimiterInit, LimiterOK, OverLimitMeansLocked
  <2>3. \A c \in Clients : InFlight(c)' = {} /\ attempts'[c] = {}
    BY <1>1, IdleTypes DEF InFlight, LimiterInit
  <2>4. Cardinality(Handlers) \in Nat
    BY Constants, FS_CardinalityType
  <2>5. ASSUME NEW c \in Clients
        PROVE  Cardinality(attempts'[c]) = 0 /\ Cardinality(InFlight(c)') = 0
    BY <2>1, <2>3
  <2>6. AttemptsBounded'
    BY <2>4, <2>5, Constants DEF AttemptsBounded
  <2> QED
    BY <2>2, <2>6
<1>3. rows' \in [Vouchers -> Voucher] /\ VoucherRowsConsistent'
  BY SameRows DEF Restart
<1>4. /\ \A p \in Handlers : TaskOK(task'[p])
      /\ \A a \in Admins : DeletionOK(admin'[a])
  BY IdleTypes DEF Restart, TaskOK, DeletionOK
<1>5. task' \in [Handlers -> Task] /\ admin' \in [Admins -> Deletion]
  BY IdleTypes DEF Restart
<1>6. CountsOK'
  BY Constants DEF Restart, history, IInv, TypeOK, CountsOK
<1>7. TypeOK'
  BY <1>2, <1>3, <1>5, <1>6 DEF TypeOK, CountsOK, LimiterOK
<1> QED
  BY <1>2, <1>3, <1>4, <1>7 DEF IInv

-----------------------------------------------------------------------------

LEMMA StutterKeeps ==
    ASSUME IInv, UNCHANGED vars
    PROVE  IInv'
<1>1. admin' \in [Admins -> Deletion] /\ \A a \in Admins : DeletionOK(admin'[a])
  BY DEF vars, IInv, TypeOK
<1>2. CountsOK'
  BY CountsStay DEF vars
<1>3. rows' \in [Vouchers -> Voucher] /\ VoucherRowsConsistent'
  BY SameRows DEF vars
<1> QED
  BY <1>1, <1>2, <1>3, AdminMoves DEF vars

LEMMA NextKeeps ==
    ASSUME IInv, [Next]_vars
    PROVE  IInv'
<1>1. ASSUME NEW p \in Handlers, HandlerStep(p) PROVE IInv'
  <2>1. CASE \E c \in Clients, code \in Vouchers \cup {Unknown} : Authenticate(p, c, code)
    BY <2>1, AuthenticateKeeps
  <2>2. CASE Lookup(p) \/ Accept(p) \/ SaveUse(p)
    BY <2>2, LookupKeeps, AcceptKeeps, SaveUseKeeps
  <2>3. CASE CreateGrant(p) \/ Succeed(p) \/ Report(p) \/ LookupFails(p)
    BY <2>3, CreateGrantKeeps, SucceedKeeps, LeaveKeeps DEF Report, LookupFails
  <2>4. CASE Reject(p) \/ SystemError(p)
    <3>1. task[p].pc # "idle" /\ Fail(p)
      BY <2>4 DEF Reject, SystemError
    <3> QED
      BY <3>1, FailKeeps
  <2> QED
    BY <1>1, <2>1, <2>2, <2>3, <2>4 DEF HandlerStep
<1>2. CASE \E p \in Handlers : HandlerStep(p)
  BY <1>1, <1>2
<1>3. CASE \E v \in Vouchers : CreateVoucher(v) \/ \E a \in Admins : DeleteVoucher(a, v)
  BY <1>3, CreateVoucherKeeps, DeleteVoucherKeeps
<1>4. CASE \E a \in Admins : SaveInactive(a) \/ SaveInactiveFails(a)
  BY <1>4, SaveInactiveKeeps, SaveInactiveFailsKeeps
<1>5. CASE Tick \/ Restart \/ UNCHANGED vars
  BY <1>5, TickKeeps, RestartKeeps, StutterKeeps
<1> QED
  BY <1>2, <1>3, <1>4, <1>5 DEF Next

\* The inductive invariant holds in every reachable state.
THEOREM Inductive == Spec => []IInv
BY InitIInv, NextKeeps, PTL DEF Spec

\* Every variable keeps its type: no lockout ends later than it may.
THEOREM TypeCorrect == Spec => []TypeOK
<1>1. IInv => TypeOK
  BY DEF IInv
<1> QED
  BY <1>1, Inductive, PTL

\* However many logins of a client overlap between the check of the limit and
\* the count, the failures on record and to come exceed it by no more.
THEOREM AttemptsAlwaysBounded == Spec => []AttemptsBounded
<1>1. IInv => AttemptsBounded
  BY DEF IInv
<1> QED
  BY <1>1, Inductive, PTL

\* A client at the limit always has a lockout on record.
THEOREM OverLimitAlwaysLocked == Spec => []OverLimitMeansLocked
<1>1. IInv => OverLimitMeansLocked
  BY DEF IInv, LimiterOK
<1> QED
  BY <1>1, Inductive, PTL

\* Whichever copies overlapping logins and deactivations save, no row shows more
\* uses than its voucher has, or an exhausted voucher as active.
THEOREM VoucherRowsAlwaysConsistent == Spec => []VoucherRowsConsistent
<1>1. IInv => VoucherRowsConsistent
  BY DEF IInv
<1> QED
  BY <1>1, Inductive, PTL

=============================================================================
