---------------------------- MODULE PortalAccess ----------------------------
(***************************************************************************)
(* Voucher redemption: POST /portal/authenticate of portal/router.py over  *)
(* VoucherService, the vouchers table and the rate limiter, with the       *)
(* administrators' creations and deactivations of api/vouchers.py.         *)
(*                                                                         *)
(* An action is the code between two awaits that let others run.  The      *)
(* handler works on a copy of the voucher it read, and saves status and    *)
(* uses of that copy in a later transaction without looking again.  What   *)
(* becomes of the grant it makes is the matter of GrantLifecycle.  The API *)
(* creates vouchers without expires_at, so no voucher ends by the clock.   *)
(***************************************************************************)
EXTENDS RateLimiter

CONSTANTS
    Handlers,     \* portal requests that may run at the same time
    Admins,       \* deactivations that may
    Vouchers,
    Unknown,      \* a code no voucher has
    MaxUses,      \* max_uses of each voucher
    MaxTime,      \* bound of the clock
    MaxRequests,  \* bound on the portal requests in a behaviour
    MaxDeletes,   \* bound on the deactivations
    MaxCrashes,   \* bound on the crashes
    CanFail       \* may the database or the creation of a grant fail?

Unlimited == -1

ASSUME PortalAssumption ==
    /\ Clients # {}
    /\ IsFiniteSet(Handlers) /\ Handlers \cap Admins = {}
    /\ Unknown \notin Vouchers
    /\ MaxUses \in [Vouchers -> {Unlimited} \cup (Nat \ {0})]
    /\ MaxTime \in Nat /\ MaxRequests \in Nat /\ MaxDeletes \in Nat
    /\ MaxCrashes \in Nat
    /\ CanFail \in BOOLEAN

VARIABLES
    now,
    rows,     \* the vouchers table
    task,     \* the portal handlers
    admin,    \* the deactivations
    served,   \* portal requests begun
    deletes,  \* deactivations begun
    crashes,
    made,     \* history: grants made from each voucher
    off,      \* history: vouchers whose deactivation was saved
    raced     \* history: vouchers of which two copies were held at once

vars == <<limiter, now, rows, task, admin, served, deletes, crashes, made, off, raced>>
history == <<made, off, raced>>

Time == 0 .. MaxTime

Voucher == [status: {"none", "active", "inactive"}, uses: Nat]
NoVoucher == [status |-> "none", uses |-> 0]

Task == [pc: {"idle", "lookup", "decide", "use", "create", "activate", "report"},
         client: Clients, code: Vouchers \cup {Unknown},
         copy: Voucher, id: 0 .. MaxRequests]

Idle == [pc |-> "idle", client |-> CHOOSE c \in Clients : TRUE, code |-> Unknown,
         copy |-> NoVoucher, id |-> 0]

Deletion == [pc: {"idle", "save"}, code: Vouchers \cup {Unknown}, copy: Voucher]
NoDeletion == [pc |-> "idle", code |-> Unknown, copy |-> NoVoucher]

Init ==
    /\ LimiterInit
    /\ now = 0
    /\ rows = [v \in Vouchers |-> NoVoucher]
    /\ task = [p \in Handlers |-> Idle]
    /\ admin = [a \in Admins |-> NoDeletion]
    /\ served = 0 /\ deletes = 0 /\ crashes = 0
    /\ made = [v \in Vouchers |-> 0]
    /\ off = {} /\ raced = {}

-----------------------------------------------------------------------------
(* Vouchers.                                                               *)

Exhausted(v, row) == MaxUses[v] # Unlimited /\ row.uses >= MaxUses[v]

\* Faulty variants: the status is not looked at; the last use leaves it active.
AcceptsInactive(v, row) == row.status # "none" /\ ~ Exhausted(v, row)
UsedActive(v, row) == [row EXCEPT !.uses = @ + 1]

\* The two checks of the portal, and Voucher.is_valid in use_voucher.
Accepts(v, row) == row.status = "active" /\ ~ Exhausted(v, row)

Used(v, row) ==
    [row EXCEPT !.uses = @ + 1,
                !.status = IF Exhausted(v, [row EXCEPT !.uses = @ + 1])
                           THEN "inactive" ELSE @]

Deactivated(row) == [row EXCEPT !.status = "inactive"]

Holding(v) ==
    {p \in Handlers : task[p].code = v /\ task[p].pc \in {"decide", "use"}}
      \cup {a \in Admins : admin[a].code = v}

MarkRace(v) == raced' = IF Holding(v) = {} THEN raced ELSE raced \cup {v}

-----------------------------------------------------------------------------
(* POST /portal/authenticate.                                              *)

\* The rate limit decides whether the request goes any further.
Authenticate(p, c, code) ==
    /\ task[p] = Idle /\ served < MaxRequests
    /\ CheckRateLimit(c, now)
    /\ served' = served + 1
    /\ task' = IF Allowed(c, now)
               THEN [task EXCEPT ![p] = [Idle EXCEPT !.pc = "lookup", !.client = c,
                                            !.code = code, !.id = served + 1]]
               ELSE task
    /\ UNCHANGED <<now, rows, admin, deletes, crashes, history>>

Lookup(p) ==
    /\ task[p].pc = "lookup"
    /\ IF task[p].code \in Vouchers
       THEN /\ task' = [task EXCEPT ![p].pc = "decide",
                                    ![p].copy = rows[task[p].code]]
            /\ MarkRace(task[p].code)
       ELSE task' = [task EXCEPT ![p].pc = "decide"] /\ UNCHANGED raced
    /\ UNCHANGED <<limiter, now, rows, admin, served, deletes, crashes, made, off>>

\* A handler ends without a word to the limiter.
Leave(p) ==
    /\ task' = [task EXCEPT ![p] = Idle]
    /\ UNCHANGED <<limiter, now, rows, admin, served, deletes, crashes, history>>

\* The session of the lookup raises, outside the handler's try: the attempt is
\* not recorded.
LookupFails(p) == CanFail /\ task[p].pc = "lookup" /\ Leave(p)

\* Every other way a handler fails ends in record_attempt(success=False).
Fail(p) ==
    /\ RecordFailure(task[p].client, now, task[p].id)
    /\ task' = [task EXCEPT ![p] = Idle]
    /\ UNCHANGED <<now, rows, admin, served, deletes, crashes, history>>

Redeemable(p) ==
    task[p].code \in Vouchers /\ Accepts(task[p].code, task[p].copy)

Reject(p) == task[p].pc = "decide" /\ ~ Redeemable(p) /\ Fail(p)

\* Faulty variant: the use is counted on the copy and never saved.
AcceptUnsaved(p) ==
    /\ task[p].pc = "decide" /\ Redeemable(p)
    /\ task' = [task EXCEPT ![p].pc = "create"]
    /\ UNCHANGED <<limiter, now, rows, admin, served, deletes, crashes, history>>

Accept(p) ==
    /\ task[p].pc = "decide"
    /\ Redeemable(p)
    /\ task' = [task EXCEPT ![p].pc = "use", ![p].copy = Used(task[p].code, @)]
    /\ UNCHANGED <<limiter, now, rows, admin, served, deletes, crashes, history>>

SaveUse(p) ==
    /\ task[p].pc = "use"
    /\ rows' = [rows EXCEPT ![task[p].code] = task[p].copy]
    /\ task' = [task EXCEPT ![p].pc = "create"]
    /\ UNCHANGED <<limiter, now, admin, served, deletes, crashes, history>>

CreateGrant(p) ==
    /\ task[p].pc = "create"
    /\ made' = [made EXCEPT ![task[p].code] = @ + 1]
    /\ task' = [task EXCEPT ![p].pc = "activate"]
    /\ UNCHANGED <<limiter, now, rows, admin, served, deletes, crashes, off, raced>>

\* The activation may fail; the guest is told of success all the same.
Succeed(p) ==
    /\ task[p].pc = "activate"
    /\ RecordSuccess(task[p].client)
    /\ task' = [task EXCEPT ![p].pc = "report"]
    /\ UNCHANGED <<now, rows, admin, served, deletes, crashes, history>>

Report(p) == task[p].pc = "report" /\ Leave(p)

\* The use, the grant, the audit record of its creation or that of the login
\* cannot be written: what was written before stays.
SystemError(p) ==
    /\ CanFail
    /\ task[p].pc \in {"use", "create", "activate", "report"}
    /\ Fail(p)

-----------------------------------------------------------------------------
(* Administration, time and restarts.                                      *)

\* Faulty variant: a new voucher may take the code, and the row, of an old one.
CreateVoucherAgain(v) ==
    /\ rows' = [rows EXCEPT ![v].status = "active"]
    /\ UNCHANGED <<limiter, now, task, admin, served, deletes, crashes, history>>

CreateVoucher(v) ==
    /\ rows[v].status = "none"
    /\ rows' = [rows EXCEPT ![v].status = "active"]
    /\ UNCHANGED <<limiter, now, task, admin, served, deletes, crashes, history>>

DeleteVoucher(a, v) ==
    /\ admin[a].pc = "idle" /\ deletes < MaxDeletes
    /\ rows[v].status # "none"
    /\ admin' = [admin EXCEPT ![a] =
                   [pc |-> "save", code |-> v, copy |-> Deactivated(rows[v])]]
    /\ MarkRace(v)
    /\ deletes' = deletes + 1
    /\ UNCHANGED <<limiter, now, rows, task, served, crashes, made, off>>

SaveInactive(a) ==
    /\ admin[a].pc = "save"
    /\ rows' = [rows EXCEPT ![admin[a].code] = admin[a].copy]
    /\ off' = off \cup {admin[a].code}
    /\ admin' = [admin EXCEPT ![a] = NoDeletion]
    /\ UNCHANGED <<limiter, now, task, served, deletes, crashes, made, raced>>

\* The save is rolled back: the voucher stays as it was.
SaveInactiveFails(a) ==
    /\ CanFail
    /\ admin[a].pc = "save"
    /\ admin' = [admin EXCEPT ![a] = NoDeletion]
    /\ UNCHANGED <<limiter, now, rows, task, served, deletes, crashes, history>>

Tick ==
    /\ now < MaxTime
    /\ now' = now + 1
    /\ UNCHANGED <<limiter, rows, task, admin, served, deletes, crashes, history>>

\* The table survives a restart; the limiter and the handlers do not.
Restart ==
    /\ crashes < MaxCrashes
    /\ crashes' = crashes + 1
    /\ attempts' = [c \in Clients |-> {}]
    /\ lockouts' = [c \in Clients |-> Never]
    /\ task' = [p \in Handlers |-> Idle]
    /\ admin' = [a \in Admins |-> NoDeletion]
    /\ UNCHANGED <<now, rows, served, deletes, history>>

HandlerStep(p) ==
    \/ \E c \in Clients, code \in Vouchers \cup {Unknown} : Authenticate(p, c, code)
    \/ Lookup(p)
    \/ LookupFails(p)
    \/ Reject(p)
    \/ Accept(p)
    \/ SaveUse(p)
    \/ CreateGrant(p)
    \/ Succeed(p)
    \/ Report(p)
    \/ SystemError(p)

Next ==
    \/ \E p \in Handlers : HandlerStep(p)
    \/ \E v \in Vouchers : CreateVoucher(v) \/ \E a \in Admins : DeleteVoucher(a, v)
    \/ \E a \in Admins : SaveInactive(a) \/ SaveInactiveFails(a)
    \/ Tick
    \/ Restart

Spec == Init /\ [][Next]_vars

-----------------------------------------------------------------------------
(* Properties.                                                             *)

TypeOK ==
    /\ attempts \in [Clients -> SUBSET [at: Time, of: 1 .. MaxRequests]]
    /\ lockouts \in [Clients -> {Never} \cup 0 .. MaxTime + Lockout]
    /\ now \in Time
    /\ rows \in [Vouchers -> Voucher]
    /\ task \in [Handlers -> Task]
    /\ admin \in [Admins -> Deletion]
    /\ served \in 0 .. MaxRequests
    /\ deletes \in 0 .. MaxDeletes
    /\ crashes \in 0 .. MaxCrashes
    /\ made \in [Vouchers -> Nat]
    /\ off \subseteq Vouchers /\ raced \subseteq Vouchers

InFlight(c) == {p \in Handlers : task[p].pc # "idle" /\ task[p].client = c}

\* The limit is checked before and counted after the voucher is looked at:
\* handlers that overlap pass the check together, and the failures on record
\* with those still to come exceed the limit by no more than their number.
AttemptsBounded == \A c \in Clients :
    Cardinality(attempts[c]) + Cardinality(InFlight(c))
        <= MaxAttempts - 1 + Cardinality(Handlers)

\* FR-018: whichever copy was saved last, a row never shows more uses than the
\* voucher has, and none that has used them all is active.
Consistent(v, row) ==
    /\ MaxUses[v] # Unlimited => row.uses <= MaxUses[v]
    /\ Exhausted(v, row) => row.status = "inactive"

VoucherRowsConsistent == \A v \in Vouchers : Consistent(v, rows[v])

\* FR-018: as long as no two requests held a voucher at once, each grant made
\* from it has been counted as a use, restarts and errors included.
UsesCounted == \A v \in Vouchers \ raced : made[v] <= rows[v].uses

\* api/vouchers.py: a deactivated voucher is never used again, as long as no two
\* requests held it at once.
DeactivatedUnused ==
    [][\A v \in off \ raced' : rows'[v] = rows[v]]_<<rows, off, raced>>

\* VoucherService, router.py: each login and each deactivation is one step of the
\* contract, whatever others do, fail to do or lose in a restart, and a race
\* for a voucher waives the contract of that voucher alone: see VoucherContract.
Contract == INSTANCE VoucherContract WITH
    status <- [v \in Vouchers |-> rows[v].status],
    uses <- [v \in Vouchers |-> rows[v].uses],
    waived <- raced
ImplementsContract == Contract!Spec

\* router.py:263, TLC refutes it: reuse of exhausted vouchers is prevented.
NoReuse == \A v \in Vouchers : MaxUses[v] # Unlimited => made[v] <= MaxUses[v]

=============================================================================
