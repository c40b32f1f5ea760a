--------------------------- MODULE GrantLifecycle ---------------------------
(***************************************************************************)
(* Access grants as the add-on handles them: request handlers of           *)
(* api/grants.py that call GrantManager, the passes of ExpiryScheduler,    *)
(* the grants table and the network controller.                            *)
(*                                                                         *)
(* Everything runs on one asyncio loop, so an action is the code between   *)
(* two awaits.  A handler reads the grant into an object in one database   *)
(* session, changes the object, and writes every column of the object back *)
(* in a second session (GrantRepository.update has no version check); in   *)
(* between, other handlers and an expiry pass run.  Each session is taken  *)
(* here as one atomic transaction, which may fail; a session that only     *)
(* reads, or that inserts a new grant, leaves nothing behind when it does. *)
(*                                                                         *)
(* A time is what a clock shows, and its offset from UTC.  SQLite keeps    *)
(* what the clock shows and drops the offset; a row's times are read as    *)
(* UTC.  Only the times a request names have an offset.                    *)
(***************************************************************************)
EXTENDS Integers, FiniteSets

CONSTANTS
    Grants,       \* grant ids
    Requests,     \* handlers that may run at the same time
    Passes,       \* expiry passes that may: the loop's and the manual trigger's
    Vouchers,     \* ids the controller may give to a voucher
    NoVoucher,    \* controller_voucher_id IS NULL
    NoGrant,
    MaxTime,      \* bound of the clock and of every time a request names
    Grace,        \* grace_period_minutes
    MaxRetries,   \* RetryPolicy.max_retries
    MaxRequests,  \* bound on the requests served in a behaviour
    MaxCrashes,   \* bound on the crashes in a behaviour
    MaxErrors,    \* bound on the database sessions that fail in a behaviour
    Offsets,      \* from UTC, of the times a request may name
    Faults        \* what the controller may do wrong, see FaultKinds

\* A reply with success=False, an exception, an effect whose reply is one of
\* these, and get_controller() raising because nothing configured it.
FaultKinds == {"failure", "exception", "late_effect", "no_controller"}

ASSUME LifecycleAssumption ==
    /\ MaxTime \in Nat /\ Grace \in Nat /\ MaxRetries \in Nat
    /\ MaxRequests \in Nat /\ MaxCrashes \in Nat /\ MaxErrors \in Nat
    /\ Offsets \subseteq Int /\ 0 \in Offsets
    /\ NoVoucher \notin Vouchers
    /\ NoGrant \notin Grants
    /\ Requests \cap Passes = {}
    /\ Faults \subseteq FaultKinds

VARIABLES
    now,       \* the wall clock
    rows,      \* the grants table
    task,      \* the handlers: where each is and the grant object it holds
    pass,      \* the expiry passes, likewise
    live,      \* vouchers the controller honours
    owner,     \* the grant each voucher was provisioned for
    until,     \* the end of access the controller was last given for it
    audit,     \* audit events, as pairs of a grant and an event
    served,    \* requests begun
    crashes,   \* crashes so far
    cut,       \* history: grants a crash left with a step undone, or that got a
               \* voucher which could not be saved
    failed,    \* history: grants for which a controller call went wrong
    errors,    \* database sessions that failed so far
    unlogged,  \* history: audit events whose session failed, as in audit
    shifted    \* history: grants given a time with an offset

controller == <<live, owner, until>>
journal == <<errors, unlogged, shifted>>
vars == <<now, rows, task, pass, controller, audit, served, crashes, cut, failed,
          journal>>

Time == 0 .. MaxTime
Never == -1
Open == {"pending", "active"}
Closed == {"expired", "revoked"}

Row == [status: {"none"} \cup Open \cup Closed,
        start: Time, end: Time,
        activated: Time \cup {Never}, revoked: Time \cup {Never},
        voucher: Vouchers \cup {NoVoucher},
        error: BOOLEAN]

NoRow == [status |-> "none", start |-> 0, end |-> 0, activated |-> Never,
          revoked |-> Never, voucher |-> NoVoucher, error |-> FALSE]

Zones == [start: Offsets, end: Offsets]

Operations == {"activate", "extend", "shorten", "revoke", "expire"}

Task == [op: Operations \cup {"none", "create", "activation_error"},
         pc: {"idle", "created", "check", "provision", "save", "controller", "log"},
         grant: Grants \cup {NoGrant},
         arg: Time,             \* the end time the request names
         zone: Zones,           \* the offsets of the times it names
         obj: Row,              \* the AccessGrant object the handler holds
         at: Time,              \* the local "now" of an activation
         tries: 0 .. MaxRetries]

UTC == [start |-> 0, end |-> 0]

Idle == [op |-> "none", pc |-> "idle", grant |-> NoGrant, arg |-> 0, zone |-> UTC,
         obj |-> NoRow, at |-> 0, tries |-> 0]

Pass == [pc: {"idle", "update", "log", "revoke"},
         todo: SUBSET Grants,
         copy: [Grants -> Row],
         cur: Grants \cup {NoGrant}]

NoPass == [pc |-> "idle", todo |-> {}, copy |-> [g \in Grants |-> NoRow],
           cur |-> NoGrant]

Init ==
    /\ now = 0
    /\ rows = [g \in Grants |-> NoRow]
    /\ task = [p \in Requests |-> Idle]
    /\ pass = [q \in Passes |-> NoPass]
    /\ live = {}
    /\ owner = [v \in Vouchers |-> NoGrant]
    /\ until = [v \in Vouchers |-> 0]
    /\ audit = {}
    /\ served = 0
    /\ crashes = 0
    /\ cut = {}
    /\ failed = {}
    /\ errors = 0
    /\ unlogged = {}
    /\ shifted = {}

Fresh == {v \in Vouchers : owner[v] = NoGrant}

\* A reply the controller may give; only "success" promises an effect.
Replies == {"success"} \cup (Faults \cap {"failure", "exception"})
EffectOf(reply) ==
    IF reply = "success" THEN {TRUE}
    ELSE IF "late_effect" \in Faults THEN BOOLEAN ELSE {FALSE}

Blame(g, reply) == failed' = IF reply = "success" THEN failed ELSE failed \cup {g}

-----------------------------------------------------------------------------
(* What each operation asks of the object it was given, its times and the  *)
(* new end as in UTC, and does to it.                                      *)

\* The object of a handler that created its grant has the times of the request,
\* any other has a row's.
Held(x) == IF x.op \in {"create", "activate"}
           THEN [x.obj EXCEPT !.start = @ - x.zone.start, !.end = @ - x.zone.end]
           ELSE x.obj
Named(x) == x.arg - x.zone.end

MayActivate(r, t) == r.status = "pending" /\ r.start <= t /\ t <= r.end

MayExtend(r, end) == r.status \in Open /\ end > r.end
Extended(r, end) == [r EXCEPT !.end = end]

\* A time of the past becomes now.
Clamp(end, t) == IF end < t THEN t ELSE end
MayShorten(r, end, t) == r.status \in Open /\ Clamp(end, t) < r.end
Shortened(r, end, offset, t) == [r EXCEPT !.end = IF end - offset < t THEN t ELSE end]

\* Faulty variants: no look at the status; the voucher id is cleared before the
\* controller is told.
MayRevokeUnchecked(r) == r.status # "none"
RevokedForgetful(r, t) ==
    [r EXCEPT !.status = "revoked", !.revoked = t, !.voucher = NoVoucher]

MayRevoke(r) == r.status \in Open
Revoked(r, t) == [r EXCEPT !.status = "revoked", !.revoked = t]

Expired(r, t) == [r EXCEPT !.status = "expired", !.end = t]

Activated(r, v, t) ==
    [r EXCEPT !.status = "active", !.activated = t, !.voucher = v,
              !.error = IF v = NoVoucher THEN @ ELSE FALSE]

Permitted(x, t) ==
    \/ x.op = "activate" /\ MayActivate(Held(x), t)
    \/ x.op = "extend" /\ MayExtend(Held(x), Named(x))
    \/ x.op = "shorten" /\ MayShorten(Held(x), Named(x), t)
    \/ x.op = "revoke" /\ MayRevoke(x.obj)
    \/ x.op = "expire"

Changed(x, t) ==
    CASE x.op = "extend"  -> Extended(x.obj, x.arg)
      [] x.op = "shorten" -> Shortened(x.obj, x.arg, x.zone.end, t)
      [] x.op = "revoke"  -> Revoked(x.obj, t)
      [] x.op = "expire"  -> Expired(x.obj, t)

-----------------------------------------------------------------------------
(* The request handlers.                                                   *)

\* POST /api/grants, up to the commit of the new row. The request's times are
\* compared, and then, by the table's CHECK, what is left of them.
CreateGrant(p, g, start, end, zone) ==
    /\ task[p] = Idle /\ served < MaxRequests
    /\ rows[g].status = "none"
    /\ start - zone.start < end - zone.end
    /\ start < end
    /\ LET row == [NoRow EXCEPT !.status = "pending", !.start = start, !.end = end]
       IN /\ rows' = [rows EXCEPT ![g] = row]
          /\ task' = [task EXCEPT ![p] = [Idle EXCEPT !.op = "create",
                         !.pc = "created", !.grant = g, !.zone = zone, !.obj = row]]
    /\ served' = served + 1
    /\ shifted' = IF zone = UTC THEN shifted ELSE shifted \cup {g}
    /\ UNCHANGED <<now, pass, controller, audit, crashes, cut, failed, errors, unlogged>>

\* The audit record of the creation; the handler then activates the object it
\* holds if its window is open.
LogCreated(p) ==
    /\ task[p].pc = "created"
    /\ audit' = audit \cup {<<task[p].grant, "create">>}
    /\ task' = [task EXCEPT ![p] =
                  IF Held(@).start <= now /\ now < Held(@).end
                  THEN [@ EXCEPT !.op = "activate", !.pc = "check"] ELSE Idle]
    /\ UNCHANGED <<now, rows, pass, controller, served, crashes, cut, failed, journal>>

\* Every other handler begins by reading the grant.
ReadGrant(p, op, g, arg, offset) ==
    /\ task[p] = Idle /\ served < MaxRequests
    /\ rows[g].status # "none"
    /\ task' = [task EXCEPT ![p] = [Idle EXCEPT !.op = op, !.pc = "check",
                   !.grant = g, !.arg = arg, !.zone.end = offset, !.obj = rows[g]]]
    /\ served' = served + 1
    /\ UNCHANGED <<now, rows, pass, controller, audit, crashes, cut, failed, journal>>

PatchExtend(p, g, end, offset) ==
    end - offset > now /\ ReadGrant(p, "extend", g, end, offset)
PatchShorten(p, g, end, offset) ==
    ReadGrant(p, "shorten", g, end, offset) \/ ReadGrant(p, "revoke", g, 0, 0)
PostActivate(p, g) == ReadGrant(p, "activate", g, 0, 0)
PatchExpire(p, g) == ReadGrant(p, "expire", g, 0, 0)

\* The operation's own checks, on the object: refused, sent to the controller
\* (activation) or applied to the object.
Refuse(p) ==
    /\ task[p].pc = "check"
    /\ ~ Permitted(task[p], now)
    /\ task' = [task EXCEPT ![p] = Idle]
    /\ UNCHANGED <<now, rows, pass, controller, audit, served, crashes, cut, failed, journal>>

StartActivation(p) ==
    /\ task[p].pc = "check" /\ task[p].op = "activate"
    /\ Permitted(task[p], now)
    /\ task' = [task EXCEPT ![p].pc = "provision", ![p].at = now]
    /\ UNCHANGED <<now, rows, pass, controller, audit, served, crashes, cut, failed, journal>>

ApplyChange(p) ==
    /\ task[p].pc = "check" /\ task[p].op # "activate"
    /\ Permitted(task[p], now)
    /\ task' = [task EXCEPT ![p].pc = "save", ![p].obj = Changed(task[p], now)]
    /\ shifted' = IF task[p].zone = UTC THEN shifted ELSE shifted \cup {task[p].grant}
    /\ UNCHANGED <<now, rows, pass, controller, audit, served, crashes, cut, failed,
                   errors, unlogged>>

\* One attempt to provision. A voucher comes into being with a success, and
\* may with any other reply; only a success tells its id to the handler.
Issue(v, g, end) ==
    IF v = NoVoucher THEN UNCHANGED controller
    ELSE /\ live' = live \cup {v}
         /\ owner' = [owner EXCEPT ![v] = g]
         /\ until' = [until EXCEPT ![v] = end]

Attempt(p, reply, v) ==
    /\ task[p].pc = "provision"
    /\ (v # NoVoucher) \in EffectOf(reply)
    /\ Issue(v, task[p].grant, Held(task[p]).end)
    /\ Blame(task[p].grant, reply)
    /\ UNCHANGED <<now, rows, pass, audit, served, crashes, cut, journal>>

ProvisionReturns(p, reply, v) ==
    /\ reply # "exception"
    /\ Attempt(p, reply, v)
    /\ LET id == IF reply = "success" THEN v ELSE NoVoucher
       IN task' = [task EXCEPT ![p].pc = "save",
                     ![p].obj = Activated(@, id, task[p].at)]

\* RetryPolicy.execute_with_retry makes MaxRetries + 1 attempts. The faulty
\* variant makes one more.
RetryLeftLate(tries) == tries <= MaxRetries
RetryLeft(tries) == tries < MaxRetries

ProvisionRaises(p, v) ==
    /\ "exception" \in Replies
    /\ Attempt(p, "exception", v)
    /\ task' = IF RetryLeft(task[p].tries)
               THEN [task EXCEPT ![p].tries = @ + 1]
               ELSE [task EXCEPT ![p].pc = "save", ![p].op = "activation_error",
                                 ![p].obj.error = TRUE]

\* get_controller() raises inside the try, and the except clause then reads
\* provision_start before it was assigned: the handler ends, nothing is saved.
ControllerMissing(p) ==
    /\ task[p].pc = "provision" /\ task[p].tries = 0
    /\ "no_controller" \in Faults
    /\ task' = [task EXCEPT ![p] = Idle]
    /\ failed' = failed \cup {task[p].grant}
    /\ UNCHANGED <<now, rows, pass, controller, audit, served, crashes, cut, journal>>

\* What the handler does once its object is saved. The faulty variants audit a
\* revocation only if there was a voucher, and never call the controller.
NextAfterSaveUnlogged(t) ==
    CASE t.op \in {"extend", "revoke"} /\ t.obj.voucher # NoVoucher
                                          -> [t EXCEPT !.pc = "controller"]
      [] t.op \in {"expire", "activation_error", "revoke"} -> Idle
      [] OTHER -> [t EXCEPT !.pc = "log"]

NextAfterSaveUncalled(t) ==
    IF t.op \in {"expire", "activation_error"} THEN Idle ELSE [t EXCEPT !.pc = "log"]

NextAfterSave(t) ==
    CASE t.op \in {"extend", "revoke"} /\ t.obj.voucher # NoVoucher
                                          -> [t EXCEPT !.pc = "controller"]
      [] t.op \in {"expire", "activation_error"} -> Idle
      [] OTHER -> [t EXCEPT !.pc = "log"]

\* GrantRepository.update: every column of the row, whatever it holds by now. Of
\* the object's times the row gets what the clock shows.
\* The faulty variant spares a status that is closed already.
StoredSparing(row, obj) ==
    IF row.status \in Closed THEN [obj EXCEPT !.status = row.status] ELSE obj
Stored(row, obj) == obj

\* The CHECK constraint on the times refuses some objects (SaveRefused).
SaveRow(p) ==
    /\ task[p].pc = "save"
    /\ task[p].obj.start < task[p].obj.end
    /\ rows' = [rows EXCEPT ![task[p].grant] = Stored(@, task[p].obj)]
    /\ task' = [task EXCEPT ![p] = NextAfterSave(@)]
    /\ UNCHANGED <<now, pass, controller, audit, served, crashes, cut, failed, journal>>

SaveRefused(p) ==
    /\ task[p].pc = "save"
    /\ task[p].obj.start >= task[p].obj.end
    /\ task' = [task EXCEPT ![p] = Idle]
    /\ UNCHANGED <<now, rows, pass, controller, audit, served, crashes, cut, failed, journal>>

\* A database session of a handler fails.
DatabaseFails(p) ==
    /\ errors < MaxErrors
    /\ errors' = errors + 1
    /\ task' = [task EXCEPT ![p] = Idle]
    /\ UNCHANGED <<now, rows, pass, controller, audit, served, crashes, failed, shifted>>

\* The row stays as it was. A voucher that an activation got is lost.
SaveFails(p) ==
    /\ task[p].pc = "save"
    /\ DatabaseFails(p)
    /\ cut' = IF task[p].op = "activate" THEN cut \cup {task[p].grant} ELSE cut
    /\ UNCHANGED unlogged

\* Extension and revocation tell the controller after the row is saved; a bad
\* reply is logged and forgotten.
CallController(p, op, reply) ==
    /\ task[p].pc = "controller" /\ task[p].op = op
    /\ Blame(task[p].grant, reply)
    /\ task' = [task EXCEPT ![p].pc = "log"]
    /\ UNCHANGED <<now, rows, pass, owner, audit, served, crashes, cut, journal>>

ExtendVoucher(p, reply) ==
    /\ CallController(p, "extend", reply)
    /\ \E done \in EffectOf(reply) :
          until' = IF done THEN [until EXCEPT ![task[p].obj.voucher] = Named(task[p])]
                   ELSE until
    /\ UNCHANGED live

RevokeVoucher(p, reply) ==
    /\ CallController(p, "revoke", reply)
    /\ \E done \in EffectOf(reply) :
          live' = IF done THEN live \ {task[p].obj.voucher} ELSE live
    /\ UNCHANGED until

LogOutcome(p) ==
    /\ task[p].pc = "log"
    /\ audit' = audit \cup {<<task[p].grant, task[p].op>>}
    /\ task' = [task EXCEPT ![p] = Idle]
    /\ UNCHANGED <<now, rows, pass, controller, served, crashes, cut, failed, journal>>

\* The audit event is not written. A grant just created is not activated.
LogFails(p) ==
    /\ task[p].pc \in {"created", "log"}
    /\ DatabaseFails(p)
    /\ unlogged' = unlogged \cup {<<task[p].grant, task[p].op>>}
    /\ UNCHANGED cut

-----------------------------------------------------------------------------
(* ExpiryScheduler.process_expiries.                                       *)

\* Faulty variant: grants that were never activated are left alone.
DueActive(r) == r.status = "active" /\ r.end + Grace <= now
Due(r) == r.status \in Open /\ r.end + Grace <= now

\* The pass lists the grants once and works on those copies.
StartPass(q) ==
    LET due == {g \in Grants : Due(rows[g])}
    IN /\ pass[q].pc = "idle"
       /\ due # {}
       /\ pass' = [pass EXCEPT ![q] =
             [NoPass EXCEPT !.pc = "update", !.todo = due,
                !.copy = [g \in Grants |-> IF g \in due THEN rows[g] ELSE NoRow]]]
       /\ UNCHANGED <<now, rows, task, controller, audit, served, crashes, cut, failed,
                      journal>>

ExpireRow(q, g) ==
    /\ pass[q].pc = "update" /\ g \in pass[q].todo
    /\ rows' = [rows EXCEPT ![g] =
                  Stored(@, [pass[q].copy[g] EXCEPT !.status = "expired"])]
    /\ pass' = [pass EXCEPT ![q].pc = "log", ![q].cur = g, ![q].todo = @ \ {g}]
    /\ UNCHANGED <<now, task, controller, audit, served, crashes, cut, failed, journal>>

NextInPass(x) ==
    IF x.todo = {} THEN NoPass ELSE [x EXCEPT !.pc = "update", !.cur = NoGrant]

\* A session of the pass fails: this grant is left as it is for now ...
ExpireFails(q, g) ==
    /\ pass[q].pc = "update" /\ g \in pass[q].todo
    /\ errors < MaxErrors /\ errors' = errors + 1
    /\ pass' = [pass EXCEPT ![q] = NextInPass([pass[q] EXCEPT !.todo = @ \ {g}])]
    /\ UNCHANGED <<now, rows, task, controller, audit, served, crashes, cut, failed,
                   unlogged, shifted>>

\* ... or, after the save, for good: nobody revokes its voucher.
LogExpiredFails(q) ==
    /\ pass[q].pc = "log"
    /\ errors < MaxErrors /\ errors' = errors + 1
    /\ unlogged' = unlogged \cup {<<pass[q].cur, "expired">>}
    /\ pass' = [pass EXCEPT ![q] = NextInPass(@)]
    /\ UNCHANGED <<now, rows, task, controller, audit, served, crashes, cut, failed, shifted>>

LogExpired(q) ==
    /\ pass[q].pc = "log"
    /\ audit' = audit \cup {<<pass[q].cur, "expired">>}
    /\ pass' = [pass EXCEPT ![q] =
                  IF @.copy[@.cur].voucher # NoVoucher
                  THEN [@ EXCEPT !.pc = "revoke"] ELSE NextInPass(@)]
    /\ UNCHANGED <<now, rows, task, controller, served, crashes, cut, failed, journal>>

RevokeExpired(q, reply) ==
    /\ pass[q].pc = "revoke"
    /\ \E done \in EffectOf(reply) :
          live' = IF done THEN live \ {pass[q].copy[pass[q].cur].voucher} ELSE live
    /\ Blame(pass[q].cur, reply)
    /\ pass' = [pass EXCEPT ![q] = NextInPass(@)]
    /\ UNCHANGED <<now, rows, task, owner, until, audit, served, crashes, cut, journal>>

-----------------------------------------------------------------------------
(* Time and crashes.                                                       *)

Tick ==
    /\ now < MaxTime
    /\ now' = now + 1
    /\ UNCHANGED <<rows, task, pass, controller, audit, served, crashes, cut, failed, journal>>

InFlight(g) ==
    \/ \E p \in Requests : task[p].grant = g
    \/ \E q \in Passes : pass[q].cur = g \/ g \in pass[q].todo

\* The process dies, or is stopped and cancels the pass, and starts again: the
\* table, the audit log and the controller stay, the handlers and passes are gone.
Crash ==
    /\ crashes < MaxCrashes
    /\ \E g \in Grants : InFlight(g)
    /\ crashes' = crashes + 1
    /\ cut' = cut \cup {g \in Grants : InFlight(g)}
    /\ task' = [p \in Requests |-> Idle]
    /\ pass' = [q \in Passes |-> NoPass]
    /\ UNCHANGED <<now, rows, controller, audit, served, failed, journal>>

RequestStep(p) ==
    \/ LogCreated(p)
    \/ Refuse(p)
    \/ StartActivation(p)
    \/ ApplyChange(p)
    \/ \E reply \in Replies, v \in Fresh \cup {NoVoucher} : ProvisionReturns(p, reply, v)
    \/ \E v \in Fresh \cup {NoVoucher} : ProvisionRaises(p, v)
    \/ ControllerMissing(p)
    \/ SaveRow(p)
    \/ SaveRefused(p)
    \/ SaveFails(p)
    \/ \E reply \in Replies : ExtendVoucher(p, reply) \/ RevokeVoucher(p, reply)
    \/ LogOutcome(p)
    \/ LogFails(p)

PassStep(q) ==
    \/ StartPass(q)
    \/ \E g \in Grants : ExpireRow(q, g) \/ ExpireFails(q, g)
    \/ LogExpired(q)
    \/ LogExpiredFails(q)
    \/ \E reply \in Replies : RevokeExpired(q, reply)

NewRequest(p) == \E g \in Grants :
    \/ \E start, end \in Time, zone \in Zones : CreateGrant(p, g, start, end, zone)
    \/ \E end \in Time, offset \in Offsets :
          PatchExtend(p, g, end, offset) \/ PatchShorten(p, g, end, offset)
    \/ PostActivate(p, g)
    \/ PatchExpire(p, g)

Next ==
    \/ \E p \in Requests : NewRequest(p) \/ RequestStep(p)
    \/ \E q \in Passes : PassStep(q)
    \/ Tick
    \/ Crash

Spec == Init /\ [][Next]_vars

-----------------------------------------------------------------------------
(* Specifications under further conditions.                                *)

\* asyncio runs every ready task, the scheduler loop survives a failing pass,
\* and time passes; nobody has to send a request.
FairSpec ==
    /\ Spec
    /\ \A p \in Requests : WF_vars(RequestStep(p))
    /\ \A q \in Passes : WF_vars(PassStep(q))
    /\ WF_vars(Tick)

-----------------------------------------------------------------------------
(* Properties whatever overlaps, fails or crashes.                         *)

TypeOK ==
    /\ now \in Time
    /\ rows \in [Grants -> Row]
    /\ task \in [Requests -> Task]
    /\ pass \in [Passes -> Pass]
    /\ live \subseteq Vouchers
    /\ owner \in [Vouchers -> Grants \cup {NoGrant}]
    /\ until \in [Vouchers -> Int]
    /\ audit \subseteq Grants \X (Operations \cup {"create", "expired"})
    /\ served \in 0 .. MaxRequests
    /\ crashes \in 0 .. MaxCrashes
    /\ cut \subseteq Grants /\ failed \subseteq Grants /\ shifted \subseteq Grants
    /\ errors \in 0 .. MaxErrors
    /\ unlogged \subseteq Grants \X (Operations \cup {"create", "expired"})

\* What the fields of one grant object say must agree at time t: its status, its
\* two timestamps, its voucher and its error.
Coherent(r, t) ==
    /\ r.status \in {"none", "pending"} => r.activated = Never
    /\ r.status = "active" => r.activated # Never
    /\ r.activated <= t
    /\ r.activated = Never => r.voucher = NoVoucher
    /\ r.voucher # NoVoucher => ~ r.error
    /\ r.status \in {"none"} \cup Open => r.revoked = Never
    /\ r.status = "revoked" => r.revoked # Never
    /\ r.revoked <= t
    /\ r.status = "expired" => r.end <= t

\* It was activated within its time.
InWindow(r) == r.activated # Never => r.start <= r.activated /\ r.activated <= r.end

\* A row is never a mixture of two histories, however the whole-row updates of
\* overlapping handlers and passes fell, and its times satisfy the CHECK. It shows
\* an activation between start and end, unless a request named one of them with
\* an offset, which the row has lost (schema.py:26-27).
RowsConsistent == \A g \in Grants :
    /\ Coherent(rows[g], now)
    /\ rows[g].status # "none" => rows[g].start < rows[g].end
    /\ g \notin shifted => InWindow(rows[g])

\* FR-008: a grant whose row shows an activation or a revocation has the audit
\* event of it, or the handler that saved it has still to write it, or a crash
\* came in between, or just this event could not be written.
Pending(g, op) == \E p \in Requests :
    task[p].grant = g /\ task[p].op = op /\ task[p].pc \in {"controller", "log"}

Accounted(g, op) ==
    <<g, op>> \in audit \/ <<g, op>> \in unlogged \/ g \in cut \/ Pending(g, op)

ChangesAudited == \A g \in Grants :
    /\ rows[g].activated # Never => Accounted(g, "activate")
    /\ rows[g].revoked # Never => Accounted(g, "revoke")

-----------------------------------------------------------------------------
(* Liveness (FairSpec).                                                    *)

\* FR-003: whatever stale objects are written back, a grant that stays open
\* past its end and the grace period does not stay open for ever.
DueGrantsClose == \A g \in Grants :
    rows[g].status \in Open /\ rows[g].end + Grace <= MaxTime
        ~> rows[g].status \in Closed \/ rows[g].end + Grace > MaxTime

-----------------------------------------------------------------------------
(* What the code's own comments and docstrings say, and TLC refutes.       *)

\* grant_manager.py:679-680: a controller revocation that failed "will be
\* retried by the expiry scheduler".
FailedRevocationRetried == \A g \in Grants :
    rows[g].status = "revoked" /\ rows[g].voucher \in live
        ~> rows[g].voucher \notin live

\* grant_manager.py:306: the code that makes a grant active is "only reached
\* if provisioning succeeded"; FR-010 keeps it pending when it did not.
ActiveMeansProvisioned == \A g \in Grants :
    rows[g].status = "active" => rows[g].voucher # NoVoucher

\* grant_manager.py:592-595: revocation takes effect "immediately"; the grant
\* is not active again afterwards.
RevokedStaysRevoked ==
    [][\A g \in Grants : rows[g].status = "revoked" => rows'[g].status # "active"]_rows

=============================================================================
