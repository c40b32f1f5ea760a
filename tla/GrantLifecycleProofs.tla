------------------------ MODULE GrantLifecycleProofs ------------------------
(***************************************************************************)
(* What holds of GrantLifecycle for any number of grants, handlers, passes *)
(* and vouchers, any clock bound and offsets, any faults, crashes and      *)
(* failing database sessions.                                              *)
(***************************************************************************)
EXTENDS GrantLifecycle, TLAPS

\* A handler's object is coherent at every point, and during a provisioning it
\* is still the pending grant. If no request named a time of its grant with an
\* offset, it is not activated outside its window, which was checked at the local
\* "now".
TaskOK(t, time, moved) ==
    /\ t.pc # "idle" => t.grant \in Grants
    /\ t.pc \in {"check", "controller", "log"} => t.op \in Operations
    /\ t.pc = "save" => t.op \in Operations \cup {"activation_error"}
    /\ Coherent(t.obj, time)
    /\ t.pc = "created" => t.op = "create" /\ t.obj.status = "pending"
    /\ t.pc = "provision" =>
          /\ t.op = "activate"
          /\ t.obj.status = "pending" /\ t.at <= time
    /\ t.grant \notin moved =>
          /\ InWindow(t.obj)
          /\ t.op \in {"create", "activate"} => t.zone = UTC
          /\ t.pc = "provision" => t.obj.start <= t.at /\ t.at <= t.obj.end

\* The copies a pass has still to write back were due when it began.
PassOK(x, time, moved) ==
    /\ x.pc \in {"log", "revoke"} => x.cur \in Grants
    /\ \A g \in x.todo :
          /\ Coherent(x.copy[g], time)
          /\ x.copy[g].start < x.copy[g].end
          /\ x.copy[g].status \in Open
          /\ x.copy[g].end <= time
          /\ g \notin moved => InWindow(x.copy[g])

\* The inductive invariant: rows alone are not enough, because each step
\* writes back an object read in an earlier one.
IInv ==
    /\ TypeOK
    /\ RowsConsistent
    /\ \A p \in Requests : TaskOK(task[p], now, shifted)
    /\ \A q \in Passes : PassOK(pass[q], now, shifted)

-----------------------------------------------------------------------------

LEMMA Constants ==
    /\ MaxTime \in Nat /\ Grace \in Nat /\ MaxRetries \in Nat
    /\ MaxRequests \in Nat /\ MaxCrashes \in Nat /\ MaxErrors \in Nat
    /\ Offsets \subseteq Int /\ 0 \in Offsets
    /\ NoVoucher \notin Vouchers /\ NoGrant \notin Grants
    /\ Faults \subseteq FaultKinds
BY LifecycleAssumption

\* The two records handlers and passes return to.
LEMMA IdleTypes ==
    /\ NoRow \in Row
    /\ Idle \in Task
    /\ NoPass \in Pass
BY Constants DEF NoRow, Row, Idle, Task, NoPass, Pass, Time, Never, Open, Closed,
   Operations, UTC, Zones

LEMMA IdleOK ==
    ASSUME NEW t \in Time, NEW S
    PROVE  /\ Coherent(NoRow, t) /\ InWindow(NoRow)
           /\ TaskOK(Idle, t, S)
           /\ PassOK(NoPass, t, S)
BY Constants DEF NoRow, Idle, NoPass, TaskOK, PassOK, Coherent, InWindow, Time, Never,
                 Open

LEMMA InitIInv == Init => IInv
<1> SUFFICES ASSUME Init PROVE IInv
    OBVIOUS
<1>1. now \in Time
    BY Constants DEF Init, Time
<1>2. TypeOK
    BY <1>1, IdleTypes, Constants DEF Init, TypeOK, Time
<1>3. RowsConsistent
    BY <1>1, IdleOK DEF Init, RowsConsistent, NoRow
<1>4. \A p \in Requests : TaskOK(task[p], now, shifted)
    BY <1>1, IdleOK DEF Init
<1>5. \A q \in Passes : PassOK(pass[q], now, shifted)
    BY <1>1, IdleOK DEF Init
<1> QED
    BY <1>2, <1>3, <1>4, <1>5 DEF IInv

-----------------------------------------------------------------------------
(* What the operators of the model do to a coherent object.                *)

\* An object stays coherent as time passes.
LEMMA CoherentLater ==
    ASSUME NEW r \in Row, NEW t \in Time, NEW u \in Time, t <= u, Coherent(r, t)
    PROVE  Coherent(r, u)
BY Constants DEF Coherent, Row, Time, Never, Open, Closed

\* The change an operation makes to an object it permits keeps it coherent, and
\* keeps the activation in its window if no offset came into play.
LEMMA ChangedCoherent ==
    ASSUME NEW x \in Task, NEW t \in Time, x.op \in Operations \ {"activate"},
           Coherent(x.obj, t), Permitted(x, t)
    PROVE  /\ Changed(x, t) \in Row /\ Coherent(Changed(x, t), t)
           /\ x.zone = UTC /\ InWindow(x.obj) => InWindow(Changed(x, t))
<1> DEFINE r == x.obj
<1>0. /\ r \in Row /\ x.arg \in Time /\ x.zone.end \in Int
      /\ x.zone = UTC => x.zone.end = 0
  <2>1. r \in Row /\ x.arg \in Time /\ x.zone \in Zones
    BY DEF Task
  <2>2. x.zone.end \in Offsets
    BY <2>1 DEF Zones
  <2>3. x.zone.end \in Int
    BY <2>2, Constants
  <2>4. x.zone = UTC => x.zone.end = 0
    BY DEF UTC
  <2> QED
    BY <2>1, <2>3, <2>4
<1>1. CASE x.op = "extend"
  <2> DEFINE s == [r EXCEPT !.end = x.arg]
  <2>1. Changed(x, t) = s
    BY <1>1 DEF Changed, Extended
  <2>2. x.arg - x.zone.end > r.end /\ r.status \in Open
    BY <1>1 DEF Permitted, MayExtend, Held, Named
  <2>3. s \in Row
    BY <1>0, Constants DEF Row, Time
  <2>4. Coherent(s, t)
    BY <1>0, <2>2, Constants DEF Coherent, Row, Time, Never, Open, Closed
  <2>5. x.zone.end = 0 /\ InWindow(r) => InWindow(s)
    BY <1>0, <2>2, Constants DEF InWindow, Row, Time, Never
  <2> QED
    BY <1>0, <2>1, <2>3, <2>4, <2>5
<1>2. CASE x.op = "shorten"
  <2> DEFINE e == IF x.arg - x.zone.end < t THEN t ELSE x.arg
             s == [r EXCEPT !.end = e]
  <2>1. Changed(x, t) = s
    BY <1>2 DEF Changed, Shortened
  <2>2. e \in Time /\ (x.zone.end = 0 => t <= e) /\ r.status \in Open
    BY <1>0, <1>2, Constants DEF Permitted, MayShorten, Held, Time
  <2> HIDE DEF e
  <2>3. s \in Row
    BY <1>0, <2>2, Constants DEF Row, Time
  <2>4. Coherent(s, t)
    BY <1>0, <2>2, Constants DEF Coherent, Row, Time, Never, Open, Closed
  <2>5. x.zone.end = 0 /\ InWindow(r) => InWindow(s)
    BY <1>0, <2>2, Constants DEF Coherent, InWindow, Row, Time, Never
  <2> QED
    BY <1>0, <2>1, <2>3, <2>4, <2>5
<1>3. CASE x.op = "revoke"
  <2> DEFINE s == [r EXCEPT !.status = "revoked", !.revoked = t]
  <2>1. Changed(x, t) = s
    BY <1>3 DEF Changed, Revoked
  <2>2. r.status \in Open
    BY <1>3 DEF Permitted, MayRevoke
  <2>3. s \in Row
    BY <1>0, Constants DEF Row, Time, Closed
  <2>4. Coherent(s, t) /\ (InWindow(r) => InWindow(s))
    BY <1>0, <2>2, Constants DEF Coherent, InWindow, Row, Time, Never, Open, Closed
  <2> QED
    BY <2>1, <2>3, <2>4
<1>4. CASE x.op = "expire"
  <2> DEFINE s == [r EXCEPT !.status = "expired", !.end = t]
  <2>1. Changed(x, t) = s
    BY <1>4 DEF Changed, Expired
  <2>3. s \in Row
    BY <1>0, Constants DEF Row, Time, Closed
  <2>4. Coherent(s, t) /\ (InWindow(r) => InWindow(s))
    BY <1>0, Constants DEF Coherent, InWindow, Row, Time, Never, Open, Closed
  <2> QED
    BY <2>1, <2>3, <2>4
<1>5. x.op \in {"extend", "shorten", "revoke", "expire"}
    BY DEF Operations
<1> QED
    BY <1>1, <1>2, <1>3, <1>4, <1>5

\* So does an activation, at a time of the grant's window.
LEMMA ActivatedCoherent ==
    ASSUME NEW r \in Row, NEW v \in Vouchers \cup {NoVoucher}, NEW at \in Time,
           NEW t \in Time, Coherent(r, t), r.status = "pending", at <= t
    PROVE  /\ Activated(r, v, at) \in Row /\ Coherent(Activated(r, v, at), t)
           /\ r.start <= at /\ at <= r.end => InWindow(Activated(r, v, at))
<1> DEFINE e == IF v = NoVoucher THEN r.error ELSE FALSE
           s == [r EXCEPT !.status = "active", !.activated = at, !.voucher = v,
                          !.error = e]
<1>1. Activated(r, v, at) = s
  BY DEF Activated, Row
<1>2. e \in BOOLEAN /\ (v # NoVoucher => ~ e)
  BY DEF Row
<1> HIDE DEF e
<1>3. s \in Row
  BY <1>2 DEF Row, Open
<1>4. Coherent(s, t)
  BY <1>2, Constants DEF Coherent, Row, Time, Never, Open, Closed
<1>5. r.start <= at /\ at <= r.end => InWindow(s)
  BY DEF InWindow, Row
<1> QED
  BY <1>1, <1>3, <1>4, <1>5

LEMMA HeldTimes ==
    ASSUME NEW x \in Task
    PROVE  Held(x).end \in Int /\ Named(x) \in Int
BY Constants DEF Held, Named, Task, Zones, Row, Time

-----------------------------------------------------------------------------
(* How a step that moves one handler, or one pass, keeps the invariant.    *)

\* The part of TypeOK about the controller, the audit log and the counters.
OthersOK ==
    /\ live \subseteq Vouchers
    /\ owner \in [Vouchers -> Grants \cup {NoGrant}]
    /\ until \in [Vouchers -> Int]
    /\ audit \subseteq Grants \X (Operations \cup {"create", "expired"})
    /\ served \in 0 .. MaxRequests
    /\ crashes \in 0 .. MaxCrashes
    /\ cut \subseteq Grants /\ failed \subseteq Grants /\ shifted \subseteq Grants
    /\ errors \in 0 .. MaxErrors
    /\ unlogged \subseteq Grants \X (Operations \cup {"create", "expired"})

LEMMA HandlerStep ==
    ASSUME IInv, NEW p \in Requests, NEW t \in Task, TaskOK(t, now, shifted'),
           task' = [task EXCEPT ![p] = t], UNCHANGED <<now, pass>>,
           shifted \subseteq shifted',
           rows' \in [Grants -> Row], RowsConsistent', OthersOK'
    PROVE  IInv'
<1>1. TypeOK'
  BY DEF IInv, TypeOK, OthersOK
<1>2. ASSUME NEW r \in Requests PROVE TaskOK(task[r], now, shifted)'
  <2>1. task'[r] = IF r = p THEN t ELSE task[r]
    BY DEF IInv, TypeOK
  <2>2. TaskOK(task[r], now, shifted)
    BY DEF IInv
  <2>3. TaskOK(task[r], now, shifted')
    BY <2>2 DEF TaskOK
  <2>4. TaskOK(task'[r], now, shifted')
    BY <2>1, <2>3
  <2> QED
    BY <2>4
<1>3. ASSUME NEW q \in Passes PROVE PassOK(pass[q], now, shifted)'
  <2>1. PassOK(pass[q], now, shifted)
    BY DEF IInv
  <2>2. PassOK(pass[q], now, shifted')
    BY <2>1 DEF PassOK
  <2> QED
    BY <2>2
<1> QED
  BY <1>1, <1>2, <1>3 DEF IInv

LEMMA PassMoves ==
    ASSUME IInv, NEW q \in Passes, NEW x \in Pass, PassOK(x, now, shifted),
           pass' = [pass EXCEPT ![q] = x], UNCHANGED <<now, task, shifted>>,
           rows' \in [Grants -> Row], RowsConsistent', OthersOK'
    PROVE  IInv'
<1>1. TypeOK'
  BY DEF IInv, TypeOK, OthersOK
<1>2. ASSUME NEW r \in Passes PROVE PassOK(pass[r], now, shifted)'
  <2>1. pass'[r] = IF r = q THEN x ELSE pass[r]
    BY DEF IInv, TypeOK
  <2>2. PassOK(pass[r], now, shifted)
    BY DEF IInv
  <2>3. PassOK(pass'[r], now, shifted)
    BY <2>1, <2>2
  <2> QED
    BY <2>3
<1>3. \A p \in Requests : TaskOK(task[p], now, shifted)'
  BY DEF IInv
<1> QED
  BY <1>1, <1>2, <1>3 DEF IInv

\* A step that leaves the table and the clock alone keeps the rows coherent.
LEMMA SameRows ==
    ASSUME IInv, UNCHANGED <<rows, now>>, shifted \subseteq shifted'
    PROVE  rows' \in [Grants -> Row] /\ RowsConsistent'
BY DEF IInv, TypeOK, RowsConsistent

\* A step that stores one coherent row does too.
LEMMA OneRow ==
    ASSUME IInv, NEW g \in Grants, NEW r \in Row, Coherent(r, now), r.start < r.end,
           g \notin shifted' => InWindow(r), shifted \subseteq shifted',
           rows' = [rows EXCEPT ![g] = r], UNCHANGED now
    PROVE  rows' \in [Grants -> Row] /\ RowsConsistent'
<1>1. rows' \in [Grants -> Row]
  BY DEF IInv, TypeOK
<1>2. ASSUME NEW h \in Grants
      PROVE  /\ Coherent(rows'[h], now)
             /\ rows'[h].status # "none" => rows'[h].start < rows'[h].end
             /\ h \notin shifted' => InWindow(rows'[h])
  <2>1. rows'[h] = IF h = g THEN r ELSE rows[h]
    BY DEF IInv, TypeOK
  <2>2. /\ Coherent(rows[h], now) /\ (rows[h].status # "none" => rows[h].start < rows[h].end)
        /\ h \notin shifted => InWindow(rows[h])
    BY DEF IInv, RowsConsistent
  <2> QED
    BY <2>1, <2>2
<1> QED
  BY <1>1, <1>2 DEF RowsConsistent

-----------------------------------------------------------------------------
(* One lemma per action.                                                   *)

LEMMA CreateGrantKeeps ==
    ASSUME IInv, NEW p \in Requests, NEW g \in Grants, NEW start \in Time,
           NEW end \in Time, NEW zone \in Zones, CreateGrant(p, g, start, end, zone)
    PROVE  IInv'
<1> DEFINE row == [NoRow EXCEPT !.status = "pending", !.start = start, !.end = end]
           t == [Idle EXCEPT !.op = "create", !.pc = "created", !.grant = g,
                             !.zone = zone, !.obj = row]
<1>1. now \in Time
  BY DEF IInv, TypeOK
<1>2. row \in Row /\ Coherent(row, now) /\ InWindow(row) /\ row.start < row.end
  <2>1. /\ row.status = "pending" /\ row.start = start /\ row.end = end
        /\ row.activated = Never /\ row.revoked = Never
        /\ row.voucher = NoVoucher /\ row.error = FALSE
    BY DEF NoRow
  <2>2. start < end
    BY DEF CreateGrant
  <2>3. row \in Row
    BY IdleTypes DEF Row, Open
  <2> HIDE DEF row
  <2>4. Coherent(row, now) /\ InWindow(row)
    BY <1>1, <2>1, Constants DEF Coherent, InWindow, Time, Never, Open
  <2> QED
    BY <2>1, <2>2, <2>3, <2>4
<1>3. row.status = "pending"
  BY DEF NoRow
<1> HIDE DEF row
<1>4. t \in Task
  BY <1>2, IdleTypes DEF Task, Idle
<1>10. shifted \subseteq shifted' /\ (g \notin shifted' => zone = UTC)
  BY DEF CreateGrant
<1>5. TaskOK(t, now, shifted')
  BY <1>2, <1>3, <1>10 DEF TaskOK, Idle
<1>6. OthersOK'
  BY Constants DEF IInv, TypeOK, OthersOK, CreateGrant, controller, journal
<1>7. rows' = [rows EXCEPT ![g] = row] /\ task' = [task EXCEPT ![p] = t]
  BY DEF CreateGrant, row
<1>8. UNCHANGED <<now, pass>>
  BY DEF CreateGrant
<1>9. rows' \in [Grants -> Row] /\ RowsConsistent'
  BY <1>2, <1>7, <1>8, <1>10, OneRow
<1> QED
  BY <1>4, <1>5, <1>6, <1>7, <1>8, <1>9, <1>10, HandlerStep

LEMMA LogCreatedKeeps ==
    ASSUME IInv, NEW p \in Requests, LogCreated(p)
    PROVE  IInv'
<1> DEFINE t == IF Held(task[p]).start <= now /\ now < Held(task[p]).end
                THEN [task[p] EXCEPT !.op = "activate", !.pc = "check"] ELSE Idle
<1>1. now \in Time /\ task[p] \in Task /\ TaskOK(task[p], now, shifted)
  BY DEF IInv, TypeOK
<1>2. task[p].pc = "created" /\ task[p].grant \in Grants
  BY <1>1 DEF LogCreated, TaskOK
<1>3. t \in Task
  BY <1>1, IdleTypes DEF Task, Operations
<1>4. TaskOK(t, now, shifted)
  BY <1>1, <1>2, IdleOK DEF TaskOK, Operations, Task
<1>5. OthersOK'
  BY <1>2 DEF IInv, TypeOK, OthersOK, LogCreated, controller, journal
<1>6. task' = [task EXCEPT ![p] = t] /\ UNCHANGED <<now, rows, pass, shifted>>
  BY DEF LogCreated, IInv, TypeOK, journal
<1> QED
  BY <1>3, <1>4, <1>5, <1>6, SameRows, HandlerStep

LEMMA ReadGrantKeeps ==
    ASSUME IInv, NEW p \in Requests, NEW op \in Operations, NEW g \in Grants,
           NEW arg \in Time, NEW offset \in Offsets, ReadGrant(p, op, g, arg, offset),
           op = "activate" => offset = 0
    PROVE  IInv'
<1> DEFINE t == [Idle EXCEPT !.op = op, !.pc = "check", !.grant = g, !.arg = arg,
                             !.zone = [start |-> 0, end |-> offset], !.obj = rows[g]]
<1>1. rows[g] \in Row /\ Coherent(rows[g], now) /\ (g \notin shifted => InWindow(rows[g]))
  BY DEF IInv, TypeOK, RowsConsistent
<1>2. t \in Task
  BY <1>1, IdleTypes, Constants DEF Task, Idle, Zones
<1>3. TaskOK(t, now, shifted)
  BY <1>1 DEF TaskOK, Idle, Operations, UTC
<1>4. OthersOK'
  BY Constants DEF IInv, TypeOK, OthersOK, ReadGrant, controller, journal
<1>5. task' = [task EXCEPT ![p] = t] /\ UNCHANGED <<now, rows, pass, shifted>>
  <2>1. [Idle EXCEPT !.op = op, !.pc = "check", !.grant = g, !.arg = arg,
                     !.zone.end = offset, !.obj = rows[g]] = t
    <3>1. [UTC EXCEPT !.end = offset] = [start |-> 0, end |-> offset]
      BY DEF UTC
    <3> QED
      BY <3>1 DEF Idle
  <2>2. task' = [task EXCEPT ![p] = [Idle EXCEPT !.op = op, !.pc = "check",
                    !.grant = g, !.arg = arg, !.zone.end = offset, !.obj = rows[g]]]
    BY DEF ReadGrant
  <2>3. UNCHANGED <<now, rows, pass, shifted>>
    BY DEF ReadGrant, journal
  <2> QED
    BY <2>1, <2>2, <2>3
<1> QED
  BY <1>2, <1>3, <1>4, <1>5, SameRows, HandlerStep

\* A handler that gives up, before or after it changed its object.
LEMMA GiveUpKeeps ==
    ASSUME IInv, NEW p \in Requests,
           Refuse(p) \/ SaveRefused(p) \/ ControllerMissing(p)
    PROVE  IInv'
<1>1. TaskOK(task[p], now, shifted) /\ now \in Time
  BY DEF IInv, TypeOK
<1>2. ControllerMissing(p) => task[p].grant \in Grants
  BY <1>1 DEF ControllerMissing, TaskOK
<1>3. OthersOK'
  BY <1>2 DEF IInv, TypeOK, OthersOK, Refuse, SaveRefused, ControllerMissing,
              controller, journal
<1>4. task' = [task EXCEPT ![p] = Idle] /\ UNCHANGED <<now, rows, pass, shifted>>
  BY DEF Refuse, SaveRefused, ControllerMissing, journal
<1> QED
  BY <1>1, <1>3, <1>4, IdleTypes, IdleOK, SameRows, HandlerStep

LEMMA StartActivationKeeps ==
    ASSUME IInv, NEW p \in Requests, StartActivation(p)
    PROVE  IInv'
<1> DEFINE t == [task[p] EXCEPT !.pc = "provision", !.at = now]
<1>1. now \in Time /\ task[p] \in Task /\ TaskOK(task[p], now, shifted)
  BY DEF IInv, TypeOK
<1>2. /\ task[p].pc = "check" /\ task[p].op = "activate"
      /\ task[p].obj.status = "pending"
      /\ Held(task[p]).start <= now /\ now <= Held(task[p]).end
  BY DEF StartActivation, Permitted, MayActivate, Held
<1>7. task[p].zone = UTC => task[p].obj.start <= now /\ now <= task[p].obj.end
  BY <1>1, <1>2 DEF Held, UTC, Task, Row, Time
<1>3. t \in Task
  BY <1>1 DEF Task
<1>4. TaskOK(t, now, shifted)
  BY <1>1, <1>2, <1>7 DEF TaskOK, Task, Time
<1>5. OthersOK'
  BY DEF IInv, TypeOK, OthersOK, StartActivation, controller, journal
<1>6. task' = [task EXCEPT ![p] = t] /\ UNCHANGED <<now, rows, pass, shifted>>
  BY DEF StartActivation, IInv, TypeOK, journal
<1> QED
  BY <1>3, <1>4, <1>5, <1>6, SameRows, HandlerStep

LEMMA ApplyChangeKeeps ==
    ASSUME IInv, NEW p \in Requests, ApplyChange(p)
    PROVE  IInv'
<1> DEFINE obj == Changed(task[p], now)
           t == [task[p] EXCEPT !.pc = "save", !.obj = obj]
<1>1. now \in Time /\ task[p] \in Task /\ TaskOK(task[p], now, shifted)
  BY DEF IInv, TypeOK
<1>2. task[p].pc = "check" /\ task[p].op # "activate"
  BY DEF ApplyChange
<1>3. Permitted(task[p], now)
  BY DEF ApplyChange
<1>4. /\ task[p].op \in Operations \ {"activate"} /\ task[p].grant \in Grants
      /\ Coherent(task[p].obj, now)
  BY <1>1, <1>2 DEF TaskOK
<1>5. /\ shifted \subseteq shifted'
      /\ task[p].grant \notin shifted' => task[p].grant \notin shifted /\ task[p].zone = UTC
  BY DEF ApplyChange
<1>6. /\ obj \in Row /\ Coherent(obj, now)
      /\ task[p].zone = UTC /\ InWindow(task[p].obj) => InWindow(obj)
  BY <1>1, <1>3, <1>4, ChangedCoherent
<1> HIDE DEF obj
<1>7. t \in Task
  BY <1>1, <1>6 DEF Task
<1>8. TaskOK(t, now, shifted')
  BY <1>1, <1>2, <1>4, <1>5, <1>6 DEF TaskOK, Task
<1>9. OthersOK'
  BY <1>4 DEF IInv, TypeOK, OthersOK, ApplyChange, controller
<1>10. task' = [task EXCEPT ![p] = t] /\ UNCHANGED <<now, rows, pass>>
  BY DEF ApplyChange, IInv, TypeOK, obj
<1> QED
  BY <1>5, <1>7, <1>8, <1>9, <1>10, SameRows, HandlerStep

\* What a reply may leave behind at the controller.
LEMMA IssueTypes ==
    ASSUME IInv, NEW v \in Fresh \cup {NoVoucher}, NEW g \in Grants, NEW end \in Int,
           Issue(v, g, end), NEW reply, Blame(g, reply),
           UNCHANGED <<audit, served, crashes, cut, journal>>
    PROVE  OthersOK'
<1>1. failed' \subseteq Grants
  BY DEF Blame, IInv, TypeOK
<1>2. CASE v = NoVoucher
  BY <1>1, <1>2 DEF IInv, TypeOK, OthersOK, Issue, controller, journal
<1>3. CASE v # NoVoucher
  <2>1. v \in Vouchers
    BY <1>3 DEF Fresh
  <2> QED
    BY <1>1, <1>3, <2>1 DEF IInv, TypeOK, OthersOK, Issue, journal
<1> QED
  BY <1>2, <1>3

LEMMA ProvisionReturnsKeeps ==
    ASSUME IInv, NEW p \in Requests, NEW reply \in Replies,
           NEW v \in Fresh \cup {NoVoucher}, ProvisionReturns(p, reply, v)
    PROVE  IInv'
<1> DEFINE id == IF reply = "success" THEN v ELSE NoVoucher
           obj == Activated(task[p].obj, id, task[p].at)
           t == [task[p] EXCEPT !.pc = "save", !.obj = obj]
<1>1. now \in Time /\ task[p] \in Task /\ TaskOK(task[p], now, shifted)
  BY DEF IInv, TypeOK
<1>2. task[p].pc = "provision"
  BY DEF ProvisionReturns, Attempt
<1>3. /\ task[p].grant \in Grants /\ task[p].op = "activate"
      /\ Coherent(task[p].obj, now) /\ task[p].obj.status = "pending"
      /\ task[p].at <= now
      /\ task[p].grant \notin shifted =>
            task[p].obj.start <= task[p].at /\ task[p].at <= task[p].obj.end
  BY <1>1, <1>2 DEF TaskOK
<1>4. task[p].obj \in Row /\ task[p].at \in Time /\ Held(task[p]).end \in Int
  BY <1>1, HeldTimes DEF Task
<1>5. id \in Vouchers \cup {NoVoucher}
  BY DEF Fresh
<1> HIDE DEF id
<1>6. /\ obj \in Row /\ Coherent(obj, now)
      /\ task[p].grant \notin shifted => InWindow(obj)
  BY <1>1, <1>3, <1>4, <1>5, ActivatedCoherent
<1> HIDE DEF obj
<1>7. t \in Task
  BY <1>1, <1>6 DEF Task
<1>8. TaskOK(t, now, shifted)
  BY <1>1, <1>3, <1>6 DEF TaskOK, Task, Operations
<1>9. OthersOK'
  BY <1>3, <1>4, IssueTypes DEF ProvisionReturns, Attempt
<1>10. task' = [task EXCEPT ![p] = t] /\ UNCHANGED <<now, rows, pass, shifted>>
  BY DEF ProvisionReturns, Attempt, IInv, TypeOK, obj, id, journal
<1> QED
  BY <1>7, <1>8, <1>9, <1>10, SameRows, HandlerStep

LEMMA ProvisionRaisesKeeps ==
    ASSUME IInv, NEW p \in Requests, NEW v \in Fresh \cup {NoVoucher},
           ProvisionRaises(p, v)
    PROVE  IInv'
<1>1. now \in Time /\ task[p] \in Task /\ TaskOK(task[p], now, shifted)
  BY DEF IInv, TypeOK
<1>2. task[p].pc = "provision"
  BY DEF ProvisionRaises, Attempt, journal
<1>3. /\ task[p].grant \in Grants /\ task[p].op = "activate"
      /\ Coherent(task[p].obj, now) /\ task[p].obj.status = "pending"
  BY <1>1, <1>2 DEF TaskOK
<1>4. task[p].obj \in Row /\ Held(task[p]).end \in Int /\ task[p].tries \in 0 .. MaxRetries
  BY <1>1, HeldTimes DEF Task
<1>5. OthersOK'
  BY <1>3, <1>4, IssueTypes DEF ProvisionRaises, Attempt
<1>6. UNCHANGED <<now, rows, pass, shifted>>
  BY DEF ProvisionRaises, Attempt, journal
<1>7. CASE RetryLeft(task[p].tries)
  <2> DEFINE t == [task[p] EXCEPT !.tries = task[p].tries + 1]
  <2>1. task[p].tries + 1 \in 0 .. MaxRetries
    BY <1>4, <1>7, Constants DEF RetryLeft
  <2>2. t \in Task
    BY <1>1, <2>1 DEF Task
  <2>3. TaskOK(t, now, shifted)
    BY <1>1 DEF TaskOK, Task
  <2>4. task' = [task EXCEPT ![p] = t]
    BY <1>7 DEF ProvisionRaises, IInv, TypeOK
  <2> QED
    BY <1>5, <1>6, <2>2, <2>3, <2>4, SameRows, HandlerStep
<1>8. CASE ~ RetryLeft(task[p].tries)
  <2> DEFINE obj == [task[p].obj EXCEPT !.error = TRUE]
             t == [task[p] EXCEPT !.pc = "save", !.op = "activation_error", !.obj = obj]
  <2>1. obj \in Row
    BY <1>4 DEF Row
  <2>2. task[p].obj.activated = Never
    BY <1>3 DEF Coherent
  <2>3. Coherent(obj, now) /\ InWindow(obj)
    BY <1>3, <1>4, <2>2 DEF Coherent, InWindow, Row
  <2> HIDE DEF obj
  <2>4. t \in Task
    BY <1>1, <2>1 DEF Task
  <2>5. TaskOK(t, now, shifted)
    BY <1>1, <1>3, <2>3 DEF TaskOK, Task
  <2>6. task' = [task EXCEPT ![p] = t]
    BY <1>8 DEF ProvisionRaises, IInv, TypeOK, obj
  <2> QED
    BY <1>5, <1>6, <2>4, <2>5, <2>6, SameRows, HandlerStep
<1> QED
  BY <1>7, <1>8

LEMMA SaveRowKeeps ==
    ASSUME IInv, NEW p \in Requests, SaveRow(p)
    PROVE  IInv'
<1> DEFINE t == NextAfterSave(task[p])
<1>1. now \in Time /\ task[p] \in Task /\ TaskOK(task[p], now, shifted)
  BY DEF IInv, TypeOK
<1>2. task[p].pc = "save" /\ task[p].obj.start < task[p].obj.end
  BY DEF SaveRow
<1>3. /\ task[p].op \in Operations \cup {"activation_error"}
      /\ task[p].grant \in Grants /\ Coherent(task[p].obj, now)
  BY <1>1, <1>2 DEF TaskOK
<1>4. task[p].obj \in Row
  BY <1>1 DEF Task
<1>5. \/ t = Idle
      \/ /\ task[p].op \in Operations
         /\ \/ t = [task[p] EXCEPT !.pc = "controller"]
            \/ t = [task[p] EXCEPT !.pc = "log"]
  BY <1>3 DEF NextAfterSave, Operations
<1> HIDE DEF t
<1>6. t \in Task /\ TaskOK(t, now, shifted)
  <2>1. CASE t = Idle
    BY <1>1, <2>1, IdleTypes, IdleOK
  <2>2. CASE t # Idle
    <3>1. t \in Task
      BY <1>1, <1>5, <2>2 DEF Task
    <3>2. TaskOK(t, now, shifted)
      BY <1>1, <1>3, <1>5, <2>2 DEF TaskOK, Task
    <3> QED
      BY <3>1, <3>2
  <2> QED
    BY <2>1, <2>2
<1>7. /\ rows' = [rows EXCEPT ![task[p].grant] = task[p].obj]
      /\ UNCHANGED <<now, pass, shifted>>
  BY DEF SaveRow, Stored, journal
<1>11. task[p].grant \notin shifted' => InWindow(task[p].obj)
  BY <1>1, <1>7 DEF TaskOK
<1>8. rows' \in [Grants -> Row] /\ RowsConsistent'
  BY <1>2, <1>3, <1>4, <1>7, <1>11, OneRow
<1>9. OthersOK'
  BY DEF IInv, TypeOK, OthersOK, SaveRow, controller, journal
<1>10. task' = [task EXCEPT ![p] = t]
  BY DEF SaveRow, IInv, TypeOK, t
<1> QED
  BY <1>6, <1>7, <1>8, <1>9, <1>10, HandlerStep

LEMMA CallControllerKeeps ==
    ASSUME IInv, NEW p \in Requests, NEW reply \in Replies,
           ExtendVoucher(p, reply) \/ RevokeVoucher(p, reply)
    PROVE  IInv'
<1> DEFINE t == [task[p] EXCEPT !.pc = "log"]
<1>1. task[p] \in Task /\ TaskOK(task[p], now, shifted)
  BY DEF IInv, TypeOK
<1>2. task[p].pc = "controller"
  BY DEF ExtendVoucher, RevokeVoucher, CallController
<1>3. task[p].grant \in Grants /\ task[p].op \in Operations /\ Named(task[p]) \in Int
  BY <1>1, <1>2, HeldTimes DEF TaskOK
<1>4. t \in Task
  BY <1>1 DEF Task
<1>5. TaskOK(t, now, shifted)
  BY <1>1, <1>3 DEF TaskOK, Task
<1>6. failed' \subseteq Grants
  BY <1>3 DEF ExtendVoucher, RevokeVoucher, CallController, Blame, IInv, TypeOK
<1>7. live' \subseteq Vouchers /\ until' \in [Vouchers -> Int] /\ owner' = owner
  BY <1>3 DEF ExtendVoucher, RevokeVoucher, CallController, IInv, TypeOK
<1>8. OthersOK'
  BY <1>6, <1>7 DEF IInv, TypeOK, OthersOK, ExtendVoucher, RevokeVoucher,
     CallController, journal
<1>9. task' = [task EXCEPT ![p] = t] /\ UNCHANGED <<now, rows, pass, shifted>>
  BY DEF ExtendVoucher, RevokeVoucher, CallController, IInv, TypeOK, journal
<1> QED
  BY <1>4, <1>5, <1>8, <1>9, SameRows, HandlerStep

LEMMA LogOutcomeKeeps ==
    ASSUME IInv, NEW p \in Requests, LogOutcome(p)
    PROVE  IInv'
<1>1. TaskOK(task[p], now, shifted) /\ now \in Time
  BY DEF IInv, TypeOK
<1>2. task[p].grant \in Grants /\ task[p].op \in Operations
  BY <1>1 DEF LogOutcome, TaskOK
<1>3. OthersOK'
  BY <1>2 DEF IInv, TypeOK, OthersOK, LogOutcome, controller, journal
<1>4. task' = [task EXCEPT ![p] = Idle] /\ UNCHANGED <<now, rows, pass, shifted>>
  BY DEF LogOutcome, journal
<1> QED
  BY <1>1, <1>3, <1>4, IdleTypes, IdleOK, SameRows, HandlerStep

\* A handler whose database session fails.
LEMMA DatabaseFailsKeeps ==
    ASSUME IInv, NEW p \in Requests, SaveFails(p) \/ LogFails(p)
    PROVE  IInv'
<1>1. TaskOK(task[p], now, shifted) /\ now \in Time
  BY DEF IInv, TypeOK
<1>2. /\ task[p].pc \in {"save", "created", "log"} /\ task[p].grant \in Grants
      /\ LogFails(p) => task[p].op \in Operations \cup {"create"}
  <2>1. /\ SaveFails(p) => task[p].pc = "save"
        /\ LogFails(p) => task[p].pc \in {"created", "log"}
    BY DEF SaveFails, LogFails
  <2> QED
    BY <1>1, <2>1 DEF TaskOK
<1>3. errors' \in 0 .. MaxErrors
  BY Constants DEF SaveFails, LogFails, DatabaseFails, IInv, TypeOK
<1>4. /\ cut' \subseteq Grants
      /\ unlogged' \subseteq Grants \X (Operations \cup {"create", "expired"})
  BY <1>2 DEF SaveFails, LogFails, IInv, TypeOK
<1>5. OthersOK'
  BY <1>3, <1>4 DEF IInv, TypeOK, OthersOK, SaveFails, LogFails, DatabaseFails, controller
<1>6. task' = [task EXCEPT ![p] = Idle] /\ UNCHANGED <<now, rows, pass, shifted>>
  BY DEF SaveFails, LogFails, DatabaseFails
<1> QED
  BY <1>1, <1>5, <1>6, IdleTypes, IdleOK, SameRows, HandlerStep

LEMMA StartPassKeeps ==
    ASSUME IInv, NEW q \in Passes, StartPass(q)
    PROVE  IInv'
<1> DEFINE due == {g \in Grants : Due(rows[g])}
           copy == [g \in Grants |-> IF g \in due THEN rows[g] ELSE NoRow]
           x == [NoPass EXCEPT !.pc = "update", !.todo = due, !.copy = copy]
<1>1. now \in Time /\ rows \in [Grants -> Row]
  BY DEF IInv, TypeOK
<1>2. copy \in [Grants -> Row] /\ due \in SUBSET Grants
  BY <1>1, IdleTypes
<1>3. ASSUME NEW g \in due
      PROVE  /\ Coherent(copy[g], now) /\ copy[g].start < copy[g].end
             /\ copy[g].status \in Open /\ copy[g].end <= now
             /\ g \notin shifted => InWindow(copy[g])
  <2>1. copy[g] = rows[g] /\ rows[g] \in Row /\ Due(rows[g])
    BY <1>1
  <2>2. rows[g].status \in Open /\ rows[g].end + Grace <= now /\ rows[g].end \in Time
    BY <2>1 DEF Due, Row
  <2>3. rows[g].end <= now
    BY <1>1, <2>2, Constants DEF Time
  <2>4. /\ Coherent(rows[g], now) /\ rows[g].start < rows[g].end
        /\ g \notin shifted => InWindow(rows[g])
    BY <2>2 DEF IInv, RowsConsistent, Open
  <2> QED
    BY <2>1, <2>2, <2>3, <2>4
<1> HIDE DEF copy, due
<1>4. x \in Pass
  BY <1>2, IdleTypes DEF Pass, NoPass
<1>5. PassOK(x, now, shifted)
  BY <1>3 DEF PassOK, NoPass
<1>6. OthersOK'
  BY DEF IInv, TypeOK, OthersOK, StartPass, controller, journal
<1>7. pass' = [pass EXCEPT ![q] = x] /\ UNCHANGED <<now, rows, task, shifted>>
  BY DEF StartPass, due, copy, journal
<1> QED
  BY <1>4, <1>5, <1>6, <1>7, SameRows, PassMoves

LEMMA ExpireRowKeeps ==
    ASSUME IInv, NEW q \in Passes, NEW g \in Grants, ExpireRow(q, g)
    PROVE  IInv'
<1> DEFINE r == [pass[q].copy[g] EXCEPT !.status = "expired"]
           x == [pass[q] EXCEPT !.pc = "log", !.cur = g, !.todo = pass[q].todo \ {g}]
<1>1. now \in Time /\ pass[q] \in Pass /\ PassOK(pass[q], now, shifted)
  BY DEF IInv, TypeOK
<1>2. pass[q].copy[g] \in Row
  BY <1>1 DEF Pass
<1>3. /\ Coherent(pass[q].copy[g], now)
      /\ pass[q].copy[g].start < pass[q].copy[g].end
      /\ pass[q].copy[g].status \in Open /\ pass[q].copy[g].end <= now
      /\ g \notin shifted => InWindow(pass[q].copy[g])
  BY <1>1 DEF ExpireRow, PassOK
<1>4. r \in Row /\ r.start < r.end
  BY <1>2, <1>3 DEF Row, Closed
<1>5. Coherent(r, now) /\ (g \notin shifted => InWindow(r))
  BY <1>2, <1>3 DEF Coherent, InWindow, Row, Open
<1>6. x \in Pass
  BY <1>1 DEF Pass
<1>7. PassOK(x, now, shifted)
  BY <1>1 DEF PassOK, Pass
<1>8. OthersOK'
  BY DEF IInv, TypeOK, OthersOK, ExpireRow, controller, journal
<1>9. /\ rows' = [rows EXCEPT ![g] = r]
      /\ pass' = [pass EXCEPT ![q] = x]
      /\ UNCHANGED <<now, task, shifted>>
  BY DEF ExpireRow, Stored, IInv, TypeOK, journal
<1> HIDE DEF r, x
<1>10. rows' \in [Grants -> Row] /\ RowsConsistent'
  BY <1>4, <1>5, <1>9, OneRow
<1> QED
  BY <1>6, <1>7, <1>8, <1>9, <1>10, PassMoves

\* What a pass turns to when it is done with one grant.
LEMMA NextInPassKeeps ==
    ASSUME NEW x \in Pass, NEW t \in Time, NEW S, PassOK(x, t, S)
    PROVE  NextInPass(x) \in Pass /\ PassOK(NextInPass(x), t, S)
<1>1. CASE x.todo = {}
  BY <1>1, IdleTypes, IdleOK DEF NextInPass
<1>2. CASE x.todo # {}
  <2> DEFINE y == [x EXCEPT !.pc = "update", !.cur = NoGrant]
  <2>1. y \in Pass
    BY DEF Pass
  <2>2. PassOK(y, t, S)
    BY DEF PassOK, Pass
  <2> QED
    BY <1>2, <2>1, <2>2 DEF NextInPass
<1> QED
  BY <1>1, <1>2

LEMMA LogExpiredKeeps ==
    ASSUME IInv, NEW q \in Passes, LogExpired(q)
    PROVE  IInv'
<1> DEFINE y == [pass[q] EXCEPT !.pc = "revoke"]
           x == IF pass[q].copy[pass[q].cur].voucher # NoVoucher
                THEN y ELSE NextInPass(pass[q])
<1>1. now \in Time /\ pass[q] \in Pass /\ PassOK(pass[q], now, shifted)
  BY DEF IInv, TypeOK
<1>2. pass[q].cur \in Grants
  BY <1>1 DEF LogExpired, PassOK
<1>3. y \in Pass
  BY <1>1 DEF Pass
<1>4. PassOK(y, now, shifted)
  BY <1>1, <1>2 DEF PassOK, Pass
<1>5. x \in Pass /\ PassOK(x, now, shifted)
  BY <1>1, <1>3, <1>4, NextInPassKeeps
<1>6. OthersOK'
  BY <1>2 DEF IInv, TypeOK, OthersOK, LogExpired, controller, journal
<1>7. pass' = [pass EXCEPT ![q] = x] /\ UNCHANGED <<now, rows, task, shifted>>
  BY DEF LogExpired, IInv, TypeOK, journal
<1> QED
  BY <1>5, <1>6, <1>7, SameRows, PassMoves

\* A pass whose database session fails goes on to the next grant.
LEMMA PassFailsKeeps ==
    ASSUME IInv, NEW q \in Passes,
           LogExpiredFails(q) \/ \E g \in Grants : ExpireFails(q, g)
    PROVE  IInv'
<1>1. now \in Time /\ pass[q] \in Pass /\ PassOK(pass[q], now, shifted)
  BY DEF IInv, TypeOK
<1>2. errors' \in 0 .. MaxErrors
  <2>1. errors < MaxErrors /\ errors' = errors + 1
    BY DEF LogExpiredFails, ExpireFails
  <2> QED
    BY <2>1, Constants DEF IInv, TypeOK
<1>3. ASSUME LogExpiredFails(q) PROVE IInv'
  <2>1. pass[q].cur \in Grants
    BY <1>1, <1>3 DEF LogExpiredFails, PassOK
  <2>2. unlogged' \subseteq Grants \X (Operations \cup {"create", "expired"})
    BY <1>3, <2>1 DEF LogExpiredFails, IInv, TypeOK
  <2>3. OthersOK'
    BY <1>2, <1>3, <2>2 DEF IInv, TypeOK, OthersOK, LogExpiredFails, controller
  <2>4. /\ pass' = [pass EXCEPT ![q] = NextInPass(pass[q])]
        /\ UNCHANGED <<now, rows, task, shifted>>
    BY <1>3 DEF LogExpiredFails, IInv, TypeOK
  <2> QED
    BY <1>1, <2>3, <2>4, NextInPassKeeps, SameRows, PassMoves
<1>4. ASSUME NEW g \in Grants, ExpireFails(q, g) PROVE IInv'
  <2> DEFINE x == [pass[q] EXCEPT !.todo = pass[q].todo \ {g}]
  <2>1. x \in Pass
    BY <1>1 DEF Pass
  <2>2. PassOK(x, now, shifted)
    BY <1>1 DEF PassOK, Pass
  <2>3. OthersOK'
    BY <1>2, <1>4 DEF IInv, TypeOK, OthersOK, ExpireFails, controller
  <2>4. /\ pass' = [pass EXCEPT ![q] = NextInPass(x)]
        /\ UNCHANGED <<now, rows, task, shifted>>
    <3>1. pass' = [pass EXCEPT ![q] = NextInPass([pass[q] EXCEPT !.todo = @ \ {g}])]
      BY <1>4 DEF ExpireFails
    <3>2. pass[q].todo \ {g} = x.todo
      BY <1>1 DEF Pass
    <3>3. pass' = [pass EXCEPT ![q] = NextInPass(x)]
      BY <3>1
    <3>4. UNCHANGED <<now, rows, task, shifted>>
      BY <1>4 DEF ExpireFails
    <3> QED
      BY <3>3, <3>4
  <2> HIDE DEF x
  <2> QED
    BY <1>1, <2>1, <2>2, <2>3, <2>4, NextInPassKeeps, SameRows, PassMoves
<1> QED
  BY <1>3, <1>4

LEMMA RevokeExpiredKeeps ==
    ASSUME IInv, NEW q \in Passes, NEW reply \in Replies, RevokeExpired(q, reply)
    PROVE  IInv'
<1>1. now \in Time /\ pass[q] \in Pass /\ PassOK(pass[q], now, shifted)
  BY DEF IInv, TypeOK
<1>2. pass[q].cur \in Grants
  BY <1>1 DEF RevokeExpired, PassOK
<1>3. failed' \subseteq Grants /\ live' \subseteq Vouchers
  BY <1>2 DEF RevokeExpired, Blame, IInv, TypeOK
<1>4. OthersOK'
  BY <1>3 DEF IInv, TypeOK, OthersOK, RevokeExpired, journal
<1>5. /\ pass' = [pass EXCEPT ![q] = NextInPass(pass[q])]
      /\ UNCHANGED <<now, rows, task, shifted>>
  BY DEF RevokeExpired, IInv, TypeOK, journal
<1> QED
  BY <1>1, <1>4, <1>5, NextInPassKeeps, SameRows, PassMoves

LEMMA TickKeeps ==
    ASSUME IInv, Tick
    PROVE  IInv'
<1>1. now \in Time /\ now' \in Time /\ now <= now'
  BY Constants DEF IInv, TypeOK, Tick, Time
<1>2. TypeOK'
  BY <1>1 DEF IInv, TypeOK, Tick, controller, journal
<1>3. UNCHANGED <<rows, task, pass, shifted>>
  BY DEF Tick, journal
<1>4. RowsConsistent'
  <2>1. ASSUME NEW g \in Grants
        PROVE  /\ Coherent(rows[g], now')
               /\ rows[g].status # "none" => rows[g].start < rows[g].end
               /\ g \notin shifted => InWindow(rows[g])
    BY <1>1, CoherentLater DEF IInv, TypeOK, RowsConsistent
  <2> QED
    BY <1>3, <2>1 DEF RowsConsistent
<1>5. ASSUME NEW p \in Requests PROVE TaskOK(task[p], now, shifted)'
  <2>1. task[p] \in Task /\ TaskOK(task[p], now, shifted)
    BY DEF IInv, TypeOK
  <2>2. task[p].obj \in Row /\ task[p].at \in Time
    BY <2>1 DEF Task
  <2>3. Coherent(task[p].obj, now')
    BY <1>1, <2>1, <2>2, CoherentLater DEF TaskOK
  <2>4. task[p].at <= now => task[p].at <= now'
    BY <1>1, <2>2, Constants DEF Time
  <2>5. TaskOK(task[p], now', shifted)
    BY <2>1, <2>3, <2>4 DEF TaskOK
  <2> QED
    BY <1>3, <2>5
<1>6. ASSUME NEW q \in Passes PROVE PassOK(pass[q], now, shifted)'
  <2>1. pass[q] \in Pass /\ PassOK(pass[q], now, shifted)
    BY DEF IInv, TypeOK
  <2>2. ASSUME NEW g \in pass[q].todo
        PROVE  Coherent(pass[q].copy[g], now') /\ pass[q].copy[g].end <= now'
    <3>1. pass[q].copy[g] \in Row /\ pass[q].copy[g].end \in Time
      BY <2>1 DEF Pass, Row
    <3>2. Coherent(pass[q].copy[g], now) /\ pass[q].copy[g].end <= now
      BY <2>1 DEF PassOK
    <3>3. pass[q].copy[g].end <= now'
      BY <1>1, <3>1, <3>2, Constants DEF Time
    <3> QED
      BY <1>1, <3>1, <3>2, <3>3, CoherentLater
  <2>3. PassOK(pass[q], now', shifted)
    BY <2>1, <2>2 DEF PassOK
  <2> QED
    BY <1>3, <2>3
<1> QED
  BY <1>2, <1>4, <1>5, <1>6 DEF IInv

LEMMA CrashKeeps ==
    ASSUME IInv, Crash
    PROVE  IInv'
<1>1. now \in Time
  BY DEF IInv, TypeOK
<1>2. UNCHANGED <<rows, now, shifted>>
  BY DEF Crash, journal
<1>3. /\ task' = [p \in Requests |-> Idle]
      /\ pass' = [q \in Passes |-> NoPass]
  BY DEF Crash
<1>4. cut' \subseteq Grants /\ crashes' \in 0 .. MaxCrashes
  BY Constants DEF Crash, IInv, TypeOK
<1>5. TypeOK'
  BY <1>2, <1>3, <1>4, IdleTypes DEF Crash, controller, journal, IInv, TypeOK
<1>6. \A p \in Requests : TaskOK(task[p], now, shifted)'
  BY <1>1, <1>2, <1>3, IdleOK
<1>7. \A q \in Passes : PassOK(pass[q], now, shifted)'
  BY <1>1, <1>2, <1>3, IdleOK
<1> QED
  BY <1>2, <1>5, <1>6, <1>7, SameRows DEF IInv

-----------------------------------------------------------------------------

\* A request begins with an idle handler, and touches nothing but the table.
LEMMA RequestBegins ==
    ASSUME NEW p \in Requests, NewRequest(p)
    PROVE  /\ task[p] = Idle /\ UNCHANGED <<pass, audit, cut, unlogged>>
           /\ \E t : task' = [task EXCEPT ![p] = t]
<1>1. ASSUME NEW g, NEW s, NEW e, NEW z, CreateGrant(p, g, s, e, z)
      PROVE  /\ task[p] = Idle /\ UNCHANGED <<pass, audit, cut, unlogged>>
             /\ \E t : task' = [task EXCEPT ![p] = t]
  <2>1. task[p] = Idle /\ UNCHANGED <<pass, audit, cut, unlogged>>
    BY <1>1 DEF CreateGrant
  <2>2. \E t : task' = [task EXCEPT ![p] = t]
    BY <1>1 DEF CreateGrant
  <2> QED
    BY <2>1, <2>2
<1>2. ASSUME NEW op, NEW g, NEW e, NEW o, ReadGrant(p, op, g, e, o)
      PROVE  /\ task[p] = Idle /\ UNCHANGED <<pass, audit, cut, unlogged>>
             /\ \E t : task' = [task EXCEPT ![p] = t]
  <2>1. task[p] = Idle /\ UNCHANGED <<pass, audit, cut, unlogged>>
    BY <1>2 DEF ReadGrant, journal
  <2>2. \E t : task' = [task EXCEPT ![p] = t]
    BY <1>2 DEF ReadGrant
  <2> QED
    BY <2>1, <2>2
<1> QED
  BY <1>1, <1>2 DEF NewRequest, PatchExtend, PatchShorten, PostActivate, PatchExpire

LEMMA StutterKeeps ==
    ASSUME IInv, UNCHANGED vars
    PROVE  IInv'
BY DEF IInv, TypeOK, RowsConsistent, vars, controller, journal

LEMMA NextKeeps ==
    ASSUME IInv, [Next]_vars
    PROVE  IInv'
<1>1. ASSUME NEW p \in Requests, NewRequest(p) PROVE IInv'
  <2>1. 0 \in Time /\ 0 \in Offsets
    BY Constants DEF Time
  <2> QED
    BY <1>1, <2>1, CreateGrantKeeps, ReadGrantKeeps
    DEF NewRequest, PatchExtend, PatchShorten, PostActivate, PatchExpire, Operations
<1>2. ASSUME NEW p \in Requests, RequestStep(p) PROVE IInv'
  BY <1>2, LogCreatedKeeps, GiveUpKeeps, StartActivationKeeps, ApplyChangeKeeps,
     ProvisionReturnsKeeps, ProvisionRaisesKeeps, SaveRowKeeps, CallControllerKeeps,
     LogOutcomeKeeps, DatabaseFailsKeeps DEF RequestStep
<1>3. ASSUME NEW q \in Passes, PassStep(q) PROVE IInv'
  BY <1>3, StartPassKeeps, ExpireRowKeeps, LogExpiredKeeps, RevokeExpiredKeeps,
     PassFailsKeeps
  DEF PassStep
<1> QED
  BY <1>1, <1>2, <1>3, TickKeeps, CrashKeeps, StutterKeeps DEF Next

\* The inductive invariant holds in every reachable state.
THEOREM Inductive == Spec => []IInv
BY InitIInv, NextKeeps, PTL DEF Spec

\* Every variable keeps its type: in particular no handler provisions more
\* often than the retry policy allows.
THEOREM TypeCorrect == Spec => []TypeOK
<1>1. IInv => TypeOK
  BY DEF IInv
<1> QED
  BY <1>1, Inductive, PTL

\* Whatever objects overlapping handlers and passes write back, and wherever a
\* crash or a failing session falls, no row of the grants table mixes two
\* histories; and if all times of a grant came in UTC, its row never shows an
\* activation outside of them.
THEOREM RowsAlwaysConsistent == Spec => []RowsConsistent
<1>1. IInv => RowsConsistent
  BY DEF IInv
<1> QED
  BY <1>1, Inductive, PTL

=============================================================================
