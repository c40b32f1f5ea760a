-------------------------- MODULE GrantAuditProofs --------------------------
(***************************************************************************)
(* FR-008 for any constants: what the grants table shows of a grant is     *)
(* accounted for in the audit log, whatever handlers and passes overlap    *)
(* and whichever database sessions fail.                                   *)
(***************************************************************************)
EXTENDS GrantLifecycleProofs

\* What is accounted for, as a set of pairs.
Booked == {x \in Grants \X {"activate", "revoke"} : Accounted(x[1], x[2])}

RowBooked(g, r, b) ==
    /\ r.activated # Never => <<g, "activate">> \in b
    /\ r.revoked # Never => <<g, "revoke">> \in b

\* An object in a handler's hands is ahead of the log only between the change
\* and its save.
TaskBooked(t, b) == t.pc # "idle" =>
    /\ t.obj.activated # Never /\ ~ (t.op = "activate" /\ t.pc = "save")
          => <<t.grant, "activate">> \in b
    /\ t.obj.revoked # Never /\ ~ (t.op = "revoke" /\ t.pc = "save")
          => <<t.grant, "revoke">> \in b

PassBooked(x, b) == \A g \in x.todo : RowBooked(g, x.copy[g], b)

\* The table alone is not inductive: a handler or a pass may write back what it
\* read before, so the objects they hold must be accounted for as well.
AInv ==
    /\ \A g \in Grants : RowBooked(g, rows[g], Booked)
    /\ \A p \in Requests : TaskBooked(task[p], Booked)
    /\ \A q \in Passes : PassBooked(pass[q], Booked)

-----------------------------------------------------------------------------

LEMMA AInvMeans == AInv => ChangesAudited
BY DEF AInv, RowBooked, Booked, ChangesAudited

LEMMA InitAInv == Init => AInv
BY DEF Init, AInv, RowBooked, TaskBooked, PassBooked, NoRow, Idle, NoPass, Never

\* What one handler does leaves the others where they are.
LEMMA OthersStay ==
    ASSUME IInv, NEW p \in Requests, NEW r \in Requests, r # p,
           NewRequest(p) \/ RequestStep(p)
    PROVE  task'[r] = task[r]
<1>1. task \in [Requests -> Task]
  BY DEF IInv, TypeOK
<1>2. NewRequest(p) => task'[r] = task[r]
  BY <1>1, RequestBegins
<1> QED
  BY <1>1, <1>2 DEF RequestStep, LogCreated, Refuse, StartActivation, ApplyChange,
     ProvisionReturns, ProvisionRaises, ControllerMissing, SaveRow,
     SaveRefused, SaveFails, DatabaseFails, ExtendVoucher, RevokeVoucher,
     CallController, LogOutcome, LogFails

\* A handler that has saved its object goes on to the controller and the log.
LEMMA SavedGoesOn ==
    ASSUME IInv, NEW p \in Requests, task[p].pc \in {"controller", "log"},
           NewRequest(p) \/ RequestStep(p)
    PROVE  \/ LogOutcome(p) \/ LogFails(p)
           \/ /\ task'[p].grant = task[p].grant /\ task'[p].op = task[p].op
              /\ task'[p].pc = "log"
<1>1. task \in [Requests -> Task]
  BY DEF IInv, TypeOK
<1>2. task[p] # Idle
  BY DEF Idle
<1>3. \/ LogOutcome(p) \/ LogFails(p)
      \/ \E reply \in Replies : ExtendVoucher(p, reply) \/ RevokeVoucher(p, reply)
  BY <1>2, RequestBegins DEF RequestStep, LogCreated, Refuse, StartActivation,
                             ApplyChange, ProvisionReturns, ProvisionRaises, Attempt,
                             ControllerMissing, SaveRow, SaveRefused, SaveFails
<1>4. ASSUME NEW reply \in Replies, ExtendVoucher(p, reply) \/ RevokeVoucher(p, reply)
      PROVE  task' = [task EXCEPT ![p] = [task[p] EXCEPT !.pc = "log"]]
  BY <1>1, <1>4 DEF ExtendVoucher, RevokeVoucher, CallController
<1>5. task[p] \in Task
  BY <1>1
<1> QED
  BY <1>1, <1>3, <1>4, <1>5 DEF Task

\* Neither the log nor the records of crashes and failures ever lose an entry.
LEMMA LogGrows ==
    ASSUME IInv, [Next]_vars
    PROVE  audit \subseteq audit' /\ cut \subseteq cut' /\ unlogged \subseteq unlogged'
<1>1. ASSUME NEW p \in Requests, NewRequest(p) PROVE UNCHANGED <<audit, cut, unlogged>>
  BY <1>1, RequestBegins
<1>2. ASSUME NEW p \in Requests, RequestStep(p)
      PROVE  audit \subseteq audit' /\ cut \subseteq cut' /\ unlogged \subseteq unlogged'
  BY <1>2 DEF RequestStep, LogCreated, Refuse, StartActivation, ApplyChange,
     ProvisionReturns, ProvisionRaises, Attempt, ControllerMissing, SaveRow,
     SaveRefused, SaveFails, DatabaseFails, ExtendVoucher, RevokeVoucher,
     CallController, LogOutcome, LogFails, journal
<1>3. ASSUME NEW q \in Passes, PassStep(q)
      PROVE  audit \subseteq audit' /\ cut' = cut /\ unlogged \subseteq unlogged'
  BY <1>3 DEF PassStep, StartPass, ExpireRow, ExpireFails, LogExpired,
     LogExpiredFails, RevokeExpired, journal
<1>4. Tick \/ Crash => audit' = audit /\ cut \subseteq cut' /\ unlogged' = unlogged
  BY DEF Tick, Crash, journal
<1> QED
  BY <1>1, <1>2, <1>3, <1>4 DEF Next, vars, journal

LEMMA BookedGrows ==
    ASSUME IInv, [Next]_vars
    PROVE  Booked \subseteq Booked'
<1> SUFFICES ASSUME NEW g \in Grants, NEW op \in {"activate", "revoke"},
                    Accounted(g, op)
             PROVE  Accounted(g, op)'
  BY DEF Booked
<1>1. audit \subseteq audit' /\ cut \subseteq cut' /\ unlogged \subseteq unlogged'
  BY LogGrows
<1>2. CASE <<g, op>> \in audit \/ <<g, op>> \in unlogged \/ g \in cut
  BY <1>1, <1>2 DEF Accounted
<1>3. CASE Pending(g, op)
  <2>1. PICK p \in Requests : /\ task[p].grant = g /\ task[p].op = op
                              /\ task[p].pc \in {"controller", "log"}
    BY <1>3 DEF Pending
  <2>2. CASE task'[p] = task[p]
    BY <2>1, <2>2 DEF Accounted, Pending
  <2>3. CASE NewRequest(p) \/ RequestStep(p)
    <3>1. LogOutcome(p) \/ LogFails(p) => <<g, op>> \in audit' \cup unlogged'
      BY <2>1 DEF LogOutcome, LogFails
    <3> QED
      BY <2>1, <2>3, <3>1, SavedGoesOn DEF Accounted, Pending
  <2>4. CASE Crash
    <3>1. InFlight(g)
      BY <2>1 DEF InFlight
    <3>2. g \in cut'
      BY <2>4, <3>1 DEF Crash
    <3> QED
      BY <3>2 DEF Accounted
  <2>5. ASSUME NEW r \in Requests, r # p, NewRequest(r) \/ RequestStep(r)
        PROVE  task'[p] = task[p]
    BY <2>5, OthersStay
  <2>6. ASSUME NEW q \in Passes, PassStep(q) PROVE task' = task
    BY <2>6 DEF PassStep, StartPass, ExpireRow, ExpireFails, LogExpired,
       LogExpiredFails, RevokeExpired
  <2>7. Tick \/ UNCHANGED vars => task' = task
    BY DEF Tick, vars
  <2> QED
    BY <2>2, <2>3, <2>4, <2>5, <2>6, <2>7 DEF Next
<1> QED
  BY <1>2, <1>3 DEF Accounted

-----------------------------------------------------------------------------
(* How a step of one handler, or of one pass, keeps AInv.                  *)

LEMMA MoreBooked ==
    ASSUME NEW b, NEW c, b \subseteq c
    PROVE  /\ \A g, r : RowBooked(g, r, b) => RowBooked(g, r, c)
           /\ \A t : TaskBooked(t, b) => TaskBooked(t, c)
           /\ \A x : PassBooked(x, b) => PassBooked(x, c)
BY DEF RowBooked, TaskBooked, PassBooked

LEMMA BookedHandler ==
    ASSUME IInv, AInv, [Next]_vars, NEW p \in Requests, NEW t,
           task' = [task EXCEPT ![p] = t], TaskBooked(t, Booked'), UNCHANGED pass,
           \A g \in Grants : RowBooked(g, rows'[g], Booked')
    PROVE  AInv'
<1>1. ASSUME NEW r \in Requests PROVE TaskBooked(task'[r], Booked')
  <2>1. task'[r] = IF r = p THEN t ELSE task[r]
    BY DEF IInv, TypeOK
  <2>2. TaskBooked(task[r], Booked)
    BY DEF AInv
  <2> QED
    BY <2>1, <2>2, BookedGrows, MoreBooked
<1>2. \A q \in Passes : PassBooked(pass'[q], Booked')
  BY BookedGrows, MoreBooked DEF AInv
<1> QED
  BY <1>1, <1>2 DEF AInv

LEMMA BookedPass ==
    ASSUME IInv, AInv, [Next]_vars, NEW q \in Passes, NEW x,
           pass' = [pass EXCEPT ![q] = x], PassBooked(x, Booked'), UNCHANGED task,
           \A g \in Grants : RowBooked(g, rows'[g], Booked')
    PROVE  AInv'
<1>1. ASSUME NEW r \in Passes PROVE PassBooked(pass'[r], Booked')
  <2>1. pass'[r] = IF r = q THEN x ELSE pass[r]
    BY DEF IInv, TypeOK
  <2>2. PassBooked(pass[r], Booked)
    BY DEF AInv
  <2> QED
    BY <2>1, <2>2, BookedGrows, MoreBooked
<1>2. \A p \in Requests : TaskBooked(task'[p], Booked')
  BY BookedGrows, MoreBooked DEF AInv
<1> QED
  BY <1>1, <1>2 DEF AInv

\* The rows of a step that leaves the table alone, or stores one object.
LEMMA BookedRows ==
    ASSUME IInv, AInv, [Next]_vars
    PROVE  /\ UNCHANGED rows => \A g \in Grants : RowBooked(g, rows'[g], Booked')
           /\ \A h \in Grants : \A r :
                 rows' = [rows EXCEPT ![h] = r] /\ RowBooked(h, r, Booked')
                    => \A g \in Grants : RowBooked(g, rows'[g], Booked')
<1>1. \A g \in Grants : RowBooked(g, rows[g], Booked')
  BY BookedGrows, MoreBooked DEF AInv
<1>2. ASSUME NEW h \in Grants, NEW r, rows' = [rows EXCEPT ![h] = r],
             RowBooked(h, r, Booked'), NEW g \in Grants
      PROVE  RowBooked(g, rows'[g], Booked')
  <2>1. rows'[g] = IF g = h THEN r ELSE rows[g]
    BY <1>2 DEF IInv, TypeOK
  <2> QED
    BY <1>1, <1>2, <2>1
<1> QED
  BY <1>1, <1>2

\* Without the stutter: Next from the action at hand.
LEMMA IsStep ==
    /\ \A p \in Requests : NewRequest(p) \/ RequestStep(p) => [Next]_vars
    /\ \A q \in Passes : PassStep(q) => [Next]_vars
    /\ Tick \/ Crash => [Next]_vars
BY DEF Next

-----------------------------------------------------------------------------

LEMMA NewRequestBooks ==
    ASSUME IInv, AInv, NEW p \in Requests, NewRequest(p)
    PROVE  AInv'
<1>1. [Next]_vars
  BY IsStep
<1>2. ASSUME NEW g \in Grants, NEW s \in Time, NEW e \in Time, NEW z \in Zones,
             CreateGrant(p, g, s, e, z)
      PROVE  AInv'
  <2> DEFINE row == [NoRow EXCEPT !.status = "pending", !.start = s, !.end = e]
             t == [Idle EXCEPT !.op = "create", !.pc = "created", !.grant = g,
                               !.zone = z, !.obj = row]
  <2>1. row.activated = Never /\ row.revoked = Never
    BY DEF NoRow
  <2> HIDE DEF row
  <2>2. TaskBooked(t, Booked') /\ RowBooked(g, row, Booked')
    BY <2>1 DEF TaskBooked, RowBooked, Idle
  <2>3. /\ rows' = [rows EXCEPT ![g] = row] /\ task' = [task EXCEPT ![p] = t]
        /\ UNCHANGED pass
    BY <1>2 DEF CreateGrant, row
  <2> QED
    BY <1>1, <2>2, <2>3, BookedRows, BookedHandler
<1>3. ASSUME NEW g \in Grants, NEW op \in Operations, NEW e \in Time,
             NEW o \in Offsets, ReadGrant(p, op, g, e, o)
      PROVE  AInv'
  <2> DEFINE t == [Idle EXCEPT !.op = op, !.pc = "check", !.grant = g, !.arg = e,
                               !.zone.end = o, !.obj = rows[g]]
  <2>1. RowBooked(g, rows[g], Booked')
    BY <1>1, BookedGrows, MoreBooked DEF AInv
  <2>2. TaskBooked(t, Booked')
    BY <2>1 DEF TaskBooked, RowBooked, Idle
  <2>3. task' = [task EXCEPT ![p] = t] /\ UNCHANGED <<rows, pass>>
    BY <1>3 DEF ReadGrant
  <2> QED
    BY <1>1, <2>2, <2>3, BookedRows, BookedHandler
<1>4. 0 \in Time /\ 0 \in Offsets
  BY Constants DEF Time
<1> QED
  BY <1>2, <1>3, <1>4
  DEF NewRequest, PatchExtend, PatchShorten, PostActivate, PatchExpire, Operations

\* The steps of a handler that leave the table alone.
LEMMA HandlerBooks ==
    ASSUME IInv, AInv, NEW p \in Requests, RequestStep(p), ~ SaveRow(p)
    PROVE  AInv'
<1> DEFINE s == task[p]
<1>1. [Next]_vars
  BY IsStep
<1>2. s \in Task /\ TaskOK(s, now, shifted) /\ TaskBooked(s, Booked')
  BY <1>1, BookedGrows, MoreBooked DEF IInv, TypeOK, AInv
<1>3. task \in [Requests -> Task]
  BY DEF IInv, TypeOK
<1>4. TaskBooked(Idle, Booked')
  BY DEF TaskBooked, Idle
<1>5. CASE LogCreated(p)
  <2> DEFINE t == [s EXCEPT !.op = "activate", !.pc = "check"]
  <2>1. s.pc = "created" /\ s.obj.activated = Never /\ s.obj.revoked = Never
    BY <1>2, <1>5 DEF LogCreated, TaskOK, Coherent, Open
  <2>2. TaskBooked(t, Booked')
    BY <1>2, <2>1 DEF TaskBooked, Task
  <2>3. /\ \/ task' = [task EXCEPT ![p] = t] \/ task' = [task EXCEPT ![p] = Idle]
        /\ UNCHANGED <<rows, pass>>
    BY <1>3, <1>5 DEF LogCreated
  <2> QED
    BY <1>1, <1>4, <2>2, <2>3, BookedRows, BookedHandler
<1>6. CASE Refuse(p) \/ ControllerMissing(p) \/ SaveRefused(p) \/ SaveFails(p)
          \/ LogOutcome(p) \/ LogFails(p)
  <2>1. task' = [task EXCEPT ![p] = Idle] /\ UNCHANGED <<rows, pass>>
    BY <1>6 DEF Refuse, ControllerMissing, SaveRefused, SaveFails, LogOutcome,
       LogFails, DatabaseFails
  <2> QED
    BY <1>1, <1>4, <2>1, BookedRows, BookedHandler
<1>7. CASE StartActivation(p)
  <2> DEFINE t == [s EXCEPT !.pc = "provision", !.at = now]
  <2>1. TaskBooked(t, Booked')
    BY <1>2, <1>7 DEF StartActivation, TaskBooked, Task
  <2>2. task' = [task EXCEPT ![p] = t] /\ UNCHANGED <<rows, pass>>
    BY <1>3, <1>7 DEF StartActivation
  <2> QED
    BY <1>1, <2>1, <2>2, BookedRows, BookedHandler
<1>8. CASE ApplyChange(p)
  <2> DEFINE obj == Changed(s, now)
             t == [s EXCEPT !.pc = "save", !.obj = obj]
  <2>1. /\ s.pc = "check" /\ s.op \in Operations \ {"activate"} /\ s.grant \in Grants
        /\ s.obj \in Row
    BY <1>2, <1>8 DEF ApplyChange, TaskOK, Task
  <2>2. /\ obj.activated = s.obj.activated
        /\ s.op # "revoke" => obj.revoked = s.obj.revoked
    <3>1. \/ s.op = "extend" /\ obj = [s.obj EXCEPT !.end = s.arg]
          \/ s.op = "shorten" /\ obj = [s.obj EXCEPT !.end =
                IF s.arg - s.zone.end < now THEN now ELSE s.arg]
          \/ s.op = "revoke"
             /\ obj = [s.obj EXCEPT !.status = "revoked", !.revoked = now]
          \/ s.op = "expire" /\ obj = [s.obj EXCEPT !.status = "expired", !.end = now]
      BY <2>1 DEF Changed, Extended, Shortened, Revoked, Expired, Operations
    <3> HIDE DEF obj
    <3> QED
      BY <2>1, <3>1 DEF Row
  <2> HIDE DEF obj
  <2>3. TaskBooked(t, Booked')
    BY <1>2, <2>1, <2>2 DEF TaskBooked, Task
  <2>4. task' = [task EXCEPT ![p] = t] /\ UNCHANGED <<rows, pass>>
    BY <1>3, <1>8 DEF ApplyChange, obj
  <2> QED
    BY <1>1, <2>3, <2>4, BookedRows, BookedHandler
<1>9. ASSUME NEW reply \in Replies, NEW v \in Fresh \cup {NoVoucher},
             ProvisionReturns(p, reply, v)
      PROVE  AInv'
  <2> DEFINE obj == Activated(s.obj, IF reply = "success" THEN v ELSE NoVoucher, s.at)
             t == [s EXCEPT !.pc = "save", !.obj = obj]
  <2>1. s.pc = "provision" /\ s.op = "activate" /\ s.obj \in Row
    BY <1>2, <1>9 DEF ProvisionReturns, Attempt, TaskOK, Task
  <2>2. obj.revoked = s.obj.revoked
    BY <2>1 DEF Activated, Row
  <2> HIDE DEF obj
  <2>3. TaskBooked(t, Booked')
    BY <1>2, <2>1, <2>2 DEF TaskBooked, Task
  <2>4. task' = [task EXCEPT ![p] = t] /\ UNCHANGED <<rows, pass>>
    BY <1>3, <1>9 DEF ProvisionReturns, Attempt, obj
  <2> QED
    BY <1>1, <2>3, <2>4, BookedRows, BookedHandler
<1>10. ASSUME NEW v \in Fresh \cup {NoVoucher}, ProvisionRaises(p, v)
       PROVE  AInv'
  <2> DEFINE obj == [s.obj EXCEPT !.error = TRUE]
             t == [s EXCEPT !.pc = "save", !.op = "activation_error", !.obj = obj]
             u == [s EXCEPT !.tries = s.tries + 1]
  <2>1. /\ s.pc = "provision" /\ s.op = "activate" /\ s.obj \in Row
        /\ s.obj.activated = Never
    BY <1>2, <1>10 DEF ProvisionRaises, Attempt, TaskOK, Task, Coherent
  <2>2. obj.activated = s.obj.activated /\ obj.revoked = s.obj.revoked
    BY <2>1 DEF Row
  <2>3. TaskBooked(u, Booked')
    BY <1>2 DEF TaskBooked, Task
  <2> HIDE DEF obj
  <2>4. TaskBooked(t, Booked')
    BY <1>2, <2>1, <2>2 DEF TaskBooked, Task
  <2>5. /\ task' = [task EXCEPT ![p] = t] \/ task' = [task EXCEPT ![p] = u]
        /\ UNCHANGED <<rows, pass>>
    BY <1>3, <1>10 DEF ProvisionRaises, Attempt, obj
  <2> QED
    BY <1>1, <2>3, <2>4, <2>5, BookedRows, BookedHandler
<1>11. ASSUME NEW reply \in Replies,
              ExtendVoucher(p, reply) \/ RevokeVoucher(p, reply)
       PROVE  AInv'
  <2> DEFINE t == [s EXCEPT !.pc = "log"]
  <2>1. TaskBooked(t, Booked')
    BY <1>2, <1>11 DEF ExtendVoucher, RevokeVoucher, CallController,
       TaskBooked, Task
  <2>2. task' = [task EXCEPT ![p] = t] /\ UNCHANGED <<rows, pass>>
    BY <1>3, <1>11 DEF ExtendVoucher, RevokeVoucher, CallController
  <2> QED
    BY <1>1, <2>1, <2>2, BookedRows, BookedHandler
<1> QED
  BY <1>5, <1>6, <1>7, <1>8, <1>9, <1>10, <1>11 DEF RequestStep

\* The save that puts a change into the table leaves the handler on its way to
\* the log.
LEMMA SaveRowBooks ==
    ASSUME IInv, AInv, NEW p \in Requests, SaveRow(p)
    PROVE  AInv'
<1> DEFINE s == task[p]
           t == NextAfterSave(s)
<1>1. [Next]_vars
  BY IsStep DEF RequestStep
<1>2. s \in Task /\ TaskOK(s, now, shifted) /\ TaskBooked(s, Booked')
  BY <1>1, BookedGrows, MoreBooked DEF IInv, TypeOK, AInv
<1>3. task \in [Requests -> Task]
  BY DEF IInv, TypeOK
<1>4. s.pc = "save" /\ s.grant \in Grants
  BY <1>2 DEF SaveRow, TaskOK
<1>5. /\ rows' = [rows EXCEPT ![s.grant] = s.obj]
      /\ task' = [task EXCEPT ![p] = t]
      /\ UNCHANGED pass
  BY <1>3 DEF SaveRow, Stored
<1>6. \/ t = Idle /\ s.op \notin {"activate", "revoke"}
      \/ t = [s EXCEPT !.pc = "controller"] \/ t = [s EXCEPT !.pc = "log"]
  BY DEF NextAfterSave
<1> HIDE DEF t
<1>7. s.op \in {"activate", "revoke"} => <<s.grant, s.op>> \in Booked'
  <2>1. task'[p] = t
    BY <1>3, <1>5
  <2>2. SUFFICES ASSUME NEW g \in Grants, NEW op \in {"activate", "revoke"},
                        s.grant = g, s.op = op
                 PROVE  <<g, op>> \in Booked'
    BY <1>4
  <2>3. t.grant = g /\ t.op = op /\ t.pc \in {"controller", "log"}
    BY <1>2, <1>6, <2>2 DEF Task
  <2>4. Pending(g, op)'
    BY <2>1, <2>3 DEF Pending
  <2> QED
    BY <2>4 DEF Booked, Accounted
<1>8. RowBooked(s.grant, s.obj, Booked')
  BY <1>2, <1>4, <1>7 DEF RowBooked, TaskBooked
<1>9. TaskBooked(t, Booked')
  BY <1>2, <1>6, <1>8 DEF TaskBooked, RowBooked, Task, Idle
<1> QED
  BY <1>1, <1>4, <1>5, <1>8, <1>9, BookedRows, BookedHandler

LEMMA PassBooks ==
    ASSUME IInv, AInv, NEW q \in Passes, PassStep(q)
    PROVE  AInv'
<1> DEFINE s == pass[q]
<1>1. [Next]_vars
  BY IsStep
<1>2. s \in Pass /\ PassBooked(s, Booked')
  BY <1>1, BookedGrows, MoreBooked DEF IInv, TypeOK, AInv
<1>3. pass \in [Passes -> Pass]
  BY DEF IInv, TypeOK
<1>4. PassBooked(NoPass, Booked')
  BY DEF PassBooked, NoPass
<1>5. PassBooked(NextInPass(s), Booked')
  BY <1>2, <1>4 DEF NextInPass, PassBooked, Pass
<1>6. CASE StartPass(q)
  <2> DEFINE due == {g \in Grants : Due(rows[g])}
             copy == [g \in Grants |-> IF g \in due THEN rows[g] ELSE NoRow]
             x == [NoPass EXCEPT !.pc = "update", !.todo = due, !.copy = copy]
  <2>1. ASSUME NEW g \in due PROVE g \in Grants /\ copy[g] = rows[g]
    <3> HIDE DEF due
    <3>1. g \in Grants
      BY DEF due
    <3> QED
      BY <3>1
  <2>2. \A g \in Grants : RowBooked(g, rows[g], Booked')
    BY <1>1, BookedGrows, MoreBooked DEF AInv
  <2> HIDE DEF due, copy
  <2>3. PassBooked(x, Booked')
    BY <2>1, <2>2 DEF PassBooked, NoPass
  <2>4. pass' = [pass EXCEPT ![q] = x] /\ UNCHANGED <<rows, task>>
    BY <1>6 DEF StartPass, due, copy
  <2> QED
    BY <1>1, <2>3, <2>4, BookedRows, BookedPass
<1>7. ASSUME NEW g \in Grants, ExpireRow(q, g)
      PROVE  AInv'
  <2> DEFINE r == [s.copy[g] EXCEPT !.status = "expired"]
             x == [s EXCEPT !.pc = "log", !.cur = g, !.todo = s.todo \ {g}]
  <2>1. s.copy[g] \in Row /\ RowBooked(g, s.copy[g], Booked')
    BY <1>2, <1>7 DEF ExpireRow, PassBooked, Pass
  <2>2. RowBooked(g, r, Booked')
    BY <2>1 DEF RowBooked, Row
  <2>3. PassBooked(x, Booked')
    BY <1>2 DEF PassBooked, Pass
  <2>4. /\ rows' = [rows EXCEPT ![g] = r] /\ pass' = [pass EXCEPT ![q] = x]
        /\ UNCHANGED task
    BY <1>3, <1>7 DEF ExpireRow, Stored
  <2> HIDE DEF r, x
  <2> QED
    BY <1>1, <2>2, <2>3, <2>4, BookedRows, BookedPass
<1>8. CASE LogExpired(q) \/ LogExpiredFails(q)
  <2> DEFINE x == [s EXCEPT !.pc = "revoke"]
  <2>1. PassBooked(x, Booked')
    BY <1>2 DEF PassBooked, Pass
  <2>2. /\ \/ pass' = [pass EXCEPT ![q] = x]
           \/ pass' = [pass EXCEPT ![q] = NextInPass(s)]
        /\ UNCHANGED <<rows, task>>
    BY <1>3, <1>8 DEF LogExpired, LogExpiredFails
  <2> QED
    BY <1>1, <1>5, <2>1, <2>2, BookedRows, BookedPass
<1>9. ASSUME NEW reply \in Replies, RevokeExpired(q, reply)
      PROVE  AInv'
  <2>1. pass' = [pass EXCEPT ![q] = NextInPass(s)] /\ UNCHANGED <<rows, task>>
    BY <1>3, <1>9 DEF RevokeExpired
  <2> QED
    BY <1>1, <1>5, <2>1, BookedRows, BookedPass
<1>10. ASSUME NEW g \in Grants, ExpireFails(q, g)
       PROVE  AInv'
  <2> DEFINE x == [s EXCEPT !.todo = s.todo \ {g}]
  <2>1. PassBooked(x, Booked')
    BY <1>2 DEF PassBooked, Pass
  <2>2. PassBooked(NextInPass(x), Booked')
    BY <1>2, <1>4, <2>1 DEF NextInPass, PassBooked, Pass
  <2>3. pass' = [pass EXCEPT ![q] = NextInPass(x)] /\ UNCHANGED <<rows, task>>
    BY <1>3, <1>10 DEF ExpireFails
  <2> HIDE DEF x
  <2> QED
    BY <1>1, <2>2, <2>3, BookedRows, BookedPass
<1> QED
  BY <1>6, <1>7, <1>8, <1>9, <1>10 DEF PassStep

LEMMA TickCrashBooks ==
    ASSUME IInv, AInv, Tick \/ Crash
    PROVE  AInv'
<1>1. [Next]_vars
  BY IsStep
<1>2. \A g \in Grants : RowBooked(g, rows'[g], Booked')
  BY <1>1, BookedRows DEF Tick, Crash
<1>3. CASE Tick
  <2>1. UNCHANGED <<task, pass>>
    BY <1>3 DEF Tick
  <2> QED
    BY <1>1, <1>2, <2>1, BookedGrows, MoreBooked DEF AInv
<1>4. CASE Crash
  <2>1. /\ task' = [p \in Requests |-> Idle]
        /\ pass' = [q \in Passes |-> NoPass]
    BY <1>4 DEF Crash
  <2>2. TaskBooked(Idle, Booked') /\ PassBooked(NoPass, Booked')
    BY DEF TaskBooked, PassBooked, Idle, NoPass
  <2> QED
    BY <1>2, <2>1, <2>2 DEF AInv
<1> QED
  BY <1>3, <1>4

LEMMA StutterBooks ==
    ASSUME AInv, UNCHANGED vars
    PROVE  AInv'
<1>1. UNCHANGED <<rows, task, pass, audit, cut, unlogged>>
  BY DEF vars, journal
<1>2. Booked' = Booked
  BY <1>1 DEF Booked, Accounted, Pending
<1> QED
  BY <1>1, <1>2 DEF AInv

LEMMA NextBooks ==
    ASSUME IInv, AInv, [Next]_vars
    PROVE  AInv'
<1>1. ASSUME NEW p \in Requests, NewRequest(p) \/ RequestStep(p) PROVE AInv'
  BY <1>1, NewRequestBooks, HandlerBooks, SaveRowBooks
<1>2. ASSUME NEW q \in Passes, PassStep(q) PROVE AInv'
  BY <1>2, PassBooks
<1> QED
  BY <1>1, <1>2, TickCrashBooks, StutterBooks DEF Next

\* FR-008: whatever overlaps, fails or crashes, every activation and revocation
\* the table shows is in the audit log, or about to be, or cut off by a crash, or
\* it is this very event whose database session failed.
THEOREM ChangesAlwaysAudited == Spec => []ChangesAudited
<1>1. Init => IInv /\ AInv
  BY InitIInv, InitAInv
<1>2. IInv /\ AInv /\ [Next]_vars => (IInv /\ AInv)'
  BY NextKeeps, NextBooks
<1>3. IInv /\ AInv => ChangesAudited
  BY AInvMeans
<1> QED
  BY <1>1, <1>2, <1>3, PTL DEF Spec

=============================================================================
