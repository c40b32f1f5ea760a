--------------------------- MODULE GrantRaceProofs ---------------------------
(***************************************************************************)
(* What GrantRaces promises of a grant nobody raced for, for any number of *)
(* grants, handlers, passes and vouchers, any faults and any crashes: the  *)
(* table, the audit log and the controller agree about it when nobody is   *)
(* working on it and no crash and no bad reply of the controller has       *)
(* touched it, and each change of its row is a step of the contract.       *)
(***************************************************************************)
EXTENDS GrantRaces, GrantLifecycleProofs

Clean(g) == g \notin cut \cup failed \cup raced

\* The vouchers of a grant that the controller honours.
LiveOf(g) == {v \in live : owner[v] = g}

ClosedOnRecord(g) == <<g, "revoke">> \in audit \/ <<g, "expired">> \in audit

\* The three properties, of one grant at rest. A grant closed on record is
\* closed in the table too, so that no later activation can bring a voucher.
OneVoucher(g) == LiveOf(g) \subseteq {rows[g].voucher}
Reached(g) == rows[g].status = "active" =>
    /\ rows[g].voucher \in live
    /\ g \notin shifted => until[rows[g].voucher] >= rows[g].end
CutOff(g) == ClosedOnRecord(g) => rows[g].status \in Closed /\ LiveOf(g) = {}
Gone(g) == rows[g].status = "revoked" => LiveOf(g) = {}
Rest(g) == OneVoucher(g) /\ Reached(g) /\ CutOff(g) /\ Gone(g)

\* An activation about to be saved has its voucher; other changes leave the
\* voucher alone and only close the grant or move its end.
ActivationReady(t) ==
    /\ rows[t.grant].status = "pending" /\ ~ ClosedOnRecord(t.grant)
    /\ LiveOf(t.grant) \subseteq {t.obj.voucher}
    /\ t.obj.status = "active" /\ t.obj.start < t.obj.end /\ t.obj.voucher \in live
    /\ t.grant \notin shifted => until[t.obj.voucher] >= t.obj.end

ChangeReady(t) ==
    /\ Rest(t.grant) /\ t.obj.voucher = rows[t.grant].voucher
    /\ t.op = "extend" => /\ t.obj.status = rows[t.grant].status
                          /\ t.obj.status \in Open /\ t.obj.end = t.arg
                          /\ t.grant \notin shifted => t.zone = UTC
    /\ t.op = "shorten" => /\ t.obj.status = rows[t.grant].status
                           /\ t.obj.status \in Open
                           /\ t.grant \notin shifted => t.obj.end <= rows[t.grant].end
    /\ t.op = "revoke" => t.obj.status \in Closed
    /\ t.op = "expire" => t.obj.status = "expired"

\* Between the save and the controller's answer the row is ahead of the voucher.
CallReady(t) ==
    /\ OneVoucher(t.grant) /\ CutOff(t.grant) /\ t.obj.voucher = rows[t.grant].voucher
    /\ t.op = "extend" => /\ rows[t.grant].end = t.arg /\ rows[t.grant].status \in Open
                          /\ t.grant \notin shifted => t.zone = UTC
                          /\ rows[t.grant].status = "active" => t.obj.voucher \in live
    /\ t.op = "revoke" => rows[t.grant].status \in Closed

LogReady(t) ==
    /\ Rest(t.grant)
    /\ t.op = "revoke" => rows[t.grant].status \in Closed /\ LiveOf(t.grant) = {}

HandlerOK(t) ==
    /\ t.pc \in {"created", "check", "provision"} =>
          Rest(t.grant) /\ t.obj = rows[t.grant]
    /\ t.pc = "save" =>
          /\ t.op # "activation_error"
          /\ IF t.op = "activate" THEN ActivationReady(t) ELSE ChangeReady(t)
    /\ t.pc = "controller" => CallReady(t)
    /\ t.pc = "log" => LogReady(t)

\* The grants a pass has still to take are as it copied them; the one at hand is
\* closed in the table, and its voucher is next.
CopyOK(x, g) ==
    /\ g \in x.todo => Rest(g) /\ x.copy[g] = rows[g]
    /\ x.pc \in {"log", "revoke"} /\ x.cur = g =>
          /\ OneVoucher(g) /\ rows[g].status \in Closed
          /\ x.copy[g].voucher = rows[g].voucher
          /\ x.pc = "log" => Rest(g)

\* Where a pass is, whatever the grants.
PassShape(x) ==
    /\ x.pc \in {"idle", "update"} => x.cur = NoGrant
    /\ x.pc = "idle" => x.todo = {}
    /\ x.cur \notin x.todo

Agreement ==
    /\ \A g \in Grants : Clean(g) /\ ~ InFlight(g) => Rest(g)
    /\ \A p \in Requests :
          task[p].pc # "idle" /\ Clean(task[p].grant) => HandlerOK(task[p])
    /\ \A q \in Passes :
          /\ PassShape(pass[q])
          /\ \A g \in Grants : Clean(g) => CopyOK(pass[q], g)

\* A voucher the controller knows of belongs to one grant for good, and nothing
\* but that grant's row and the objects read from it bears its id, raced or not.
Belongs(v, g) == v # NoVoucher => owner[v] = g
Ownership ==
    /\ \A v \in live : owner[v] \in Grants
    /\ \A g \in Grants : Belongs(rows[g].voucher, g)
    /\ \A p \in Requests :
          task[p].pc # "idle" => Belongs(task[p].obj.voucher, task[p].grant)
    /\ \A q \in Passes, g \in Grants : Belongs(pass[q].copy[g].voucher, g)

RaceInv == IInv /\ Contended \subseteq raced /\ Ownership /\ Agreement

-----------------------------------------------------------------------------
(* Who else may be at work.                                                *)

LEMMA Alone ==
    ASSUME Contended \subseteq raced, NEW g \in Grants \ raced, NEW x \in Workers(g)
    PROVE  Workers(g) \subseteq {x}
BY DEF Contended

\* A handler or a pass on a grant that has not been raced for is alone there.
LEMMA HandlerAlone ==
    ASSUME RaceInv, raced \subseteq raced', NEW p \in Requests, NEW g \in Grants,
           task[p].grant = g, Clean(g)'
    PROVE  Workers(g) \subseteq {p}
<1>1. p \in Workers(g)
  BY DEF Workers
<1> QED BY <1>1, Alone DEF RaceInv, Clean

LEMMA PassAlone ==
    ASSUME RaceInv, raced \subseteq raced', NEW q \in Passes, NEW g \in Grants,
           pass[q].cur = g \/ g \in pass[q].todo, Clean(g)'
    PROVE  Workers(g) \subseteq {q}
<1>1. q \in Workers(g)
  BY DEF Workers
<1> QED BY <1>1, Alone DEF RaceInv, Clean

LEMMA NobodyBusy ==
    /\ Idle.pc = "idle" /\ Idle.grant = NoGrant /\ Idle.obj = NoRow
    /\ NoPass.pc = "idle" /\ NoPass.todo = {} /\ NoPass.cur = NoGrant
    /\ \A g \in Grants : NoPass.copy[g] = NoRow
    /\ NoRow.voucher = NoVoucher /\ NoRow.status = "none"
BY DEF Idle, NoPass, NoRow

\* One that has just begun on such a grant found nobody there.
LEMMA NewHandlerAlone ==
    ASSUME (Contended \subseteq raced)', NEW p \in Requests, NEW g \in Grants,
           task[p] = Idle, task'[p].grant = g, UNCHANGED pass,
           \A r \in Requests \ {p} : task'[r] = task[r], g \notin raced'
    PROVE  Workers(g) = {}
<1>1. p \in Workers(g)' /\ g \notin Contended'
  BY DEF Workers
<1>2. Workers(g)' \subseteq {p}
  BY <1>1 DEF Contended
<1>3. \A x \in Workers(g) : x # p
  BY NobodyBusy, Constants, LifecycleAssumption DEF Workers, LifecycleAssumption
<1>4. Workers(g) \subseteq Workers(g)' \cup {p}
  BY DEF Workers
<1> QED BY <1>2, <1>3, <1>4

LEMMA NewPassAlone ==
    ASSUME (Contended \subseteq raced)', NEW q \in Passes, NEW g \in Grants,
           pass[q].todo = {}, pass[q].cur = NoGrant, g \in pass'[q].todo, UNCHANGED task,
           \A r \in Passes \ {q} : pass'[r] = pass[r], g \notin raced'
    PROVE  Workers(g) = {}
<1>1. q \in Workers(g)' /\ g \notin Contended'
  BY DEF Workers
<1>2. Workers(g)' \subseteq {q}
  BY <1>1 DEF Contended
<1>3. \A x \in Workers(g) : x # q
  BY Constants, LifecycleAssumption DEF Workers, LifecycleAssumption
<1>4. Workers(g) \subseteq Workers(g)' \cup {q}
  BY DEF Workers
<1> QED BY <1>2, <1>3, <1>4

LEMMA NobodyThere ==
    ASSUME NEW g \in Grants, Workers(g) = {}
    PROVE  ~ InFlight(g)
BY DEF Workers, InFlight

-----------------------------------------------------------------------------
(* Steps that concern one grant.                                           *)

\* The step leaves the rows, records and vouchers of the other grants alone.
Concerns(g) ==
    /\ \A h \in Grants \ {g} :
          /\ rows'[h] = rows[h]
          /\ ClosedOnRecord(h)' => ClosedOnRecord(h)
    /\ \A v \in Vouchers :
          IF owner[v] \in {g, NoGrant} THEN owner'[v] \in {g, NoGrant}
          ELSE owner'[v] = owner[v] /\ (v \in live' <=> v \in live) /\ until'[v] = until[v]
    /\ cut \subseteq cut' /\ failed \subseteq failed' /\ shifted \subseteq shifted'

\* What the controller does for another grant stays as it is.
LEMMA OthersStill ==
    ASSUME IInv, IInv', NEW g \in Grants, Concerns(g), NEW h \in Grants \ {g}
    PROVE  /\ rows'[h] = rows[h] /\ LiveOf(h)' = LiveOf(h)
           /\ ClosedOnRecord(h)' => ClosedOnRecord(h)
           /\ \A v : Belongs(v, h) /\ v \in live => v \in live' /\ until'[v] = until[v]
<1>1. h # NoGrant /\ g # NoGrant /\ NoVoucher \notin Vouchers
  BY Constants
<1>2. live \subseteq Vouchers /\ live' \subseteq Vouchers
  BY DEF IInv, TypeOK
<1>3. \A v \in Vouchers : owner[v] = h =>
         owner'[v] = h /\ (v \in live' <=> v \in live) /\ until'[v] = until[v]
  BY <1>1 DEF Concerns
<1>4. LiveOf(h)' = LiveOf(h)
  <2>1. ASSUME NEW v \in Vouchers, owner'[v] = h PROVE owner[v] = h
    BY <1>1, <2>1 DEF Concerns
  <2> QED BY <1>2, <1>3, <2>1 DEF LiveOf
<1>5. \A v : Belongs(v, h) /\ v \in live => v \in live' /\ until'[v] = until[v]
  BY <1>1, <1>2, <1>3 DEF Belongs
<1> QED BY <1>4, <1>5 DEF Concerns

LEMMA OthersRest ==
    ASSUME IInv, IInv', Ownership, NEW g \in Grants, Concerns(g), NEW h \in Grants \ {g}
    PROVE  /\ OneVoucher(h) => OneVoucher(h)'
           /\ CutOff(h) => CutOff(h)'
           /\ Rest(h) => Rest(h)'
<1>1. /\ rows'[h] = rows[h] /\ LiveOf(h)' = LiveOf(h)
      /\ ClosedOnRecord(h)' => ClosedOnRecord(h)
  BY OthersStill
<1>2. OneVoucher(h) => OneVoucher(h)'
  BY <1>1 DEF OneVoucher
<1>3. CutOff(h) => CutOff(h)'
  BY <1>1 DEF CutOff
<1>4. Reached(h) => Reached(h)'
  <2>1. Belongs(rows[h].voucher, h)
    BY DEF Ownership
  <2>2. rows[h].voucher \in live =>
           rows[h].voucher \in live' /\ until'[rows[h].voucher] = until[rows[h].voucher]
    BY <2>1, OthersStill
  <2> QED BY <1>1, <2>2 DEF Reached, Concerns
<1>5. Gone(h) => Gone(h)'
  BY <1>1 DEF Gone
<1> QED BY <1>2, <1>3, <1>4, <1>5 DEF Rest

LEMMA OthersHandler ==
    ASSUME IInv, IInv', Ownership, NEW g \in Grants, Concerns(g),
           NEW r \in Requests, task'[r] = task[r], task[r].pc # "idle",
           task[r].grant \in Grants \ {g}, HandlerOK(task[r])
    PROVE  HandlerOK(task[r])'
<1> DEFINE h == task[r].grant
<1>1. /\ rows'[h] = rows[h] /\ LiveOf(h)' = LiveOf(h)
      /\ ClosedOnRecord(h)' => ClosedOnRecord(h)
  BY OthersStill
<1>2. /\ OneVoucher(h) => OneVoucher(h)'
      /\ CutOff(h) => CutOff(h)'
      /\ Rest(h) => Rest(h)'
  BY OthersRest
<1>3. task[r].obj.voucher \in live =>
         /\ task[r].obj.voucher \in live'
         /\ until'[task[r].obj.voucher] = until[task[r].obj.voucher]
  <2>1. Belongs(task[r].obj.voucher, h)
    BY DEF Ownership
  <2> QED BY <2>1, OthersStill
<1>4. CASE task[r].pc \in {"created", "check", "provision"}
  BY <1>1, <1>2, <1>4 DEF HandlerOK
<1>5. CASE task[r].pc = "save"
  <2>1. ActivationReady(task[r]) => ActivationReady(task[r])'
    BY <1>1, <1>3 DEF ActivationReady, Concerns
  <2>2. ChangeReady(task[r]) => ChangeReady(task[r])'
    BY <1>1, <1>2 DEF ChangeReady, Concerns
  <2> QED BY <1>5, <2>1, <2>2 DEF HandlerOK
<1>6. CASE task[r].pc = "controller"
  <2>1. CallReady(task[r]) => CallReady(task[r])'
    BY <1>1, <1>2, <1>3 DEF CallReady, Concerns
  <2> QED BY <1>6, <2>1 DEF HandlerOK
<1>7. CASE task[r].pc = "log"
  <2>1. LogReady(task[r]) => LogReady(task[r])'
    BY <1>1, <1>2 DEF LogReady
  <2> QED BY <1>7, <2>1 DEF HandlerOK
<1> QED BY <1>4, <1>5, <1>6, <1>7 DEF HandlerOK

LEMMA OthersCopy ==
    ASSUME IInv, IInv', Ownership, NEW g \in Grants, Concerns(g), NEW h \in Grants \ {g},
           NEW r \in Passes, pass'[r] = pass[r], CopyOK(pass[r], h)
    PROVE  CopyOK(pass[r], h)'
<1>1. rows'[h] = rows[h]
  BY OthersStill
<1>2. (OneVoucher(h) => OneVoucher(h)') /\ (Rest(h) => Rest(h)')
  BY OthersRest
<1> QED BY <1>1, <1>2 DEF CopyOK

\* A step of a handler on one grant: it is enough to look at that grant, and
\* there, if nobody raced for it, at that handler.
LEMMA HandlerAgrees ==
    ASSUME IInv, IInv', Ownership, Agreement, raced \subseteq raced',
           NEW p \in Requests, NEW g \in Grants,
           task[p].grant \in {g, NoGrant}, Concerns(g),
           \A r \in Requests \ {p} : task'[r] = task[r], UNCHANGED pass,
           task'[p] = Idle \/ (task'[p].pc # "idle" /\ task'[p].grant = g),
           Clean(g)' => Workers(g) \subseteq {p},
           Clean(g)' /\ task'[p] = Idle => Rest(g)',
           Clean(g)' /\ task'[p] # Idle => HandlerOK(task[p])'
    PROVE  Agreement'
<1>1. NoGrant \notin Grants /\ p \notin Passes
  BY Constants, LifecycleAssumption DEF LifecycleAssumption
<1>c. \A h : Clean(h)' => Clean(h)
  BY DEF Clean, Concerns
<1>2. ASSUME NEW h \in Grants, Clean(h)', ~ InFlight(h)' PROVE Rest(h)'
  <2>1. CASE h = g
    <3>1. task'[p].grant # g
      BY <1>2, <2>1 DEF InFlight
    <3> QED BY <1>2, <2>1, <3>1
  <2>2. CASE h # g
    <3>1. ~ InFlight(h)
      BY <1>1, <1>2, <2>2 DEF InFlight
    <3>2. Rest(h)
      BY <1>2, <1>c, <3>1 DEF Agreement
    <3> QED BY <2>2, <3>2, OthersRest
  <2> QED BY <2>1, <2>2
<1>3. ASSUME NEW r \in Requests, task'[r].pc # "idle", Clean(task[r].grant)'
      PROVE  HandlerOK(task[r])'
  <2>c. \A h : h = task'[r].grant => Clean(h)'
    BY <1>3 DEF Clean
  <2>1. CASE r = p
    <3>1. task'[p] # Idle
      BY <1>3, <2>1, NobodyBusy
    <3>2. HandlerOK(task[p])'
      BY <2>c, <2>1, <3>1
    <3> QED BY <2>1, <3>2
  <2>2. CASE r # p
    <3>1. task'[r] = task[r] /\ task[r].pc # "idle" /\ task[r].grant \in Grants
      BY <1>3, <2>2 DEF IInv, TaskOK
    <3>2. task[r].grant # g
      BY <2>c, <2>2, <3>1 DEF Workers
    <3>3. HandlerOK(task[r])
      BY <2>c, <1>c, <3>1 DEF Agreement
    <3> QED BY <3>1, <3>2, <3>3, OthersHandler
  <2> QED BY <2>1, <2>2
<1>4. ASSUME NEW q \in Passes
      PROVE  PassShape(pass[q])' /\ \A h \in Grants : Clean(h)' => CopyOK(pass[q], h)'
  <2>1. PassShape(pass[q])'
    BY DEF Agreement, PassShape
  <2>2. ASSUME NEW h \in Grants, Clean(h)' PROVE CopyOK(pass[q], h)'
    <3>1. CASE h = g
      <4>1. q \notin Workers(g)
        BY <1>1, <2>2, <3>1
      <4>2. pass[q].cur # g /\ g \notin pass[q].todo
        BY <4>1 DEF Workers
      <4> QED BY <3>1, <4>2 DEF CopyOK
    <3>2. CASE h # g
      <4>1. CopyOK(pass[q], h)
        BY <1>c, <2>2 DEF Agreement
      <4> QED BY <3>2, <4>1, OthersCopy
    <3> QED BY <3>1, <3>2
  <2> QED BY <2>1, <2>2
<1> QED BY <1>2, <1>3, <1>4 DEF Agreement

\* Likewise for a step of a pass.
LEMMA PassAgrees ==
    ASSUME IInv, IInv', Ownership, Agreement, raced \subseteq raced',
           NEW q \in Passes, NEW g \in Grants, Concerns(g), UNCHANGED task,
           \A r \in Passes \ {q} : pass'[r] = pass[r],
           PassShape(pass[q])',
           pass[q].cur \in {g, NoGrant},
           pass[q].todo \subseteq pass'[q].todo \cup {g},
           \A h \in Grants : h \in pass'[q].todo =>
               h # g /\ h \in pass[q].todo /\ pass'[q].copy[h] = pass[q].copy[h],
           pass'[q].cur \in {g, NoGrant},
           Clean(g)' => Workers(g) \subseteq {q},
           Clean(g)' => CopyOK(pass[q], g)',
           Clean(g)' /\ pass'[q].cur # g => Rest(g)'
    PROVE  Agreement'
<1>1. NoGrant \notin Grants /\ q \notin Requests
  BY Constants, LifecycleAssumption DEF LifecycleAssumption
<1>c. \A h : Clean(h)' => Clean(h)
  BY DEF Clean, Concerns
<1>2. ASSUME NEW h \in Grants, Clean(h)', ~ InFlight(h)' PROVE Rest(h)'
  <2>1. CASE h = g
    <3>1. pass'[q].cur # g
      BY <1>2, <2>1 DEF InFlight
    <3> QED BY <1>2, <2>1, <3>1
  <2>2. CASE h # g
    <3>1. ~ InFlight(h)
      <4>1. ASSUME NEW r \in Passes PROVE pass[r].cur # h /\ h \notin pass[r].todo
        BY <1>1, <1>2, <2>2 DEF InFlight
      <4> QED BY <1>2, <4>1 DEF InFlight
    <3>2. Rest(h)
      BY <1>2, <1>c, <3>1 DEF Agreement
    <3> QED BY <2>2, <3>2, OthersRest
  <2> QED BY <2>1, <2>2
<1>3. ASSUME NEW r \in Requests, task'[r].pc # "idle", Clean(task[r].grant)'
      PROVE  HandlerOK(task[r])'
  <2>c. \A h : h = task'[r].grant => Clean(h)'
    BY <1>3 DEF Clean
  <2>1. task'[r] = task[r] /\ task[r].pc # "idle" /\ task[r].grant \in Grants
    BY <1>3 DEF IInv, TaskOK
  <2>2. task[r].grant # g
    BY <1>1, <2>c, <2>1 DEF Workers
  <2>3. HandlerOK(task[r])
    BY <2>c, <1>c, <2>1 DEF Agreement
  <2> QED BY <2>1, <2>2, <2>3, OthersHandler
<1>4. ASSUME NEW r \in Passes
      PROVE  PassShape(pass[r])' /\ \A h \in Grants : Clean(h)' => CopyOK(pass[r], h)'
  <2>1. CASE r = q
    <3>1. ASSUME NEW h \in Grants, Clean(h)', h # g PROVE CopyOK(pass[q], h)'
      <4>1. CopyOK(pass[q], h)
        BY <1>c, <3>1 DEF Agreement
      <4>2. h \in pass'[q].todo => Rest(h)' /\ pass'[q].copy[h] = rows'[h]
        BY <3>1, <4>1, OthersRest, OthersStill DEF CopyOK
      <4> QED BY <1>1, <3>1, <4>2 DEF CopyOK
    <3> QED BY <2>1, <3>1
  <2>2. CASE r # q
    <3>1. PassShape(pass[r])'
      BY <2>2 DEF Agreement, PassShape
    <3>2. ASSUME NEW h \in Grants, Clean(h)' PROVE CopyOK(pass[r], h)'
      <4>1. CASE h = g
        <5>1. pass[r].cur # g /\ g \notin pass[r].todo
          BY <2>2, <3>2, <4>1 DEF Workers
        <5> QED BY <2>2, <4>1, <5>1 DEF CopyOK
      <4>2. CASE h # g
        <5>1. CopyOK(pass[r], h)
          BY <1>c, <3>2 DEF Agreement
        <5> QED BY <2>2, <4>2, <5>1, OthersCopy
      <4> QED BY <4>1, <4>2
    <3> QED BY <3>1, <3>2
  <2> QED BY <2>1, <2>2
<1> QED BY <1>2, <1>3, <1>4 DEF Agreement

-----------------------------------------------------------------------------
(* What the steps have in common.                                          *)

\* A clean grant on which nobody was at work was at rest.
LEMMA RestBefore ==
    ASSUME Agreement, NEW g \in Grants, Clean(g), Workers(g) = {}
    PROVE  Rest(g)
BY NobodyThere DEF Agreement


LEMMA NothingMoves ==
    ASSUME UNCHANGED <<rows, controller, audit>>, shifted \subseteq shifted', NEW g
    PROVE  /\ LiveOf(g)' = LiveOf(g) /\ ClosedOnRecord(g)' = ClosedOnRecord(g)
           /\ OneVoucher(g)' = OneVoucher(g) /\ CutOff(g)' = CutOff(g)
           /\ Rest(g) => Rest(g)'
BY DEF LiveOf, ClosedOnRecord, Rest, OneVoucher, Reached, CutOff, Gone, controller

LEMMA NothingConcerned ==
    ASSUME UNCHANGED <<rows, controller, audit>>, cut \subseteq cut',
           failed \subseteq failed', shifted \subseteq shifted', NEW g
    PROVE  Concerns(g)
BY DEF Concerns, ClosedOnRecord, controller

\* A voucher that is not live counts for nothing.
LEMMA NoVoucherDead ==
    ASSUME IInv, NEW g
    PROVE  /\ NoVoucher \notin live
           /\ LiveOf(g) \subseteq {NoVoucher} => LiveOf(g) = {}
BY Constants DEF IInv, TypeOK, LiveOf

\* A grant not yet activated has had no voucher, and is not closed on record.
LEMMA UnopenedBare ==
    ASSUME IInv, NEW g \in Grants, rows[g].status \in {"none", "pending"}, Rest(g)
    PROVE  rows[g].voucher = NoVoucher /\ LiveOf(g) = {} /\ ~ ClosedOnRecord(g)
<1>1. Coherent(rows[g], now)
  BY DEF IInv, RowsConsistent
<1>2. rows[g].voucher = NoVoucher
  BY <1>1 DEF Coherent
<1>3. LiveOf(g) = {}
  BY <1>2, NoVoucherDead DEF Rest, OneVoucher
<1>4. ~ ClosedOnRecord(g)
  BY DEF Rest, CutOff, Closed
<1> QED BY <1>2, <1>3, <1>4

\* A handler, or a pass as far as one grant goes, that the step does not move.
LEMMA SameHandler ==
    ASSUME UNCHANGED <<rows, controller, audit, shifted>>, NEW p \in Requests,
           task'[p] = task[p], HandlerOK(task[p])
    PROVE  HandlerOK(task[p])'
<1>1. \A g : /\ Rest(g) => Rest(g)'
            /\ OneVoucher(g)' = OneVoucher(g) /\ CutOff(g)' = CutOff(g)
            /\ LiveOf(g)' = LiveOf(g) /\ ClosedOnRecord(g)' = ClosedOnRecord(g)
  BY NothingMoves
<1> QED BY <1>1 DEF HandlerOK, ActivationReady, ChangeReady, CallReady, LogReady,
                    controller

LEMMA SameCopy ==
    ASSUME UNCHANGED <<rows, controller, audit, shifted>>, NEW q \in Passes,
           NEW g \in Grants,
           pass'[q] = pass[q], CopyOK(pass[q], g)
    PROVE  CopyOK(pass[q], g)'
<1>1. (Rest(g) => Rest(g)') /\ OneVoucher(g)' = OneVoucher(g)
  BY NothingMoves
<1> QED BY <1>1 DEF CopyOK

LEMMA SameOwners ==
    ASSUME Ownership, owner' = owner, live' \subseteq live,
           \A g \in Grants : Belongs(rows'[g].voucher, g),
           \A p \in Requests :
              task'[p].pc # "idle" => Belongs(task'[p].obj.voucher, task'[p].grant),
           \A q \in Passes, g \in Grants : Belongs(pass'[q].copy[g].voucher, g)
    PROVE  Ownership'
BY DEF Ownership, Belongs

\* A step of one handler.
LEMMA HandlerOwns ==
    ASSUME Ownership, owner' = owner, live' \subseteq live, UNCHANGED pass,
           NEW p \in Requests, \A r \in Requests \ {p} : task'[r] = task[r],
           NEW g \in Grants, \A h \in Grants \ {g} : rows'[h] = rows[h],
           Belongs(rows'[g].voucher, g),
           task'[p] = Idle \/ Belongs(task'[p].obj.voucher, task'[p].grant)
    PROVE  Ownership'
<1>1. \A h \in Grants : Belongs(rows'[h].voucher, h)
  BY DEF Ownership
<1>2. \A r \in Requests :
         task'[r].pc # "idle" => Belongs(task'[r].obj.voucher, task'[r].grant)
  BY NobodyBusy DEF Ownership
<1>3. \A q \in Passes, h \in Grants : Belongs(pass'[q].copy[h].voucher, h)
  BY DEF Ownership
<1> QED BY <1>1, <1>2, <1>3, SameOwners

-----------------------------------------------------------------------------
(* One lemma per action: the handlers.                                     *)

LEMMA CreateGrantAgrees ==
    ASSUME RaceInv, IInv', (Contended \subseteq raced)', raced \subseteq raced',
           NEW p \in Requests, NEW g \in Grants,
           NEW start \in Time, NEW end \in Time, NEW zone \in Zones,
           CreateGrant(p, g, start, end, zone)
    PROVE  Ownership' /\ Agreement'
<1> DEFINE row == [NoRow EXCEPT !.status = "pending", !.start = start, !.end = end]
<1>1. /\ task[p] = Idle /\ rows[g].status = "none"
      /\ rows' = [rows EXCEPT ![g] = row]
      /\ UNCHANGED <<pass, controller, audit, cut, failed>> /\ shifted \subseteq shifted'
  BY DEF CreateGrant
<1>2. row.status = "pending" /\ row.voucher = NoVoucher
  BY DEF NoRow
<1> HIDE DEF row
<1>3. /\ task'[p].pc = "created" /\ task'[p].grant = g /\ task'[p].obj = row
      /\ \A r \in Requests \ {p} : task'[r] = task[r]
  BY DEF CreateGrant, RaceInv, IInv, TypeOK, Idle, row
<1>4. Clean(g)' => Workers(g) = {}
  BY <1>1, <1>3, NewHandlerAlone DEF Clean
<1>5. /\ rows'[g] = row /\ \A h \in Grants \ {g} : rows'[h] = rows[h]
      /\ UNCHANGED <<live, owner, until, audit, cut, failed>>
  BY <1>1 DEF RaceInv, IInv, TypeOK, controller
<1>6. Ownership'
  BY <1>1, <1>2, <1>3, <1>5, HandlerOwns DEF RaceInv, Belongs
<1>7. Concerns(g)
  BY <1>1, <1>5 DEF Concerns, ClosedOnRecord
<1>8. Clean(g)' => Rest(g)'
  <2> SUFFICES ASSUME Clean(g), Clean(g)' PROVE Rest(g)'
    BY <1>5 DEF Clean
  <2>1. LiveOf(g) = {} /\ ~ ClosedOnRecord(g)
    BY <1>1, <1>4, RestBefore, UnopenedBare DEF RaceInv
  <2>2. LiveOf(g)' = {} /\ ~ ClosedOnRecord(g)'
    BY <1>5, <2>1 DEF LiveOf, ClosedOnRecord
  <2> QED BY <1>2, <1>5, <2>2 DEF Rest, OneVoucher, Reached, CutOff, Gone
<1>9. Clean(g)' => HandlerOK(task[p])'
  BY <1>3, <1>5, <1>8 DEF HandlerOK
<1> QED
  BY <1>1, <1>3, <1>4, <1>6, <1>7, <1>9, NobodyBusy, HandlerAgrees DEF RaceInv

LEMMA LogCreatedAgrees ==
    ASSUME RaceInv, IInv', raced \subseteq raced', NEW p \in Requests, LogCreated(p)
    PROVE  Ownership' /\ Agreement'
<1>1. task[p].pc = "created" /\ task[p] # Idle
  BY NobodyBusy DEF LogCreated
<1>2. task[p].grant \in Grants /\ task[p] \in Task
  BY <1>1 DEF RaceInv, IInv, TypeOK, TaskOK, LogCreated
<1>g. PICK g \in Grants : g = task[p].grant
  BY <1>2
<1>3. Clean(g)' => Workers(g) \subseteq {p}
  BY <1>g, HandlerAlone
<1>4. /\ UNCHANGED <<rows, pass, live, owner, until, cut, failed, shifted>>
      /\ audit' = audit \cup {<<g, "create">>}
      /\ \A r \in Requests \ {p} : task'[r] = task[r]
      /\ \/ task'[p] = Idle
         \/ task'[p].pc = "check" /\ task'[p].grant = g /\ task'[p].obj = task[p].obj
  BY <1>g, <1>2 DEF LogCreated, RaceInv, IInv, TypeOK, controller, journal, Task
<1>5. \A h : ClosedOnRecord(h)' = ClosedOnRecord(h) /\ LiveOf(h)' = LiveOf(h)
  BY <1>4 DEF ClosedOnRecord, LiveOf
<1>6. Ownership'
  BY <1>g, <1>1, <1>2, <1>4, HandlerOwns DEF RaceInv, Ownership
<1>7. Concerns(g)
  BY <1>4, <1>5 DEF Concerns
<1>8. Clean(g)' => Rest(g)' /\ task[p].obj = rows'[g]
  <2> SUFFICES ASSUME Clean(g) PROVE Rest(g)' /\ task[p].obj = rows[g]
    BY <1>4 DEF Clean
  <2>1. Rest(g) /\ task[p].obj = rows[g]
    BY <1>g, <1>1 DEF RaceInv, Agreement, HandlerOK
  <2> QED BY <1>4, <1>5, <2>1 DEF Rest, OneVoucher, Reached, CutOff, Gone
<1>9. Clean(g)' /\ task'[p] # Idle => HandlerOK(task[p])'
  BY <1>4, <1>8 DEF HandlerOK
<1> QED
  BY <1>g, <1>2, <1>3, <1>4, <1>6, <1>7, <1>8, <1>9, HandlerAgrees DEF RaceInv

LEMMA ReadGrantAgrees ==
    ASSUME RaceInv, IInv', (Contended \subseteq raced)', raced \subseteq raced',
           NEW p \in Requests, NEW op \in Operations,
           NEW g \in Grants, NEW arg \in Time, NEW offset \in Offsets,
           ReadGrant(p, op, g, arg, offset)
    PROVE  Ownership' /\ Agreement'
<1>1. task[p] = Idle /\ UNCHANGED <<rows, pass, controller, audit, cut, failed, shifted>>
  BY DEF ReadGrant, journal
<1>2. /\ task'[p].pc = "check" /\ task'[p].grant = g /\ task'[p].obj = rows[g]
      /\ \A r \in Requests \ {p} : task'[r] = task[r]
  BY DEF ReadGrant, RaceInv, IInv, TypeOK, Idle
<1>3. Clean(g)' => Workers(g) = {}
  BY <1>1, <1>2, NewHandlerAlone DEF Clean
<1>4. Ownership'
  BY <1>1, <1>2, HandlerOwns DEF RaceInv, Ownership, controller
<1>5. Concerns(g)
  BY <1>1, NothingConcerned
<1>6. Clean(g)' => Rest(g)'
  BY <1>1, <1>3, RestBefore, NothingMoves DEF RaceInv, Clean
<1>7. Clean(g)' => HandlerOK(task[p])'
  BY <1>1, <1>2, <1>6 DEF HandlerOK
<1> QED
  BY <1>1, <1>2, <1>3, <1>4, <1>5, <1>7, NobodyBusy, HandlerAgrees DEF RaceInv

LEMMA GiveUpAgrees ==
    ASSUME RaceInv, IInv', raced \subseteq raced', NEW p \in Requests,
           Refuse(p) \/ SaveRefused(p) \/ ControllerMissing(p) \/ SaveFails(p) \/ LogFails(p)
    PROVE  Ownership' /\ Agreement'
<1>1. task[p].pc \in {"created", "check", "save", "provision", "log"} /\ task[p] # Idle
  BY NobodyBusy DEF Refuse, SaveRefused, ControllerMissing, SaveFails, LogFails
<1>2. task[p].grant \in Grants /\ task[p].obj \in Row
  BY <1>1 DEF RaceInv, IInv, TypeOK, TaskOK, Task
<1>g. PICK g \in Grants : g = task[p].grant
  BY <1>2
<1>3. Clean(g)' => Workers(g) \subseteq {p}
  BY <1>g, HandlerAlone
<1>4. /\ UNCHANGED <<rows, pass, controller, audit, shifted>>
      /\ failed \subseteq failed' /\ cut \subseteq cut'
      /\ task'[p] = Idle /\ \A r \in Requests \ {p} : task'[r] = task[r]
  BY DEF Refuse, SaveRefused, ControllerMissing, SaveFails, LogFails, DatabaseFails,
     journal, RaceInv, IInv, TypeOK
<1>5. Ownership'
  BY <1>2, <1>4, HandlerOwns DEF RaceInv, Ownership, controller
<1>6. Concerns(g)
  BY <1>4, NothingConcerned
<1>7. Clean(g)' => Rest(g)'
  <2> SUFFICES ASSUME Clean(g)' PROVE Rest(g)
    BY <1>4, NothingMoves
  <2>1. Clean(g)
    BY <1>4 DEF Clean
  <2>2. HandlerOK(task[p])
    BY <1>g, <1>1, <2>1 DEF RaceInv, Agreement
  <2>3. CASE Refuse(p)
    BY <1>g, <2>2, <2>3 DEF Refuse, HandlerOK
  <2>4. CASE SaveRefused(p)
    <3>1. task[p].obj.start >= task[p].obj.end /\ task[p].pc = "save"
      BY <2>4 DEF SaveRefused
    <3>2. ~ ActivationReady(task[p])
      BY <1>2, <3>1 DEF ActivationReady, Row, Time
    <3> QED BY <1>g, <2>2, <3>1, <3>2 DEF HandlerOK, ChangeReady
  <2>5. CASE ControllerMissing(p)
    BY <1>g, <2>5 DEF ControllerMissing, Clean
  <2>6. CASE SaveFails(p)
    <3>1. task[p].op # "activate" /\ task[p].pc = "save"
      BY <1>g, <2>6 DEF SaveFails, Clean
    <3> QED BY <1>g, <2>2, <3>1 DEF HandlerOK, ChangeReady
  <2>7. CASE LogFails(p)
    BY <1>g, <2>2, <2>7 DEF LogFails, HandlerOK, LogReady
  <2> QED BY <2>3, <2>4, <2>5, <2>6, <2>7
<1> QED
  BY <1>g, <1>2, <1>3, <1>4, <1>5, <1>6, <1>7, HandlerAgrees DEF RaceInv

LEMMA StartActivationAgrees ==
    ASSUME RaceInv, IInv', raced \subseteq raced', NEW p \in Requests, StartActivation(p)
    PROVE  Ownership' /\ Agreement'
<1>1. task[p].pc = "check" /\ task[p] # Idle
  BY NobodyBusy DEF StartActivation
<1>2. task[p].grant \in Grants /\ task[p] \in Task
  BY <1>1 DEF RaceInv, IInv, TypeOK, TaskOK
<1>g. PICK g \in Grants : g = task[p].grant
  BY <1>2
<1>3. Clean(g)' => Workers(g) \subseteq {p}
  BY <1>g, HandlerAlone
<1>4. /\ UNCHANGED <<rows, pass, controller, audit, cut, failed, shifted>>
      /\ \A r \in Requests \ {p} : task'[r] = task[r]
      /\ task'[p].pc = "provision" /\ task'[p].grant = g /\ task'[p].obj = task[p].obj
  BY <1>g, <1>2 DEF StartActivation, RaceInv, IInv, TypeOK, Task, journal
<1>5. Ownership'
  BY <1>g, <1>1, <1>2, <1>4, HandlerOwns DEF RaceInv, Ownership, controller
<1>6. Concerns(g)
  BY <1>4, NothingConcerned
<1>7. Clean(g)' => HandlerOK(task[p])'
  <2> SUFFICES ASSUME Clean(g) PROVE HandlerOK(task[p])'
    BY <1>4 DEF Clean
  <2>1. Rest(g) /\ task[p].obj = rows[g]
    BY <1>g, <1>1 DEF RaceInv, Agreement, HandlerOK
  <2>2. Rest(g)'
    BY <1>4, <2>1, NothingMoves
  <2> QED BY <1>4, <2>1, <2>2 DEF HandlerOK
<1> QED
  BY <1>g, <1>2, <1>3, <1>4, <1>5, <1>6, <1>7, NobodyBusy, HandlerAgrees DEF RaceInv

LEMMA ApplyChangeAgrees ==
    ASSUME RaceInv, IInv', raced \subseteq raced', NEW p \in Requests, ApplyChange(p)
    PROVE  Ownership' /\ Agreement'
<1>1. task[p].pc = "check" /\ task[p] # Idle
  BY NobodyBusy DEF ApplyChange
<1>2. /\ task[p].grant \in Grants /\ task[p] \in Task /\ now \in Time
      /\ task[p].op \in {"extend", "shorten", "revoke", "expire"}
  BY <1>1 DEF RaceInv, IInv, TypeOK, TaskOK, ApplyChange, Operations
<1>g. PICK g \in Grants : g = task[p].grant
  BY <1>2
<1>3. Clean(g)' => Workers(g) \subseteq {p}
  BY <1>g, HandlerAlone
<1>4. /\ UNCHANGED <<rows, pass, controller, audit, cut, failed>>
      /\ shifted \subseteq shifted' /\ (g \notin shifted' => task[p].zone = UTC)
      /\ \A r \in Requests \ {p} : task'[r] = task[r]
      /\ task'[p].pc = "save" /\ task'[p].grant = g /\ task'[p].zone = task[p].zone
      /\ task'[p].op = task[p].op /\ task'[p].arg = task[p].arg
      /\ task'[p].obj = Changed(task[p], now)
  BY <1>g, <1>2 DEF ApplyChange, RaceInv, IInv, TypeOK, Task
<1>5. Permitted(task[p], now)
  BY DEF ApplyChange
<1>6. /\ task'[p].obj.voucher = task[p].obj.voucher
      /\ task[p].op = "extend" =>
            /\ task'[p].obj.status = task[p].obj.status
            /\ task[p].obj.status \in Open /\ task'[p].obj.end = task[p].arg
      /\ task[p].op = "shorten" =>
            /\ task'[p].obj.status = task[p].obj.status
            /\ task[p].obj.status \in Open
            /\ task[p].zone = UTC => task'[p].obj.end <= task[p].obj.end
      /\ task[p].op = "revoke" => task'[p].obj.status \in Closed
      /\ task[p].op = "expire" => task'[p].obj.status = "expired"
  <2>1. task[p].obj \in Row /\ task[p].arg \in Time
    BY <1>2 DEF Task
  <2>2. CASE task[p].op = "extend"
    <3>1. task'[p].obj = [task[p].obj EXCEPT !.end = task[p].arg]
      BY <1>4, <2>2 DEF Changed, Extended
    <3>2. task[p].obj.status \in Open
      BY <1>5, <2>2 DEF Permitted, MayExtend, Held
    <3> QED BY <2>1, <2>2, <3>1, <3>2 DEF Row
  <2>3. CASE task[p].op = "shorten"
    <3>1. task'[p].obj = [task[p].obj EXCEPT !.end =
             IF task[p].arg - task[p].zone.end < now THEN now ELSE task[p].arg]
      BY <1>4, <2>3 DEF Changed, Shortened
    <3>2. /\ task[p].obj.status \in Open
          /\ Clamp(task[p].arg - task[p].zone.end, now) < task[p].obj.end
      BY <1>5, <2>3 DEF Permitted, MayShorten, Held, Named
    <3>3. task[p].zone = UTC =>
             task'[p].obj.end = Clamp(task[p].arg - task[p].zone.end, now)
      BY <1>2, <2>1, <3>1 DEF Clamp, UTC, Row, Time
    <3>4. task'[p].obj.end \in Time /\ task[p].obj.end \in Time
      BY <1>2, <2>1, <3>1 DEF Row
    <3>5. task[p].zone = UTC => task'[p].obj.end <= task[p].obj.end
      BY <3>2, <3>3, <3>4, Constants DEF Time
    <3> QED BY <2>1, <2>3, <3>1, <3>2, <3>5 DEF Row
  <2>4. CASE task[p].op = "revoke"
    BY <1>4, <2>1, <2>4 DEF Changed, Revoked, Row, Closed
  <2>5. CASE task[p].op = "expire"
    BY <1>4, <2>1, <2>5 DEF Changed, Expired, Row, Closed
  <2> QED BY <1>2, <2>2, <2>3, <2>4, <2>5
<1>7. Ownership'
  BY <1>g, <1>1, <1>4, <1>6, HandlerOwns DEF RaceInv, Ownership, controller
<1>8. Concerns(g)
  BY <1>4, NothingConcerned
<1>9. Clean(g)' => HandlerOK(task[p])'
  <2> SUFFICES ASSUME Clean(g) PROVE HandlerOK(task[p])'
    BY <1>4 DEF Clean
  <2>1. Rest(g) /\ task[p].obj = rows[g]
    BY <1>g, <1>1 DEF RaceInv, Agreement, HandlerOK
  <2>2. Rest(g)'
    BY <1>4, <2>1, NothingMoves
  <2>3. ChangeReady(task[p])'
    BY <1>4, <1>6, <2>1, <2>2 DEF ChangeReady
  <2> QED BY <1>2, <1>4, <2>3 DEF HandlerOK
<1> QED
  BY <1>g, <1>3, <1>4, <1>7, <1>8, <1>9, NobodyBusy, HandlerAgrees DEF RaceInv

\* A new voucher belongs to the grant it was asked for.
LEMMA IssueOwns ==
    ASSUME RaceInv, NEW g \in Grants, NEW v \in Fresh \cup {NoVoucher}, NEW end,
           Issue(v, g, end), UNCHANGED <<rows, pass, audit, cut, shifted>>,
           failed \subseteq failed',
           NEW p \in Requests, \A r \in Requests \ {p} : task'[r] = task[r],
           task[p].pc # "idle", task[p].grant = g, task'[p].grant = g,
           task'[p].obj.voucher \in {v, task[p].obj.voucher, NoVoucher}
    PROVE  Ownership' /\ Concerns(g)
<1>1. NoGrant \notin Grants
  BY Constants
<1>2. /\ owner \in [Vouchers -> Grants \cup {NoGrant}] /\ live \subseteq Vouchers
      /\ until \in [Vouchers -> Int]
  BY DEF RaceInv, IInv, TypeOK
<1>3. ASSUME NEW w, owner[w] \in Grants PROVE w # v \/ v = NoVoucher
  BY <1>1, <1>3 DEF Fresh
<1>4. CASE v = NoVoucher
  <2>1. UNCHANGED controller
    BY <1>4 DEF Issue
  <2>2. Concerns(g)
    BY <2>1, NothingConcerned
  <2>3. Belongs(task'[p].obj.voucher, g)
    BY <1>4 DEF RaceInv, Ownership, Belongs
  <2> QED BY <2>1, <2>2, <2>3, HandlerOwns DEF controller, RaceInv, Ownership
<1>5. CASE v # NoVoucher
  <2>1. /\ v \in Vouchers /\ owner[v] = NoGrant
        /\ live' = live \cup {v} /\ owner' = [owner EXCEPT ![v] = g]
        /\ until' = [until EXCEPT ![v] = end]
    BY <1>5 DEF Issue, Fresh
  <2> DEFINE Kept(w, h) == w # NoVoucher => owner'[w] = h
  <2>2. ASSUME NEW h \in Grants, NEW w, Belongs(w, h) PROVE Kept(w, h)
    BY <1>1, <1>2, <2>1, <2>2 DEF Belongs
  <2>3. Kept(task'[p].obj.voucher, g)
    <3>1. Kept(v, g)
      BY <1>2, <2>1
    <3>2. Kept(task[p].obj.voucher, g)
      BY <2>2 DEF RaceInv, Ownership
    <3> QED BY <3>1, <3>2
  <2>4. \A w \in live' : owner'[w] \in Grants
    BY <1>2, <2>1 DEF RaceInv, Ownership
  <2>5. \A h \in Grants : Kept(rows'[h].voucher, h)
    BY <2>2 DEF RaceInv, Ownership
  <2>6. ASSUME NEW r \in Requests, task'[r].pc # "idle"
        PROVE  Kept(task'[r].obj.voucher, task'[r].grant)
    <3>1. CASE r = p
      BY <2>3, <3>1
    <3>2. CASE r # p
      <4>1. task'[r] = task[r] /\ task[r].grant \in Grants
        BY <2>6, <3>2 DEF RaceInv, IInv, TaskOK
      <4>2. Belongs(task[r].obj.voucher, task[r].grant)
        BY <2>6, <4>1 DEF RaceInv, Ownership
      <4> QED BY <2>2, <4>1, <4>2
    <3> QED BY <3>1, <3>2
  <2>7. \A q \in Passes, h \in Grants : Kept(pass'[q].copy[h].voucher, h)
    BY <2>2 DEF RaceInv, Ownership
  <2>8. Ownership'
    BY <2>4, <2>5, <2>6, <2>7 DEF Ownership, Belongs
  <2>9. Concerns(g)
    BY <1>1, <1>2, <2>1 DEF Concerns, ClosedOnRecord
  <2> QED BY <2>8, <2>9
<1> QED BY <1>4, <1>5

LEMMA ProvisionReturnsAgrees ==
    ASSUME RaceInv, IInv', raced \subseteq raced', NEW p \in Requests,
           NEW reply \in Replies,
           NEW v \in Fresh \cup {NoVoucher}, ProvisionReturns(p, reply, v)
    PROVE  Ownership' /\ Agreement'
<1>1. task[p].pc = "provision" /\ task[p] # Idle
  BY NobodyBusy DEF ProvisionReturns, Attempt
<1>2. /\ task[p].grant \in Grants /\ task[p] \in Task
      /\ task[p].obj.status = "pending" /\ task[p].op = "activate"
  BY <1>1 DEF RaceInv, IInv, TypeOK, TaskOK
<1>g. PICK g \in Grants : g = task[p].grant
  BY <1>2
<1>3. Clean(g)' => Workers(g) \subseteq {p}
  BY <1>g, HandlerAlone
<1>4. PICK id \in {v, NoVoucher} :
         /\ reply = "success" => id = v
         /\ task' = [task EXCEPT ![p].pc = "save",
                       ![p].obj = Activated(@, id, task[p].at)]
  BY DEF ProvisionReturns
<1>5. /\ UNCHANGED <<rows, pass, audit, cut, shifted>>
      /\ Issue(v, g, Held(task[p]).end) /\ Blame(g, reply)
      /\ reply = "success" => v \in Fresh /\ v # NoVoucher
  BY <1>g DEF ProvisionReturns, Attempt, EffectOf, journal
<1>6. /\ \A r \in Requests \ {p} : task'[r] = task[r]
      /\ task'[p].pc = "save" /\ task'[p].grant = g /\ task'[p].op = "activate"
      /\ task'[p].obj.voucher = id /\ task'[p].obj.status = "active"
      /\ task'[p].obj.start = task[p].obj.start /\ task'[p].obj.end = task[p].obj.end
  <2>1. task[p].obj \in Row
    BY <1>2 DEF Task
  <2> QED BY <1>g, <1>2, <1>4, <2>1 DEF Activated, Row, Task, RaceInv, IInv, TypeOK
<1>7. failed' = IF reply = "success" THEN failed ELSE failed \cup {g}
  BY <1>5 DEF Blame
<1>8. Ownership' /\ Concerns(g)
  BY <1>g, <1>1, <1>5, <1>6, <1>7, IssueOwns
<1>9. Clean(g)' => HandlerOK(task[p])'
  <2> SUFFICES ASSUME Clean(g)' PROVE HandlerOK(task[p])'
    OBVIOUS
  <2>1. reply = "success" /\ Clean(g)
    BY <1>5, <1>7 DEF Clean
  <2>2. Rest(g) /\ task[p].obj = rows[g]
    BY <1>g, <1>1, <2>1 DEF RaceInv, Agreement, HandlerOK
  <2>3. LiveOf(g) = {} /\ ~ ClosedOnRecord(g)
    BY <1>2, <2>2, UnopenedBare DEF RaceInv
  <2>4. /\ live' = live \cup {v} /\ owner' = [owner EXCEPT ![v] = g]
        /\ until' = [until EXCEPT ![v] = Held(task[p]).end]
        /\ v \in Vouchers /\ id = v
    BY <1>4, <1>5, <2>1 DEF Issue, Fresh
  <2>5. LiveOf(g)' \subseteq {v}
    BY <2>3, <2>4 DEF LiveOf, RaceInv, IInv, TypeOK
  <2>6. g \notin shifted' => until'[v] >= task'[p].obj.end
    <3> SUFFICES ASSUME g \notin shifted PROVE until'[v] >= task'[p].obj.end
      BY <1>5
    <3>1. task[p].zone = UTC
      BY <1>g, <1>2 DEF RaceInv, IInv, TaskOK
    <3>2. task[p].obj.end \in Time /\ until \in [Vouchers -> Int]
      BY <1>2 DEF RaceInv, IInv, TypeOK, Task, Row
    <3>3. Held(task[p]).end = task[p].obj.end
      BY <1>2, <3>1, <3>2, Constants DEF Held, UTC, Task, Row, Time
    <3> QED BY <1>6, <2>4, <3>2, <3>3, Constants DEF Time
  <2>7. task[p].obj.start < task[p].obj.end
    BY <1>2, <2>2 DEF RaceInv, IInv, RowsConsistent
  <2>8. ActivationReady(task[p])'
    BY <1>2, <1>5, <1>6, <2>2, <2>3, <2>4, <2>5, <2>6, <2>7
       DEF ActivationReady, ClosedOnRecord
  <2> QED BY <1>6, <2>8 DEF HandlerOK
<1> QED
  BY <1>g, <1>3, <1>5, <1>6, <1>8, <1>9, NobodyBusy, HandlerAgrees DEF RaceInv

LEMMA ProvisionRaisesAgrees ==
    ASSUME RaceInv, IInv', raced \subseteq raced', NEW p \in Requests,
           NEW v \in Fresh \cup {NoVoucher},
           ProvisionRaises(p, v)
    PROVE  Ownership' /\ Agreement'
<1>1. task[p].pc = "provision" /\ task[p] # Idle
  BY NobodyBusy DEF ProvisionRaises, Attempt
<1>2. task[p].grant \in Grants /\ task[p] \in Task /\ task[p].obj \in Row
  BY <1>1 DEF RaceInv, IInv, TypeOK, TaskOK, Task
<1>g. PICK g \in Grants : g = task[p].grant
  BY <1>2
<1>3. Clean(g)' => Workers(g) \subseteq {p}
  BY <1>g, HandlerAlone
<1>4. /\ UNCHANGED <<rows, pass, audit, cut, shifted>>
      /\ Issue(v, g, Held(task[p]).end) /\ failed' = failed \cup {g}
  BY <1>g DEF ProvisionRaises, Attempt, Blame, journal
<1>5. /\ \A r \in Requests \ {p} : task'[r] = task[r]
      /\ task'[p].pc # "idle" /\ task'[p].grant = g
      /\ task'[p].obj.voucher = task[p].obj.voucher
  BY <1>g, <1>1, <1>2 DEF ProvisionRaises, RaceInv, IInv, TypeOK, Task, Row
<1>6. Ownership' /\ Concerns(g)
  BY <1>g, <1>1, <1>4, <1>5, IssueOwns
<1>7. ~ Clean(g)'
  BY <1>4 DEF Clean
<1> QED
  BY <1>g, <1>3, <1>4, <1>5, <1>6, <1>7, NobodyBusy, HandlerAgrees DEF RaceInv

LEMMA SaveRowAgrees ==
    ASSUME RaceInv, IInv', raced \subseteq raced', NEW p \in Requests, SaveRow(p)
    PROVE  Ownership' /\ Agreement'
<1>1. task[p].pc = "save" /\ task[p] # Idle
  BY NobodyBusy DEF SaveRow
<1>2. /\ task[p].grant \in Grants /\ task[p] \in Task
      /\ task[p].op \in Operations \cup {"activation_error"}
  BY <1>1 DEF RaceInv, IInv, TypeOK, TaskOK
<1>g. PICK g \in Grants : g = task[p].grant
  BY <1>2
<1>3. Clean(g)' => Workers(g) \subseteq {p}
  BY <1>g, HandlerAlone
<1>4. /\ UNCHANGED <<pass, live, owner, until, audit, cut, failed, shifted>>
      /\ rows'[g] = task[p].obj /\ \A h \in Grants \ {g} : rows'[h] = rows[h]
      /\ \A r \in Requests \ {p} : task'[r] = task[r]
      /\ task'[p] = NextAfterSave(task[p])
  BY <1>g, <1>2 DEF SaveRow, Stored, RaceInv, IInv, TypeOK, controller, journal
<1>5. \/ /\ task[p].op \in {"extend", "revoke"} /\ task[p].obj.voucher # NoVoucher
         /\ task'[p] = [task[p] EXCEPT !.pc = "controller"]
      \/ task[p].op \in {"expire", "activation_error"} /\ task'[p] = Idle
      \/ /\ \/ task[p].op \in {"activate", "shorten"}
            \/ task[p].op \in {"extend", "revoke"} /\ task[p].obj.voucher = NoVoucher
         /\ task'[p] = [task[p] EXCEPT !.pc = "log"]
  BY <1>2, <1>4 DEF NextAfterSave, Operations
<1>6. task'[p] # Idle =>
         /\ task'[p].grant = g /\ task'[p].op = task[p].op /\ task'[p].arg = task[p].arg
         /\ task'[p].zone = task[p].zone
         /\ task'[p].obj = task[p].obj /\ task'[p].pc \in {"controller", "log"}
  BY <1>g, <1>2, <1>5 DEF Task
<1>7. Ownership'
  BY <1>g, <1>1, <1>4, <1>6, HandlerOwns DEF RaceInv, Ownership
<1>8. Concerns(g)
  BY <1>4 DEF Concerns, ClosedOnRecord
<1>9. LiveOf(g)' = LiveOf(g) /\ ClosedOnRecord(g)' = ClosedOnRecord(g)
  BY <1>4 DEF LiveOf, ClosedOnRecord
<1>10. ASSUME Clean(g)
       PROVE  /\ task'[p] = Idle => Rest(g)'
              /\ task'[p] # Idle => HandlerOK(task[p])'
  <2>1. HandlerOK(task[p])
    BY <1>g, <1>1, <1>10 DEF RaceInv, Agreement
  <2>2. CASE task[p].op = "activate"
    <3>1. ActivationReady(task[p])
      BY <1>1, <2>1, <2>2 DEF HandlerOK
    <3>2. Rest(g)'
      BY <1>g, <1>4, <1>9, <3>1 DEF ActivationReady, Rest, OneVoucher, Reached, CutOff,
                                    Gone
    <3>3. task'[p].pc = "log" /\ task'[p] # Idle
      BY <1>2, <1>5, <2>2, NobodyBusy DEF Task
    <3> QED BY <1>6, <2>2, <3>2, <3>3 DEF HandlerOK, LogReady
  <2>3. CASE task[p].op # "activate"
    <3>1. ChangeReady(task[p]) /\ task[p].op \in {"extend", "shorten", "revoke", "expire"}
      BY <1>1, <1>2, <2>1, <2>3 DEF HandlerOK, Operations
    <3>2. Rest(g) /\ task[p].obj.voucher = rows[g].voucher
      BY <1>g, <3>1 DEF ChangeReady
    <3>3. OneVoucher(g)'
      BY <1>4, <1>9, <3>2 DEF Rest, OneVoucher
    <3>4. CutOff(g)'
      <4>1. CASE task[p].op \in {"extend", "shorten"}
        BY <1>g, <1>9, <3>1, <3>2, <4>1 DEF ChangeReady, Rest, CutOff, Open, Closed
      <4>2. CASE task[p].op \in {"revoke", "expire"}
        BY <1>4, <1>9, <3>1, <3>2, <4>2 DEF ChangeReady, Rest, CutOff, Open, Closed
      <4> QED BY <3>1, <4>1, <4>2
    <3>5. CASE task[p].op = "extend"
      <4>1. /\ rows'[g].end = task[p].arg /\ rows'[g].status = rows[g].status
            /\ rows'[g].status \in Open /\ (g \notin shifted' => task[p].zone = UTC)
        BY <1>g, <1>4, <3>1, <3>5 DEF ChangeReady
      <4>2. rows[g].status = "active" => task[p].obj.voucher \in live
        BY <3>2 DEF Rest, Reached
      <4>3. CASE task[p].obj.voucher # NoVoucher
        <5>1. task'[p].pc = "controller" /\ task'[p] # Idle
          BY <1>2, <1>5, <3>5, <4>3 DEF Idle, Task
        <5>2. CallReady(task[p])'
          BY <1>4, <1>6, <3>3, <3>4, <3>5, <4>1, <4>2, <5>1 DEF CallReady
        <5> QED BY <5>1, <5>2 DEF HandlerOK
      <4>4. CASE task[p].obj.voucher = NoVoucher
        <5>1. task'[p].pc = "log" /\ task'[p] # Idle
          BY <1>2, <1>5, <3>5, <4>4 DEF Idle, Task
        <5>2. rows'[g].status # "active"
          BY <4>1, <4>2, <4>4, NoVoucherDead DEF RaceInv
        <5>3. LogReady(task[p])'
          BY <1>6, <3>3, <3>4, <3>5, <4>1, <5>1, <5>2
             DEF LogReady, Rest, Reached, Gone, Open
        <5> QED BY <5>1, <5>3 DEF HandlerOK
      <4> QED BY <4>3, <4>4
    <3>6. CASE task[p].op = "shorten"
      <4>1. task'[p].pc = "log" /\ task'[p] # Idle
        BY <1>2, <1>5, <3>6 DEF Idle, Task
      <4>2. Reached(g)'
        <5>1. /\ rows'[g].status = rows[g].status /\ rows'[g].voucher = rows[g].voucher
              /\ g \notin shifted => rows'[g].end <= rows[g].end
          BY <1>g, <1>4, <3>1, <3>6 DEF ChangeReady
        <5>2. rows[g].end \in Time /\ rows'[g].end \in Time
              /\ (rows[g].voucher \in live => until[rows[g].voucher] \in Int)
          BY DEF RaceInv, IInv, TypeOK, Row
        <5> QED BY <1>4, <3>2, <5>1, <5>2, Constants DEF Rest, Reached, Time
      <4>4. Gone(g)'
        BY <1>g, <1>4, <3>1, <3>6 DEF ChangeReady, Gone, Open
      <4>3. LogReady(task[p])'
        BY <1>6, <3>3, <3>4, <3>6, <4>1, <4>2, <4>4 DEF LogReady, Rest
      <4> QED BY <4>1, <4>3 DEF HandlerOK
    <3>7. CASE task[p].op \in {"revoke", "expire"}
      <4>1. rows'[g].status \in Closed
        BY <1>4, <3>1, <3>7 DEF ChangeReady, Closed
      <4>2. Gone(g)' => Rest(g)'
        BY <3>3, <3>4, <4>1 DEF Rest, Reached, Closed
      <4>3. CASE task'[p].pc = "controller"
        <5>1. CallReady(task[p])' /\ task'[p] # Idle
          BY <1>4, <1>6, <3>2, <3>3, <3>4, <3>7, <4>1, <4>3, NobodyBusy DEF CallReady
        <5> QED BY <4>3, <5>1 DEF HandlerOK
      <4>4. CASE task'[p].pc = "log"
        <5>1. task[p].op = "revoke" /\ task[p].obj.voucher = NoVoucher /\ task'[p] # Idle
          BY <1>2, <1>5, <3>7, <4>4, NobodyBusy DEF Task
        <5>2. LiveOf(g) = {}
          BY <3>2, <5>1, NoVoucherDead DEF RaceInv, Rest, OneVoucher
        <5>3. LogReady(task[p])'
          BY <1>6, <1>9, <4>1, <4>2, <5>1, <5>2 DEF LogReady, Gone
        <5> QED BY <4>4, <5>1, <5>3 DEF HandlerOK
      <4>5. CASE task'[p] = Idle
        <5>1. task[p].op = "expire"
          BY <1>2, <1>5, <3>7, <4>5, NobodyBusy DEF Task
        <5>2. Gone(g)'
          BY <1>4, <3>1, <5>1 DEF ChangeReady, Gone
        <5> QED BY <4>2, <4>5, <5>2
      <4> QED BY <1>6, <4>3, <4>4, <4>5
    <3> QED BY <3>1, <3>5, <3>6, <3>7
  <2> QED BY <2>2, <2>3
<1>11. Clean(g)' => Clean(g)
  BY <1>4 DEF Clean
<1> QED
  BY <1>g, <1>3, <1>4, <1>6, <1>7, <1>8, <1>10, <1>11, HandlerAgrees DEF RaceInv

LEMMA CallControllerAgrees ==
    ASSUME RaceInv, IInv', raced \subseteq raced', NEW p \in Requests,
           NEW reply \in Replies,
           ExtendVoucher(p, reply) \/ RevokeVoucher(p, reply)
    PROVE  Ownership' /\ Agreement'
<1>1. task[p].pc = "controller" /\ task[p] # Idle
  BY NobodyBusy DEF ExtendVoucher, RevokeVoucher, CallController
<1>2. /\ task[p].grant \in Grants /\ task[p] \in Task
      /\ live \subseteq Vouchers /\ until \in [Vouchers -> Int]
  BY <1>1 DEF RaceInv, IInv, TypeOK, TaskOK
<1>g. PICK g \in Grants : g = task[p].grant
  BY <1>2
<1>v. PICK v : v = task[p].obj.voucher
  OBVIOUS
<1>3. Clean(g)' => Workers(g) \subseteq {p}
  BY <1>g, HandlerAlone
<1>4. /\ UNCHANGED <<rows, pass, owner, audit, cut, shifted>> /\ Blame(g, reply)
      /\ \A r \in Requests \ {p} : task'[r] = task[r]
      /\ task'[p].pc = "log" /\ task'[p].grant = g /\ task'[p].op = task[p].op
      /\ task'[p].obj = task[p].obj
  BY <1>g, <1>2 DEF ExtendVoucher, RevokeVoucher, CallController, RaceInv, IInv,
     TypeOK, Task, journal
<1>5. \/ /\ task[p].op = "extend" /\ live' = live
         /\ until' = [until EXCEPT ![v] = Named(task[p])] \/ (until' = until /\ reply # "success")
      \/ /\ task[p].op = "revoke" /\ until' = until
         /\ live' = live \ {v} \/ (live' = live /\ reply # "success")
  BY <1>v DEF ExtendVoucher, RevokeVoucher, CallController, EffectOf
<1>6. Belongs(v, g)
  BY <1>g, <1>v, <1>1 DEF RaceInv, Ownership
<1>7. Ownership'
  <2>1. live' \subseteq live /\ Belongs(task'[p].obj.voucher, task'[p].grant)
    BY <1>v, <1>4, <1>5, <1>6
  <2> QED BY <1>4, <2>1, HandlerOwns DEF RaceInv, Ownership
<1>8. failed' = IF reply = "success" THEN failed ELSE failed \cup {g}
  BY <1>4 DEF Blame
<1>9. Concerns(g)
  <2>1. \A w \in Vouchers : owner[w] \notin {g, NoGrant} => w # v
    BY <1>6, Constants DEF Belongs
  <2>2. \A w \in Vouchers : owner[w] \notin {g, NoGrant} =>
           (w \in live' <=> w \in live) /\ until'[w] = until[w]
    BY <1>2, <1>5, <2>1
  <2> QED BY <1>4, <1>8, <2>2 DEF Concerns, ClosedOnRecord
<1>10. ASSUME Clean(g)' PROVE HandlerOK(task[p])'
  <2>1. reply = "success" /\ Clean(g)
    BY <1>4, <1>8, <1>10 DEF Clean
  <2>2. CallReady(task[p])
    BY <1>g, <1>1, <2>1 DEF RaceInv, Agreement, HandlerOK
  <2>3. OneVoucher(g) /\ CutOff(g) /\ v = rows[g].voucher
    BY <1>g, <1>v, <2>2 DEF CallReady
  <2>4. CASE task[p].op = "extend"
    <3>1. live' = live /\ until' = [until EXCEPT ![v] = Named(task[p])]
      BY <1>5, <2>1, <2>4
    <3>2. OneVoucher(g)' /\ CutOff(g)'
      BY <1>4, <2>3, <3>1 DEF OneVoucher, CutOff, LiveOf, ClosedOnRecord
    <3>3. Reached(g)'
      <4>1. /\ rows[g].end = task[p].arg /\ (rows[g].status = "active" => v \in live)
            /\ g \notin shifted => task[p].zone = UTC
        BY <1>g, <1>v, <2>2, <2>4 DEF CallReady
      <4>2. rows[g].end \in Time
        BY DEF RaceInv, IInv, TypeOK, Row
      <4>3. g \notin shifted => Named(task[p]) = rows[g].end
        BY <4>1, <4>2, Constants DEF Named, UTC, Time
      <4>4. v \in live => until'[v] = Named(task[p])
        BY <1>2, <3>1
      <4> QED BY <1>4, <2>3, <3>1, <4>1, <4>2, <4>3, <4>4, Constants DEF Reached, Time
    <3>4. Gone(g)'
      BY <1>g, <1>4, <2>2, <2>4 DEF CallReady, Gone, Open
    <3> QED BY <1>4, <2>4, <3>2, <3>3, <3>4 DEF HandlerOK, LogReady, Rest
  <2>5. CASE task[p].op = "revoke"
    <3>1. live' = live \ {v} /\ rows[g].status \in Closed
      BY <1>g, <1>5, <2>1, <2>2, <2>5 DEF CallReady
    <3>2. LiveOf(g)' = {}
      BY <1>4, <2>3, <3>1 DEF OneVoucher, LiveOf
    <3>3. Rest(g)'
      BY <1>4, <3>1, <3>2 DEF Rest, OneVoucher, Reached, CutOff, Gone, Closed
    <3> QED BY <1>4, <3>1, <3>2, <3>3 DEF HandlerOK, LogReady
  <2> QED BY <1>5, <2>4, <2>5
<1> QED
  BY <1>g, <1>3, <1>4, <1>7, <1>9, <1>10, NobodyBusy, HandlerAgrees DEF RaceInv

LEMMA LogOutcomeAgrees ==
    ASSUME RaceInv, IInv', raced \subseteq raced', NEW p \in Requests, LogOutcome(p)
    PROVE  Ownership' /\ Agreement'
<1>1. task[p].pc = "log" /\ task[p] # Idle
  BY NobodyBusy DEF LogOutcome
<1>2. task[p].grant \in Grants /\ task[p].op \in Operations
  BY <1>1 DEF RaceInv, IInv, TypeOK, TaskOK
<1>g. PICK g \in Grants : g = task[p].grant
  BY <1>2
<1>3. Clean(g)' => Workers(g) \subseteq {p}
  BY <1>g, HandlerAlone
<1>4. /\ UNCHANGED <<rows, pass, live, owner, until, cut, failed, shifted>>
      /\ audit' = audit \cup {<<g, task[p].op>>}
      /\ task'[p] = Idle /\ \A r \in Requests \ {p} : task'[r] = task[r]
  BY <1>g DEF LogOutcome, RaceInv, IInv, TypeOK, controller, journal
<1>5. Ownership'
  BY <1>4, HandlerOwns DEF RaceInv, Ownership
<1>6. /\ \A h : LiveOf(h)' = LiveOf(h)
      /\ \A h : h # g => ClosedOnRecord(h)' = ClosedOnRecord(h)
      /\ task[p].op # "revoke" => ClosedOnRecord(g)' = ClosedOnRecord(g)
  BY <1>2, <1>4 DEF LiveOf, ClosedOnRecord, Operations
<1>7. Concerns(g)
  BY <1>4, <1>6 DEF Concerns
<1>8. Clean(g)' => Rest(g)'
  <2> SUFFICES ASSUME Clean(g) PROVE Rest(g)'
    BY <1>4 DEF Clean
  <2>1. Rest(g) /\ (task[p].op = "revoke" => rows[g].status \in Closed /\ LiveOf(g) = {})
    BY <1>g, <1>1 DEF RaceInv, Agreement, HandlerOK, LogReady
  <2> QED BY <1>4, <1>6, <2>1 DEF Rest, OneVoucher, Reached, CutOff, Gone
<1> QED
  BY <1>g, <1>3, <1>4, <1>5, <1>7, <1>8, HandlerAgrees DEF RaceInv

-----------------------------------------------------------------------------
(* One lemma per action: the expiry passes, time and crashes.              *)

LEMMA PassOwns ==
    ASSUME Ownership, owner' = owner, live' \subseteq live, UNCHANGED task,
           NEW q \in Passes, \A r \in Passes \ {q} : pass'[r] = pass[r],
           \A h \in Grants : Belongs(rows'[h].voucher, h),
           \A h \in Grants : Belongs(pass'[q].copy[h].voucher, h)
    PROVE  Ownership'
<1>1. \A r \in Passes, h \in Grants : Belongs(pass'[r].copy[h].voucher, h)
  BY DEF Ownership
<1>2. \A p \in Requests :
         task'[p].pc # "idle" => Belongs(task'[p].obj.voucher, task'[p].grant)
  BY DEF Ownership
<1> QED BY <1>1, <1>2, SameOwners

LEMMA StartPassAgrees ==
    ASSUME RaceInv, IInv', (Contended \subseteq raced)', raced \subseteq raced',
           NEW q \in Passes, StartPass(q)
    PROVE  Ownership' /\ Agreement'
<1>1. /\ UNCHANGED <<rows, task, controller, audit, cut, failed, shifted>>
      /\ pass[q].pc = "idle" /\ \A r \in Passes \ {q} : pass'[r] = pass[r]
      /\ pass'[q].pc = "update" /\ pass'[q].cur = NoGrant
      /\ pass'[q].todo \subseteq Grants
      /\ \A g \in Grants : \/ pass'[q].copy[g] = rows[g]
                           \/ pass'[q].copy[g] = NoRow /\ g \notin pass'[q].todo
  BY DEF StartPass, RaceInv, IInv, TypeOK, NoPass, journal
<1>3. pass[q].todo = {} /\ pass[q].cur = NoGrant
  BY <1>1 DEF RaceInv, Agreement, PassShape
<1>c. \A g : Clean(g)' => Clean(g)
  BY <1>1 DEF Clean
<1>4. \A g : g \in pass'[q].todo /\ Clean(g)' => Rest(g)'
  <2> SUFFICES ASSUME NEW g \in Grants, g \in pass'[q].todo, Clean(g)' PROVE Rest(g)'
    BY <1>1
  <2>1. Workers(g) = {}
    BY <1>1, <1>3, NewPassAlone DEF Clean
  <2> QED BY <1>1, <1>c, <2>1, RestBefore, NothingMoves DEF RaceInv
<1>5. Ownership'
  <2>1. \A g \in Grants : Belongs(pass'[q].copy[g].voucher, g)
    BY <1>1, NobodyBusy DEF RaceInv, Ownership, Belongs
  <2> QED BY <1>1, <2>1, PassOwns DEF RaceInv, Ownership, controller
<1>6. ASSUME NEW p \in Requests, task'[p].pc # "idle", Clean(task[p].grant)'
      PROVE  HandlerOK(task[p])'
  <2>1. HandlerOK(task[p])
    BY <1>1, <1>6 DEF RaceInv, Agreement, Clean
  <2> QED BY <1>1, <2>1, SameHandler
<1>7. ASSUME NEW r \in Passes
      PROVE  PassShape(pass[r])' /\ \A g \in Grants : Clean(g)' => CopyOK(pass[r], g)'
  <2>1. CASE r = q
    <3>1. PassShape(pass[q])'
      BY <1>1, Constants DEF PassShape
    <3>2. \A g \in Grants : Clean(g)' => CopyOK(pass[q], g)'
      BY <1>1, <1>4, Constants DEF CopyOK
    <3> QED BY <2>1, <3>1, <3>2
  <2>2. CASE r # q
    <3>1. PassShape(pass[r])'
      BY <1>1, <2>2 DEF PassShape, RaceInv, Agreement
    <3>2. \A g \in Grants : Clean(g)' => CopyOK(pass[r], g)'
      BY <1>1, <1>c, <2>2, SameCopy DEF RaceInv, Agreement
    <3> QED BY <3>1, <3>2
  <2> QED BY <2>1, <2>2
<1>8. ASSUME NEW g \in Grants, Clean(g)', ~ InFlight(g)' PROVE Rest(g)'
  <2>1. ~ InFlight(g)
    <3>1. pass[q].cur # g /\ g \notin pass[q].todo
      BY <1>3, Constants
    <3> QED BY <1>1, <1>8, <3>1 DEF InFlight
  <2> QED BY <1>1, <1>c, <1>8, <2>1, NothingMoves DEF RaceInv, Agreement
<1> QED BY <1>5, <1>6, <1>7, <1>8 DEF Agreement

LEMMA ExpireRowAgrees ==
    ASSUME RaceInv, IInv', raced \subseteq raced', NEW q \in Passes, NEW g \in Grants,
           ExpireRow(q, g)
    PROVE  Ownership' /\ Agreement'
<1>1. pass[q].pc = "update" /\ g \in pass[q].todo /\ pass[q] # NoPass
  BY NobodyBusy DEF ExpireRow
<1>2. Clean(g)' => Workers(g) \subseteq {q}
  BY <1>1, PassAlone
<1>3. pass[q] \in Pass /\ pass[q].copy[g] \in Row
  BY DEF RaceInv, IInv, TypeOK, Pass
<1>4. /\ UNCHANGED <<task, live, owner, until, audit, cut, failed, shifted>>
      /\ \A h \in Grants \ {g} : rows'[h] = rows[h]
      /\ rows'[g].status = "expired" /\ rows'[g].voucher = pass[q].copy[g].voucher
  BY <1>3 DEF ExpireRow, Stored, RaceInv, IInv, TypeOK, controller, journal, Row
<1>5. /\ \A r \in Passes \ {q} : pass'[r] = pass[r]
      /\ pass'[q].pc = "log" /\ pass'[q].cur = g /\ pass'[q].todo = pass[q].todo \ {g}
      /\ pass'[q].copy = pass[q].copy
  BY <1>3 DEF ExpireRow, RaceInv, IInv, TypeOK, Pass
<1>6. PassShape(pass[q])'
  BY <1>5 DEF PassShape
<1>7. pass[q].cur = NoGrant
  BY <1>1 DEF RaceInv, Agreement, PassShape
<1>8. Concerns(g)
  BY <1>4 DEF Concerns, ClosedOnRecord
<1>9. Ownership'
  <2>1. \A h \in Grants : Belongs(rows'[h].voucher, h)
    BY <1>4 DEF RaceInv, Ownership
  <2>2. \A h \in Grants : Belongs(pass'[q].copy[h].voucher, h)
    BY <1>5 DEF RaceInv, Ownership
  <2> QED BY <1>4, <1>5, <2>1, <2>2, PassOwns DEF RaceInv
<1>10. Clean(g)' => CopyOK(pass[q], g)'
  <2> SUFFICES ASSUME Clean(g) PROVE CopyOK(pass[q], g)'
    BY <1>4 DEF Clean
  <2>1. Rest(g) /\ pass[q].copy[g] = rows[g]
    BY <1>1 DEF RaceInv, Agreement, CopyOK
  <2>2. rows[g].status \in Open
    BY <1>1, <2>1 DEF RaceInv, IInv, PassOK
  <2>3. ~ ClosedOnRecord(g)
    BY <2>1, <2>2 DEF Rest, CutOff, Open, Closed
  <2>4. LiveOf(g)' = LiveOf(g) /\ ~ ClosedOnRecord(g)'
    BY <1>4, <2>3 DEF LiveOf, ClosedOnRecord
  <2>5. Rest(g)'
    BY <1>4, <2>1, <2>4 DEF Rest, OneVoucher, Reached, CutOff, Gone
  <2> QED BY <1>4, <1>5, <2>5 DEF CopyOK, Rest, Closed
<1> QED
  BY <1>2, <1>4, <1>5, <1>6, <1>7, <1>8, <1>9, <1>10, PassAgrees DEF RaceInv

\* A pass that is done with a grant works on the others as before.
LEMMA NextInPassShape ==
    ASSUME NEW x \in Pass, x.cur \notin x.todo
    PROVE  /\ NextInPass(x).todo = x.todo /\ NextInPass(x).cur = NoGrant
           /\ NextInPass(x).pc \in {"idle", "update"}
           /\ NextInPass(x).pc = "idle" => x.todo = {}
           /\ NextInPass(x) = NoPass \/ NextInPass(x).copy = x.copy
BY DEF NextInPass, NoPass, Pass

LEMMA LogExpiredAgrees ==
    ASSUME RaceInv, IInv', raced \subseteq raced', NEW q \in Passes, LogExpired(q)
    PROVE  Ownership' /\ Agreement'
<1>1. pass[q].pc = "log" /\ pass[q] # NoPass
  BY NobodyBusy DEF LogExpired
<1>3. pass[q] \in Pass /\ pass[q].cur \in Grants
  BY <1>1 DEF RaceInv, IInv, TypeOK, PassOK
<1>g. PICK g \in Grants : g = pass[q].cur
  BY <1>3
<1>2. Clean(g)' => Workers(g) \subseteq {q}
  BY <1>g, PassAlone
<1>4. g \notin pass[q].todo
  BY <1>g DEF RaceInv, Agreement, PassShape
<1>5. /\ UNCHANGED <<rows, task, live, owner, until, cut, failed, shifted>>
      /\ audit' = audit \cup {<<g, "expired">>}
      /\ \A r \in Passes \ {q} : pass'[r] = pass[r]
      /\ \/ /\ pass[q].copy[g].voucher # NoVoucher
            /\ pass'[q] = [pass[q] EXCEPT !.pc = "revoke"]
         \/ pass[q].copy[g].voucher = NoVoucher /\ pass'[q] = NextInPass(pass[q])
  BY <1>g DEF LogExpired, RaceInv, IInv, TypeOK, controller, journal
<1>6. /\ pass'[q].todo = pass[q].todo
      /\ pass'[q] = NoPass \/ pass'[q].copy = pass[q].copy
      /\ \/ /\ pass'[q].pc = "revoke" /\ pass'[q].cur = g
            /\ pass'[q].copy = pass[q].copy
         \/ /\ pass[q].copy[g].voucher = NoVoucher
            /\ pass'[q].pc \in {"idle", "update"} /\ pass'[q].cur = NoGrant
            /\ pass'[q].pc = "idle" => pass[q].todo = {}
  BY <1>g, <1>3, <1>4, <1>5, NextInPassShape DEF Pass
<1>7. PassShape(pass[q])'
  BY <1>4, <1>6, <1>3, Constants DEF PassShape, Pass
<1>8. \A h : LiveOf(h)' = LiveOf(h) /\ (h # g => ClosedOnRecord(h)' = ClosedOnRecord(h))
  BY <1>5 DEF LiveOf, ClosedOnRecord
<1>9. Concerns(g)
  BY <1>5, <1>8 DEF Concerns
<1>10. Ownership'
  <2>1. \A h \in Grants : Belongs(pass'[q].copy[h].voucher, h)
    BY <1>6, NobodyBusy DEF RaceInv, Ownership, Belongs
  <2> QED BY <1>5, <2>1, PassOwns DEF RaceInv, Ownership
<1>11. ASSUME Clean(g)' PROVE CopyOK(pass[q], g)' /\ (pass'[q].cur # g => Rest(g)')
  <2>1. Clean(g)
    BY <1>5, <1>11 DEF Clean
  <2>2. /\ OneVoucher(g) /\ rows[g].status \in Closed
        /\ pass[q].copy[g].voucher = rows[g].voucher
    BY <1>g, <1>1, <2>1 DEF RaceInv, Agreement, CopyOK
  <2>3. OneVoucher(g)'
    BY <1>5, <1>8, <2>2 DEF OneVoucher
  <2>4. CASE pass'[q].pc = "revoke"
    BY <1>4, <1>5, <1>6, <2>2, <2>3, <2>4 DEF CopyOK
  <2>5. CASE pass'[q].pc # "revoke"
    <3>1. LiveOf(g)' = {}
      BY <1>6, <1>8, <2>2, <2>5, NoVoucherDead DEF RaceInv, OneVoucher
    <3>2. Rest(g)'
      BY <1>5, <2>2, <2>3, <3>1 DEF Rest, Reached, CutOff, Gone, Closed
    <3> QED BY <1>4, <1>6, <2>5, <3>2 DEF CopyOK
  <2> QED BY <2>4, <2>5
<1>12. \A h \in Grants : h \in pass'[q].todo =>
          h # g /\ h \in pass[q].todo /\ pass'[q].copy[h] = pass[q].copy[h]
  BY <1>4, <1>6, NobodyBusy
<1> QED
  BY <1>g, <1>2, <1>5, <1>6, <1>7, <1>9, <1>10, <1>11, <1>12, PassAgrees DEF RaceInv

\* A pass whose database session fails leaves the grant at hand as it is.
LEMMA PassFailsAgrees ==
    ASSUME RaceInv, IInv', raced \subseteq raced', NEW q \in Passes, NEW g \in Grants,
           \/ ExpireFails(q, g)
           \/ LogExpiredFails(q) /\ pass[q].cur = g
    PROVE  Ownership' /\ Agreement'
<1> DEFINE x == [pass[q] EXCEPT !.todo = pass[q].todo \ {g}]
<1>3. pass[q] \in Pass /\ PassShape(pass[q])
  BY DEF RaceInv, IInv, TypeOK, Agreement
<1>1. /\ \/ pass[q].pc = "update" /\ g \in pass[q].todo /\ pass[q].cur = NoGrant
         \/ pass[q].pc = "log" /\ pass[q].cur = g /\ g \notin pass[q].todo
  BY <1>3 DEF ExpireFails, LogExpiredFails, PassShape
<1>2. Clean(g)' => Workers(g) \subseteq {q}
  BY <1>1, PassAlone
<1>4. x \in Pass /\ x.todo = pass[q].todo \ {g} /\ x.copy = pass[q].copy /\ x.cur = pass[q].cur
  BY <1>3 DEF Pass
<1>5. /\ UNCHANGED <<rows, task, controller, audit, cut, failed, shifted>>
      /\ \A r \in Passes \ {q} : pass'[r] = pass[r]
      /\ pass'[q] = NextInPass(x)
  <2>1. CASE ExpireFails(q, g)
    <3>1. pass' = [pass EXCEPT ![q] = NextInPass(x)]
      BY <2>1 DEF ExpireFails
    <3> HIDE DEF x
    <3> QED BY <2>1, <3>1 DEF ExpireFails, RaceInv, IInv, TypeOK
  <2>2. CASE LogExpiredFails(q) /\ pass[q].cur = g
    <3>1. x = pass[q]
      BY <1>3, <2>2 DEF Pass, PassShape
    <3> HIDE DEF x
    <3>2. pass' = [pass EXCEPT ![q] = NextInPass(x)]
      BY <2>2, <3>1 DEF LogExpiredFails
    <3> QED BY <2>2, <3>2 DEF LogExpiredFails, RaceInv, IInv, TypeOK
  <2> QED BY <2>1, <2>2
<1> HIDE DEF x
<1>6. /\ pass'[q].todo = pass[q].todo \ {g} /\ pass'[q].cur = NoGrant
      /\ pass'[q] = NoPass \/ pass'[q].copy = pass[q].copy
      /\ pass'[q].pc \in {"idle", "update"}
      /\ pass'[q].pc = "idle" => pass'[q].todo = {}
  <2>1. x.cur \notin x.todo
    <3>1. pass[q].todo \subseteq Grants
      BY <1>3 DEF Pass
    <3> QED BY <1>1, <1>4, <3>1, Constants
  <2>2. /\ NextInPass(x).todo = x.todo /\ NextInPass(x).cur = NoGrant
        /\ NextInPass(x) = NoPass \/ NextInPass(x).copy = x.copy
        /\ NextInPass(x).pc \in {"idle", "update"}
        /\ NextInPass(x).pc = "idle" => NextInPass(x).todo = {}
    BY <1>4, <2>1, NextInPassShape
  <2> QED BY <1>4, <1>5, <2>2
<1>7. PassShape(pass[q])'
  BY <1>3, <1>6, Constants DEF PassShape, Pass
<1>9. Concerns(g)
  BY <1>5, NothingConcerned
<1>10. Ownership'
  <2>1. \A h \in Grants : Belongs(pass'[q].copy[h].voucher, h)
    BY <1>6, NobodyBusy DEF RaceInv, Ownership, Belongs
  <2> QED BY <1>5, <2>1, PassOwns DEF RaceInv, Ownership, controller
<1>11. ASSUME Clean(g)' PROVE CopyOK(pass[q], g)' /\ Rest(g)'
  <2>1. Clean(g)
    BY <1>5, <1>11 DEF Clean
  <2>2. Rest(g)
    BY <1>1, <2>1 DEF RaceInv, Agreement, CopyOK
  <2>3. Rest(g)'
    BY <1>5, <2>2, NothingMoves
  <2> QED BY <1>6, <2>3 DEF CopyOK
<1>12. \A h \in Grants : h \in pass'[q].todo =>
          h # g /\ h \in pass[q].todo /\ pass'[q].copy[h] = pass[q].copy[h]
  BY <1>6, NobodyBusy
<1>13. pass[q].cur \in {g, NoGrant} /\ pass[q].todo \subseteq pass'[q].todo \cup {g}
  BY <1>1, <1>6
<1> QED
  BY <1>2, <1>5, <1>6, <1>7, <1>9, <1>10, <1>11, <1>12, <1>13, PassAgrees DEF RaceInv

LEMMA RevokeExpiredAgrees ==
    ASSUME RaceInv, IInv', raced \subseteq raced', NEW q \in Passes,
           NEW reply \in Replies,
           RevokeExpired(q, reply)
    PROVE  Ownership' /\ Agreement'
<1>1. pass[q].pc = "revoke" /\ pass[q] # NoPass
  BY NobodyBusy DEF RevokeExpired
<1>3. pass[q] \in Pass /\ pass[q].cur \in Grants
  BY <1>1 DEF RaceInv, IInv, TypeOK, PassOK
<1>g. PICK g \in Grants : g = pass[q].cur
  BY <1>3
<1>2. Clean(g)' => Workers(g) \subseteq {q}
  BY <1>g, PassAlone
<1>v. PICK v : v = pass[q].copy[g].voucher
  OBVIOUS
<1>4. g \notin pass[q].todo
  BY <1>g DEF RaceInv, Agreement, PassShape
<1>5. /\ UNCHANGED <<rows, task, owner, until, audit, cut, shifted>>
      /\ live' = live \ {v} \/ (live' = live /\ reply # "success")
      /\ failed' = IF reply = "success" THEN failed ELSE failed \cup {g}
      /\ \A r \in Passes \ {q} : pass'[r] = pass[r]
      /\ pass'[q] = NextInPass(pass[q])
  BY <1>g, <1>v DEF RevokeExpired, EffectOf, Blame, RaceInv, IInv, TypeOK, journal
<1>6. /\ pass'[q].todo = pass[q].todo /\ pass'[q].cur = NoGrant
      /\ pass'[q] = NoPass \/ pass'[q].copy = pass[q].copy
      /\ pass'[q].pc \in {"idle", "update"}
      /\ pass'[q].pc = "idle" => pass[q].todo = {}
  BY <1>g, <1>3, <1>4, <1>5, NextInPassShape
<1>7. PassShape(pass[q])'
  BY <1>3, <1>6, Constants DEF PassShape, Pass
<1>8. Belongs(v, g)
  BY <1>v DEF RaceInv, Ownership
<1>9. Concerns(g)
  <2>1. \A w \in Vouchers : owner[w] \notin {g, NoGrant} => w # v
    BY <1>8, Constants DEF RaceInv, IInv, TypeOK, Belongs
  <2> QED BY <1>5, <2>1 DEF Concerns, ClosedOnRecord
<1>10. Ownership'
  <2>1. \A h \in Grants : Belongs(pass'[q].copy[h].voucher, h)
    BY <1>6, NobodyBusy DEF RaceInv, Ownership, Belongs
  <2> QED BY <1>5, <2>1, PassOwns DEF RaceInv, Ownership
<1>11. ASSUME Clean(g)' PROVE CopyOK(pass[q], g)' /\ Rest(g)'
  <2>1. reply = "success" /\ Clean(g)
    BY <1>5, <1>11 DEF Clean
  <2>2. OneVoucher(g) /\ rows[g].status \in Closed /\ v = rows[g].voucher
    BY <1>g, <1>v, <1>1, <2>1 DEF RaceInv, Agreement, CopyOK
  <2>3. LiveOf(g)' = {}
    BY <1>5, <2>1, <2>2 DEF OneVoucher, LiveOf
  <2>4. Rest(g)'
    BY <1>5, <2>2, <2>3 DEF Rest, OneVoucher, Reached, CutOff, Gone, Closed
  <2> QED BY <1>4, <1>6, <2>4 DEF CopyOK
<1>12. \A h \in Grants : h \in pass'[q].todo =>
          h # g /\ h \in pass[q].todo /\ pass'[q].copy[h] = pass[q].copy[h]
  BY <1>4, <1>6, NobodyBusy
<1> QED
  BY <1>g, <1>2, <1>5, <1>6, <1>7, <1>9, <1>10, <1>11, <1>12, PassAgrees DEF RaceInv

LEMMA QuietAgrees ==
    ASSUME RaceInv, raced \subseteq raced',
           UNCHANGED <<rows, task, pass, controller, audit, cut, failed, shifted>>
    PROVE  Ownership' /\ Agreement'
<1>1. Ownership'
  BY DEF RaceInv, Ownership, Belongs, controller
<1>2. \A g : (Clean(g)' => Clean(g)) /\ (Rest(g) => Rest(g)') /\ InFlight(g)' = InFlight(g)
  BY NothingMoves DEF Clean, InFlight
<1>3. ASSUME NEW p \in Requests, task'[p].pc # "idle", Clean(task[p].grant)'
      PROVE  HandlerOK(task[p])'
  <2>1. HandlerOK(task[p])
    BY <1>3 DEF RaceInv, Agreement, Clean
  <2> QED BY <2>1, SameHandler
<1>4. ASSUME NEW q \in Passes
      PROVE  PassShape(pass[q])' /\ \A g \in Grants : Clean(g)' => CopyOK(pass[q], g)'
  BY <1>2, SameCopy DEF RaceInv, Agreement, PassShape
<1> QED BY <1>1, <1>2, <1>3, <1>4 DEF RaceInv, Agreement

LEMMA CrashAgrees ==
    ASSUME RaceInv, raced \subseteq raced', Crash
    PROVE  Ownership' /\ Agreement'
<1>1. /\ UNCHANGED <<rows, controller, audit, failed, shifted>>
      /\ \A p \in Requests : task'[p] = Idle
      /\ \A q \in Passes : pass'[q] = NoPass
      /\ \A g \in Grants : Clean(g)' => Clean(g) /\ ~ InFlight(g)
  BY DEF Crash, Clean, journal
<1>2. Ownership'
  <2>1. \A q \in Passes, g \in Grants : Belongs(pass'[q].copy[g].voucher, g)
    BY <1>1, NobodyBusy DEF Belongs
  <2>2. \A p \in Requests : task'[p].pc = "idle"
    BY <1>1, NobodyBusy
  <2>3. \A g \in Grants : Belongs(rows'[g].voucher, g)
    BY <1>1 DEF RaceInv, Ownership
  <2> QED BY <1>1, <2>1, <2>2, <2>3, SameOwners DEF RaceInv, controller
<1>3. \A g \in Grants : Clean(g)' => Rest(g)'
  BY <1>1, NothingMoves DEF RaceInv, Agreement
<1>4. \A p \in Requests : task'[p].pc = "idle"
  BY <1>1, NobodyBusy
<1>5. \A q \in Passes :
         PassShape(pass[q])' /\ \A g \in Grants : Clean(g)' => CopyOK(pass[q], g)'
  BY <1>1, NobodyBusy, Constants DEF PassShape, CopyOK
<1> QED BY <1>2, <1>3, <1>4, <1>5 DEF Agreement

-----------------------------------------------------------------------------
(* The invariant and what follows from it.                                 *)

LEMMA RaceStarts == RaceInit => RaceInv
<1> SUFFICES ASSUME RaceInit PROVE RaceInv
    OBVIOUS
<1>1. /\ \A p \in Requests : task[p] = Idle
      /\ \A q \in Passes : pass[q] = NoPass
      /\ \A g \in Grants : rows[g] = NoRow
      /\ live = {} /\ audit = {}
  BY DEF RaceInit, Init
<1>2. \A g \in Grants : Workers(g) = {}
  BY <1>1, NobodyBusy, Constants DEF Workers
<1>3. Ownership
  BY <1>1, NobodyBusy DEF Ownership, Belongs
<1>4. \A g \in Grants : Rest(g)
  BY <1>1, NobodyBusy DEF Rest, OneVoucher, Reached, CutOff, Gone, LiveOf, ClosedOnRecord
<1>5. Agreement
  BY <1>1, <1>4, NobodyBusy, Constants DEF Agreement, PassShape, CopyOK
<1> QED BY <1>2, <1>3, <1>5, InitIInv DEF RaceInit, RaceInv, Contended

LEMMA RaceKeeps ==
    ASSUME RaceInv, [RaceNext]_raceVars
    PROVE  RaceInv'
<1>1. IInv'
  BY NextKeeps DEF RaceInv, RaceNext, raceVars
<1>2. (Contended \subseteq raced)' /\ raced \subseteq raced'
  <2>1. CASE UNCHANGED raceVars
    BY <2>1 DEF RaceInv, Contended, Workers, raceVars, vars
  <2>2. CASE RaceNext
    BY <2>2 DEF RaceNext
  <2> QED BY <2>1, <2>2
<1>3. ASSUME NEW p \in Requests, NewRequest(p) PROVE Ownership' /\ Agreement'
  <2>1. 0 \in Time /\ 0 \in Offsets
    BY Constants DEF Time
  <2> QED
    BY <1>1, <1>2, <1>3, <2>1, CreateGrantAgrees, ReadGrantAgrees
    DEF NewRequest, PatchExtend, PatchShorten, PostActivate, PatchExpire, Operations
<1>4. ASSUME NEW p \in Requests, RequestStep(p) PROVE Ownership' /\ Agreement'
  BY <1>1, <1>2, <1>4, LogCreatedAgrees, GiveUpAgrees, StartActivationAgrees,
     ApplyChangeAgrees, ProvisionReturnsAgrees, ProvisionRaisesAgrees, SaveRowAgrees,
     CallControllerAgrees, LogOutcomeAgrees DEF RequestStep
<1>5. ASSUME NEW q \in Passes, PassStep(q) PROVE Ownership' /\ Agreement'
  <2>1. LogExpiredFails(q) => pass[q].cur \in Grants
    BY DEF LogExpiredFails, RaceInv, IInv, PassOK
  <2> QED
    BY <1>1, <1>2, <1>5, <2>1, StartPassAgrees, ExpireRowAgrees, LogExpiredAgrees,
       RevokeExpiredAgrees, PassFailsAgrees DEF PassStep
<1>6. ASSUME Tick \/ UNCHANGED vars PROVE Ownership' /\ Agreement'
  <2>1. UNCHANGED <<rows, task, pass, controller, audit, cut, failed, shifted>>
    BY <1>6 DEF Tick, vars, controller, journal
  <2> QED BY <1>2, <2>1, QuietAgrees
<1>7. Ownership' /\ Agreement'
  <2>1. CASE Next
    BY <1>2, <1>3, <1>4, <1>5, <1>6, <2>1, CrashAgrees DEF Next
  <2> QED BY <1>6, <2>1 DEF RaceNext, raceVars
<1> QED BY <1>1, <1>2, <1>7 DEF RaceInv

\* However many handlers and passes overlap, and whatever fails or crashes, the
\* table, the audit log and the controller agree about a grant at which no two
\* of them met and nothing has gone wrong.
THEOREM RaceInductive == RaceSpec => []RaceInv
BY RaceStarts, RaceKeeps, PTL DEF RaceSpec

\* What the invariant says of a grant nobody works on.
LEMMA UndisturbedRest ==
    ASSUME RaceInv, NEW g \in Grants, Undisturbed(g)
    PROVE  Rest(g)
BY DEF RaceInv, Agreement, Undisturbed, Clean

\* However often a grant is activated, extended, revoked and expired
\* (grant_manager.py:150-357), and whatever the requests for other grants do
\* meanwhile, the controller honours no voucher of it but the one in its row.
THEOREM NoOrphanAlways == RaceSpec => []NoOrphanVoucher
<1>1. RaceInv => NoOrphanVoucher
  <2> SUFFICES ASSUME RaceInv, NEW v \in live, Undisturbed(owner[v])
               PROVE  rows[owner[v]].voucher = v
    BY DEF NoOrphanVoucher
  <2>1. owner[v] \in Grants
    BY DEF RaceInv, Ownership
  <2>2. OneVoucher(owner[v])
    BY <2>1, UndisturbedRest DEF Rest
  <2> QED BY <2>2 DEF OneVoucher, LiveOf
<1> QED BY <1>1, RaceInductive, PTL

\* A revocation (grant_manager.py:584) that is in the table, or an expiry
\* (expiry_scheduler.py:106) that is in the audit log, has cut the guest off.
THEOREM ClosedAlwaysCutOff == RaceSpec => []ClosedMeansCutOff
<1>1. RaceInv => ClosedMeansCutOff
  <2> SUFFICES ASSUME RaceInv, NEW g \in Grants, Undisturbed(g),
                      rows[g].status = "revoked" \/ ClosedOnRecord(g), NEW v \in live
               PROVE  owner[v] # g
    BY DEF ClosedMeansCutOff, ClosedOnRecord
  <2>1. LiveOf(g) = {}
    BY UndisturbedRest DEF Rest, CutOff, Gone
  <2> QED BY <2>1 DEF LiveOf
<1> QED BY <1>1, RaceInductive, PTL

\* An active grant's guest has access, and to the end of the grant, extensions
\* (grant_manager.py:359-479) included, if all times of the grant came in UTC.
THEOREM ActiveAlwaysReached == RaceSpec => []ActiveMeansAccess
<1>1. RaceInv => ActiveMeansAccess
  BY UndisturbedRest DEF ActiveMeansAccess, Rest, Reached
<1> QED BY <1>1, RaceInductive, PTL

-----------------------------------------------------------------------------
(* The refinement of GrantContract. Unless somebody raced for the grant,   *)
(* what a handler or a pass is about to write is a step of the contract    *)
(* from the row as it stands, whatever has gone wrong with the grant.      *)

\* From the row r, a handler may save the object of t.
Saves(r, t) ==
    /\ t.op = "activate" => /\ r.status = "pending" /\ t.obj.status = "active"
                            /\ t.obj.end = r.end
    /\ t.op \in {"extend", "shorten"} =>
          r.status \in Open /\ t.obj.status = r.status /\ t.obj.voucher = r.voucher
    /\ t.op = "revoke" => /\ r.status \in Open /\ t.obj.status = "revoked"
                          /\ t.obj.end = r.end /\ t.obj.voucher = r.voucher
    /\ t.op = "expire" => /\ t.obj.status = "expired" /\ t.obj.end <= now
                          /\ t.obj.voucher = r.voucher
    /\ t.op = "activation_error" => /\ t.obj.status = r.status
                                    /\ t.obj.end = r.end /\ t.obj.voucher = r.voucher

HandlerFresh(t) ==
    /\ t.pc \in {"created", "check", "provision"} => t.obj = rows[t.grant]
    /\ t.pc = "save" => Saves(rows[t.grant], t)

CopiesFresh ==
    /\ \A p \in Requests : task[p].grant \notin raced => HandlerFresh(task[p])
    /\ \A q \in Passes, g \in Grants :
          g \in pass[q].todo \ raced => pass[q].copy[g] = rows[g]

\* No row is ever lost, and no object without a grant in it is written back.
Existing ==
    /\ \A p \in Requests :
          task[p].pc # "idle" =>
             task[p].obj.status # "none" /\ rows[task[p].grant].status # "none"
    /\ \A q \in Passes, g \in Grants : g \in pass[q].todo => rows[g].status # "none"

FreshInv == RaceInv /\ raced \subseteq Grants /\ Existing /\ CopiesFresh

\* A row that changes is in nobody else's hands, unless it is raced for.
LEMMA FreshAfterHandler ==
    ASSUME FreshInv, raced \subseteq raced', NEW p \in Requests, UNCHANGED <<pass, now>>,
           \A r \in Requests \ {p} : task'[r] = task[r],
           \A g \in Grants : rows'[g] = rows[g] \/ g \in raced' \/ Workers(g) \subseteq {p},
           \/ task'[p].pc \in {"idle", "controller", "log"}
           \/ task'[p].grant \notin raced' => HandlerFresh(task[p])'
    PROVE  CopiesFresh'
<1>1. ASSUME NEW r \in Requests, task'[r].grant \notin raced' PROVE HandlerFresh(task[r])'
  <2>1. CASE r = p
    BY <1>1, <2>1 DEF HandlerFresh
  <2>2. CASE r # p /\ task[r].pc = "idle"
    BY <2>2 DEF HandlerFresh
  <2>3. CASE r # p /\ task[r].pc # "idle"
    <3>1. task'[r] = task[r] /\ task[r].grant \in Grants \ raced'
      BY <1>1, <2>3 DEF FreshInv, RaceInv, IInv, TaskOK
    <3>2. rows'[task[r].grant] = rows[task[r].grant]
      BY <2>3, <3>1 DEF Workers
    <3>3. HandlerFresh(task[r])
      BY <3>1 DEF FreshInv, CopiesFresh
    <3> QED BY <3>1, <3>2, <3>3 DEF HandlerFresh, Saves
  <2> QED BY <2>1, <2>2, <2>3
<1>2. ASSUME NEW q \in Passes, NEW g \in Grants, g \in pass'[q].todo \ raced'
      PROVE  pass'[q].copy[g] = rows'[g]
  <2>1. q \in Workers(g) /\ q # p
    BY <1>2, LifecycleAssumption DEF Workers, LifecycleAssumption
  <2>2. rows'[g] = rows[g]
    BY <1>2, <2>1
  <2> QED BY <1>2, <2>2 DEF FreshInv, CopiesFresh
<1> QED BY <1>1, <1>2 DEF CopiesFresh

LEMMA FreshAfterPass ==
    ASSUME FreshInv, raced \subseteq raced', NEW q \in Passes, UNCHANGED <<task, now>>,
           \A r \in Passes \ {q} : pass'[r] = pass[r],
           \A g \in Grants : rows'[g] = rows[g] \/ g \in raced' \/ Workers(g) \subseteq {q},
           \A g \in Grants : g \in pass'[q].todo \ raced' => pass'[q].copy[g] = rows'[g]
    PROVE  CopiesFresh'
<1>1. ASSUME NEW p \in Requests, task'[p].grant \notin raced' PROVE HandlerFresh(task[p])'
  <2>1. CASE task[p].pc = "idle"
    BY <2>1 DEF HandlerFresh
  <2>2. CASE task[p].pc # "idle"
    <3>1. task'[p] = task[p] /\ task[p].grant \in Grants \ raced'
      BY <1>1, <2>2 DEF FreshInv, RaceInv, IInv, TaskOK
    <3>2. p \in Workers(task[p].grant) /\ p # q
      BY <3>1, LifecycleAssumption DEF Workers, LifecycleAssumption
    <3>3. rows'[task[p].grant] = rows[task[p].grant]
      BY <3>1, <3>2
    <3>4. HandlerFresh(task[p])
      BY <3>1 DEF FreshInv, CopiesFresh
    <3> QED BY <3>1, <3>3, <3>4 DEF HandlerFresh, Saves
  <2> QED BY <2>1, <2>2
<1>2. ASSUME NEW r \in Passes, NEW g \in Grants, g \in pass'[r].todo \ raced'
      PROVE  pass'[r].copy[g] = rows'[g]
  <2>1. CASE r = q
    BY <1>2, <2>1
  <2>2. CASE r # q
    <3>1. pass'[r] = pass[r] /\ r \in Workers(g)
      BY <1>2, <2>2 DEF Workers
    <3>2. rows'[g] = rows[g]
      BY <1>2, <2>2, <3>1
    <3> QED BY <1>2, <3>1, <3>2 DEF FreshInv, CopiesFresh
  <2> QED BY <2>1, <2>2
<1> QED BY <1>1, <1>2 DEF CopiesFresh

LEMMA FreshRead ==
    ASSUME FreshInv, raced \subseteq raced', NEW p \in Requests, NEW op \in Operations,
           NEW g \in Grants, NEW arg \in Time, NEW offset \in Offsets,
           ReadGrant(p, op, g, arg, offset)
    PROVE  CopiesFresh'
<1>1. /\ UNCHANGED <<rows, pass, now>>
      /\ \A r \in Requests \ {p} : task'[r] = task[r]
      /\ task'[p].pc = "check" /\ task'[p].grant = g /\ task'[p].obj = rows[g]
  BY DEF ReadGrant, FreshInv, RaceInv, IInv, TypeOK, Idle
<1>2. HandlerFresh(task[p])'
  BY <1>1 DEF HandlerFresh
<1> QED BY <1>1, <1>2, FreshAfterHandler

LEMMA FreshCreate ==
    ASSUME FreshInv, (Contended \subseteq raced)', raced \subseteq raced',
           NEW p \in Requests, NEW g \in Grants, NEW start \in Time, NEW end \in Time,
           NEW zone \in Zones, CreateGrant(p, g, start, end, zone)
    PROVE  CopiesFresh'
<1> DEFINE row == [NoRow EXCEPT !.status = "pending", !.start = start, !.end = end]
<1>1. /\ UNCHANGED <<pass, now>> /\ rows' = [rows EXCEPT ![g] = row] /\ task[p] = Idle
      /\ \A r \in Requests \ {p} : task'[r] = task[r]
      /\ task'[p].pc = "created" /\ task'[p].grant = g /\ task'[p].obj = row
  BY DEF CreateGrant, FreshInv, RaceInv, IInv, TypeOK, Idle, row
<1> HIDE DEF row
<1>2. rows'[g] = row /\ \A h \in Grants \ {g} : rows'[h] = rows[h]
  BY <1>1 DEF FreshInv, RaceInv, IInv, TypeOK
<1>3. g \in raced' \/ Workers(g) = {}
  BY <1>1, NewHandlerAlone
<1>4. HandlerFresh(task[p])'
  BY <1>1, <1>2 DEF HandlerFresh
<1> QED BY <1>1, <1>2, <1>3, <1>4, FreshAfterHandler

\* A handler goes on with its object as it read it, or has changed it.
LEMMA FreshStep ==
    ASSUME FreshInv, raced \subseteq raced', NEW p \in Requests, RequestStep(p)
    PROVE  CopiesFresh'
<1>1. task[p].pc # "idle" /\ task[p] # Idle
  BY NobodyBusy DEF RequestStep, LogCreated, Refuse, StartActivation, ApplyChange,
                    ProvisionReturns, ProvisionRaises, Attempt, ControllerMissing,
                    SaveRow, SaveRefused, SaveFails, DatabaseFails, ExtendVoucher,
                    RevokeVoucher, CallController, LogOutcome, LogFails
<1>2. /\ task[p] \in Task /\ task[p].obj \in Row /\ task[p].arg \in Time /\ now \in Time
      /\ task[p].at \in Time /\ TaskOK(task[p], now, shifted)
  BY DEF FreshInv, RaceInv, IInv, TypeOK, Task
<1>g. PICK g \in Grants : g = task[p].grant
  BY <1>1, <1>2 DEF TaskOK
<1>3. g \in raced' \/ Workers(g) \subseteq {p}
  <2>1. p \in Workers(g)
    BY <1>g DEF Workers
  <2> QED BY <2>1, Alone DEF FreshInv, RaceInv
<1>r. \A h \in Grants : rows'[h] = rows[h] \/ h \in raced' \/ Workers(h) \subseteq {p}
  <2>1. \A h \in Grants : rows'[h] = rows[h] \/ h = g
    BY <1>g DEF RequestStep, LogCreated, Refuse, StartActivation, ApplyChange,
                ProvisionReturns, ProvisionRaises, Attempt, ControllerMissing, SaveRow,
                SaveRefused, SaveFails, DatabaseFails, ExtendVoucher, RevokeVoucher,
                CallController, LogOutcome, LogFails, FreshInv, RaceInv, IInv, TypeOK
  <2> QED BY <1>3, <2>1
<1>4. UNCHANGED <<pass, now>> /\ \A r \in Requests \ {p} : task'[r] = task[r]
  BY DEF RequestStep, LogCreated, Refuse, StartActivation, ApplyChange,
         ProvisionReturns, ProvisionRaises, Attempt, ControllerMissing, SaveRow,
         SaveRefused, SaveFails, DatabaseFails, ExtendVoucher, RevokeVoucher,
         CallController, LogOutcome, LogFails, FreshInv, RaceInv, IInv, TypeOK
<1>t. task'[p] = Idle \/ task'[p].grant = g
  <2>1. CASE SaveRow(p)
    <3>1. task'[p] = NextAfterSave(task[p])
      BY <2>1 DEF SaveRow, FreshInv, RaceInv, IInv, TypeOK
    <3> QED BY <1>g, <1>2, <3>1 DEF NextAfterSave, Task
  <2>2. CASE LogCreated(p)
    BY <1>g, <1>2, <2>2 DEF LogCreated, FreshInv, RaceInv, IInv, TypeOK, Task
  <2>3. CASE StartActivation(p) \/ ApplyChange(p)
    BY <1>g, <1>2, <2>3 DEF StartActivation, ApplyChange, FreshInv, RaceInv, IInv,
                            TypeOK, Task
  <2>4. CASE \E reply \in Replies, v \in Fresh \cup {NoVoucher} : ProvisionReturns(p, reply, v)
    BY <1>g, <1>2, <2>4 DEF ProvisionReturns, FreshInv, RaceInv, IInv, TypeOK, Task
  <2>5. CASE \E v \in Fresh \cup {NoVoucher} : ProvisionRaises(p, v)
    BY <1>g, <1>2, <2>5 DEF ProvisionRaises, FreshInv, RaceInv, IInv, TypeOK, Task
  <2>6. CASE \E reply \in Replies : ExtendVoucher(p, reply) \/ RevokeVoucher(p, reply)
    BY <1>g, <1>2, <2>6
       DEF ExtendVoucher, RevokeVoucher, CallController, FreshInv, RaceInv, IInv,
           TypeOK, Task
  <2>7. CASE Refuse(p) \/ ControllerMissing(p) \/ SaveRefused(p) \/ LogOutcome(p)
          \/ SaveFails(p) \/ LogFails(p)
    BY <2>7 DEF Refuse, ControllerMissing, SaveRefused, LogOutcome, SaveFails, LogFails,
       DatabaseFails, FreshInv, RaceInv, IInv,
       TypeOK
  <2> QED BY <2>1, <2>2, <2>3, <2>4, <2>5, <2>6, <2>7 DEF RequestStep
<1> DEFINE Good == task'[p].pc \in {"idle", "controller", "log"} \/ HandlerFresh(task[p])'
<1>s. SUFFICES ASSUME g \notin raced' PROVE Good
  BY <1>r, <1>4, <1>t, NobodyBusy, FreshAfterHandler
<1>5. HandlerFresh(task[p])
  BY <1>g, <1>s DEF FreshInv, CopiesFresh
<1>6. CASE LogCreated(p) \/ StartActivation(p)
  <2>1. /\ rows' = rows /\ task[p].pc \in {"created", "check"}
        /\ \/ task'[p] = Idle
           \/ /\ task'[p].pc \in {"check", "provision"}
              /\ task'[p].grant = task[p].grant /\ task'[p].obj = task[p].obj
    <3>1. CASE LogCreated(p)
      <4>1. task'[p] \in {Idle, [task[p] EXCEPT !.op = "activate", !.pc = "check"]}
        BY <3>1 DEF LogCreated, FreshInv, RaceInv, IInv, TypeOK
      <4>2. rows' = rows /\ task[p].pc = "created"
        BY <3>1 DEF LogCreated
      <4> QED BY <1>2, <4>1, <4>2 DEF Task
    <3>2. CASE StartActivation(p)
      BY <1>2, <3>2 DEF StartActivation, FreshInv, RaceInv, IInv, TypeOK, Task
    <3> QED BY <1>6, <3>1, <3>2
  <2> QED BY <1>5, <2>1, NobodyBusy DEF HandlerFresh
<1>7. CASE ApplyChange(p)
  <2>1. /\ rows' = rows /\ task[p].pc = "check"
        /\ task'[p].pc = "save" /\ task'[p].grant = task[p].grant
        /\ task'[p].op = task[p].op
        /\ task'[p].obj = Changed(task[p], now)
        /\ Permitted(task[p], now)
        /\ task[p].op \in {"extend", "shorten", "revoke", "expire"}
    BY <1>2, <1>7 DEF ApplyChange, FreshInv, RaceInv, IInv, TypeOK, Task, TaskOK,
                      Operations
  <2>2. task[p].obj = rows[task[p].grant]
    BY <1>5, <2>1 DEF HandlerFresh
  <2>3. /\ task[p].op \in {"extend", "shorten"} =>
              /\ task[p].obj.status \in Open /\ task'[p].obj.status = task[p].obj.status
              /\ task'[p].obj.voucher = task[p].obj.voucher
        /\ task[p].op = "revoke" =>
              /\ task[p].obj.status \in Open /\ task'[p].obj.status = "revoked"
              /\ task'[p].obj.end = task[p].obj.end
              /\ task'[p].obj.voucher = task[p].obj.voucher
        /\ task[p].op = "expire" =>
              /\ task'[p].obj.status = "expired" /\ task'[p].obj.end <= now
              /\ task'[p].obj.voucher = task[p].obj.voucher
    <3>1. CASE task[p].op \in {"extend", "shorten"}
      BY <1>2, <2>1, <3>1
         DEF Changed, Extended, Shortened, Permitted, MayExtend, MayShorten, Held, Row
    <3>2. CASE task[p].op = "revoke"
      BY <1>2, <2>1, <3>2 DEF Changed, Revoked, Permitted, MayRevoke, Row
    <3>3. CASE task[p].op = "expire"
      <4>1. task'[p].obj = [task[p].obj EXCEPT !.status = "expired", !.end = now]
        BY <2>1, <3>3 DEF Changed, Expired
      <4>2. now <= now
        BY <1>2, Constants DEF Time
      <4> QED BY <1>2, <3>3, <4>1, <4>2 DEF Row
    <3> QED BY <2>1, <3>1, <3>2, <3>3
  <2>4. HandlerFresh(task[p])'
    BY <1>4, <2>1, <2>2, <2>3 DEF HandlerFresh, Saves
  <2> QED BY <2>4
<1>8. ASSUME NEW reply \in Replies, NEW v \in Fresh \cup {NoVoucher},
             ProvisionReturns(p, reply, v)
      PROVE  Good
  <2>1. PICK id : task' = [task EXCEPT ![p].pc = "save",
                             ![p].obj = Activated(@, id, task[p].at)]
    BY <1>8 DEF ProvisionReturns
  <2>2. /\ rows' = rows /\ task[p].pc = "provision"
    BY <1>8 DEF ProvisionReturns, Attempt
  <2>3. task[p].op = "activate" /\ task[p].obj.status = "pending"
    BY <1>2, <2>2 DEF TaskOK
  <2>4. /\ task'[p].pc = "save" /\ task'[p].grant = task[p].grant
        /\ task'[p].op = "activate" /\ task'[p].obj.status = "active"
        /\ task'[p].obj.end = task[p].obj.end
    BY <1>2, <2>1, <2>3 DEF FreshInv, RaceInv, IInv, TypeOK, Task, Activated, Row
  <2>5. HandlerFresh(task[p])'
    BY <1>5, <2>2, <2>3, <2>4 DEF HandlerFresh, Saves
  <2> QED BY <2>5
<1>9. ASSUME NEW v \in Fresh \cup {NoVoucher}, ProvisionRaises(p, v)
      PROVE  Good
  <2>1. /\ rows' = rows /\ task[p].pc = "provision"
        /\ task'[p].grant = task[p].grant
        /\ \/ task'[p].pc = "provision" /\ task'[p].obj = task[p].obj
           \/ /\ task'[p].pc = "save" /\ task'[p].op = "activation_error"
              /\ task'[p].obj = [task[p].obj EXCEPT !.error = TRUE]
    BY <1>2, <1>9
       DEF ProvisionRaises, Attempt, FreshInv, RaceInv, IInv, TypeOK, Task
  <2>2. HandlerFresh(task[p])'
    BY <1>2, <1>5, <2>1 DEF HandlerFresh, Saves, Row
  <2> QED BY <2>2
<1>10. CASE SaveRow(p)
  <2>1. task'[p] = NextAfterSave(task[p])
    BY <1>10 DEF SaveRow, FreshInv, RaceInv, IInv, TypeOK
  <2>2. task'[p].pc \in {"idle", "controller", "log"}
    BY <1>2, <2>1, NobodyBusy DEF NextAfterSave, Task
  <2> QED BY <2>2
<1>11. ASSUME \/ Refuse(p) \/ SaveRefused(p) \/ ControllerMissing(p) \/ LogOutcome(p)
              \/ SaveFails(p) \/ LogFails(p)
              \/ \E reply \in Replies : ExtendVoucher(p, reply) \/ RevokeVoucher(p, reply)
       PROVE  Good
  <2>1. task'[p].pc \in {"idle", "log"}
    BY <1>2, <1>11, NobodyBusy
       DEF Refuse, SaveRefused, ControllerMissing, LogOutcome, SaveFails, LogFails,
           DatabaseFails, ExtendVoucher,
           RevokeVoucher, CallController, FreshInv, RaceInv, IInv, TypeOK, Task
  <2> QED BY <2>1
<1> QED BY <1>6, <1>7, <1>8, <1>9, <1>10, <1>11 DEF RequestStep

LEMMA FreshPass ==
    ASSUME FreshInv, raced \subseteq raced', NEW q \in Passes, PassStep(q)
    PROVE  CopiesFresh'
<1>1. UNCHANGED <<task, now>> /\ \A r \in Passes \ {q} : pass'[r] = pass[r]
  BY DEF PassStep, StartPass, ExpireRow, ExpireFails, LogExpired, LogExpiredFails,
         RevokeExpired, FreshInv, RaceInv, IInv, TypeOK
<1>2. pass[q] \in Pass /\ pass[q].cur \notin pass[q].todo
  BY DEF FreshInv, RaceInv, IInv, TypeOK, Agreement, PassShape
<1>3. \A g \in Grants : g \in pass[q].todo \ raced' => pass[q].copy[g] = rows[g]
  BY DEF FreshInv, CopiesFresh
<1>4. CASE StartPass(q)
  <2>1. /\ UNCHANGED rows
        /\ \A g \in Grants : g \in pass'[q].todo => pass'[q].copy[g] = rows[g]
    BY <1>4 DEF StartPass, FreshInv, RaceInv, IInv, TypeOK, NoPass
  <2> QED BY <1>1, <2>1, FreshAfterPass
<1>5. ASSUME NEW g \in Grants, ExpireRow(q, g) PROVE CopiesFresh'
  <2>1. /\ g \in pass[q].todo /\ \A h \in Grants \ {g} : rows'[h] = rows[h]
        /\ pass'[q].todo = pass[q].todo \ {g} /\ pass'[q].copy = pass[q].copy
    BY <1>2, <1>5 DEF ExpireRow, FreshInv, RaceInv, IInv, TypeOK, Pass
  <2>2. g \in raced' \/ Workers(g) \subseteq {q}
    <3>1. q \in Workers(g)
      BY <2>1 DEF Workers
    <3> QED BY <3>1, Alone DEF FreshInv, RaceInv
  <2>3. \A h \in Grants : h \in pass'[q].todo \ raced' => pass'[q].copy[h] = rows'[h]
    BY <1>3, <2>1
  <2> QED BY <1>1, <2>1, <2>2, <2>3, FreshAfterPass
<1>6. ASSUME \/ LogExpired(q) \/ LogExpiredFails(q)
             \/ \E reply \in Replies : RevokeExpired(q, reply)
      PROVE  CopiesFresh'
  <2>1. /\ UNCHANGED rows /\ pass'[q].todo = pass[q].todo
        /\ pass'[q] = NoPass \/ pass'[q].copy = pass[q].copy
    BY <1>2, <1>6, NextInPassShape
       DEF LogExpired, LogExpiredFails, RevokeExpired, FreshInv, RaceInv, IInv, TypeOK,
           Pass
  <2>2. \A g \in Grants : g \in pass'[q].todo \ raced' => pass'[q].copy[g] = rows'[g]
    BY <1>3, <2>1, NobodyBusy
  <2> QED BY <1>1, <2>1, <2>2, FreshAfterPass
<1>7. ASSUME NEW g \in Grants, ExpireFails(q, g) PROVE CopiesFresh'
  <2> DEFINE x == [pass[q] EXCEPT !.todo = pass[q].todo \ {g}]
  <2>1. /\ x \in Pass /\ x.todo = pass[q].todo \ {g} /\ x.copy = pass[q].copy
        /\ x.cur \notin x.todo
    BY <1>2 DEF Pass
  <2>2. pass' = [pass EXCEPT ![q] = NextInPass(x)] /\ UNCHANGED rows
    BY <1>7 DEF ExpireFails
  <2> HIDE DEF x
  <2>3. pass'[q] = NextInPass(x)
    BY <2>2 DEF FreshInv, RaceInv, IInv, TypeOK
  <2>4. /\ NextInPass(x).todo = x.todo
        /\ NextInPass(x) = NoPass \/ NextInPass(x).copy = x.copy
    BY <2>1, NextInPassShape
  <2>5. \A h \in Grants : h \in pass'[q].todo \ raced' => pass'[q].copy[h] = rows'[h]
    BY <1>3, <2>1, <2>2, <2>3, <2>4, NobodyBusy
  <2> QED BY <1>1, <2>1, <2>2, <2>3, <2>4, <2>5, FreshAfterPass
<1> QED BY <1>4, <1>5, <1>6, <1>7 DEF PassStep

LEMMA RowsLast ==
    ASSUME IInv, Existing, Next, NEW g \in Grants, rows[g].status # "none"
    PROVE  rows'[g].status # "none"
<1>1. rows \in [Grants -> Row] /\ task \in [Requests -> Task] /\ pass \in [Passes -> Pass]
  BY DEF IInv, TypeOK
<1>2. ASSUME NEW p \in Requests, NEW h \in Grants, NEW start \in Time, NEW end \in Time,
             NEW zone \in Zones, CreateGrant(p, h, start, end, zone)
      PROVE  rows'[g] = rows[g]
  BY <1>1, <1>2 DEF CreateGrant
<1>3. ASSUME NEW p \in Requests, SaveRow(p) PROVE rows'[g].status # "none"
  <2>1. task[p].obj.status # "none"
    BY <1>3 DEF Existing, SaveRow
  <2>2. rows'[g] \in {rows[g], task[p].obj}
    BY <1>1, <1>3 DEF SaveRow, Stored
  <2> QED BY <2>1, <2>2
<1>4. ASSUME NEW q \in Passes, NEW h \in Grants, ExpireRow(q, h)
      PROVE  rows'[g].status # "none"
  <2>1. rows'[g] \in {rows[g], [pass[q].copy[h] EXCEPT !.status = "expired"]}
    BY <1>1, <1>4 DEF ExpireRow, Stored
  <2>2. pass[q].copy[h] \in Row
    BY <1>1 DEF Pass
  <2> QED BY <2>1, <2>2 DEF Row
<1>5. CASE rows' = rows
  BY <1>5
<1>6. ASSUME NEW p \in Requests, NewRequest(p) PROVE rows'[g].status # "none"
  BY <1>2, <1>5, <1>6
     DEF NewRequest, PatchExtend, PatchShorten, PostActivate, PatchExpire, ReadGrant
<1>7. ASSUME NEW p \in Requests, RequestStep(p) PROVE rows'[g].status # "none"
  BY <1>3, <1>5, <1>7
     DEF RequestStep, LogCreated, Refuse, StartActivation, ApplyChange,
         ProvisionReturns, ProvisionRaises, Attempt, ControllerMissing, SaveRefused,
         SaveFails, DatabaseFails, ExtendVoucher, RevokeVoucher, CallController,
         LogOutcome, LogFails
<1>8. ASSUME NEW q \in Passes, PassStep(q) PROVE rows'[g].status # "none"
  BY <1>4, <1>5, <1>8 DEF PassStep, StartPass, ExpireFails, LogExpired, LogExpiredFails,
                          RevokeExpired
<1>9. CASE Tick \/ Crash
  BY <1>5, <1>9 DEF Tick, Crash
<1> QED BY <1>6, <1>7, <1>8, <1>9 DEF Next

LEMMA ObjectLasts ==
    ASSUME IInv, Existing, NEW p \in Requests, RequestStep(p), task'[p].pc # "idle"
    PROVE  task'[p].grant = task[p].grant /\ task'[p].obj.status # "none"
<1>1. /\ task \in [Requests -> Task] /\ task[p] \in Task /\ task[p].obj \in Row
      /\ TaskOK(task[p], now, shifted)
  BY DEF IInv, TypeOK, Task
<1>2. task[p].pc # "idle" /\ task[p].obj.status # "none"
  BY DEF Existing, RequestStep, LogCreated, Refuse, StartActivation, ApplyChange,
         ProvisionReturns, ProvisionRaises, Attempt, ControllerMissing, SaveRow,
         SaveRefused, SaveFails, DatabaseFails, ExtendVoucher, RevokeVoucher,
         CallController, LogOutcome, LogFails
<1>3. CASE LogCreated(p) \/ StartActivation(p)
  <2>1. \/ task'[p] \in {Idle, [task[p] EXCEPT !.op = "activate", !.pc = "check"]}
        \/ task'[p] = [task[p] EXCEPT !.pc = "provision", !.at = now]
    BY <1>1, <1>3 DEF LogCreated, StartActivation
  <2> QED BY <1>1, <1>2, <2>1, NobodyBusy DEF Task
<1>4. CASE ApplyChange(p)
  <2>1. /\ task'[p].grant = task[p].grant
        /\ task'[p].obj = Changed(task[p], now)
        /\ task[p].op \in {"extend", "shorten", "revoke", "expire"}
    BY <1>1, <1>4 DEF ApplyChange, Task, TaskOK, Operations
  <2> QED BY <1>1, <1>2, <2>1 DEF Changed, Extended, Shortened, Revoked, Expired, Row
<1>5. ASSUME NEW reply \in Replies, NEW v \in Fresh \cup {NoVoucher},
             ProvisionReturns(p, reply, v)
      PROVE  task'[p].grant = task[p].grant /\ task'[p].obj.status # "none"
  BY <1>1, <1>5 DEF ProvisionReturns, Activated, Task, Row
<1>6. ASSUME NEW v \in Fresh \cup {NoVoucher}, ProvisionRaises(p, v)
      PROVE  task'[p].grant = task[p].grant /\ task'[p].obj.status # "none"
  BY <1>1, <1>2, <1>6 DEF ProvisionRaises, Task, Row
<1>7. CASE SaveRow(p)
  <2>1. task'[p] = NextAfterSave(task[p])
    BY <1>1, <1>7 DEF SaveRow
  <2> QED BY <1>1, <1>2, <2>1, NobodyBusy DEF NextAfterSave, Task
<1>8. ASSUME NEW reply \in Replies, ExtendVoucher(p, reply) \/ RevokeVoucher(p, reply)
      PROVE  task'[p].grant = task[p].grant /\ task'[p].obj.status # "none"
  BY <1>1, <1>2, <1>8 DEF ExtendVoucher, RevokeVoucher, CallController, Task
<1>9. CASE Refuse(p) \/ ControllerMissing(p) \/ SaveRefused(p) \/ LogOutcome(p)
          \/ SaveFails(p) \/ LogFails(p)
  BY <1>1, <1>9, NobodyBusy DEF Refuse, ControllerMissing, SaveRefused, LogOutcome,
     SaveFails, LogFails, DatabaseFails
<1> QED BY <1>3, <1>4, <1>5, <1>6, <1>7, <1>8, <1>9 DEF RequestStep

LEMMA ExistingKeeps ==
    ASSUME IInv, Existing, [Next]_vars
    PROVE  Existing'
<1>1. CASE UNCHANGED vars
  BY <1>1 DEF vars, Existing
<1>2. CASE Next
  <2>1. task \in [Requests -> Task] /\ pass \in [Passes -> Pass]
    BY DEF IInv, TypeOK
  <2>2. ASSUME NEW p \in Requests, task'[p].pc # "idle"
        PROVE  task'[p].obj.status # "none" /\ rows'[task'[p].grant].status # "none"
    <3>1. CASE task'[p] = task[p]
      BY <1>2, <2>2, <3>1, RowsLast DEF Existing, IInv, TaskOK
    <3>2. CASE RequestStep(p)
      <4>1. task[p].pc # "idle" /\ task[p].grant \in Grants
        BY <3>2 DEF RequestStep, LogCreated, Refuse, StartActivation, ApplyChange,
           ProvisionReturns, ProvisionRaises, Attempt, ControllerMissing, SaveRow,
           SaveRefused, SaveFails, LogFails, DatabaseFails, ExtendVoucher, RevokeVoucher,
           CallController, LogOutcome, IInv, TaskOK
      <4> QED BY <1>2, <2>2, <3>2, <4>1, ObjectLasts, RowsLast DEF Existing
    <3>3. ASSUME NEW g \in Grants, NEW start \in Time, NEW end \in Time,
                 NEW zone \in Zones, CreateGrant(p, g, start, end, zone)
          PROVE  task'[p].obj.status # "none" /\ rows'[task'[p].grant].status # "none"
      <4> DEFINE row == [NoRow EXCEPT !.status = "pending", !.start = start, !.end = end]
      <4>1. row.status = "pending"
        BY DEF NoRow
      <4> HIDE DEF row
      <4>2. task'[p].obj = row /\ task'[p].grant = g /\ rows'[g] = row
        BY <2>1, <3>3 DEF CreateGrant, Idle, row, IInv, TypeOK
      <4> QED BY <4>1, <4>2
    <3>4. ASSUME NEW op, NEW g \in Grants, NEW arg, NEW offset, ReadGrant(p, op, g, arg, offset)
          PROVE  task'[p].obj.status # "none" /\ rows'[task'[p].grant].status # "none"
      BY <2>1, <3>4 DEF ReadGrant, Idle
    <3>5. ASSUME NEW r \in Requests, NewRequest(r) \/ RequestStep(r), r # p
          PROVE  task'[p] = task[p]
      BY <2>1, <3>5, RequestBegins
         DEF RequestStep, LogCreated, Refuse, StartActivation, ApplyChange,
             ProvisionReturns, ProvisionRaises, ControllerMissing, SaveRow, SaveRefused,
             SaveFails, DatabaseFails, ExtendVoucher, RevokeVoucher, CallController,
             LogOutcome, LogFails
    <3>6. CASE (\E q \in Passes : PassStep(q)) \/ Tick
      <4>1. task' = task
        BY <3>6 DEF PassStep, StartPass, ExpireRow, ExpireFails, LogExpired,
                    LogExpiredFails, RevokeExpired, Tick
      <4> QED BY <3>1, <4>1
    <3>7. ~ Crash
      BY <2>2, NobodyBusy DEF Crash
    <3>8. CASE NewRequest(p)
      BY <3>3, <3>4, <3>8
         DEF NewRequest, PatchExtend, PatchShorten, PostActivate, PatchExpire
    <3> QED BY <1>2, <3>1, <3>2, <3>5, <3>6, <3>7, <3>8 DEF Next
  <2>3. ASSUME NEW q \in Passes, NEW g \in Grants, g \in pass'[q].todo
        PROVE  rows'[g].status # "none"
    <3>1. rows[g].status # "none"
      <4>1. CASE g \in pass[q].todo
        BY <4>1 DEF Existing
      <4>2. CASE StartPass(q)
        BY <2>1, <2>3, <4>2 DEF StartPass, Due, Open
      <4>3. CASE pass'[q].todo \subseteq pass[q].todo
        BY <2>3, <4>1, <4>3
      <4>4. ASSUME NEW r \in Passes, PassStep(r), ~ StartPass(q)
            PROVE  pass'[q].todo \subseteq pass[q].todo
        <5>1. \/ pass'[q] = pass[q]
              \/ \E g2 \in Grants : pass'[q] =
                    [pass[q] EXCEPT !.pc = "log", !.cur = g2, !.todo = @ \ {g2}]
              \/ pass'[q] \in {[pass[q] EXCEPT !.pc = "revoke"], NextInPass(pass[q])}
              \/ \E g2 \in Grants : pass'[q] =
                    NextInPass([pass[q] EXCEPT !.todo = @ \ {g2}])
          <6>1. CASE r # q
            BY <2>1, <4>4, <6>1
               DEF PassStep, StartPass, ExpireRow, ExpireFails, LogExpired,
                   LogExpiredFails, RevokeExpired
          <6>2. ASSUME NEW h \in Grants, ExpireRow(q, h)
                PROVE  pass'[q] = [pass[q] EXCEPT !.pc = "log", !.cur = h, !.todo = @ \ {h}]
            BY <2>1, <6>2 DEF ExpireRow
          <6>3. CASE \/ LogExpired(q) \/ LogExpiredFails(q)
                     \/ \E reply \in Replies : RevokeExpired(q, reply)
            BY <2>1, <6>3 DEF LogExpired, LogExpiredFails, RevokeExpired
          <6>4. ASSUME NEW h \in Grants, ExpireFails(q, h)
                PROVE  pass'[q] = NextInPass([pass[q] EXCEPT !.todo = @ \ {h}])
            BY <2>1, <6>4 DEF ExpireFails
          <6> QED BY <4>4, <6>1, <6>2, <6>3, <6>4 DEF PassStep
        <5>2. pass[q] \in Pass
          BY <2>1
        <5>3. \A x \in Pass : NextInPass(x).todo \subseteq x.todo
          BY NobodyBusy DEF NextInPass, Pass
        <5>4. ASSUME NEW g2 \in Grants,
                     pass'[q] = NextInPass([pass[q] EXCEPT !.todo = @ \ {g2}])
              PROVE  pass'[q].todo \subseteq pass[q].todo
          <6> DEFINE x == [pass[q] EXCEPT !.todo = @ \ {g2}]
          <6>1. x \in Pass /\ x.todo \subseteq pass[q].todo
            BY <5>2 DEF Pass
          <6>2. pass'[q] = NextInPass(x)
            BY <5>4
          <6> HIDE DEF x
          <6> QED BY <5>3, <6>1, <6>2
        <5>5. CASE pass'[q] = NextInPass(pass[q])
          BY <5>2, <5>3, <5>5
        <5>6. CASE \E g2 \in Grants : pass'[q] =
                      [pass[q] EXCEPT !.pc = "log", !.cur = g2, !.todo = @ \ {g2}]
          BY <5>2, <5>6 DEF Pass
        <5> QED BY <5>1, <5>2, <5>4, <5>5, <5>6 DEF Pass
      <4>5. CASE \E p \in Requests : NewRequest(p) \/ RequestStep(p)
        <5>1. ASSUME NEW p \in Requests, NewRequest(p) PROVE pass' = pass
          BY <5>1, RequestBegins
        <5>2. ASSUME NEW p \in Requests, RequestStep(p) PROVE pass' = pass
          BY <5>2 DEF RequestStep, LogCreated, Refuse, StartActivation, ApplyChange,
                      ProvisionReturns, ProvisionRaises, Attempt, ControllerMissing,
                      SaveRow, SaveRefused, SaveFails, DatabaseFails, ExtendVoucher,
                      RevokeVoucher, CallController, LogOutcome, LogFails
        <5> QED BY <4>3, <4>5, <5>1, <5>2
      <4>6. CASE Tick \/ Crash
        BY <4>3, <4>6, NobodyBusy DEF Tick, Crash
      <4> QED BY <1>2, <4>2, <4>3, <4>4, <4>5, <4>6 DEF Next
    <3> QED BY <1>2, <3>1, RowsLast
  <2> QED BY <2>2, <2>3 DEF Existing
<1> QED BY <1>1, <1>2

LEMMA FreshKeeps ==
    ASSUME FreshInv, [RaceNext]_raceVars
    PROVE  FreshInv'
<1>1. RaceInv'
  BY RaceKeeps DEF FreshInv
<1>2. (Contended \subseteq raced)' /\ raced \subseteq raced' /\ raced' \subseteq Grants
  <2>1. CASE UNCHANGED raceVars
    BY <1>1, <2>1 DEF FreshInv, RaceInv, raceVars
  <2>2. CASE RaceNext
    BY <2>2 DEF RaceNext, FreshInv, Contended
  <2> QED BY <2>1, <2>2
<1>3. Existing'
  BY ExistingKeeps DEF FreshInv, RaceInv, RaceNext, raceVars
<1>4. ASSUME NEW p \in Requests, NewRequest(p) PROVE CopiesFresh'
  <2>1. 0 \in Time /\ 0 \in Offsets
    BY Constants DEF Time
  <2> QED
    BY <1>2, <1>4, <2>1, FreshCreate, FreshRead
    DEF NewRequest, PatchExtend, PatchShorten, PostActivate, PatchExpire, Operations
<1>5. ASSUME NEW p \in Requests, RequestStep(p) PROVE CopiesFresh'
  BY <1>2, <1>5, FreshStep
<1>6. ASSUME NEW q \in Passes, PassStep(q) PROVE CopiesFresh'
  BY <1>2, <1>6, FreshPass
<1>7. ASSUME Tick PROVE CopiesFresh'
  <2>1. /\ UNCHANGED <<rows, task, pass>> /\ now' = now + 1 /\ now \in Nat
        /\ \A p \in Requests : task[p].obj.end \in Nat
    BY <1>7, Constants DEF Tick, FreshInv, RaceInv, IInv, TypeOK, Time, Task, Row
  <2>2. ASSUME NEW p \in Requests, HandlerFresh(task[p]) PROVE HandlerFresh(task[p])'
    BY <2>1, <2>2 DEF HandlerFresh, Saves
  <2> QED BY <1>2, <2>1, <2>2 DEF FreshInv, CopiesFresh
<1>8. ASSUME Crash PROVE CopiesFresh'
  BY <1>8, NobodyBusy DEF Crash, CopiesFresh, HandlerFresh
<1>9. ASSUME UNCHANGED raceVars PROVE CopiesFresh'
  BY <1>9 DEF raceVars, vars, FreshInv, CopiesFresh, HandlerFresh, Saves
<1>10. CopiesFresh'
  BY <1>4, <1>5, <1>6, <1>7, <1>8, <1>9 DEF Next, RaceNext
<1> QED BY <1>1, <1>2, <1>3, <1>10 DEF FreshInv

-----------------------------------------------------------------------------
(* Each step of the specification is a step of the contract or none.       *)

LEMMA OneRowMoves ==
    ASSUME NEW g \in Grants, \A h \in Grants \ {g} : rows'[h] = rows[h]
    PROVE  /\ [h \in Grants |-> rows[h].status]' =
                 [[h \in Grants |-> rows[h].status] EXCEPT ![g] = rows'[g].status]
           /\ [h \in Grants |-> rows[h].end]' =
                 [[h \in Grants |-> rows[h].end] EXCEPT ![g] = rows'[g].end]
           /\ [h \in Grants |-> rows[h].voucher]' =
                 [[h \in Grants |-> rows[h].voucher] EXCEPT ![g] = rows'[g].voucher]
OBVIOUS

LEMMA ColumnsStay ==
    ASSUME NEW g \in Grants, \A h \in Grants \ {g} : rows'[h] = rows[h]
    PROVE  /\ rows'[g].status = rows[g].status =>
                 UNCHANGED [h \in Grants |-> rows[h].status]
           /\ rows'[g].end = rows[g].end =>
                 UNCHANGED [h \in Grants |-> rows[h].end]
           /\ rows'[g].voucher = rows[g].voucher =>
                 UNCHANGED [h \in Grants |-> rows[h].voucher]
OBVIOUS

\* A step that changes one row as the contract allows.
LEMMA RowRefines ==
    ASSUME IInv, IInv', NEW g \in Grants, UNCHANGED now,
           \A h \in Grants \ {g} : rows'[h] = rows[h],
           \A h \in Grants \ {g} :
              rows'[g].voucher # NoVoucher => rows[h].voucher # rows'[g].voucher,
           \/ /\ rows[g].status = "none" /\ rows'[g].status = "pending"
              /\ rows'[g].voucher = rows[g].voucher
           \/ /\ rows[g].status = "pending" /\ rows'[g].status = "active"
              /\ rows'[g].end = rows[g].end /\ rows[g].voucher = NoVoucher
           \/ /\ rows[g].status \in Open /\ rows'[g].status = rows[g].status
              /\ rows'[g].voucher = rows[g].voucher
           \/ /\ rows[g].status \in Open /\ rows'[g].status = "revoked"
              /\ rows'[g].voucher = rows[g].voucher /\ rows'[g].end = rows[g].end
           \/ /\ rows[g].status # "none" /\ rows'[g].status = "expired"
              /\ rows'[g].end <= now /\ rows'[g].voucher = rows[g].voucher
           \/ g \in raced' /\ rows[g].status # "none" /\ rows'[g].status # "none"
    PROVE  Contract!Step
<1>1. rows'[g].end \in 0 .. MaxTime /\ rows'[g].voucher \in Vouchers \cup {NoVoucher}
  BY DEF IInv, TypeOK, Row, Time
<1>2. PICK end \in 0 .. MaxTime : end = rows'[g].end
  BY <1>1
<1>3. PICK v \in Vouchers \cup {NoVoucher} : v = rows'[g].voucher
  BY <1>1
<1>4. CASE /\ rows[g].status = "none" /\ rows'[g].status = "pending"
           /\ rows'[g].voucher = rows[g].voucher
  <2>1. Contract!Create(g, end)
    BY <1>2, <1>4, OneRowMoves, ColumnsStay DEF Contract!Create, Contract!Becomes
  <2> QED BY <2>1 DEF Contract!Step
<1>5. CASE /\ rows[g].status = "pending" /\ rows'[g].status = "active"
           /\ rows'[g].end = rows[g].end /\ rows[g].voucher = NoVoucher
  <2>1. Contract!Activate(g, v)
    BY <1>3, <1>5, OneRowMoves, ColumnsStay DEF Contract!Activate, Contract!Becomes,
       Contract!Unshared
  <2> QED BY <2>1 DEF Contract!Step
<1>6. CASE /\ rows[g].status \in Open /\ rows'[g].status = rows[g].status
           /\ rows'[g].voucher = rows[g].voucher
  <2>1. Contract!MoveEnd(g, end)
    BY <1>2, <1>6, OneRowMoves, ColumnsStay DEF Contract!MoveEnd, Contract!Open, Open
  <2> QED BY <2>1 DEF Contract!Step
<1>7. CASE /\ rows[g].status \in Open /\ rows'[g].status = "revoked"
           /\ rows'[g].voucher = rows[g].voucher /\ rows'[g].end = rows[g].end
  <2>1. Contract!Revoke(g)
    BY <1>7, OneRowMoves, ColumnsStay
       DEF Contract!Revoke, Contract!Becomes, Contract!Open, Open
  <2> QED BY <2>1 DEF Contract!Step
<1>8. CASE /\ rows[g].status # "none" /\ rows'[g].status = "expired"
           /\ rows'[g].end <= now /\ rows'[g].voucher = rows[g].voucher
  <2>1. Contract!ForceExpire(g, end)
    BY <1>2, <1>8, OneRowMoves, ColumnsStay DEF Contract!ForceExpire, Contract!Becomes
  <2> QED BY <2>1 DEF Contract!Step
<1>9. CASE g \in raced' /\ rows[g].status # "none" /\ rows'[g].status # "none"
  <2>1. rows'[g].status \in Contract!Open \cup Contract!Closed
    BY <1>9 DEF IInv, TypeOK, Row, Open, Closed, Contract!Open, Contract!Closed
  <2>2. Contract!Overwrite(g)
    BY <1>1, <1>9, <2>1, OneRowMoves
       DEF Contract!Overwrite, Contract!Becomes, Contract!Unshared
  <2> QED BY <2>2 DEF Contract!Step
<1> QED BY <1>4, <1>5, <1>6, <1>7, <1>8, <1>9

\* No row but g's bears the voucher that g's row will.
LEMMA OwnVoucher ==
    ASSUME FreshInv, NEW g \in Grants, NEW v, Belongs(v, g)
    PROVE  \A h \in Grants \ {g} : v # NoVoucher => rows[h].voucher # v
BY DEF FreshInv, RaceInv, Ownership, Belongs

LEMMA SaveRefines ==
    ASSUME FreshInv, IInv', raced \subseteq raced', NEW p \in Requests, SaveRow(p)
    PROVE  Contract!Step
<1>1. task[p].pc = "save"
  BY DEF SaveRow
<1>2. /\ task[p].grant \in Grants
      /\ task[p].op \in {"activate", "extend", "shorten", "revoke", "expire",
                         "activation_error"}
  BY <1>1 DEF FreshInv, RaceInv, IInv, TaskOK, Operations
<1>g. PICK g \in Grants : g = task[p].grant
  BY <1>2
<1>3. /\ UNCHANGED now /\ rows'[g] = task[p].obj
      /\ \A h \in Grants \ {g} : rows'[h] = rows[h]
  BY <1>g DEF SaveRow, Stored, FreshInv, RaceInv, IInv, TypeOK
<1>4. rows[g].status # "none" /\ task[p].obj.status # "none"
  BY <1>g, <1>1 DEF FreshInv, Existing
<1>5. Belongs(rows'[g].voucher, g)
  BY <1>g, <1>1, <1>3 DEF FreshInv, RaceInv, Ownership
<1>6. \A h \in Grants \ {g} :
         rows'[g].voucher # NoVoucher => rows[h].voucher # rows'[g].voucher
  BY <1>5, OwnVoucher
<1>7. CASE g \in raced'
  BY <1>3, <1>4, <1>6, <1>7, RowRefines DEF FreshInv, RaceInv
<1>8. CASE g \notin raced'
  <2>1. Saves(rows[g], task[p])
    BY <1>g, <1>1, <1>8 DEF FreshInv, CopiesFresh, HandlerFresh
  <2>2. CASE task[p].op = "activate"
    <3>1. rows[g].status = "pending" /\ rows'[g].status = "active"
          /\ rows'[g].end = rows[g].end
      BY <1>3, <2>1, <2>2 DEF Saves
    <3>2. rows[g].voucher = NoVoucher
      BY <3>1 DEF FreshInv, RaceInv, IInv, RowsConsistent, Coherent
    <3> QED BY <1>3, <1>6, <3>1, <3>2, RowRefines DEF FreshInv, RaceInv
  <2>3. CASE task[p].op \in {"extend", "shorten"}
    BY <1>3, <1>6, <2>1, <2>3, RowRefines DEF Saves, FreshInv, RaceInv
  <2>4. CASE task[p].op = "revoke"
    BY <1>3, <1>6, <2>1, <2>4, RowRefines DEF Saves, FreshInv, RaceInv
  <2>5. CASE task[p].op = "expire"
    BY <1>3, <1>4, <1>6, <2>1, <2>5, RowRefines DEF Saves, FreshInv, RaceInv
  <2>6. CASE task[p].op = "activation_error"
    BY <1>3, <2>1, <2>6, ColumnsStay DEF Saves, Contract!Step, Contract!grants
  <2> QED BY <1>2, <2>2, <2>3, <2>4, <2>5, <2>6
<1> QED BY <1>7, <1>8

LEMMA ExpireRefines ==
    ASSUME FreshInv, IInv', raced \subseteq raced', NEW q \in Passes, NEW g \in Grants,
           ExpireRow(q, g)
    PROVE  Contract!Step
<1>1. g \in pass[q].todo /\ pass[q].copy[g] \in Row /\ UNCHANGED now
  BY DEF ExpireRow, FreshInv, RaceInv, IInv, TypeOK, Pass
<1>2. /\ rows'[g] = [pass[q].copy[g] EXCEPT !.status = "expired"]
      /\ \A h \in Grants \ {g} : rows'[h] = rows[h]
  BY DEF ExpireRow, Stored, FreshInv, RaceInv, IInv, TypeOK
<1>3. /\ rows'[g].status = "expired" /\ rows'[g].end = pass[q].copy[g].end
      /\ rows'[g].voucher = pass[q].copy[g].voucher /\ rows[g].status # "none"
  BY <1>1, <1>2 DEF Row, FreshInv, Existing
<1>4. pass[q].copy[g].end <= now /\ Belongs(rows'[g].voucher, g)
  BY <1>1, <1>3 DEF FreshInv, RaceInv, IInv, PassOK, Ownership
<1>5. \A h \in Grants \ {g} :
         rows'[g].voucher # NoVoucher => rows[h].voucher # rows'[g].voucher
  BY <1>4, OwnVoucher
<1>6. g \in raced' \/ pass[q].copy[g] = rows[g]
  BY <1>1 DEF FreshInv, CopiesFresh
<1> QED BY <1>1, <1>2, <1>3, <1>4, <1>5, <1>6, RowRefines DEF FreshInv, RaceInv

LEMMA StepRefines ==
    ASSUME FreshInv, IInv', raced \subseteq raced', Next
    PROVE  Contract!Step
<1>1. ASSUME UNCHANGED <<now, rows>> PROVE Contract!Step
  BY <1>1 DEF Contract!Step, Contract!grants
<1>2. ASSUME NEW p \in Requests, NewRequest(p) PROVE Contract!Step
  <2>1. CASE \E g \in Grants, start, end \in Time, zone \in Zones :
                CreateGrant(p, g, start, end, zone)
    <3>1. PICK g \in Grants, start \in Time, end \in Time, zone \in Zones :
                CreateGrant(p, g, start, end, zone)
      BY <2>1
    <3>2. /\ UNCHANGED now /\ rows[g].status = "none" /\ rows'[g].status = "pending"
          /\ rows'[g].voucher = NoVoucher /\ \A h \in Grants \ {g} : rows'[h] = rows[h]
      BY <3>1 DEF CreateGrant, FreshInv, RaceInv, IInv, TypeOK, NoRow
    <3>3. rows[g].voucher = NoVoucher
      BY <3>2 DEF FreshInv, RaceInv, IInv, RowsConsistent, Coherent
    <3> QED BY <3>2, <3>3, RowRefines DEF FreshInv, RaceInv
  <2>2. CASE UNCHANGED <<now, rows>>
    BY <1>1, <2>2
  <2> QED
    BY <1>2, <2>1, <2>2
       DEF NewRequest, PatchExtend, PatchShorten, PostActivate, PatchExpire, ReadGrant
<1>3. ASSUME NEW p \in Requests, RequestStep(p) PROVE Contract!Step
  <2>1. CASE SaveRow(p)
    BY <2>1, SaveRefines
  <2>2. CASE UNCHANGED <<now, rows>>
    BY <1>1, <2>2
  <2> QED
    BY <1>3, <2>1, <2>2
       DEF RequestStep, LogCreated, Refuse, StartActivation, ApplyChange,
           ProvisionReturns, ProvisionRaises, Attempt, ControllerMissing, SaveRefused,
           SaveFails, DatabaseFails, ExtendVoucher, RevokeVoucher, CallController,
           LogOutcome, LogFails
<1>4. ASSUME NEW q \in Passes, PassStep(q) PROVE Contract!Step
  <2>1. CASE UNCHANGED <<now, rows>>
    BY <1>1, <2>1
  <2> QED
    BY <1>4, <2>1, ExpireRefines DEF PassStep, StartPass, ExpireFails, LogExpired,
                                     LogExpiredFails, RevokeExpired
<1>5. ASSUME Tick PROVE Contract!Step
  BY <1>5 DEF Tick, Contract!Step, Contract!Tick, Contract!grants
<1>6. ASSUME Crash PROVE Contract!Step
  BY <1>1, <1>6 DEF Crash
<1> QED BY <1>2, <1>3, <1>4, <1>5, <1>6 DEF Next

\* Every request and every expiry is one step of the contract of the grant
\* endpoints (api/grants.py), however many overlap, whatever the controller
\* answers and wherever the process dies: unless two of them had the grant in
\* hand at once, nothing reopens it once closed, and its voucher is bound once.
THEOREM GrantsKeepContract == RaceSpec => ImplementsContract
<1>1. RaceInit => FreshInv /\ Contract!Init
  <2> SUFFICES ASSUME RaceInit PROVE FreshInv /\ Contract!Init
    OBVIOUS
  <2>1. CopiesFresh /\ Existing /\ raced \subseteq Grants
    BY NobodyBusy DEF RaceInit, Init, CopiesFresh, Existing, HandlerFresh
  <2>2. Contract!Init
    BY DEF RaceInit, Init, Contract!Init, NoRow
  <2> QED BY <2>1, <2>2, RaceStarts DEF FreshInv
<1>2. FreshInv /\ [RaceNext]_raceVars => FreshInv'
  BY FreshKeeps
<1>3. FreshInv /\ [RaceNext]_raceVars => [Contract!Next]_(Contract!vars)
  <2> SUFFICES ASSUME FreshInv, [RaceNext]_raceVars
               PROVE  Contract!Next \/ UNCHANGED Contract!vars
    OBVIOUS
  <2>1. CASE UNCHANGED raceVars
    BY <2>1 DEF raceVars, vars, Contract!vars, Contract!grants
  <2>2. CASE RaceNext
    <3>1. FreshInv' /\ raced \subseteq raced'
      BY <2>2, FreshKeeps DEF RaceNext
    <3>2. Contract!Step
      BY <2>2, <3>1, StepRefines DEF RaceNext, FreshInv, RaceInv
    <3> QED BY <3>1, <3>2 DEF Contract!Next, FreshInv
  <2> QED BY <2>1, <2>2
<1> QED
  BY <1>1, <1>2, <1>3, PTL DEF RaceSpec, ImplementsContract, Contract!Spec

=============================================================================
