-------------------------- MODULE PortalUsesProofs --------------------------
(***************************************************************************)
(* Uses and deactivations of the vouchers that no two requests ever held   *)
(* at once: every grant is a use counted, and off is off.  And the whole   *)
(* of VoucherContract, which a race for a voucher waives for that voucher. *)
(***************************************************************************)
EXTENDS PortalAccessProofs

\* One request at most holds a copy of v ...
Sole(v) == \A x, y \in Holding(v) : x = y

\* ... which is the row, or the row as it is about to be saved.  Who found no
\* row has nothing to redeem, even if one has been created since.
HandlersFresh(v) == \A p \in Handlers : task[p].code = v =>
    /\ task[p].pc = "decide" => task[p].copy = rows[v] \/ task[p].copy.status = "none"
    /\ task[p].pc = "use" => task[p].copy = Used(v, rows[v]) /\ rows[v].status = "active"

AdminsFresh(v) == \A a \in Admins : admin[a].code = v =>
    /\ admin[a].pc = "save"
    /\ admin[a].copy = Deactivated(rows[v]) /\ rows[v].status # "none"

\* The handlers whose use is saved and whose grant is still to be made.
Creating(v) == {p \in Handlers : task[p].pc = "create" /\ task[p].code = v}

UsesInv(v) ==
    /\ Sole(v) /\ HandlersFresh(v) /\ AdminsFresh(v)
    /\ v \in off => rows[v].status = "inactive"
    /\ made[v] + Cardinality(Creating(v)) <= rows[v].uses

AllUsesInv == \A v \in Vouchers \ raced : UsesInv(v)

AdminsIdle == \A a \in Admins : admin[a].pc = "idle" => admin[a].code \notin Vouchers

UInv == IInv /\ AdminsIdle /\ AllUsesInv

-----------------------------------------------------------------------------

LEMMA CreatingCount ==
    ASSUME NEW v
    PROVE  IsFiniteSet(Creating(v)) /\ Cardinality(Creating(v)) \in Nat
BY HandlersCount DEF Creating

\* A voucher nobody touches keeps what it has.
LEMMA UsesStay ==
    ASSUME NEW v \in Vouchers, UsesInv(v),
           rows'[v] = rows[v], made'[v] = made[v], v \in off' => v \in off,
           \A p \in Handlers : \/ task'[p] = task[p]
                               \/ task'[p].pc \notin {"decide", "use", "create"}
                               \/ task'[p].code # v,
           \A a \in Admins : admin'[a] = admin[a] \/ admin'[a].code # v,
           made[v] \in Nat, rows[v].uses \in Nat
    PROVE  UsesInv(v)'
<1>1. Holding(v)' \subseteq Holding(v)
  BY DEF Holding
<1>2. Sole(v)'
  BY <1>1 DEF UsesInv, Sole
<1>3. HandlersFresh(v)' /\ AdminsFresh(v)'
  BY DEF UsesInv, HandlersFresh, AdminsFresh, Used, Exhausted
<1>4. Creating(v)' \subseteq Creating(v)
  BY DEF Creating
<1>5. /\ Cardinality(Creating(v)') <= Cardinality(Creating(v))
      /\ Cardinality(Creating(v)') \in Nat /\ Cardinality(Creating(v)) \in Nat
  BY <1>4, CreatingCount, FS_Subset, FS_CardinalityType
<1>6. made'[v] + Cardinality(Creating(v)') <= rows'[v].uses
  BY <1>5 DEF UsesInv
<1> QED
  BY <1>2, <1>3, <1>6 DEF UsesInv

LEMMA CountTypes ==
    ASSUME IInv, NEW v \in Vouchers
    PROVE  made[v] \in Nat /\ rows[v].uses \in Nat /\ rows[v] \in Voucher
BY DEF IInv, TypeOK, Voucher

\* Steps of a handler that neither takes a copy nor writes one.
LEMMA HandlerQuiet ==
    ASSUME UInv, NEW p \in Handlers, NEW t \in Task,
           task' = [task EXCEPT ![p] = t],
           t = task[p] \/ t.pc \notin {"decide", "use", "create"},
           UNCHANGED <<rows, admin, made, off, raced>>
    PROVE  AdminsIdle' /\ AllUsesInv'
<1>1. AdminsIdle'
  BY DEF UInv, AdminsIdle
<1>2. \A q \in Handlers : task'[q] = IF q = p THEN t ELSE task[q]
  BY DEF UInv, IInv, TypeOK
<1>3. ASSUME NEW v \in Vouchers \ raced PROVE UsesInv(v)'
  <2>1. UsesInv(v) /\ made[v] \in Nat /\ rows[v].uses \in Nat
    BY CountTypes DEF UInv, AllUsesInv
  <2> QED
    BY <1>2, <2>1, UsesStay
<1> QED
  BY <1>1, <1>3 DEF AllUsesInv

LEMMA AcceptUses ==
    ASSUME UInv, NEW p \in Handlers, Accept(p)
    PROVE  AdminsIdle' /\ AllUsesInv'
<1> DEFINE c == task[p].code
<1>1. c \in Vouchers /\ task[p].copy.status = "active"
  BY DEF Accept, Redeemable, Accepts
<1>2. UNCHANGED <<rows, admin, made, off, raced>>
  BY DEF Accept, history
<1>3. /\ task'[p].pc = "use" /\ task'[p].code = c /\ task'[p].copy = Used(c, task[p].copy)
      /\ \A q \in Handlers \ {p} : task'[q] = task[q]
  BY DEF Accept, UInv, IInv, TypeOK, Task
<1>4. AdminsIdle'
  BY <1>2 DEF UInv, AdminsIdle
<1>5. ASSUME NEW v \in Vouchers \ raced PROVE UsesInv(v)'
  <2>1. UsesInv(v) /\ made[v] \in Nat /\ rows[v].uses \in Nat
    BY CountTypes DEF UInv, AllUsesInv
  <2>2. CASE v # c
    BY <1>2, <1>3, <2>1, <2>2, UsesStay
  <2>3. CASE v = c
    <3>1. Holding(v)' = Holding(v)
      BY <1>2, <1>3, <2>3 DEF Holding, Accept
    <3>2. task[p].copy = rows[v] /\ rows[v].status = "active"
      BY <1>1, <2>1, <2>3 DEF UsesInv, HandlersFresh, Accept
    <3>3. HandlersFresh(v)'
      BY <1>2, <1>3, <2>1, <2>3, <3>2 DEF UsesInv, HandlersFresh, Used, Exhausted
    <3>4. Creating(v)' = Creating(v)
      BY <1>3 DEF Creating, Accept
    <3> QED
      BY <1>2, <2>1, <3>1, <3>3, <3>4 DEF UsesInv, Sole, AdminsFresh
  <2> QED
    BY <2>2, <2>3
<1> QED
  BY <1>2, <1>4, <1>5 DEF AllUsesInv

LEMMA LookupUses ==
    ASSUME UInv, NEW p \in Handlers, Lookup(p)
    PROVE  AdminsIdle' /\ AllUsesInv'
<1> DEFINE c == task[p].code
<1>1. UNCHANGED <<rows, admin, made, off>>
  BY DEF Lookup
<1>2. AdminsIdle'
  BY <1>1 DEF UInv, AdminsIdle
<1>3. CASE c \in Vouchers
  <2>1. /\ task'[p].pc = "decide" /\ task'[p].code = c /\ task'[p].copy = rows[c]
        /\ \A q \in Handlers \ {p} : task'[q] = task[q]
        /\ raced' = IF Holding(c) = {} THEN raced ELSE raced \cup {c}
    BY <1>3 DEF Lookup, MarkRace, UInv, IInv, TypeOK, Task
  <2>2. ASSUME NEW v \in Vouchers \ raced' PROVE UsesInv(v)'
    <3>1. UsesInv(v) /\ made[v] \in Nat /\ rows[v].uses \in Nat
      BY <2>1, CountTypes DEF UInv, AllUsesInv
    <3>2. CASE v # c
      BY <1>1, <2>1, <3>1, <3>2, UsesStay
    <3>3. CASE v = c
      <4>1. Holding(v) = {}
        BY <2>1, <3>3
      <4>2. Holding(v)' = {p}
        BY <1>1, <2>1, <3>3, <4>1 DEF Holding
      <4>3. HandlersFresh(v)'
        BY <1>1, <2>1, <3>1, <3>3 DEF UsesInv, HandlersFresh, Used, Exhausted
      <4>4. Creating(v)' = Creating(v)
        BY <2>1 DEF Creating, Lookup
      <4> QED
        BY <1>1, <3>1, <4>2, <4>3, <4>4 DEF UsesInv, Sole, AdminsFresh
    <3> QED
      BY <3>2, <3>3
  <2> QED
    BY <1>2, <2>2 DEF AllUsesInv
<1>4. CASE c \notin Vouchers
  <2>1. /\ task'[p].code = c /\ \A q \in Handlers \ {p} : task'[q] = task[q]
        /\ UNCHANGED raced
    BY <1>4 DEF Lookup, UInv, IInv, TypeOK, Task
  <2>2. ASSUME NEW v \in Vouchers \ raced PROVE UsesInv(v)'
    <3>1. UsesInv(v) /\ made[v] \in Nat /\ rows[v].uses \in Nat
      BY CountTypes DEF UInv, AllUsesInv
    <3> QED
      BY <1>1, <1>4, <2>1, <3>1, UsesStay
  <2> QED
    BY <1>2, <2>1, <2>2 DEF AllUsesInv
<1> QED
  BY <1>3, <1>4

\* The use that is saved is the one the grant to come will be counted by.
LEMMA SaveUseUses ==
    ASSUME UInv, NEW p \in Handlers, SaveUse(p)
    PROVE  AdminsIdle' /\ AllUsesInv'
<1> DEFINE c == task[p].code
<1>1. c \in Vouchers
  BY DEF SaveUse, UInv, IInv, TaskOK
<1>2. UNCHANGED <<admin, made, off, raced>>
  BY DEF SaveUse, history
<1>3. /\ task'[p].pc = "create" /\ task'[p].code = c
      /\ \A q \in Handlers \ {p} : task'[q] = task[q]
      /\ \A v \in Vouchers : rows'[v] = IF v = c THEN task[p].copy ELSE rows[v]
  BY <1>1 DEF SaveUse, UInv, IInv, TypeOK, Task
<1>4. AdminsIdle'
  BY <1>2 DEF UInv, AdminsIdle
<1>5. ASSUME NEW v \in Vouchers \ raced PROVE UsesInv(v)'
  <2>1. UsesInv(v) /\ made[v] \in Nat /\ rows[v].uses \in Nat /\ rows[v] \in Voucher
    BY CountTypes DEF UInv, AllUsesInv
  <2>2. CASE v # c
    BY <1>2, <1>3, <2>1, <2>2, UsesStay
  <2>3. CASE v = c
    <3>1. p \in Holding(v)
      BY <2>3 DEF Holding, SaveUse
    <3>2. Holding(v) = {p}
      BY <2>1, <3>1 DEF UsesInv, Sole
    <3>3. Holding(v)' = {}
      <4>1. \A q \in Handlers \ {p} : q \notin Holding(v)
        BY <3>2
      <4>2. \A a \in Admins : admin[a].code # v
        <5>1. p \notin Admins
          BY PortalAssumption
        <5> QED
          BY <3>2, <5>1 DEF Holding
      <4> QED
        BY <1>2, <1>3, <4>1, <4>2 DEF Holding
    <3>4. rows'[v] = Used(v, rows[v]) /\ v \notin off
      BY <1>3, <2>1, <2>3 DEF UsesInv, HandlersFresh, SaveUse
    <3>5. rows'[v].uses = rows[v].uses + 1
      BY <2>1, <3>4 DEF Used, Voucher
    <3>6. HandlersFresh(v)' /\ AdminsFresh(v)' /\ Sole(v)'
      <4>1. \A q \in Handlers : task'[q].code = v => task'[q].pc \notin {"decide", "use"}
        BY <3>3 DEF Holding
      <4>2. \A a \in Admins : admin'[a].code # v
        BY <3>3 DEF Holding
      <4> QED
        BY <3>3, <4>1, <4>2 DEF HandlersFresh, AdminsFresh, Sole
    <3>7. Creating(v)' = Creating(v) \cup {p}
      BY <1>3, <2>3 DEF Creating
    <3>8. Cardinality(Creating(v)') <= Cardinality(Creating(v)) + 1
          /\ Cardinality(Creating(v)') \in Nat /\ Cardinality(Creating(v)) \in Nat
      <4>1. IsFiniteSet(Creating(v)) /\ Cardinality(Creating(v)) \in Nat
        BY CreatingCount
      <4>2. /\ IsFiniteSet(Creating(v) \cup {p})
            /\ Cardinality(Creating(v) \cup {p}) =
                 IF p \in Creating(v) THEN Cardinality(Creating(v))
                 ELSE Cardinality(Creating(v)) + 1
        BY <4>1, FS_AddElement
      <4> QED
        BY <3>7, <4>1, <4>2, FS_CardinalityType
    <3>9. made'[v] + Cardinality(Creating(v)') <= rows'[v].uses
      BY <1>2, <2>1, <3>5, <3>8 DEF UsesInv
    <3> QED
      BY <1>2, <3>4, <3>6, <3>9 DEF UsesInv
  <2> QED
    BY <2>2, <2>3
<1> QED
  BY <1>2, <1>4, <1>5 DEF AllUsesInv

LEMMA CreateGrantUses ==
    ASSUME UInv, NEW p \in Handlers, CreateGrant(p)
    PROVE  AdminsIdle' /\ AllUsesInv'
<1> DEFINE c == task[p].code
<1>1. c \in Vouchers
  BY DEF CreateGrant, UInv, IInv, TaskOK
<1>2. UNCHANGED <<rows, admin, off, raced>>
  BY DEF CreateGrant
<1>3. /\ task'[p].pc = "activate" /\ task'[p].code = c
      /\ \A q \in Handlers \ {p} : task'[q] = task[q]
      /\ \A v \in Vouchers : made'[v] = IF v = c THEN made[v] + 1 ELSE made[v]
  BY <1>1 DEF CreateGrant, UInv, IInv, TypeOK, Task
<1>4. AdminsIdle'
  BY <1>2 DEF UInv, AdminsIdle
<1>5. ASSUME NEW v \in Vouchers \ raced PROVE UsesInv(v)'
  <2>1. UsesInv(v) /\ made[v] \in Nat /\ rows[v].uses \in Nat
    BY CountTypes DEF UInv, AllUsesInv
  <2>2. CASE v # c
    BY <1>2, <1>3, <2>1, <2>2, UsesStay
  <2>3. CASE v = c
    <3>1. Holding(v)' = Holding(v)
      BY <1>2, <1>3, <2>3 DEF Holding, CreateGrant
    <3>2. HandlersFresh(v)' /\ AdminsFresh(v)' /\ Sole(v)'
      BY <1>2, <1>3, <2>1, <3>1 DEF UsesInv, HandlersFresh, AdminsFresh, Sole, Used, Exhausted
    <3>3. p \in Creating(v) /\ Creating(v)' = Creating(v) \ {p}
      BY <1>3, <2>3 DEF Creating, CreateGrant
    <3>4. /\ Cardinality(Creating(v)') = Cardinality(Creating(v)) - 1
          /\ Cardinality(Creating(v)') \in Nat /\ Cardinality(Creating(v)) \in Nat
      <4>1. IsFiniteSet(Creating(v)) /\ Cardinality(Creating(v)) \in Nat
        BY CreatingCount
      <4>2. /\ IsFiniteSet(Creating(v) \ {p})
            /\ Cardinality(Creating(v) \ {p}) =
                 IF p \in Creating(v) THEN Cardinality(Creating(v)) - 1
                 ELSE Cardinality(Creating(v))
        BY <4>1, FS_RemoveElement
      <4> QED
        BY <3>3, <4>1, <4>2, FS_CardinalityType
    <3>5. made'[v] + Cardinality(Creating(v)') <= rows'[v].uses
      BY <1>2, <1>3, <2>1, <2>3, <3>4 DEF UsesInv
    <3> QED
      BY <1>2, <2>1, <3>2, <3>5 DEF UsesInv
  <2> QED
    BY <2>2, <2>3
<1> QED
  BY <1>2, <1>4, <1>5 DEF AllUsesInv

-----------------------------------------------------------------------------
(* Administration.                                                         *)

\* A row is made active only when there is none, so before anyone held it.
LEMMA CreateVoucherUses ==
    ASSUME UInv, NEW c \in Vouchers, CreateVoucher(c)
    PROVE  AdminsIdle' /\ AllUsesInv'
<1>1. UNCHANGED <<task, admin, made, off, raced>>
  BY DEF CreateVoucher, history
<1>2. \A v \in Vouchers : rows'[v] = IF v = c THEN [rows[c] EXCEPT !.status = "active"] ELSE rows[v]
  BY DEF CreateVoucher, UInv, IInv, TypeOK
<1>3. AdminsIdle'
  BY <1>1 DEF UInv, AdminsIdle
<1>4. ASSUME NEW v \in Vouchers \ raced PROVE UsesInv(v)'
  <2>1. UsesInv(v) /\ made[v] \in Nat /\ rows[v].uses \in Nat /\ rows[v] \in Voucher
    BY CountTypes DEF UInv, AllUsesInv
  <2>2. CASE v # c
    BY <1>1, <1>2, <2>1, <2>2, UsesStay
  <2>3. CASE v = c
    <3>1. /\ rows[v].status = "none" /\ v \notin off
          /\ rows'[v].status = "active" /\ rows'[v].uses = rows[v].uses
      BY <1>2, <2>1, <2>3 DEF CreateVoucher, UsesInv, Voucher
    <3>2. Holding(v)' = Holding(v) /\ Creating(v)' = Creating(v)
      BY <1>1 DEF Holding, Creating
    <3>3. HandlersFresh(v)'
      BY <1>1, <2>1, <3>1 DEF UsesInv, HandlersFresh
    <3>4. AdminsFresh(v)'
      BY <1>1, <2>1, <3>1 DEF UsesInv, AdminsFresh
    <3> QED
      BY <1>1, <2>1, <3>1, <3>2, <3>3, <3>4 DEF UsesInv, Sole
  <2> QED
    BY <2>2, <2>3
<1> QED
  BY <1>1, <1>3, <1>4 DEF AllUsesInv

LEMMA DeleteVoucherUses ==
    ASSUME UInv, NEW a \in Admins, NEW c \in Vouchers, DeleteVoucher(a, c)
    PROVE  AdminsIdle' /\ AllUsesInv'
<1>1. UNCHANGED <<rows, task, made, off>>
  BY DEF DeleteVoucher
<1>2. /\ admin'[a].pc = "save" /\ admin'[a].code = c
      /\ admin'[a].copy = Deactivated(rows[c]) /\ rows[c].status # "none"
      /\ \A b \in Admins \ {a} : admin'[b] = admin[b]
      /\ raced' = IF Holding(c) = {} THEN raced ELSE raced \cup {c}
  BY DEF DeleteVoucher, MarkRace, UInv, IInv, TypeOK
<1>3. AdminsIdle'
  BY <1>2 DEF UInv, AdminsIdle
<1>4. ASSUME NEW v \in Vouchers \ raced' PROVE UsesInv(v)'
  <2>1. UsesInv(v) /\ made[v] \in Nat /\ rows[v].uses \in Nat
    BY <1>2, CountTypes DEF UInv, AllUsesInv
  <2>2. CASE v # c
    BY <1>1, <1>2, <2>1, <2>2, UsesStay
  <2>3. CASE v = c
    <3>1. Holding(v) = {}
      BY <1>2, <2>3
    <3>2. Holding(v)' = {a}
      BY <1>1, <1>2, <2>3, <3>1 DEF Holding
    <3>3. AdminsFresh(v)'
      BY <1>1, <1>2, <2>1, <2>3 DEF UsesInv, AdminsFresh, Deactivated
    <3>4. Creating(v)' = Creating(v)
      BY <1>1 DEF Creating
    <3> QED
      BY <1>1, <2>1, <3>2, <3>3, <3>4 DEF UsesInv, Sole, HandlersFresh, Used, Exhausted
  <2> QED
    BY <2>2, <2>3
<1> QED
  BY <1>3, <1>4 DEF AllUsesInv

\* The row that is saved is the row there is, deactivated.
LEMMA SaveInactiveUses ==
    ASSUME UInv, NEW a \in Admins, SaveInactive(a)
    PROVE  AdminsIdle' /\ AllUsesInv'
<1> DEFINE c == admin[a].code
<1>1. c \in Vouchers
  BY DEF SaveInactive, UInv, IInv, DeletionOK
<1>2. UNCHANGED <<task, made, raced>> /\ off' = off \cup {c}
  BY DEF SaveInactive
<1>3. /\ admin'[a] = NoDeletion /\ \A b \in Admins \ {a} : admin'[b] = admin[b]
      /\ \A v \in Vouchers : rows'[v] = IF v = c THEN admin[a].copy ELSE rows[v]
      /\ NoDeletion.pc = "idle" /\ NoDeletion.code \notin Vouchers
  BY <1>1, Constants DEF SaveInactive, UInv, IInv, TypeOK, NoDeletion
<1>4. AdminsIdle'
  BY <1>3 DEF UInv, AdminsIdle
<1>5. ASSUME NEW v \in Vouchers \ raced PROVE UsesInv(v)'
  <2>1. UsesInv(v) /\ made[v] \in Nat /\ rows[v].uses \in Nat /\ rows[v] \in Voucher
    BY CountTypes DEF UInv, AllUsesInv
  <2>2. CASE v # c
    BY <1>2, <1>3, <2>1, <2>2, UsesStay
  <2>3. CASE v = c
    <3>1. Holding(v) = {a}
      BY <2>1, <2>3 DEF UsesInv, Sole, Holding
    <3>2. /\ \A q \in Handlers : task[q].code = v => task[q].pc \notin {"decide", "use"}
          /\ \A b \in Admins \ {a} : admin[b].code # v
      <4>1. Handlers \cap Admins = {}
        BY PortalAssumption
      <4> QED
        BY <3>1, <4>1 DEF Holding
    <3>3. HandlersFresh(v)' /\ AdminsFresh(v)' /\ Holding(v)' = {}
      BY <1>2, <1>3, <3>2 DEF HandlersFresh, AdminsFresh, Holding
    <3>4. rows'[v].status = "inactive" /\ rows'[v].uses = rows[v].uses
      BY <1>3, <2>1, <2>3 DEF UsesInv, AdminsFresh, Deactivated, Voucher
    <3>5. Creating(v)' = Creating(v)
      BY <1>2 DEF Creating
    <3> QED
      BY <1>2, <2>1, <3>3, <3>4, <3>5 DEF UsesInv, Sole
  <2> QED
    BY <2>2, <2>3
<1> QED
  BY <1>2, <1>4, <1>5 DEF AllUsesInv

LEMMA SaveInactiveFailsUses ==
    ASSUME UInv, NEW a \in Admins, SaveInactiveFails(a)
    PROVE  AdminsIdle' /\ AllUsesInv'
<1>1. UNCHANGED <<rows, task, made, off, raced>>
  BY DEF SaveInactiveFails, history
<1>2. /\ admin'[a] = NoDeletion /\ \A b \in Admins \ {a} : admin'[b] = admin[b]
      /\ NoDeletion.pc = "idle" /\ NoDeletion.code \notin Vouchers
  BY Constants DEF SaveInactiveFails, UInv, IInv, TypeOK, NoDeletion
<1>3. AdminsIdle'
  BY <1>2 DEF UInv, AdminsIdle
<1>4. ASSUME NEW v \in Vouchers \ raced PROVE UsesInv(v)'
  <2>1. UsesInv(v) /\ made[v] \in Nat /\ rows[v].uses \in Nat
    BY CountTypes DEF UInv, AllUsesInv
  <2> QED
    BY <1>1, <1>2, <2>1, UsesStay
<1> QED
  BY <1>1, <1>3, <1>4 DEF AllUsesInv

LEMMA RestartUses ==
    ASSUME UInv, Restart
    PROVE  AdminsIdle' /\ AllUsesInv'
<1>1. /\ UNCHANGED <<rows, made, off, raced>>
      /\ \A p \in Handlers : task'[p].pc = "idle"
      /\ \A a \in Admins : admin'[a].code \notin Vouchers
  BY Constants, IdleTypes DEF Restart, history, NoDeletion
<1>2. AdminsIdle'
  BY <1>1 DEF AdminsIdle
<1>3. ASSUME NEW v \in Vouchers \ raced PROVE UsesInv(v)'
  <2>1. UsesInv(v) /\ made[v] \in Nat /\ rows[v].uses \in Nat
    BY CountTypes DEF UInv, AllUsesInv
  <2> QED
    BY <1>1, <2>1, UsesStay
<1> QED
  BY <1>1, <1>2, <1>3 DEF AllUsesInv

-----------------------------------------------------------------------------
(* The other steps of a handler neither take a copy nor write one.         *)

LEMMA FailUses ==
    ASSUME UInv, NEW p \in Handlers, Fail(p)
    PROVE  AdminsIdle' /\ AllUsesInv'
<1>1. task' = [task EXCEPT ![p] = Idle] /\ UNCHANGED <<rows, admin, made, off, raced>>
  BY DEF Fail, history
<1> QED
  BY <1>1, IdleTypes, HandlerQuiet

LEMMA AuthenticateUses ==
    ASSUME UInv, NEW p \in Handlers, NEW c \in Clients,
           NEW code \in Vouchers \cup {Unknown}, Authenticate(p, c, code)
    PROVE  AdminsIdle' /\ AllUsesInv'
<1> DEFINE t == [Idle EXCEPT !.pc = "lookup", !.client = c, !.code = code, !.id = served + 1]
           u == IF Allowed(c, now) THEN t ELSE task[p]
<1>1. UNCHANGED <<rows, admin, made, off, raced>> /\ served + 1 \in 0 .. MaxRequests
  BY Constants DEF Authenticate, history, UInv, IInv, TypeOK
<1>2. t \in Task /\ t.pc = "lookup"
  BY <1>1, IdleTypes DEF Task
<1>3. u \in Task /\ (u = task[p] \/ u.pc \notin {"decide", "use", "create"})
  <2>1. task[p] \in Task
    BY DEF UInv, IInv, TypeOK
  <2> HIDE DEF t
  <2> QED
    BY <1>2, <2>1
<1>4. task' = [task EXCEPT ![p] = u]
  BY DEF Authenticate, UInv, IInv, TypeOK
<1> HIDE DEF u
<1> QED
  BY <1>1, <1>3, <1>4, HandlerQuiet

LEMMA SucceedUses ==
    ASSUME UInv, NEW p \in Handlers, Succeed(p)
    PROVE  AdminsIdle' /\ AllUsesInv'
<1> DEFINE t == [task[p] EXCEPT !.pc = "report"]
<1>1. task' = [task EXCEPT ![p] = t] /\ UNCHANGED <<rows, admin, made, off, raced>>
  BY DEF Succeed, history
<1>2. t \in Task /\ t.pc = "report"
  BY DEF UInv, IInv, TypeOK, Task
<1> HIDE DEF t
<1> QED
  BY <1>1, <1>2, HandlerQuiet

LEMMA LeaveUses ==
    ASSUME UInv, NEW p \in Handlers, Leave(p)
    PROVE  AdminsIdle' /\ AllUsesInv'
<1>1. task' = [task EXCEPT ![p] = Idle] /\ UNCHANGED <<rows, admin, made, off, raced>>
  BY DEF Leave, history
<1> QED
  BY <1>1, IdleTypes, HandlerQuiet

-----------------------------------------------------------------------------

LEMMA InitUInv == Init => UInv
<1> SUFFICES ASSUME Init PROVE UInv
  OBVIOUS
<1>1. IInv
  BY InitIInv
<1>2. AdminsIdle
  BY Constants DEF Init, AdminsIdle, NoDeletion
<1>3. ASSUME NEW v \in Vouchers PROVE UsesInv(v)
  <2>1. Holding(v) = {} /\ Creating(v) = {}
    BY Constants, IdleTypes DEF Init, Holding, Creating, NoDeletion
  <2>2. Cardinality(Creating(v)) = 0
    BY <2>1, FS_EmptySet
  <2>3. HandlersFresh(v) /\ AdminsFresh(v)
    BY <2>1 DEF Holding, HandlersFresh, AdminsFresh
  <2> QED
    BY <2>1, <2>2, <2>3 DEF Init, UsesInv, Sole, NoVoucher
<1> QED
  BY <1>1, <1>2, <1>3 DEF UInv, AllUsesInv

LEMMA NextUInv == UInv /\ [Next]_vars => UInv'
<1> SUFFICES ASSUME UInv, [Next]_vars PROVE AdminsIdle' /\ AllUsesInv'
  BY NextKeeps DEF UInv
<1>1. CASE \E p \in Handlers : HandlerStep(p)
  <2>1. PICK p \in Handlers : HandlerStep(p)
    BY <1>1
  <2>2. ASSUME NEW c \in Clients, NEW code \in Vouchers \cup {Unknown},
               Authenticate(p, c, code)
        PROVE  AdminsIdle' /\ AllUsesInv'
    BY <2>2, AuthenticateUses
  <2>3. CASE Lookup(p)
    BY <2>3, LookupUses
  <2>4. CASE Reject(p)
    BY <2>4, FailUses DEF Reject
  <2>5. CASE Accept(p)
    BY <2>5, AcceptUses
  <2>6. CASE SaveUse(p)
    BY <2>6, SaveUseUses
  <2>7. CASE CreateGrant(p)
    BY <2>7, CreateGrantUses
  <2>8. CASE Succeed(p)
    BY <2>8, SucceedUses
  <2>9. CASE Report(p) \/ LookupFails(p)
    BY <2>9, LeaveUses DEF Report, LookupFails
  <2>10. CASE SystemError(p)
    BY <2>10, FailUses DEF SystemError
  <2> QED
    BY <2>1, <2>2, <2>3, <2>4, <2>5, <2>6, <2>7, <2>8, <2>9, <2>10 DEF HandlerStep
<1>2. ASSUME NEW v \in Vouchers, CreateVoucher(v) PROVE AdminsIdle' /\ AllUsesInv'
  BY <1>2, CreateVoucherUses
<1>3. ASSUME NEW v \in Vouchers, NEW a \in Admins, DeleteVoucher(a, v)
      PROVE  AdminsIdle' /\ AllUsesInv'
  BY <1>3, DeleteVoucherUses
<1>4. ASSUME NEW a \in Admins, SaveInactive(a) \/ SaveInactiveFails(a)
      PROVE  AdminsIdle' /\ AllUsesInv'
  BY <1>4, SaveInactiveUses, SaveInactiveFailsUses
<1>5. CASE Tick \/ UNCHANGED vars
  <2>1. UNCHANGED <<rows, task, admin, made, off, raced>>
    BY <1>5 DEF Tick, vars, history
  <2>2. AdminsIdle'
    BY <2>1 DEF UInv, AdminsIdle
  <2>3. ASSUME NEW v \in Vouchers \ raced PROVE UsesInv(v)'
    <3>1. UsesInv(v) /\ made[v] \in Nat /\ rows[v].uses \in Nat
      BY CountTypes DEF UInv, AllUsesInv
    <3> QED
      BY <2>1, <3>1, UsesStay
  <2> QED
    BY <2>1, <2>2, <2>3 DEF AllUsesInv
<1>6. CASE Restart
  BY <1>6, RestartUses
<1> QED
  BY <1>1, <1>2, <1>3, <1>4, <1>5, <1>6 DEF Next

\* FR-018, for any number of handlers and vouchers: a voucher that no two
\* requests held at once has a use counted for each grant made from it.
THEOREM UsesAlwaysCounted == Spec => []UsesCounted
<1>1. UInv => UsesCounted
  <2> SUFFICES ASSUME UInv, NEW v \in Vouchers \ raced PROVE made[v] <= rows[v].uses
    BY DEF UsesCounted
  <2>1. UsesInv(v) /\ made[v] \in Nat /\ rows[v].uses \in Nat
    BY CountTypes DEF UInv, AllUsesInv
  <2> QED
    BY <2>1, CreatingCount DEF UsesInv
<1> QED
  BY <1>1, InitUInv, NextUInv, PTL DEF Spec

LEMMA RacedGrows == [Next]_vars => raced \subseteq raced'
BY DEF Next, HandlerStep, Authenticate, Lookup, Reject, Accept, SaveUse, CreateGrant,
       Succeed, Report, SystemError, Fail, Leave, LookupFails, CreateVoucher, DeleteVoucher,
       SaveInactive, SaveInactiveFails, Tick, Restart, MarkRace, vars, history

\* The row of a deactivated voucher changes no more: who could save another
\* holds a copy of it that was active.
LEMMA OffStays ==
    ASSUME UInv, [Next]_vars, NEW v \in off \ raced'
    PROVE  rows'[v] = rows[v]
<1>1. v \in Vouchers /\ raced \subseteq raced'
  <2>1. v \in Vouchers
    BY DEF UInv, IInv, TypeOK
  <2>2. raced \subseteq raced'
    BY RacedGrows
  <2> QED
    BY <2>1, <2>2
<1>2. UsesInv(v) /\ rows[v].status = "inactive" /\ rows[v] \in Voucher
  BY <1>1, CountTypes DEF UInv, AllUsesInv, UsesInv
<1>3. ASSUME NEW p \in Handlers, SaveUse(p) PROVE rows'[v] = rows[v]
  <2>1. task[p].code # v
    BY <1>2, <1>3 DEF UsesInv, HandlersFresh, SaveUse
  <2> QED
    BY <1>1, <1>3, <2>1 DEF SaveUse, UInv, IInv, TypeOK
<1>4. ASSUME NEW w \in Vouchers, CreateVoucher(w) PROVE rows'[v] = rows[v]
  BY <1>1, <1>2, <1>4 DEF CreateVoucher, UInv, IInv, TypeOK
<1>5. ASSUME NEW a \in Admins, SaveInactive(a) PROVE rows'[v] = rows[v]
  <2>1. CASE admin[a].code = v
    <3>1. rows'[v] = Deactivated(rows[v])
      BY <1>1, <1>2, <1>5, <2>1 DEF SaveInactive, UsesInv, AdminsFresh, UInv, IInv, TypeOK
    <3>2. Deactivated(rows[v]) = rows[v]
      BY <1>2 DEF Deactivated, Voucher
    <3> QED
      BY <3>1, <3>2
  <2>2. CASE admin[a].code # v
    BY <1>1, <1>5, <2>2 DEF SaveInactive, UInv, IInv, TypeOK
  <2> QED
    BY <2>1, <2>2
<1>6. \/ \E p \in Handlers : SaveUse(p)
      \/ \E w \in Vouchers : CreateVoucher(w)
      \/ \E a \in Admins : SaveInactive(a)
      \/ UNCHANGED rows
  BY DEF Next, HandlerStep, Authenticate, Lookup, Reject, Accept, CreateGrant,
         Succeed, Report, SystemError, Fail, Leave, LookupFails, DeleteVoucher,
         SaveInactiveFails, Tick, Restart, vars
<1> QED
  BY <1>3, <1>4, <1>5, <1>6

\* api/vouchers.py, for any number of administrators and handlers: once its
\* deactivation is saved, no redemption changes the row of a voucher that no
\* two requests held at once.
THEOREM DeactivatedNeverUsed == Spec => DeactivatedUnused
<1>1. UInv /\ [Next]_vars => [\A v \in off \ raced' : rows'[v] = rows[v]]_<<rows, off, raced>>
  BY OffStays
<1> QED
  BY <1>1, InitUInv, NextUInv, PTL DEF Spec, DeactivatedUnused

-----------------------------------------------------------------------------
(* The voucher contract.                                                   *)

\* Who holds a copy that may be saved knows that there is a row to replace,
\* raced for or not.
HolderOK(t) == t.code \in Vouchers =>
    /\ t.pc = "use" => rows[t.code].status # "none" /\ t.copy.status # "none"
    /\ t.pc = "decide" /\ t.copy.status # "none" => rows[t.code].status # "none"

SaverOK(d) == d.pc = "save" => rows[d.code].status # "none" /\ d.copy.status = "inactive"

Existing == (\A p \in Handlers : HolderOK(task[p])) /\ (\A a \in Admins : SaverOK(admin[a]))

CInv == UInv /\ Existing

\* Rows that exist stay, and who holds an old copy goes on holding it.
LEMMA ExistingKept ==
    ASSUME CInv, \A v \in Vouchers : rows[v].status # "none" => rows'[v].status # "none",
           \A p \in Handlers : task'[p] = task[p] \/ HolderOK(task[p])',
           \A a \in Admins : admin'[a] = admin[a] \/ SaverOK(admin[a])'
    PROVE  Existing'
<1>1. ASSUME NEW p \in Handlers PROVE HolderOK(task[p])'
  <2>1. HolderOK(task[p])
    BY DEF CInv, Existing
  <2> QED BY <2>1 DEF HolderOK
<1>2. ASSUME NEW a \in Admins PROVE SaverOK(admin[a])'
  <2>1. SaverOK(admin[a]) /\ DeletionOK(admin[a])
    BY DEF CInv, Existing, UInv, IInv
  <2> QED BY <2>1 DEF SaverOK, DeletionOK
<1> QED BY <1>1, <1>2 DEF Existing

LEMMA NextExisting == CInv /\ [Next]_vars => Existing'
<1> SUFFICES ASSUME CInv, [Next]_vars PROVE Existing'
  OBVIOUS
<1>1. /\ task \in [Handlers -> Task] /\ admin \in [Admins -> Deletion]
      /\ rows \in [Vouchers -> Voucher]
  BY DEF CInv, UInv, IInv, TypeOK
<1>2. ASSUME NEW p \in Handlers, HandlerStep(p) PROVE Existing'
  <2>1. CASE UNCHANGED <<rows, admin>> /\ (\A q \in Handlers \ {p} : task'[q] = task[q])
             /\ (task'[p] = task[p] \/ task'[p].pc \notin {"decide", "use"})
    BY <2>1, ExistingKept DEF HolderOK
  <2>2. CASE Lookup(p)
    <3>1. /\ UNCHANGED <<rows, admin>> /\ \A q \in Handlers \ {p} : task'[q] = task[q]
          /\ task'[p].code = task[p].code /\ task'[p].pc = "decide"
          /\ task[p].code \in Vouchers => task'[p].copy = rows[task[p].code]
      BY <1>1, <2>2 DEF Lookup, Task
    <3>2. HolderOK(task[p])'
      BY <3>1 DEF HolderOK
    <3> QED BY <3>1, <3>2, ExistingKept
  <2>3. CASE Accept(p)
    <3>1. /\ UNCHANGED <<rows, admin>> /\ \A q \in Handlers \ {p} : task'[q] = task[q]
          /\ task'[p].code = task[p].code /\ task'[p].pc = "use"
          /\ task'[p].copy = Used(task[p].code, task[p].copy)
      BY <1>1, <2>3 DEF Accept, Task
    <3>2. /\ task[p].copy \in Voucher /\ task[p].copy.status = "active"
          /\ task[p].pc = "decide" /\ task[p].code \in Vouchers
      BY <1>1, <2>3 DEF Accept, Redeemable, Accepts, Task
    <3>3. task'[p].copy.status # "none"
      BY <3>1, <3>2 DEF Used, Voucher
    <3>4. rows[task[p].code].status # "none"
      BY <3>2 DEF CInv, Existing, HolderOK
    <3>5. HolderOK(task[p])'
      BY <3>1, <3>3, <3>4 DEF HolderOK
    <3> QED BY <3>1, <3>5, ExistingKept
  <2>4. CASE SaveUse(p)
    <3>1. /\ UNCHANGED admin /\ \A q \in Handlers \ {p} : task'[q] = task[q]
          /\ task'[p].pc = "create"
          /\ \A v \in Vouchers : rows'[v] = IF v = task[p].code THEN task[p].copy ELSE rows[v]
      BY <1>1, <2>4 DEF SaveUse, Task
    <3>2. task[p].code \in Vouchers /\ task[p].pc = "use" /\ HolderOK(task[p])
      BY <2>4 DEF SaveUse, CInv, UInv, IInv, TaskOK, Existing
    <3>3. \A v \in Vouchers : rows[v].status # "none" => rows'[v].status # "none"
      BY <3>1, <3>2 DEF HolderOK
    <3>4. HolderOK(task[p])'
      BY <3>1 DEF HolderOK
    <3> QED BY <3>1, <3>3, <3>4, ExistingKept
  <2>5. ASSUME Fail(p) \/ Leave(p)
        PROVE  Existing'
    <3>1. task' = [task EXCEPT ![p] = Idle] /\ UNCHANGED <<rows, admin>> /\ Idle.pc = "idle"
      BY <2>5, IdleTypes DEF Fail, Leave, history
    <3> QED BY <1>1, <2>1, <3>1
  <2>6. ASSUME NEW c \in Clients, NEW code \in Vouchers \cup {Unknown}, Authenticate(p, c, code)
        PROVE  Existing'
    BY <1>1, <2>1, <2>6 DEF Authenticate, history, Idle
  <2>7. CASE CreateGrant(p) \/ Succeed(p)
    BY <1>1, <2>1, <2>7 DEF CreateGrant, Succeed, history, Task
  <2> QED
    BY <1>2, <2>2, <2>3, <2>4, <2>5, <2>6, <2>7
       DEF HandlerStep, Reject, SystemError, Report, LookupFails
<1>3. ASSUME NEW v \in Vouchers, CreateVoucher(v) PROVE Existing'
  <2>1. /\ UNCHANGED <<task, admin>>
        /\ \A w \in Vouchers : w # v => rows'[w] = rows[w]
        /\ rows'[v].status = "active"
    BY <1>1, <1>3 DEF CreateVoucher, history, Voucher
  <2> QED BY <2>1, ExistingKept
<1>4. ASSUME NEW v \in Vouchers, NEW a \in Admins, DeleteVoucher(a, v) PROVE Existing'
  <2>1. /\ UNCHANGED <<rows, task>> /\ \A b \in Admins \ {a} : admin'[b] = admin[b]
        /\ admin'[a].code = v /\ admin'[a].copy = Deactivated(rows[v])
        /\ rows[v].status # "none"
    BY <1>1, <1>4 DEF DeleteVoucher
  <2>2. SaverOK(admin[a])'
    BY <1>1, <2>1 DEF SaverOK, Deactivated, Voucher
  <2> QED BY <2>1, <2>2, ExistingKept
<1>5. ASSUME NEW a \in Admins, SaveInactive(a) PROVE Existing'
  <2>1. /\ UNCHANGED task /\ \A b \in Admins \ {a} : admin'[b] = admin[b]
        /\ admin'[a] = NoDeletion /\ NoDeletion.pc = "idle"
        /\ \A v \in Vouchers : rows'[v] = IF v = admin[a].code THEN admin[a].copy ELSE rows[v]
    BY <1>1, <1>5, IdleTypes DEF SaveInactive
  <2>2. SaverOK(admin[a]) /\ admin[a].pc = "save"
    BY <1>5 DEF SaveInactive, CInv, Existing
  <2>3. \A v \in Vouchers : rows[v].status # "none" => rows'[v].status # "none"
    BY <2>1, <2>2 DEF SaverOK
  <2>4. SaverOK(admin[a])'
    BY <2>1 DEF SaverOK
  <2> QED BY <2>1, <2>3, <2>4, ExistingKept
<1>6. CASE Tick \/ UNCHANGED vars
  BY <1>6, ExistingKept DEF Tick, vars, history
<1>8. ASSUME NEW a \in Admins, SaveInactiveFails(a) PROVE Existing'
  <2>1. /\ UNCHANGED <<rows, task>> /\ \A b \in Admins \ {a} : admin'[b] = admin[b]
        /\ admin'[a] = NoDeletion /\ NoDeletion.pc = "idle"
    BY <1>1, <1>8, IdleTypes DEF SaveInactiveFails
  <2>2. SaverOK(admin[a])'
    BY <2>1 DEF SaverOK
  <2> QED BY <2>1, <2>2, ExistingKept
<1>7. CASE Restart
  <2>1. /\ UNCHANGED rows /\ \A p \in Handlers : task'[p].pc = "idle"
        /\ \A a \in Admins : admin'[a].pc = "idle"
    BY <1>7, IdleTypes DEF Restart, history
  <2> QED BY <2>1, ExistingKept DEF HolderOK, SaverOK
<1> QED BY <1>2, <1>3, <1>4, <1>5, <1>6, <1>7, <1>8 DEF Next

LEMMA ContractQuiet ==
    ASSUME UNCHANGED <<rows, made>>
    PROVE  Contract!Step
BY DEF Contract!Step

\* One row is replaced, as the contract sees it.
LEMMA RowSeen ==
    ASSUME NEW v \in Vouchers, NEW row,
           \A w \in Vouchers : rows'[w] = IF w = v THEN row ELSE rows[w]
    PROVE  /\ [w \in Vouchers |-> rows'[w].status]
                = [[w \in Vouchers |-> rows[w].status] EXCEPT ![v] = row.status]
           /\ [w \in Vouchers |-> rows'[w].uses]
                = [[w \in Vouchers |-> rows[w].uses] EXCEPT ![v] = row.uses]
OBVIOUS

LEMMA UsesSame ==
    ASSUME \A w \in Vouchers : rows'[w].uses = rows[w].uses
    PROVE  [w \in Vouchers |-> rows'[w].uses] = [w \in Vouchers |-> rows[w].uses]
OBVIOUS

\* A row replaced by a copy of a voucher that has been raced for.
LEMMA ContractOverwrites ==
    ASSUME CInv, NEW v \in raced', v \in Vouchers, NEW row \in Voucher, Consistent(v, row),
           row.status # "none", rows[v].status # "none",
           rows' = [rows EXCEPT ![v] = row], UNCHANGED made
    PROVE  Contract!Step
<1>1. /\ \A w \in Vouchers : rows'[w] = IF w = v THEN row ELSE rows[w]
      /\ row.status \in {"active", "inactive"} /\ row.uses \in Nat
  BY DEF CInv, UInv, IInv, TypeOK, Voucher
<1>2. Contract!Overwrite(v)
  <2>1. /\ [w \in Vouchers |-> rows'[w].status]
             = [[w \in Vouchers |-> rows[w].status] EXCEPT ![v] = row.status]
        /\ [w \in Vouchers |-> rows'[w].uses]
             = [[w \in Vouchers |-> rows[w].uses] EXCEPT ![v] = row.uses]
    BY <1>1, RowSeen
  <2>2. /\ [w \in Vouchers |-> rows'[w].status][v] = row.status
        /\ [w \in Vouchers |-> rows'[w].uses][v] = row.uses
        /\ [w \in Vouchers |-> rows[w].status][v] = rows[v].status
    BY <1>1
  <2>3. Contract!Spent(v, row.uses) => row.status = "inactive"
    BY DEF Contract!Spent, Consistent, Exhausted
  <2>4. MaxUses[v] # Unlimited => row.uses <= MaxUses[v]
    BY DEF Consistent
  <2> QED BY <1>1, <2>1, <2>2, <2>3, <2>4 DEF Contract!Overwrite, Contract!Becomes
<1> QED BY <1>2 DEF Contract!Step

LEMMA SaveUseContract ==
    ASSUME CInv, NEW p \in Handlers, SaveUse(p), UNCHANGED raced
    PROVE  Contract!Step
<1>1. PICK v \in Vouchers : v = task[p].code
  BY DEF SaveUse, CInv, UInv, IInv, TaskOK
<1>2. /\ rows' = [rows EXCEPT ![v] = task[p].copy] /\ UNCHANGED made
      /\ task[p].pc = "use" /\ task[p].copy \in Voucher /\ Consistent(v, task[p].copy)
      /\ task[p].copy.status # "none" /\ rows[v].status # "none"
  BY <1>1 DEF SaveUse, history, CInv, UInv, IInv, TypeOK, Task, TaskOK, Existing, HolderOK
<1>3. CASE v \in raced
  BY <1>2, <1>3, ContractOverwrites
<1>4. CASE v \notin raced
  <2>1. /\ task[p].copy = Used(v, rows[v]) /\ rows[v].status = "active"
        /\ rows[v] \in Voucher /\ Consistent(v, rows[v])
    BY <1>1, <1>2, <1>4, CountTypes
       DEF CInv, UInv, AllUsesInv, UsesInv, HandlersFresh, IInv, VoucherRowsConsistent
  <2>2. /\ rows[v].uses \in Nat /\ ~ Exhausted(v, rows[v])
        /\ task[p].copy.uses = rows[v].uses + 1
        /\ task[p].copy.status = IF Contract!Spent(v, rows[v].uses + 1) THEN "inactive" ELSE "active"
    BY <2>1 DEF Voucher, Consistent, Used, Exhausted, Contract!Spent
  <2>3. \A w \in Vouchers : rows'[w] = IF w = v THEN task[p].copy ELSE rows[w]
    BY <1>2 DEF CInv, UInv, IInv, TypeOK
  <2>4. Contract!Use(v)
    <3>1. /\ [w \in Vouchers |-> rows'[w].status]
               = [[w \in Vouchers |-> rows[w].status] EXCEPT ![v] = task[p].copy.status]
          /\ [w \in Vouchers |-> rows'[w].uses]
               = [[w \in Vouchers |-> rows[w].uses] EXCEPT ![v] = task[p].copy.uses]
      BY <2>3, RowSeen
    <3>2. /\ [w \in Vouchers |-> rows[w].status][v] = "active"
          /\ [w \in Vouchers |-> rows[w].uses][v] = rows[v].uses
          /\ [w \in Vouchers |-> rows'[w].uses][v] = rows[v].uses + 1
      BY <2>1, <2>2, <2>3
    <3>3. ~ Contract!Spent(v, rows[v].uses)
      BY <2>2 DEF Contract!Spent, Exhausted
    <3> QED BY <1>2, <2>2, <3>1, <3>2, <3>3 DEF Contract!Use, Contract!Becomes
  <2> QED BY <2>4 DEF Contract!Step
<1> QED BY <1>3, <1>4

LEMMA SaveInactiveContract ==
    ASSUME CInv, NEW a \in Admins, SaveInactive(a), UNCHANGED raced
    PROVE  Contract!Step
<1>1. PICK v \in Vouchers : v = admin[a].code
  BY DEF SaveInactive, CInv, UInv, IInv, DeletionOK
<1>2. /\ rows' = [rows EXCEPT ![v] = admin[a].copy] /\ UNCHANGED made
      /\ admin[a].copy \in Voucher /\ Consistent(v, admin[a].copy)
      /\ admin[a].copy.status = "inactive" /\ rows[v].status # "none"
  BY <1>1 DEF SaveInactive, CInv, UInv, IInv, TypeOK, Deletion, DeletionOK, Existing, SaverOK
<1>3. CASE v \in raced
  BY <1>2, <1>3, ContractOverwrites
<1>4. CASE v \notin raced
  <2>1. admin[a].copy = Deactivated(rows[v]) /\ rows[v] \in Voucher
    BY <1>1, <1>4, CountTypes DEF CInv, UInv, AllUsesInv, UsesInv, AdminsFresh
  <2>2. admin[a].copy.uses = rows[v].uses
    BY <2>1 DEF Deactivated, Voucher
  <2>3. \A w \in Vouchers : rows'[w] = IF w = v THEN admin[a].copy ELSE rows[w]
    BY <1>2 DEF CInv, UInv, IInv, TypeOK
  <2>4. Contract!Deactivate(v)
    <3>1. \A w \in Vouchers : rows'[w].uses = rows[w].uses
      BY <2>2, <2>3
    <3>2. [w \in Vouchers |-> rows'[w].status]
            = [[w \in Vouchers |-> rows[w].status] EXCEPT ![v] = "inactive"]
      <4>1. [w \in Vouchers |-> rows'[w].status]
              = [[w \in Vouchers |-> rows[w].status] EXCEPT ![v] = admin[a].copy.status]
        BY <2>3, RowSeen
      <4> QED BY <1>2, <4>1
    <3>3. [w \in Vouchers |-> rows'[w].uses] = [w \in Vouchers |-> rows[w].uses]
      BY <3>1, UsesSame
    <3>4. [w \in Vouchers |-> rows[w].status][v] = rows[v].status
      OBVIOUS
    <3> QED BY <1>2, <3>2, <3>3, <3>4 DEF Contract!Deactivate, Contract!Becomes
  <2> QED BY <2>4 DEF Contract!Step
<1> QED BY <1>3, <1>4

LEMMA CreateGrantContract ==
    ASSUME CInv, NEW p \in Handlers, CreateGrant(p), UNCHANGED raced
    PROVE  Contract!Step
<1>1. PICK v \in Vouchers : v = task[p].code
  BY DEF CreateGrant, CInv, UInv, IInv, TaskOK
<1>2. UNCHANGED rows /\ made' = [made EXCEPT ![v] = @ + 1]
  BY <1>1 DEF CreateGrant
<1>3. v \notin raced => made[v] < rows[v].uses
  <2> SUFFICES ASSUME v \notin raced PROVE made[v] < rows[v].uses
    OBVIOUS
  <2>1. UsesInv(v) /\ made[v] \in Nat /\ rows[v].uses \in Nat
    BY CountTypes DEF CInv, UInv, AllUsesInv
  <2>2. p \in Creating(v)
    BY <1>1 DEF Creating, CreateGrant
  <2>3. Cardinality(Creating(v)) \in Nat /\ Cardinality(Creating(v)) # 0
    BY <2>2, CreatingCount, FS_EmptySet
  <2> QED BY <2>1, <2>3 DEF UsesInv
<1>4. Contract!MakeGrant(v)
  BY <1>2, <1>3 DEF Contract!MakeGrant
<1> QED BY <1>4 DEF Contract!Step

LEMMA CreateVoucherContract ==
    ASSUME CInv, NEW v \in Vouchers, CreateVoucher(v)
    PROVE  Contract!Step
<1>1. /\ UNCHANGED made /\ rows[v].status = "none"
      /\ rows' = [rows EXCEPT ![v].status = "active"]
  BY DEF CreateVoucher, history
<1>2. /\ \A w \in Vouchers : rows'[w] = IF w = v THEN [rows[v] EXCEPT !.status = "active"] ELSE rows[w]
      /\ [rows[v] EXCEPT !.status = "active"].status = "active"
      /\ \A w \in Vouchers : rows'[w].uses = rows[w].uses
  BY <1>1 DEF CInv, UInv, IInv, TypeOK, Voucher
<1>3. Contract!Create(v)
  <2>1. [w \in Vouchers |-> rows'[w].status]
          = [[w \in Vouchers |-> rows[w].status] EXCEPT ![v] = "active"]
    BY <1>2
  <2> QED BY <1>1, <1>2, <2>1, UsesSame DEF Contract!Create, Contract!Becomes
<1> QED BY <1>3 DEF Contract!Step

LEMMA StepContract == CInv /\ CInv' /\ [Next]_vars => [Contract!Next]_Contract!vars
<1> SUFFICES ASSUME CInv, CInv', [Next]_vars PROVE Contract!Next
  OBVIOUS
<1>1. raced \subseteq raced' /\ raced' \subseteq Vouchers
  BY RacedGrows DEF CInv, UInv, IInv, TypeOK
<1>2. \/ UNCHANGED <<rows, made>>
      \/ \E p \in Handlers : (SaveUse(p) \/ CreateGrant(p)) /\ UNCHANGED raced
      \/ \E a \in Admins : SaveInactive(a) /\ UNCHANGED raced
      \/ \E v \in Vouchers : CreateVoucher(v)
  BY DEF Next, HandlerStep, Authenticate, Lookup, Reject, Accept, SaveUse, CreateGrant,
         Succeed, Report, SystemError, Fail, Leave, LookupFails, DeleteVoucher, SaveInactive,
         SaveInactiveFails, Tick, Restart,
         vars, history
<1>3. Contract!Step
  BY <1>2, ContractQuiet, SaveUseContract, CreateGrantContract, SaveInactiveContract,
     CreateVoucherContract
<1> QED BY <1>1, <1>3 DEF Contract!Next

LEMMA InitContract == Init => CInv /\ Contract!Init
<1> SUFFICES ASSUME Init PROVE CInv /\ Contract!Init
  OBVIOUS
<1>1. Existing
  BY IdleTypes DEF Init, Existing, HolderOK, SaverOK
<1>2. Contract!Init
  BY DEF Init, Contract!Init, NoVoucher
<1> QED BY <1>1, <1>2, InitUInv DEF CInv

\* However logins, deactivations, errors and restarts interleave, a voucher
\* nobody raced for makes a grant only for a use, and ends for good
\* (voucher_service.py:149-239); a race for one harms no other.
THEOREM VouchersKeepContract == Spec => ImplementsContract
<1>1. CInv /\ [Next]_vars => CInv'
  BY NextUInv, NextExisting DEF CInv
<1> QED
  BY <1>1, InitContract, StepContract, PTL DEF Spec, ImplementsContract, Contract!Spec

=============================================================================
