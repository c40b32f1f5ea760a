--------------------------- MODULE VoucherContract ---------------------------
(***************************************************************************)
(* What a voucher promises: a login takes one of its uses, if it has any   *)
(* left, or makes no grant; used up or deactivated, it is so for good.     *)
(* Where two requests held copies of a voucher at once this is waived: its *)
(* row is overwritten, though never with more uses than it has, and grants *)
(* are no longer paid for.                                                 *)
(***************************************************************************)
EXTENDS Integers

CONSTANTS Vouchers, MaxUses, Unlimited

VARIABLES
    status, uses,
    made,        \* grants made from each voucher
    waived

vars == <<status, uses, made, waived>>

Init ==
    /\ status = [v \in Vouchers |-> "none"]
    /\ uses = [v \in Vouchers |-> 0]
    /\ made = [v \in Vouchers |-> 0]
    /\ waived = {}

Spent(v, n) == MaxUses[v] # Unlimited /\ n >= MaxUses[v]

Becomes(v, s) == status' = [status EXCEPT ![v] = s]

Create(v) ==
    /\ status[v] = "none"
    /\ Becomes(v, "active")
    /\ UNCHANGED <<uses, made>>

\* The last use ends the voucher.
Use(v) ==
    /\ status[v] = "active" /\ ~ Spent(v, uses[v])
    /\ uses' = [uses EXCEPT ![v] = @ + 1]
    /\ Becomes(v, IF Spent(v, uses'[v]) THEN "inactive" ELSE "active")
    /\ UNCHANGED made

\* A grant is paid for by a use of its own.
MakeGrant(v) ==
    /\ made[v] < uses[v] \/ v \in waived'
    /\ made' = [made EXCEPT ![v] = @ + 1]
    /\ UNCHANGED <<status, uses>>

Deactivate(v) ==
    /\ status[v] # "none"
    /\ Becomes(v, "inactive")
    /\ UNCHANGED <<uses, made>>

\* A stale copy replaces the row of a waived voucher.
Overwrite(v) ==
    /\ v \in waived' /\ status[v] # "none"
    /\ Becomes(v, status'[v]) /\ status'[v] \in {"active", "inactive"}
    /\ uses' = [uses EXCEPT ![v] = uses'[v]] /\ uses'[v] \in Nat
    /\ MaxUses[v] # Unlimited => uses'[v] <= MaxUses[v]
    /\ Spent(v, uses'[v]) => status'[v] = "inactive"
    /\ UNCHANGED made

Step ==
    \/ UNCHANGED <<status, uses, made>>
    \/ \E v \in Vouchers :
          Create(v) \/ Use(v) \/ MakeGrant(v) \/ Deactivate(v) \/ Overwrite(v)

Next == Step /\ waived \subseteq waived' /\ waived' \subseteq Vouchers

Spec == Init /\ [][Next]_vars

=============================================================================
