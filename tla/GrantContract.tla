---------------------------- MODULE GrantContract ----------------------------
(***************************************************************************)
(* What the grant endpoints promise a caller, each request as one step: a  *)
(* grant opens once, its end moves and its voucher is bound only while it  *)
(* is open, and nothing reopens it.  For a grant that two requests had in  *)
(* hand at once the promise is waived, all but this: its row stays, and    *)
(* bears no voucher of another grant.                                      *)
(***************************************************************************)
EXTENDS Integers

CONSTANTS Grants, Vouchers, NoVoucher, MaxTime

VARIABLES now, status, expiry, voucher, waived

grants == <<status, expiry, voucher>>
vars == <<now, grants, waived>>

Open == {"pending", "active"}
Closed == {"expired", "revoked"}

Init ==
    /\ now = 0
    /\ status = [g \in Grants |-> "none"]
    /\ expiry = [g \in Grants |-> 0]
    /\ voucher = [g \in Grants |-> NoVoucher]
    /\ waived = {}

Becomes(g, s) == status' = [status EXCEPT ![g] = s]
Unshared(g, v) == \A h \in Grants \ {g} : v # NoVoucher => voucher[h] # v

Create(g, end) ==
    /\ status[g] = "none"
    /\ Becomes(g, "pending")
    /\ expiry' = [expiry EXCEPT ![g] = end]
    /\ UNCHANGED <<now, voucher>>

\* Without a voucher when the controller answered without success.
Activate(g, v) ==
    /\ status[g] = "pending"
    /\ Unshared(g, v) /\ voucher[g] = NoVoucher
    /\ Becomes(g, "active")
    /\ voucher' = [voucher EXCEPT ![g] = v]
    /\ UNCHANGED <<now, expiry>>

MoveEnd(g, end) ==
    /\ status[g] \in Open
    /\ expiry' = [expiry EXCEPT ![g] = end]
    /\ UNCHANGED <<now, status, voucher>>

Revoke(g) ==
    /\ status[g] \in Open
    /\ Becomes(g, "revoked")
    /\ UNCHANGED <<now, expiry, voucher>>

\* The end of the stay has passed.
Expire(g) ==
    /\ status[g] \in Open /\ expiry[g] <= now
    /\ Becomes(g, "expired")
    /\ UNCHANGED <<now, expiry, voucher>>

\* The manual expiry endpoint, which asks nothing of the grant.
ForceExpire(g, end) ==
    /\ status[g] # "none" /\ end <= now
    /\ Becomes(g, "expired")
    /\ expiry' = [expiry EXCEPT ![g] = end]
    /\ UNCHANGED <<now, voucher>>

\* A stale object replaces the row of a waived grant.
Overwrite(g) ==
    /\ g \in waived' /\ status[g] # "none"
    /\ Becomes(g, status'[g]) /\ status'[g] \in Open \cup Closed
    /\ expiry' = [expiry EXCEPT ![g] = expiry'[g]] /\ expiry'[g] \in 0 .. MaxTime
    /\ voucher' = [voucher EXCEPT ![g] = voucher'[g]] /\ Unshared(g, voucher'[g])
    /\ UNCHANGED now

Tick ==
    /\ now < MaxTime
    /\ now' = now + 1
    /\ UNCHANGED grants

Step ==
    \/ UNCHANGED <<now, grants>>
    \/ \E g \in Grants, end \in 0 .. MaxTime :
          Create(g, end) \/ MoveEnd(g, end) \/ ForceExpire(g, end)
    \/ \E g \in Grants, v \in Vouchers \cup {NoVoucher} : Activate(g, v)
    \/ \E g \in Grants : Revoke(g) \/ Expire(g) \/ Overwrite(g)
    \/ Tick

Next == Step /\ waived \subseteq waived' /\ waived' \subseteq Grants

Spec == Init /\ [][Next]_vars

=============================================================================
