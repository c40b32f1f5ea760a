------------------------------ MODULE GrantRaces ------------------------------
(***************************************************************************)
(* GrantLifecycle with a record of the grants that two handlers or passes  *)
(* had in hand at once.  The code has neither row versions nor locks: what *)
(* it promises of a grant, to its caller and at the controller, it         *)
(* promises as long as nobody meets there.  Handlers and passes at work on *)
(* other grants do not matter.                                             *)
(***************************************************************************)
EXTENDS GrantLifecycle

VARIABLE raced    \* history: grants that more than one had in hand at once

raceVars == <<vars, raced>>

\* Those that hold a copy of a grant's row, or have still to tell of a change.
Workers(g) ==
    {p \in Requests : task[p].grant = g}
      \cup {q \in Passes : pass[q].cur = g \/ g \in pass[q].todo}

Contended == {g \in Grants : \E x, y \in Workers(g) : x # y}

RaceInit == Init /\ raced = {}
RaceNext == Next /\ raced' = raced \cup Contended'
RaceSpec == RaceInit /\ [][RaceNext]_raceVars

-----------------------------------------------------------------------------
(* Properties of the grants for which nobody raced.                        *)

\* Each request is one atomic step of the contract, which a race waives for its
\* grant: see GrantContract.
Contract == INSTANCE GrantContract WITH
    status <- [g \in Grants |-> rows[g].status],
    expiry <- [g \in Grants |-> rows[g].end],
    voucher <- [g \in Grants |-> rows[g].voucher],
    waived <- raced
ImplementsContract == Contract!Spec

Undisturbed(g) == ~ InFlight(g) /\ g \notin cut \cup failed \cup raced

\* The controller honours no voucher that the table has forgotten, though
\* handlers and passes of other grants overlap (grant_manager.py:150-357).
NoOrphanVoucher == \A v \in live :
    Undisturbed(owner[v]) => rows[owner[v]].voucher = v

\* FR-003, FR-013: the controller honours no voucher of a grant whose row says
\* revoked, or whose revocation or automatic expiry is in the audit log. Of a row
\* that says expired this is not true: a pass whose audit event could not be
\* written leaves the voucher alone (expiry_scheduler.py:217).
ClosedMeansCutOff == \A g \in Grants :
    Undisturbed(g) /\ \/ rows[g].status = "revoked"
                      \/ <<g, "revoke">> \in audit \/ <<g, "expired">> \in audit
        => \A v \in live : owner[v] # g

\* FR-004, FR-012: an active grant has a voucher the controller honours, and to the
\* grant's end at least, extensions included, unless a request named a time with
\* an offset: the controller is told the time, the row what the clock shows.
ActiveMeansAccess == \A g \in Grants :
    Undisturbed(g) /\ rows[g].status = "active"
        => /\ rows[g].voucher \in live
           /\ g \notin shifted => until[rows[g].voucher] >= rows[g].end

=============================================================================
