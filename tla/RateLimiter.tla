----------------------------- MODULE RateLimiter -----------------------------
(***************************************************************************)
(* services/rate_limiter.py: failed portal logins and lockouts, per client *)
(* address, in memory.  Each method holds an asyncio lock from its first   *)
(* to its last line and awaits nothing else, so it is one step.            *)
(***************************************************************************)
EXTENDS Integers, FiniteSets

CONSTANTS
    Clients,      \* client addresses
    MaxAttempts,  \* max_attempts
    Window,       \* window_seconds
    Lockout       \* lockout_duration_seconds

ASSUME LimiterAssumption ==
    /\ MaxAttempts \in Nat \ {0}
    /\ Window \in Nat /\ Lockout \in Nat

VARIABLES
    attempts,  \* per client the failures on record: when, and of which request
    lockouts   \* per client the time its lockout ends, or Never

limiter == <<attempts, lockouts>>

Never == -1

LimiterInit ==
    /\ attempts = [c \in Clients |-> {}]
    /\ lockouts = [c \in Clients |-> Never]

Recent(failures, t) == {f \in failures : f.at > t - Window}

LockedOut(c, t) == lockouts[c] # Never /\ t < lockouts[c]

\* The failures a check counts: a lockout that has ended takes them with it.
Counted(c, t) == IF lockouts[c] # Never THEN {} ELSE Recent(attempts[c], t)

\* Faulty variants: one failure too many is let through; lockouts run from the
\* end of the window.
AtLimitLate(failures) == Cardinality(failures) > MaxAttempts
LockoutFromWindowEnd(failures, t, otherwise) ==
    IF Cardinality(failures) >= MaxAttempts THEN t + Window + Lockout ELSE otherwise

AtLimit(failures) == Cardinality(failures) >= MaxAttempts

LockoutIf(failures, t, otherwise) ==
    IF AtLimit(failures) THEN t + Lockout ELSE otherwise

Allowed(c, t) == ~ LockedOut(c, t) /\ ~ AtLimit(Counted(c, t))

CheckRateLimit(c, t) ==
    IF LockedOut(c, t) THEN UNCHANGED limiter
    ELSE /\ attempts' = [attempts EXCEPT ![c] = Counted(c, t)]
         /\ lockouts' = [lockouts EXCEPT ![c] = LockoutIf(Counted(c, t), t, Never)]

\* record_attempt. The faulty variant forgets to lock out.
RecordSuccess(c) ==
    /\ attempts' = [attempts EXCEPT ![c] = {}]
    /\ lockouts' = [lockouts EXCEPT ![c] = Never]

RecordFailureOnly(c, t, request) ==
    /\ attempts' = [attempts EXCEPT ![c] = Recent(@ \cup {[at |-> t, of |-> request]}, t)]
    /\ UNCHANGED lockouts

RecordFailure(c, t, request) ==
    LET failures == Recent(attempts[c] \cup {[at |-> t, of |-> request]}, t)
    IN /\ attempts' = [attempts EXCEPT ![c] = failures]
       /\ lockouts' = [lockouts EXCEPT ![c] = LockoutIf(failures, t, @)]

\* A client at the limit has a lockout on record, running or over: check and
\* record agree on when one is due, whatever was pruned or cleared in between.
OverLimitMeansLocked == \A c \in Clients :
    Cardinality(attempts[c]) >= MaxAttempts => lockouts[c] # Never

=============================================================================
