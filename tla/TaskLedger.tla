------------------------------ MODULE TaskLedger ------------------------------
(***************************************************************************)
(* What the task queue promises whoever submits a task: it is served in    *)
(* its turn, the most urgent first; it runs at most MaxRetries + 1 times,  *)
(* a new time only after it has failed; and how it ended stays.            *)
(***************************************************************************)
EXTENDS Integers

CONSTANTS Tasks, Priority, MaxRetries

VARIABLES
    stage,       \* where each task is
    failures     \* how often it has failed and is to be tried again

vars == <<stage, failures>>

Init ==
    /\ stage = [t \in Tasks |-> "none"]
    /\ failures = [t \in Tasks |-> 0]

Becomes(t, s) == [stage EXCEPT ![t] = s]

\* The tasks at x, or those after one of the most urgent of them was taken.
Queued(x) == {t \in Tasks : x[t] = "queued"}
Foremost(x) == {t \in Queued(x) : \A u \in Queued(x) : Priority[u] <= Priority[t]}
Served(x) == {x} \cup {[x EXCEPT ![t] = "running"] : t \in Foremost(x)}

Submit(t) ==
    /\ stage[t] = "none"
    /\ stage' = Becomes(t, "queued")
    /\ UNCHANGED failures

Fail(t) ==
    /\ stage[t] = "running" /\ failures[t] < MaxRetries
    /\ stage' = Becomes(t, "resting")
    /\ failures' = [failures EXCEPT ![t] = @ + 1]

\* Whoever lets go of a task may take another in the same step.
PutBack(t) ==
    /\ stage[t] = "resting"
    /\ stage' \in Served(Becomes(t, "queued"))
    /\ UNCHANGED failures

Complete(t) ==
    /\ stage[t] = "running"
    /\ stage' \in Served(Becomes(t, "done"))
    /\ UNCHANGED failures

GiveUp(t) ==
    /\ stage[t] = "running" /\ failures[t] = MaxRetries
    /\ stage' \in Served(Becomes(t, "failed"))
    /\ UNCHANGED failures

\* The worker that had it was cancelled.
Lose(t) ==
    /\ stage[t] \in {"running", "resting"}
    /\ stage' = Becomes(t, "cut")
    /\ UNCHANGED failures

Take == stage' \in Served(stage) /\ UNCHANGED failures

Next ==
    \/ Take
    \/ \E t \in Tasks :
          Submit(t) \/ Fail(t) \/ PutBack(t) \/ Complete(t) \/ GiveUp(t) \/ Lose(t)

Spec == Init /\ [][Next]_vars

=============================================================================
