--------------------------- MODULE QueueScheduler ---------------------------
(***************************************************************************)
(* The adaptive task queue: services/queue_scheduler.py, and the condition *)
(* QueuedOperations.drain waits for.                                       *)
(*                                                                         *)
(* An action is the code between two awaits that let others run.  Neither  *)
(* put nor a get from a queue that is not empty does: a worker that ends a *)
(* task takes the next one in the same step, if there is one.  A submitter *)
(* and the metrics collector evaluate the scaling inline, and wait only    *)
(* for workers they cancelled.  stop() says so before it waits for the     *)
(* workers there are, and a start() in between finds the scheduler stopped *)
(* and these workers still in the pool.                                    *)
(***************************************************************************)
EXTENDS Integers, FiniteSets

CONSTANTS
    Tasks,       \* tasks that may be submitted
    Ids,
    Id,          \* task_id of each task: that of its operation and grant
    Priority,    \* of each task
    Workers,     \* identities of workers; a task of asyncio each
    NoTask,
    MinWorkers, MaxWorkers,
    MaxRetries,
    HighStreak,  \* evaluations in a row before the pool grows
    LowStreak,   \* and before it shrinks
    MaxStarts    \* bound on the starts of the scheduler

ASSUME QueueAssumption ==
    /\ Id \in [Tasks -> Ids] /\ Priority \in [Tasks -> Int]
    /\ IsFiniteSet(Workers) /\ IsFiniteSet(Tasks) /\ NoTask \notin Tasks
    /\ MinWorkers \in Nat \ {0} /\ MaxWorkers \in Nat /\ MinWorkers <= MaxWorkers
    /\ MaxRetries \in Nat
    /\ HighStreak \in Nat \ {0} /\ LowStreak \in Nat \ {0}
    /\ MaxStarts \in Nat

VARIABLES
    running,
    stops,       \* stops that wait: for whom, and which start each of them ended
    queue,       \* tasks in the priority queue
    retries,     \* retry_count of each task
    active,      \* task ids in _active_tasks
    depth,       \* the queue_depth metric
    worker,      \* what each worker does
    pool,        \* the workers in _workers
    current,     \* _current_workers
    highs, lows, \* consecutive evaluations
    shrinking,   \* who waits for workers that were cancelled, and the new count
    collectors,  \* metrics collectors asleep
    starts,
    fate,        \* history: what became of each task
    late,        \* history: tasks put back by a worker that was told to stop
    overlapped   \* history: a start came while a stop waited

tasks == <<queue, retries, active, depth, fate, late>>
scaling == <<pool, current, highs, lows, shrinking>>
lifecycle == <<running, stops, starts, overlapped>>
vars == <<lifecycle, tasks, worker, scaling, collectors>>

Off == [pc |-> "off", task |-> NoTask]
Waiting == [pc |-> "wait", task |-> NoTask]

Shrink == [target: 1 .. MaxWorkers, waits: SUBSET Workers,
           by: {"submitter", "collector", "starter"}]
Waits == [of: 1 .. MaxStarts, waits: SUBSET Workers]

Init ==
    /\ running = FALSE /\ stops = {} /\ overlapped = FALSE
    /\ queue = {} /\ retries = [t \in Tasks |-> 0]
    /\ active = {} /\ depth = 0
    /\ worker = [w \in Workers |-> Off]
    /\ pool = {} /\ current = MinWorkers
    /\ highs = 0 /\ lows = 0
    /\ shrinking = {}
    /\ collectors = 0 /\ starts = 0
    /\ fate = [t \in Tasks |-> "none"]
    /\ late = {}

-----------------------------------------------------------------------------
(* Scaling.                                                                *)

Awaited == UNION {s.waits : s \in shrinking}
Cancelled(w) == w \in Awaited /\ worker[w].pc # "off"
Named == pool \cup Awaited \cup UNION {s.waits : s \in stops}
Free == {w \in Workers : worker[w].pc = "off"} \ Named

WantsUp(q, latency) ==
    /\ current < MaxWorkers
    /\ Cardinality(q) > current * 2 \/ latency = "high"

WantsDown(q, latency) ==
    /\ ~ WantsUp(q, latency)
    /\ current > MinWorkers
    /\ q = {} /\ latency = "low"

StartWorkers(k) ==
    \E F \in SUBSET Free :
        /\ Cardinality(F) = k
        /\ pool' = pool \cup F
        /\ worker' = [w \in Workers |-> IF w \in F THEN Waiting ELSE worker[w]]

\* _scale_workers to n: start the missing workers ...
Grow(n) ==
    /\ n >= Cardinality(pool)
    /\ StartWorkers(n - Cardinality(pool))
    /\ current' = n
    /\ UNCHANGED shrinking

\* ... or cancel as many as there are too many, and wait for them to end.
Cancel(n, by) ==
    /\ n < Cardinality(pool)
    /\ \E R \in SUBSET pool :
          /\ Cardinality(R) = Cardinality(pool) - n
          /\ pool' = pool \ R
          /\ shrinking' = shrinking \cup {[target |-> n, waits |-> R, by |-> by]}
    /\ UNCHANGED <<worker, current>>

Smaller(m, n) == IF m < n THEN m ELSE n
Larger(m, n) == IF m < n THEN n ELSE m

ScaleTo(n, by, h, l) ==
    \/ Grow(n) /\ highs' = 0 /\ lows' = 0
    \/ Cancel(n, by) /\ highs' = h /\ lows' = l

\* _evaluate_scaling with q queued and a 95th percentile of the given level.
\* Within the cooldown nothing is looked at.
Evaluate(q, latency, by) ==
    LET h == IF WantsUp(q, latency) THEN highs + 1 ELSE 0
        l == IF WantsDown(q, latency) THEN lows + 1 ELSE 0
    IN  IF h >= HighStreak THEN ScaleTo(Smaller(current + 1, MaxWorkers), by, h, l)
        ELSE IF l >= LowStreak THEN ScaleTo(Larger(current - 1, MinWorkers), by, h, l)
        ELSE highs' = h /\ lows' = l /\ UNCHANGED <<pool, current, shrinking, worker>>

EvaluateOrCool(q, by) ==
    \/ \E latency \in {"low", "middle", "high"} : Evaluate(q, latency, by)
    \/ UNCHANGED <<scaling, worker>>

\* The cancelled workers have ended: the count becomes the target.
Shrunk(s) ==
    /\ s \in shrinking
    /\ \A w \in s.waits : worker[w].pc = "off"
    /\ shrinking' = shrinking \ {s}
    /\ current' = s.target
    /\ IF s.by = "starter" THEN UNCHANGED <<highs, lows>> ELSE highs' = 0 /\ lows' = 0
    /\ depth' = IF s.by = "collector" THEN Cardinality(queue) ELSE depth
    /\ collectors' = IF s.by = "submitter" THEN collectors ELSE collectors + 1
    /\ UNCHANGED <<lifecycle, queue, retries, active, fate, late, worker, pool>>

Collect ==
    /\ running /\ collectors > 0
    /\ EvaluateOrCool(queue, "collector")
    /\ IF shrinking' = shrinking
       THEN depth' = Cardinality(queue) /\ UNCHANGED collectors
       ELSE collectors' = collectors - 1 /\ UNCHANGED depth
    /\ UNCHANGED <<lifecycle, queue, retries, active, fate, late>>

CollectorEnds ==
    /\ ~ running /\ collectors > 0
    /\ collectors' = collectors - 1
    /\ UNCHANGED <<lifecycle, tasks, worker, scaling>>

-----------------------------------------------------------------------------
(* Start, stop and submission.                                             *)

\* A start asks whether the scheduler runs, not whether a stop still waits: the
\* workers that are left count, those that have ended included.
Start ==
    /\ ~ running /\ starts < MaxStarts
    /\ running' = TRUE
    /\ starts' = starts + 1
    /\ overlapped' = (overlapped \/ stops # {})
    /\ \/ Grow(MinWorkers) /\ collectors' = collectors + 1
       \/ Cancel(MinWorkers, "starter") /\ UNCHANGED collectors
    /\ UNCHANGED <<stops, tasks, highs, lows>>

\* A stop waits for the workers that are in the pool now.
Stop ==
    /\ running
    /\ running' = FALSE
    /\ IF pool = {} THEN current' = 0 /\ UNCHANGED stops
       ELSE stops' = stops \cup {[of |-> starts, waits |-> pool]} /\ UNCHANGED current
    /\ UNCHANGED <<starts, overlapped, tasks, worker, pool, highs, lows, shrinking, collectors>>

\* Faulty variant: the workers that ended stay in the pool.
StoppedKeepingPool(s) ==
    /\ \A w \in s.waits : worker[w].pc = "off"
    /\ stops' = stops \ {s}
    /\ current' = 0
    /\ UNCHANGED <<running, starts, overlapped, tasks, worker, pool, highs, lows, shrinking,
                   collectors>>

\* They have ended: the pool is emptied, whoever is in it by now.
Stopped(s) ==
    /\ \A w \in s.waits : worker[w].pc = "off"
    /\ stops' = stops \ {s}
    /\ pool' = {} /\ current' = 0
    /\ UNCHANGED <<running, starts, overlapped, tasks, worker, highs, lows, shrinking,
                   collectors>>

Submit(t) ==
    /\ running /\ fate[t] = "none"
    /\ queue' = queue \cup {t}
    /\ depth' = Cardinality(queue')
    /\ fate' = [fate EXCEPT ![t] = "live"]
    /\ EvaluateOrCool(queue', "submitter")
    /\ UNCHANGED <<lifecycle, retries, active, late, collectors>>

-----------------------------------------------------------------------------
(* Workers.                                                                *)

\* Faulty variant: urgency is not negated, and the queue pops the smallest.
FirstUnnegated(q) == {t \in q : \A u \in q : Priority[t] <= Priority[u]}

First(q) == {t \in q : \A u \in q : Priority[u] <= Priority[t]}

\* Faulty variant: the task is not marked active when it leaves the queue.
TakeFromUnmarked(w, q, a) ==
    \E t \in First(q) :
        /\ queue' = q \ {t}
        /\ depth' = Cardinality(queue')
        /\ active' = a
        /\ worker' = [worker EXCEPT ![w] = [pc |-> "run", task |-> t]]

\* Worker w takes the first of the tasks q, and marks it active, a being so.
TakeFrom(w, q, a) ==
    \E t \in First(q) :
        /\ queue' = q \ {t}
        /\ depth' = Cardinality(queue')
        /\ active' = a \cup {Id[t]}
        /\ worker' = [worker EXCEPT ![w] = [pc |-> "run", task |-> t]]

\* Back at the head of its loop: end, take the next task or wait for one.
Proceed(w, q, a) ==
    \/ ~ running /\ worker' = [worker EXCEPT ![w] = Off]
         /\ queue' = q /\ active' = a /\ UNCHANGED depth
    \/ running /\ q = {} /\ worker' = [worker EXCEPT ![w] = Waiting]
         /\ queue' = q /\ active' = a /\ UNCHANGED depth
    \/ running /\ TakeFrom(w, q, a)

Take(w) ==
    /\ worker[w].pc = "wait" /\ ~ Cancelled(w)
    /\ TakeFrom(w, queue, active)
    /\ UNCHANGED <<lifecycle, retries, fate, late, scaling, collectors>>

\* Faulty variant: a worker whose get times out waits again all the same.
TimeOutUnheeded(w) ==
    /\ worker[w].pc = "wait" /\ ~ Cancelled(w) /\ ~ running
    /\ UNCHANGED vars

\* The get times out; the worker sees that it was told to stop.
TimeOut(w) ==
    /\ worker[w].pc = "wait" /\ ~ Cancelled(w) /\ ~ running
    /\ worker' = [worker EXCEPT ![w] = Off]
    /\ UNCHANGED <<lifecycle, tasks, scaling, collectors>>

EndTask(w, outcome) ==
    /\ Proceed(w, queue, active \ {Id[worker[w].task]})
    /\ fate' = [fate EXCEPT ![worker[w].task] = outcome]
    /\ UNCHANGED <<lifecycle, retries, late, scaling, collectors>>

Complete(w) == worker[w].pc = "run" /\ ~ Cancelled(w) /\ EndTask(w, "done")

\* Faulty variant: one retry too many.
MayRetryOnceMore(t) == retries[t] <= MaxRetries

MayRetry(t) == retries[t] < MaxRetries

GiveUp(w) ==
    /\ worker[w].pc = "run" /\ ~ Cancelled(w)
    /\ ~ MayRetry(worker[w].task)
    /\ EndTask(w, "failed")

\* The task raised; it stays active while its worker sleeps.
Retry(w) ==
    /\ worker[w].pc = "run" /\ ~ Cancelled(w)
    /\ MayRetry(worker[w].task)
    /\ retries' = [retries EXCEPT ![worker[w].task] = @ + 1]
    /\ worker' = [worker EXCEPT ![w].pc = "retry"]
    /\ UNCHANGED <<lifecycle, queue, active, depth, fate, late, scaling, collectors>>

\* Faulty variant: the retry is counted and the task is not put back.
PutBackForgotten(w) ==
    /\ worker[w].pc = "retry" /\ ~ Cancelled(w)
    /\ Proceed(w, queue, active \ {Id[worker[w].task]})
    /\ late' = IF running THEN late ELSE late \cup {worker[w].task}
    /\ UNCHANGED <<lifecycle, retries, fate, scaling, collectors>>

PutBack(w) ==
    /\ worker[w].pc = "retry" /\ ~ Cancelled(w)
    /\ Proceed(w, queue \cup {worker[w].task}, active \ {Id[worker[w].task]})
    /\ late' = IF running THEN late ELSE late \cup {worker[w].task}
    /\ UNCHANGED <<lifecycle, retries, fate, scaling, collectors>>

\* A cancelled worker ends; a task it held is lost.
Unwind(w) ==
    /\ Cancelled(w)
    /\ worker' = [worker EXCEPT ![w] = Off]
    /\ IF worker[w].task \in Tasks
       THEN /\ active' = active \ {Id[worker[w].task]}
            /\ fate' = [fate EXCEPT ![worker[w].task] = "cut"]
       ELSE UNCHANGED <<active, fate>>
    /\ UNCHANGED <<lifecycle, queue, retries, depth, late, scaling, collectors>>

WorkerStep(w) ==
    \/ Take(w) \/ TimeOut(w)
    \/ Complete(w) \/ GiveUp(w) \/ Retry(w) \/ PutBack(w)
    \/ Unwind(w)

Next ==
    \/ Start \/ Stop \/ \E s \in stops : Stopped(s)
    \/ \E t \in Tasks : Submit(t)
    \/ \E w \in Workers : WorkerStep(w)
    \/ \E s \in shrinking : Shrunk(s)
    \/ Collect \/ CollectorEnds

Spec == Init /\ [][Next]_vars

\* Coroutines of tasks return or raise in the end, and asyncio runs whoever is ready.
FairSpec ==
    /\ Spec
    /\ WF_vars(\E s \in stops : Stopped(s))
    /\ \A w \in Workers : WF_vars(WorkerStep(w))

-----------------------------------------------------------------------------
(* Properties.                                                             *)

Job == [pc: {"off", "wait"}, task: {NoTask}] \cup [pc: {"run", "retry"}, task: Tasks]

TypeOK ==
    /\ running \in BOOLEAN /\ overlapped \in BOOLEAN
    /\ stops \subseteq Waits
    /\ queue \subseteq Tasks
    /\ retries \in [Tasks -> 0 .. MaxRetries]
    /\ active \subseteq Ids
    /\ depth \in Nat
    /\ worker \in [Workers -> Job]
    /\ pool \subseteq Workers
    /\ current \in 0 .. MaxWorkers
    /\ highs \in Nat /\ lows \in Nat
    /\ shrinking \subseteq Shrink
    /\ collectors \in Nat /\ starts \in 0 .. MaxStarts
    /\ fate \in [Tasks -> {"none", "live", "done", "failed", "cut"}]
    /\ late \subseteq Tasks

Holders(t) == {w \in Workers : worker[w].task = t}

\* submit_task, _worker: a task submitted is in the queue or with one worker until it
\* is done, has failed as often as it may, or its worker was cancelled; it is
\* never in two places, and never run again after it ended.
TasksConserved == \A t \in Tasks :
    /\ fate[t] = "live" <=> t \in queue \/ Holders(t) # {}
    /\ t \in queue => Holders(t) = {}
    /\ \A v, w \in Holders(t) : v = w
    /\ fate[t] = "failed" => retries[t] = MaxRetries

\* Where a task is, as the ledger keeps it.
With(t, pc) == \E w \in Workers : worker[w] = [pc |-> pc, task |-> t]
Stage(t) ==
    IF fate[t] # "live" THEN fate[t]
    ELSE IF t \in queue THEN "queued"
    ELSE IF With(t, "run") THEN "running" ELSE "resting"
Stages == [t \in Tasks |-> Stage(t)]

\* submit_task, _worker: the most urgent task is served first, a task runs again
\* only after a failure, MaxRetries times at most, and how it ended stays, however
\* workers, submitters and cancellations overlap: see TaskLedger.
Ledger == INSTANCE TaskLedger WITH stage <- Stages, failures <- retries
ImplementsLedger == Ledger!Spec

\* What drain waits for.
Drained == depth = 0 /\ active = {}

\* queue_scheduler.py:219: drain does not see an empty queue and no active task
\* while there is work, but for tasks put back after a stop and tasks that share
\* their id.
WorkVisible == Drained =>
    /\ queue \subseteq late
    /\ \A w \in Workers : worker[w].task \in Tasks =>
          \E u \in Tasks \ {worker[w].task} : Id[u] = Id[worker[w].task]

\* FR-020 (2 to 5): whatever evaluations, stops and starts overlap, the pool never
\* has more workers than it may. Until a start comes while a stop waits
\* (queue_scheduler.py:118, 149) it has no fewer than it must either while the
\* scheduler runs, all in it are alive, and a worker outside it is one that was
\* cancelled.
PoolSound ==
    /\ Cardinality(pool) <= MaxWorkers
    /\ ~ overlapped =>
          /\ running => /\ Cardinality(pool) >= MinWorkers
                        /\ \A w \in pool : worker[w].pc # "off"
          /\ \A w \in Workers : worker[w].pc # "off" => w \in pool \/ Cancelled(w)

\* A submitted task settles, unless the scheduler is stopped or was started while
\* a stop waited.
TasksSettle == \A t \in Tasks :
    fate[t] = "live" ~> fate[t] # "live" \/ ~ running \/ overlapped

\* stop() returns (queue_scheduler.py:149), whatever was started and stopped
\* before, unless a new start keeps the workers going that it waits for.
StopReturns == stops # {} ~> stops = {} \/ running

=============================================================================
