----------------------------- MODULE QueueProofs -----------------------------
(***************************************************************************)
(* What holds of QueueScheduler for any tasks, ids, priorities, workers    *)
(* and bounds: types, the conservation of tasks, what drain can overlook   *)
(* and the bounds of the pool.                                             *)
(***************************************************************************)
EXTENDS QueueScheduler, FiniteSetTheorems, TLAPS

InFlight(w) == worker[w].task
Alive(w) == worker[w].pc # "off"
Shared(t) == \E u \in Tasks \ {t} : Id[u] = Id[t]

\* The tasks: where they are, and that the counters drain reads show them.
TasksInv ==
    /\ queue \subseteq Tasks /\ late \subseteq Tasks
    /\ retries \in [Tasks -> 0 .. MaxRetries]
    /\ active \subseteq Ids /\ depth \in Nat
    /\ worker \in [Workers -> Job]
    /\ fate \in [Tasks -> {"none", "live", "done", "failed", "cut"}]
    /\ TasksConserved
    /\ depth = 0 => queue \subseteq late
    /\ \A w \in Workers : InFlight(w) \in Tasks => Id[InFlight(w)] \in active \/ Shared(InFlight(w))

Accounted == \A w \in Workers : Alive(w) => w \in pool \cup Awaited

\* What holds of the pool until a start comes while a stop waits.
Orderly ==
    /\ running => /\ stops = {}
                  /\ current >= MinWorkers /\ Cardinality(pool) >= MinWorkers
                  /\ \A w \in pool : Alive(w)
    /\ ~ running /\ stops = {} => pool = {}
    /\ \A s \in stops : pool \subseteq s.waits
    /\ \A s \in shrinking : s.target >= MinWorkers
    /\ Accounted

\* The pool: its bounds, and who is alive.
PoolInv ==
    /\ running \in BOOLEAN /\ overlapped \in BOOLEAN
    /\ stops \subseteq Waits /\ (running => starts # 0)
    /\ pool \subseteq Workers /\ shrinking \subseteq Shrink
    /\ current \in 0 .. MaxWorkers /\ Cardinality(pool) <= MaxWorkers
    /\ pool \cap Awaited = {}
    /\ ~ overlapped => Orderly

CountsInv == highs \in Nat /\ lows \in Nat /\ collectors \in Nat /\ starts \in 0 .. MaxStarts

IInv == TasksInv /\ PoolInv /\ CountsInv

-----------------------------------------------------------------------------

LEMMA Constants ==
    /\ Id \in [Tasks -> Ids] /\ NoTask \notin Tasks
    /\ IsFiniteSet(Workers) /\ IsFiniteSet(Tasks)
    /\ MinWorkers \in Nat \ {0} /\ MaxWorkers \in Nat /\ MinWorkers <= MaxWorkers
    /\ MaxRetries \in Nat /\ HighStreak \in Nat \ {0} /\ LowStreak \in Nat \ {0}
    /\ MaxStarts \in Nat
BY QueueAssumption

LEMMA Jobs ==
    /\ Off \in Job /\ Off.pc = "off" /\ Off.task = NoTask
    /\ Waiting \in Job /\ Waiting.pc = "wait" /\ Waiting.task = NoTask
    /\ \A t \in Tasks : [pc |-> "run", task |-> t] \in Job
BY DEF Off, Waiting, Job

LEMMA JobTasks ==
    ASSUME NEW j \in Job
    PROVE  /\ j.pc \in {"off", "wait"} => j.task = NoTask /\ j.task \notin Tasks
           /\ j.pc \in {"run", "retry"} <=> j.task \in Tasks
           /\ j.task \in Tasks \cup {NoTask}
BY Constants DEF Job

\* The depth is the number of tasks queued, zero only if there is none.
LEMMA Depths ==
    ASSUME NEW q \in SUBSET Tasks
    PROVE  Cardinality(q) \in Nat /\ (Cardinality(q) = 0 => q = {})
BY Constants, FS_Subset, FS_CardinalityType, FS_EmptySet

-----------------------------------------------------------------------------
(* Tasks.                                                                  *)

\* Steps that leave every task where it is.
LEMMA TasksStay ==
    ASSUME TasksInv, UNCHANGED <<queue, retries, active, fate, late>>,
           depth' = depth \/ depth' = Cardinality(queue),
           worker' \in [Workers -> Job],
           \A w \in Workers : worker'[w].task = worker[w].task
    PROVE  TasksInv'
<1>1. depth' \in Nat /\ (depth' = 0 => queue' \subseteq late')
  BY Depths DEF TasksInv
<1>2. TasksConserved'
  BY DEF TasksInv, TasksConserved, Holders
<1>3. \A w \in Workers : InFlight(w)' \in Tasks => Id[InFlight(w)'] \in active' \/ Shared(InFlight(w)')
  BY DEF TasksInv, InFlight, Shared
<1> QED
  BY <1>1, <1>2, <1>3 DEF TasksInv

\* Worker w ends with no task, or with the first task of q.
Moved(w, q, a, job) ==
    /\ worker' = [worker EXCEPT ![w] = job]
    /\ \/ /\ job.task = NoTask
          /\ job.pc = "off" => ~ running
          /\ queue' = q /\ active' = a /\ depth' = depth
          /\ running => q = {}
       \/ /\ job.pc = "run" /\ job.task \in First(q)
          /\ queue' = q \ {job.task}
          /\ active' = a \cup {Id[job.task]}
          /\ depth' = Cardinality(queue')

LEMMA ProceedMoves ==
    ASSUME NEW w \in Workers, NEW q \in SUBSET Tasks, NEW a, running \in BOOLEAN,
           Proceed(w, q, a)
    PROVE  \E job \in Job : Moved(w, q, a, job)
<1>1. CASE ~ running /\ worker' = [worker EXCEPT ![w] = Off]
           /\ queue' = q /\ active' = a /\ UNCHANGED depth
  BY <1>1, Jobs DEF Moved
<1>2. CASE running /\ q = {} /\ worker' = [worker EXCEPT ![w] = Waiting]
           /\ queue' = q /\ active' = a /\ UNCHANGED depth
  BY <1>2, Jobs DEF Moved
<1>3. CASE running /\ TakeFrom(w, q, a)
  <2>1. PICK t \in First(q) : /\ queue' = q \ {t} /\ depth' = Cardinality(queue')
                             /\ active' = a \cup {Id[t]}
                             /\ worker' = [worker EXCEPT ![w] = [pc |-> "run", task |-> t]]
    BY <1>3 DEF TakeFrom
  <2>2. [pc |-> "run", task |-> t] \in Job
    BY Jobs DEF First
  <2> QED
    BY <2>1, <2>2 DEF Moved
<1> QED
  BY <1>1, <1>2, <1>3 DEF Proceed

\* A worker leaves its task t, if it has one, to the queue q or to its outcome,
\* and takes another.
LEMMA TasksMove ==
    ASSUME TasksInv, NEW w \in Workers, NEW t, t = worker[w].task,
           NEW job \in Job, NEW q \in SUBSET Tasks,
           Moved(w, q, active \ {Id[u] : u \in {t} \cap Tasks}, job),
           queue \subseteq q, q \subseteq queue \cup ({t} \cap Tasks),
           UNCHANGED retries,
           late \subseteq late', late' \subseteq Tasks, ~ running => q \ queue \subseteq late',
           fate' \in [Tasks -> {"none", "live", "done", "failed", "cut"}],
           \A u \in Tasks \ {t} : fate'[u] = fate[u],
           t \in Tasks => /\ fate'[t] = "live" <=> t \in q
                          /\ fate'[t] = "failed" => retries[t] = MaxRetries
    PROVE  TasksInv'
<1>1. worker' \in [Workers -> Job] /\ worker'[w] = job
      /\ \A v \in Workers \ {w} : worker'[v] = worker[v]
  BY DEF TasksInv, Moved
<1>2. t \in Tasks \cup {NoTask} /\ job.task \in Tasks \cup {NoTask} /\ NoTask \notin Tasks
  BY JobTasks, Constants DEF TasksInv
<1>3. queue' \subseteq Tasks /\ active' \subseteq Ids
  BY Constants DEF Moved, First, TasksInv
<1>4. depth' \in Nat /\ (depth' = 0 => queue' \subseteq late')
  <2>1. CASE job.pc = "run" /\ depth' = Cardinality(queue')
    BY <2>1, <1>3, Depths
  <2>2. CASE queue' = q /\ depth' = depth /\ (running => q = {})
    BY <2>2 DEF TasksInv
  <2> QED
    BY <2>1, <2>2 DEF Moved
<1>5. \A u \in Tasks : u # t => /\ u \in q <=> u \in queue
                                /\ u \in queue' <=> u \in queue /\ u # job.task
                                /\ Holders(u)' = Holders(u) \cup (IF u = job.task THEN {w} ELSE {})
  BY <1>1, <1>2 DEF Moved, Holders
<1>6. t \in Tasks => /\ Holders(t) = {w} /\ t \notin queue
                     /\ Holders(t)' = IF t = job.task THEN {w} ELSE {}
  <2> SUFFICES ASSUME t \in Tasks
               PROVE  /\ Holders(t) = {w} /\ t \notin queue
                      /\ Holders(t)' = IF t = job.task THEN {w} ELSE {}
    OBVIOUS
  <2>1. w \in Holders(t)
    BY DEF Holders
  <2>2. /\ t \in queue => Holders(t) = {}
        /\ \A x, y \in Holders(t) : x = y
    BY DEF TasksInv, TasksConserved
  <2>3. Holders(t) = {w} /\ t \notin queue
    BY <2>1, <2>2
  <2>4. \A v \in Workers \ {w} : worker[v].task # t
    BY <2>3 DEF Holders
  <2>5. Holders(t)' = {v \in Workers : worker'[v].task = t}
    BY DEF Holders
  <2>6. Holders(t)' = IF t = job.task THEN {w} ELSE {}
    BY <1>1, <2>4, <2>5
  <2> QED
    BY <2>3, <2>6
<1>7. job.task \in Tasks => /\ job.task \in q /\ queue' = q \ {job.task}
                            /\ job.task # t => job.task \in queue /\ Holders(job.task) = {}
  <2>1. job.task \in Tasks => job.task \in q /\ queue' = q \ {job.task}
    BY <1>2 DEF Moved, First
  <2> QED
    BY <2>1 DEF TasksInv, TasksConserved
<1>8. job.task \notin Tasks => queue' = q
  BY <1>2 DEF Moved
<1>9. TasksConserved'
  <2> SUFFICES ASSUME NEW u \in Tasks
               PROVE  /\ fate'[u] = "live" <=> u \in queue' \/ Holders(u)' # {}
                      /\ u \in queue' => Holders(u)' = {}
                      /\ \A x, y \in Holders(u)' : x = y
                      /\ fate'[u] = "failed" => retries'[u] = MaxRetries
    BY DEF TasksConserved
  <2>1. CASE u # t
    <3>1. /\ fate[u] = "live" <=> u \in queue \/ Holders(u) # {}
          /\ u \in queue => Holders(u) = {}
          /\ \A x, y \in Holders(u) : x = y
          /\ fate[u] = "failed" => retries[u] = MaxRetries
      BY DEF TasksInv, TasksConserved
    <3> QED
      BY <2>1, <3>1, <1>5, <1>7
  <2>2. CASE u = t
    <3>1. fate'[t] = "live" <=> t \in q
      BY <2>2
    <3>2. fate'[t] = "failed" => retries'[t] = MaxRetries
      BY <2>2
    <3>3. t \in queue' <=> t \in q /\ t # job.task
      BY <2>2, <1>2, <1>7, <1>8
    <3>4. job.task = t => t \in q
      BY <2>2, <1>7
    <3>5. Holders(t)' = IF t = job.task THEN {w} ELSE {}
      BY <2>2, <1>6
    <3> QED
      BY <2>2, <3>1, <3>2, <3>3, <3>4, <3>5
  <2> QED
    BY <2>1, <2>2
<1>10. \A v \in Workers : InFlight(v)' \in Tasks =>
          Id[InFlight(v)'] \in active' \/ Shared(InFlight(v)')
  <2> SUFFICES ASSUME NEW v \in Workers, worker'[v].task \in Tasks
               PROVE  Id[worker'[v].task] \in active' \/ Shared(worker'[v].task)
    BY DEF InFlight, Shared
  <2>1. CASE v = w
    BY <2>1, <1>1, <1>2 DEF Moved
  <2>2. CASE v # w
    <3>1. worker'[v].task = worker[v].task
      BY <2>2, <1>1
    <3>2. Id[worker[v].task] \in active \/ Shared(worker[v].task)
      BY <3>1 DEF TasksInv, InFlight
    <3>3. t \in Tasks => worker[v].task # t
      BY <2>2 DEF TasksInv, TasksConserved, Holders
    <3>4. t \in Tasks /\ Id[worker[v].task] = Id[t] => Shared(worker[v].task)
      BY <3>1, <3>3 DEF Shared
    <3>5. Id[worker[v].task] \in active /\ ~ Shared(worker[v].task) => Id[worker[v].task] \in active'
      BY <3>4 DEF Moved
    <3> QED
      BY <3>1, <3>2, <3>5
  <2> QED
    BY <2>1, <2>2
<1>11. retries' \in [Tasks -> 0 .. MaxRetries] /\ late' \subseteq Tasks
  BY DEF TasksInv
<1> QED
  BY <1>1, <1>3, <1>4, <1>9, <1>10, <1>11 DEF TasksInv

-----------------------------------------------------------------------------
(* The pool.                                                               *)

\* Steps that resize the pool: what they leave of workers and tasks.
Resized(n) ==
    /\ worker' \in [Workers -> Job]
    /\ \A w \in Workers : worker'[w].task = worker[w].task
    /\ \A w \in Workers : Alive(w) => worker'[w] = worker[w]
    /\ pool' \subseteq Workers /\ Cardinality(pool') = n
    /\ (\A w \in pool : Alive(w)) => \A w \in pool' : Alive(w)'
    /\ shrinking' \subseteq Shrink
    /\ \A s \in shrinking' : s \in shrinking \/ s.target = n
    /\ pool' \cap Awaited' = {}
    /\ Accounted => Accounted'
    /\ current' = n \/ current' = current

LEMMA GrowResizes ==
    ASSUME TasksInv, PoolInv, NEW n \in Nat, Grow(n)
    PROVE  Resized(n) /\ current' = n
<1>1. PICK F \in SUBSET Free :
         /\ Cardinality(F) = n - Cardinality(pool)
         /\ pool' = pool \cup F
         /\ worker' = [w \in Workers |-> IF w \in F THEN Waiting ELSE worker[w]]
  BY DEF Grow, StartWorkers
<1>2. F \subseteq Workers /\ F \cap pool = {} /\ F \cap Awaited = {}
      /\ \A w \in F : worker[w].pc = "off"
  BY DEF Free, Named
<1>3. Cardinality(pool') = n
  <2>1. IsFiniteSet(F) /\ IsFiniteSet(pool)
    BY <1>2, Constants, FS_Subset DEF PoolInv
  <2>2. Cardinality(F \cup pool) = Cardinality(F) + Cardinality(pool) - Cardinality(F \cap pool)
    BY <2>1, FS_Union
  <2>3. Cardinality(F \cap pool) = 0 /\ Cardinality(pool) \in Nat
    BY <1>2, <2>1, FS_EmptySet, FS_CardinalityType
  <2>4. Cardinality(F \cup pool) = n
    BY <1>1, <2>2, <2>3
  <2>5. pool' = F \cup pool
    BY <1>1
  <2> QED
    BY <2>4, <2>5
<1>4. /\ worker' \in [Workers -> Job]
      /\ \A w \in Workers : worker'[w] = IF w \in F THEN Waiting ELSE worker[w]
  BY <1>1, Jobs DEF TasksInv
<1>5. \A w \in F : worker[w].task = NoTask
  BY <1>2, JobTasks DEF TasksInv
<1>6. \A w \in Workers : worker'[w].task = worker[w].task
  BY <1>4, <1>5, Jobs
<1>7. \A w \in Workers : Alive(w)' <=> Alive(w) \/ w \in F
  BY <1>4, Jobs DEF Alive
<1>8. shrinking' = shrinking /\ current' = n /\ Awaited' = Awaited
  BY DEF Grow, Awaited
<1>9. pool' \subseteq Workers /\ pool' \cap Awaited' = {} /\ shrinking' \subseteq Shrink
  BY <1>1, <1>2, <1>8 DEF PoolInv
<1>10. (\A w \in pool : Alive(w)) => \A w \in pool' : Alive(w)'
  BY <1>1, <1>2, <1>7 DEF PoolInv
<1>12. Accounted => Accounted'
  BY <1>1, <1>7, <1>8 DEF Accounted
<1>11. \A w \in Workers : Alive(w) => worker'[w] = worker[w]
  BY <1>2, <1>4 DEF Alive
<1> QED
  BY <1>3, <1>4, <1>6, <1>8, <1>9, <1>10, <1>12, <1>11 DEF Resized

LEMMA CancelResizes ==
    ASSUME TasksInv, PoolInv, NEW n \in 1 .. MaxWorkers,
           NEW by \in {"submitter", "collector", "starter"}, Cancel(n, by)
    PROVE  Resized(n) /\ current' = current
<1>1. PICK R \in SUBSET pool :
         /\ Cardinality(R) = Cardinality(pool) - n
         /\ pool' = pool \ R
         /\ shrinking' = shrinking \cup {[target |-> n, waits |-> R, by |-> by]}
  BY DEF Cancel
<1>2. Cardinality(pool') = n
  <2>1. IsFiniteSet(pool)
    BY Constants, FS_Subset DEF PoolInv
  <2>2. Cardinality(pool \ R) = Cardinality(pool) - Cardinality(pool \cap R)
    BY <2>1, FS_Difference
  <2>3. pool \cap R = R /\ Cardinality(pool) \in Nat /\ n \in Nat
    BY <2>1, FS_CardinalityType, Constants
  <2>4. Cardinality(pool \ R) = Cardinality(pool) - Cardinality(R)
    BY <2>2, <2>3
  <2>5. Cardinality(pool \ R) = n
    BY <1>1, <2>3, <2>4
  <2> QED
    BY <1>1, <2>5
<1>3. UNCHANGED <<worker, current>>
  BY DEF Cancel
<1>4. shrinking' \subseteq Shrink /\ \A s \in shrinking' : s \in shrinking \/ s.target = n
  BY <1>1 DEF Shrink, PoolInv
<1>5. Awaited' = Awaited \cup R
  <2> DEFINE r == [target |-> n, waits |-> R, by |-> by]
  <2>1. r.waits = R /\ shrinking' = shrinking \cup {r}
    BY <1>1
  <2> HIDE DEF r
  <2>2. \A w : w \in Awaited' <=> \E s \in shrinking' : w \in s.waits
    BY Zenon DEF Awaited
  <2>3. \A w : w \in Awaited <=> \E s \in shrinking : w \in s.waits
    BY Zenon DEF Awaited
  <2>4. \A w : w \in Awaited' <=> w \in Awaited \/ w \in R
    BY <2>1, <2>2, <2>3
  <2> QED
    BY <2>4
<1>6. /\ pool' \subseteq Workers /\ pool' \cap Awaited' = {}
      /\ Accounted => Accounted'
  BY <1>1, <1>3, <1>5 DEF PoolInv, Alive, Accounted
<1>7. \A w \in Workers : Alive(w)' <=> Alive(w)
  BY <1>3 DEF Alive
<1>8. (\A w \in pool : Alive(w)) => \A w \in pool' : Alive(w)'
  BY <1>1, <1>3 DEF Alive
<1> QED
  BY <1>2, <1>3, <1>4, <1>6, <1>7, <1>8 DEF Resized, TasksInv

\* An evaluation resizes the pool to a number it may have, or leaves it.
LEMMA EvaluateKeeps ==
    ASSUME IInv, running, NEW q, NEW by \in {"submitter", "collector"},
           EvaluateOrCool(q, by), UNCHANGED lifecycle
    PROVE  /\ PoolInv' /\ highs' \in Nat /\ lows' \in Nat
           /\ worker' \in [Workers -> Job]
           /\ \A w \in Workers : worker'[w].task = worker[w].task
           /\ \A w \in Workers : Alive(w) => worker'[w] = worker[w]
<1>1. ASSUME NEW n \in 1 .. MaxWorkers, ~ overlapped => n >= MinWorkers, Resized(n)
      PROVE  PoolInv'
  <2>1. UNCHANGED <<running, stops, starts, overlapped>>
    BY DEF lifecycle
  <2>2. ~ overlapped' => Orderly'
    BY <1>1, <2>1 DEF IInv, PoolInv, Orderly, Resized
  <2> QED
    BY <1>1, <2>1, <2>2, Constants DEF IInv, PoolInv, Resized
<1>2. ASSUME NEW n \in 1 .. MaxWorkers, NEW h \in Nat, NEW l \in Nat,
             ScaleTo(n, by, h, l)
      PROVE  Resized(n) /\ highs' \in Nat /\ lows' \in Nat
  <2>1. n \in Nat
    BY Constants
  <2> QED
    BY <1>2, <2>1, GrowResizes, CancelResizes DEF ScaleTo, IInv
<1>3. ASSUME UNCHANGED <<pool, current, shrinking, worker>>
      PROVE  PoolInv'
  BY <1>3 DEF IInv, PoolInv, Orderly, Accounted, lifecycle, Alive, Awaited
<1>4. current \in 0 .. MaxWorkers /\ (~ overlapped => current >= MinWorkers)
  BY DEF IInv, PoolInv, Orderly
<1>5. /\ Smaller(current + 1, MaxWorkers) \in 1 .. MaxWorkers
      /\ Larger(current - 1, MinWorkers) \in 1 .. MaxWorkers
      /\ ~ overlapped => Smaller(current + 1, MaxWorkers) >= MinWorkers
      /\ ~ overlapped => Larger(current - 1, MinWorkers) >= MinWorkers
  BY <1>4, Constants DEF Smaller, Larger
<1>6. ASSUME NEW latency, Evaluate(q, latency, by)
      PROVE  /\ PoolInv' /\ highs' \in Nat /\ lows' \in Nat
             /\ worker' \in [Workers -> Job]
             /\ \A w \in Workers : worker'[w].task = worker[w].task
             /\ \A w \in Workers : Alive(w) => worker'[w] = worker[w]
  <2> DEFINE h == IF WantsUp(q, latency) THEN highs + 1 ELSE 0
             l == IF WantsDown(q, latency) THEN lows + 1 ELSE 0
  <2>1. h \in Nat /\ l \in Nat
    BY DEF IInv, CountsInv
  <2>2. \/ ScaleTo(Smaller(current + 1, MaxWorkers), by, h, l)
        \/ ScaleTo(Larger(current - 1, MinWorkers), by, h, l)
        \/ highs' = h /\ lows' = l /\ UNCHANGED <<pool, current, shrinking, worker>>
    BY <1>6 DEF Evaluate
  <2> HIDE DEF h, l
  <2>3. CASE ScaleTo(Smaller(current + 1, MaxWorkers), by, h, l)
    BY <1>1, <1>2, <1>5, <2>1, <2>3 DEF Resized
  <2>4. CASE ScaleTo(Larger(current - 1, MinWorkers), by, h, l)
    BY <1>1, <1>2, <1>5, <2>1, <2>4 DEF Resized
  <2>5. CASE highs' = h /\ lows' = l /\ UNCHANGED <<pool, current, shrinking, worker>>
    BY <1>3, <2>1, <2>5 DEF IInv, TasksInv
  <2> QED
    BY <2>2, <2>3, <2>4, <2>5
<1>7. CASE UNCHANGED <<scaling, worker>>
  BY <1>3, <1>7 DEF scaling, IInv, CountsInv, TasksInv
<1> QED
  BY <1>6, <1>7 DEF EvaluateOrCool

-----------------------------------------------------------------------------
(* The actions.                                                            *)

LEMMA CollectKeeps == ASSUME IInv, Collect PROVE IInv'
<1>1. /\ PoolInv' /\ highs' \in Nat /\ lows' \in Nat
      /\ worker' \in [Workers -> Job]
      /\ \A w \in Workers : worker'[w].task = worker[w].task
  BY EvaluateKeeps DEF Collect
<1>2. TasksInv'
  BY <1>1, TasksStay DEF Collect, IInv
<1>3. collectors' \in Nat /\ starts' \in 0 .. MaxStarts
  BY DEF Collect, lifecycle, IInv, CountsInv
<1> QED
  BY <1>1, <1>2, <1>3 DEF IInv, CountsInv

LEMMA SubmitKeeps == ASSUME IInv, NEW t \in Tasks, Submit(t) PROVE IInv'
<1>1. /\ PoolInv' /\ highs' \in Nat /\ lows' \in Nat
      /\ worker' \in [Workers -> Job]
      /\ \A w \in Workers : worker'[w].task = worker[w].task
  BY EvaluateKeeps DEF Submit
<1>2. CountsInv'
  BY <1>1 DEF Submit, lifecycle, IInv, CountsInv
<1>3. /\ queue' = queue \cup {t} /\ queue' \subseteq Tasks /\ depth' = Cardinality(queue')
      /\ fate[t] = "none" /\ fate' = [fate EXCEPT ![t] = "live"]
      /\ UNCHANGED <<retries, active, late>>
  BY DEF Submit, IInv, TasksInv
<1>4. depth' \in Nat /\ (depth' = 0 => queue' \subseteq late')
  BY <1>3, Depths
<1>5. t \notin queue /\ Holders(t) = {}
  BY <1>3 DEF IInv, TasksInv, TasksConserved
<1>6. \A u \in Tasks : Holders(u)' = Holders(u)
  BY <1>1 DEF Holders
<1>7. TasksConserved'
  BY <1>3, <1>5, <1>6 DEF IInv, TasksInv, TasksConserved
<1>8. \A w \in Workers : InFlight(w)' \in Tasks => Id[InFlight(w)'] \in active' \/ Shared(InFlight(w)')
  BY <1>1, <1>3 DEF IInv, TasksInv, InFlight, Shared
<1> QED
  BY <1>1, <1>2, <1>3, <1>4, <1>7, <1>8 DEF IInv, TasksInv

LEMMA StartResizes == ASSUME IInv, Start PROVE Resized(MinWorkers)
<1>1. MinWorkers \in Nat /\ MinWorkers \in 1 .. MaxWorkers
  BY Constants
<1> QED
  BY <1>1, GrowResizes, CancelResizes DEF Start, IInv

LEMMA StartKeeps == ASSUME IInv, Start PROVE IInv'
<1>1. MinWorkers \in Nat /\ MinWorkers \in 1 .. MaxWorkers
  BY Constants
<1>2. Resized(MinWorkers)
  BY StartResizes
<1>3. TasksInv'
  BY <1>2, TasksStay DEF Start, tasks, Resized, IInv
<1>4. ~ overlapped' => Orderly'
  <2> SUFFICES ASSUME ~ overlapped' PROVE Orderly'
    OBVIOUS
  <2>1. ~ overlapped /\ stops = {} /\ stops' = {} /\ running' /\ pool = {} /\ Orderly
    BY DEF Start, IInv, PoolInv, Orderly
  <2>2. current' = MinWorkers
    <3>1. Cardinality(pool) = 0
      BY <2>1, FS_EmptySet
    <3> QED
      BY <1>1, <3>1 DEF Start, Grow, Cancel
  <2> QED
    BY <1>1, <1>2, <2>1, <2>2 DEF Orderly, Resized
<1>5. PoolInv'
  BY <1>1, <1>2, <1>4, Constants DEF Start, Resized, IInv, PoolInv, CountsInv
<1>6. CountsInv'
  BY Constants DEF Start, IInv, CountsInv
<1> QED
  BY <1>3, <1>5, <1>6 DEF IInv

\* Steps that leave workers and tasks alone.
LEMMA QuietStep ==
    ASSUME IInv, UNCHANGED <<tasks, worker>>
    PROVE  TasksInv'
BY TasksStay DEF IInv, TasksInv, tasks

LEMMA StopKeeps == ASSUME IInv, Stop PROVE IInv'
<1> DEFINE r == [of |-> starts, waits |-> pool]
<1>1. r \in Waits /\ r.waits = pool
  BY DEF Stop, Waits, IInv, PoolInv, CountsInv
<1> HIDE DEF r
<1>2. /\ running /\ running' = FALSE /\ UNCHANGED <<worker, pool, shrinking, overlapped, starts>>
      /\ IF pool = {} THEN current' = 0 /\ UNCHANGED stops
         ELSE stops' = stops \cup {r} /\ UNCHANGED current
  BY DEF Stop, r
<1>3. Awaited' = Awaited /\ (Accounted' <=> Accounted)
  BY <1>2 DEF Awaited, Accounted, Alive
<1>4. ~ overlapped' => Orderly'
  BY <1>1, <1>2, <1>3 DEF IInv, PoolInv, Orderly
<1>5. PoolInv'
  <2>1. current' \in 0 .. MaxWorkers
    BY <1>2, Constants DEF IInv, PoolInv
  <2>2. stops' \subseteq Waits
    BY <1>1, <1>2 DEF IInv, PoolInv
  <2>3. pool' = pool /\ pool' \cap Awaited' = {} /\ shrinking' = shrinking /\ Cardinality(pool)' = Cardinality(pool)
    BY <1>2, <1>3 DEF IInv, PoolInv
  <2> QED
    BY <1>2, <1>4, <2>1, <2>2, <2>3 DEF IInv, PoolInv
<1> QED
  BY <1>5, QuietStep DEF Stop, IInv, CountsInv

LEMMA StoppedKeeps == ASSUME IInv, NEW s \in stops, Stopped(s) PROVE IInv'
<1>1. /\ \A w \in s.waits : worker[w].pc = "off"
      /\ stops' = stops \ {s} /\ pool' = {} /\ current' = 0
      /\ UNCHANGED <<running, starts, overlapped, worker, shrinking>>
  BY DEF Stopped
<1>2. Cardinality(pool') = 0 /\ Awaited' = Awaited
  BY <1>1, FS_EmptySet DEF Awaited
<1>3. ~ overlapped' => Orderly'
  BY <1>1, <1>2 DEF IInv, PoolInv, Orderly, Accounted, Alive
<1>4. PoolInv'
  BY <1>1, <1>2, <1>3, Constants DEF IInv, PoolInv
<1> QED
  BY <1>4, QuietStep DEF Stopped, IInv, CountsInv

LEMMA CollectorEndsKeeps == ASSUME IInv, CollectorEnds PROVE IInv'
<1>1. PoolInv'
  BY DEF CollectorEnds, lifecycle, scaling, IInv, PoolInv, Orderly, Accounted, Alive, Awaited
<1> QED
  BY <1>1, QuietStep DEF CollectorEnds, lifecycle, scaling, IInv, CountsInv

LEMMA ShrunkKeeps == ASSUME IInv, NEW s \in shrinking, Shrunk(s) PROVE IInv'
<1>1. TasksInv'
  BY TasksStay DEF Shrunk, IInv, TasksInv
<1>2. s.target \in 1 .. MaxWorkers /\ s.waits \subseteq Workers
  BY DEF IInv, PoolInv, Shrink
<1>3. Awaited' \subseteq Awaited /\ Awaited \subseteq Awaited' \cup s.waits
  BY DEF Shrunk, Awaited
<1>6. Accounted => Accounted'
  BY <1>3 DEF Shrunk, Accounted, Alive
<1>7. ~ overlapped' => Orderly'
  BY <1>2, <1>6 DEF Shrunk, lifecycle, IInv, PoolInv, Orderly, Alive
<1>4. PoolInv'
  BY <1>2, <1>3, <1>7 DEF Shrunk, lifecycle, IInv, PoolInv
<1>5. CountsInv'
  BY DEF Shrunk, lifecycle, IInv, CountsInv
<1> QED
  BY <1>1, <1>4, <1>5 DEF IInv

\* A worker ends only if it was told to stop, or is not in the pool.
LEMMA WorkerMoves ==
    ASSUME IInv, NEW w \in Workers, NEW job \in Job,
           worker' = [worker EXCEPT ![w] = job], Alive(w),
           job.pc = "off" => ~ running \/ w \notin pool,
           UNCHANGED <<lifecycle, scaling>>
    PROVE  PoolInv'
<1>1. \A v \in Workers : Alive(v)' <=> IF v = w THEN job.pc # "off" ELSE Alive(v)
  BY DEF IInv, TasksInv, Alive
<1>2. Awaited' = Awaited /\ UNCHANGED <<pool, current, shrinking, running, stops, starts, overlapped>>
  BY DEF Awaited, scaling, lifecycle
<1>3. ~ overlapped' => Orderly'
  BY <1>1, <1>2 DEF IInv, PoolInv, Orderly, Accounted, Alive
<1> QED
  BY <1>1, <1>2, <1>3 DEF IInv, PoolInv

LEMMA TakeKeeps == ASSUME IInv, NEW w \in Workers, Take(w) PROVE IInv'
<1>1. PICK job \in Job : Moved(w, queue, active, job)
  <2>1. PICK t \in First(queue) : /\ queue' = queue \ {t} /\ depth' = Cardinality(queue')
                                 /\ active' = active \cup {Id[t]}
                                 /\ worker' = [worker EXCEPT ![w] = [pc |-> "run", task |-> t]]
    BY DEF Take, TakeFrom
  <2>2. [pc |-> "run", task |-> t] \in Job
    BY Jobs DEF First, IInv, TasksInv
  <2> QED
    BY <2>1, <2>2 DEF Moved
<1>2. worker[w].task = NoTask /\ NoTask \notin Tasks /\ Alive(w)
  BY JobTasks, Constants DEF Take, IInv, TasksInv, Alive
<1>3. active \ {Id[u] : u \in {NoTask} \cap Tasks} = active
  BY <1>2
<1>4. TasksInv'
  BY <1>1, <1>2, <1>3, TasksMove DEF Take, IInv, TasksInv
<1>5. PoolInv'
  BY <1>1, <1>2, WorkerMoves DEF Take, Moved
<1>6. CountsInv'
  BY DEF Take, lifecycle, scaling, IInv, CountsInv
<1> QED
  BY <1>4, <1>5, <1>6 DEF IInv

LEMMA TimeOutKeeps == ASSUME IInv, NEW w \in Workers, TimeOut(w) PROVE IInv'
<1>1. /\ worker' \in [Workers -> Job]
      /\ \A v \in Workers : worker'[v].task = worker[v].task
  BY Jobs, JobTasks DEF TimeOut, IInv, TasksInv
<1>2. TasksInv'
  BY <1>1, TasksStay DEF TimeOut, tasks, IInv
<1>3. PoolInv'
  BY WorkerMoves, Jobs DEF TimeOut, Alive
<1>4. CountsInv'
  BY DEF TimeOut, lifecycle, scaling, IInv, CountsInv
<1> QED
  BY <1>2, <1>3, <1>4 DEF IInv

\* The task of a worker that runs one or retries one.
LEMMA HeldTask ==
    ASSUME IInv, NEW w \in Workers, worker[w].pc \in {"run", "retry"}
    PROVE  /\ worker[w].task \in Tasks /\ Alive(w)
           /\ worker[w].task \notin queue /\ fate[worker[w].task] = "live"
           /\ {Id[u] : u \in {worker[w].task} \cap Tasks} = {Id[worker[w].task]}
<1>1. worker[w].task \in Tasks /\ Alive(w)
  BY JobTasks DEF IInv, TasksInv, Alive
<1>2. w \in Holders(worker[w].task)
  BY DEF Holders
<1> QED
  BY <1>1, <1>2 DEF IInv, TasksInv, TasksConserved

LEMMA EndTaskKeeps ==
    ASSUME IInv, NEW w \in Workers, worker[w].pc = "run",
           NEW outcome \in {"done", "failed"}, EndTask(w, outcome),
           outcome = "failed" => retries[worker[w].task] = MaxRetries
    PROVE  IInv'
<1> DEFINE a == active \ {Id[worker[w].task]}
<1>1. /\ worker[w].task \in Tasks /\ worker[w].task \notin queue /\ Alive(w)
      /\ {Id[u] : u \in {worker[w].task} \cap Tasks} = {Id[worker[w].task]}
  BY HeldTask
<1>2. PICK job \in Job : Moved(w, queue, a, job)
  <2>1. queue \in SUBSET Tasks /\ running \in BOOLEAN
    BY DEF IInv, TasksInv, PoolInv
  <2>2. Proceed(w, queue, a)
    BY DEF EndTask
  <2> HIDE DEF a
  <2> QED
    BY <2>1, <2>2, ProceedMoves
<1>3. /\ fate' \in [Tasks -> {"none", "live", "done", "failed", "cut"}]
      /\ fate'[worker[w].task] = outcome
      /\ \A u \in Tasks \ {worker[w].task} : fate'[u] = fate[u]
  BY <1>1 DEF EndTask, IInv, TasksInv
<1>4. TasksInv'
  BY <1>1, <1>2, <1>3, TasksMove DEF EndTask, IInv, TasksInv
<1>5. PoolInv'
  BY <1>1, <1>2, WorkerMoves DEF EndTask, Moved
<1>6. CountsInv'
  BY DEF EndTask, lifecycle, scaling, IInv, CountsInv
<1> QED
  BY <1>4, <1>5, <1>6 DEF IInv

LEMMA CompleteKeeps == ASSUME IInv, NEW w \in Workers, Complete(w) PROVE IInv'
BY EndTaskKeeps DEF Complete

LEMMA GiveUpKeeps == ASSUME IInv, NEW w \in Workers, GiveUp(w) PROVE IInv'
<1>1. worker[w].task \in Tasks
  BY HeldTask DEF GiveUp
<1>2. retries[worker[w].task] = MaxRetries
  BY <1>1, Constants DEF GiveUp, MayRetry, IInv, TasksInv
<1> QED
  BY <1>2, EndTaskKeeps DEF GiveUp

LEMMA RetryKeeps == ASSUME IInv, NEW w \in Workers, Retry(w) PROVE IInv'
<1> DEFINE t == worker[w].task
           job == [worker[w] EXCEPT !.pc = "retry"]
<1>1. t \in Tasks /\ Alive(w) /\ fate[t] = "live"
  BY HeldTask DEF Retry
<1>2. job \in Job /\ job.task = t /\ job.pc = "retry" /\ worker' = [worker EXCEPT ![w] = job]
  BY <1>1 DEF Retry, Job, IInv, TasksInv
<1>3. retries' \in [Tasks -> 0 .. MaxRetries] /\ \A u \in Tasks : fate[u] = "failed" => retries'[u] = retries[u]
  BY <1>1, Constants DEF Retry, MayRetry, IInv, TasksInv
<1>4. /\ worker' \in [Workers -> Job]
      /\ \A v \in Workers : worker'[v].task = worker[v].task
  BY <1>2 DEF IInv, TasksInv
<1>5. UNCHANGED <<queue, active, depth, fate, late>>
  BY DEF Retry
<1>6. TasksConserved'
  BY <1>3, <1>4, <1>5 DEF IInv, TasksInv, TasksConserved, Holders
<1>7. \A v \in Workers : InFlight(v)' \in Tasks => Id[InFlight(v)'] \in active' \/ Shared(InFlight(v)')
  BY <1>4, <1>5 DEF IInv, TasksInv, InFlight, Shared
<1>8. TasksInv'
  BY <1>3, <1>4, <1>5, <1>6, <1>7 DEF IInv, TasksInv
<1>9. PoolInv'
  <2> HIDE DEF job
  <2> QED
    BY <1>1, <1>2, WorkerMoves DEF Retry
<1>10. CountsInv'
  BY DEF Retry, lifecycle, scaling, IInv, CountsInv
<1> QED
  BY <1>8, <1>9, <1>10 DEF IInv

LEMMA PutBackKeeps == ASSUME IInv, NEW w \in Workers, PutBack(w) PROVE IInv'
<1> DEFINE q == queue \cup {worker[w].task}
           a == active \ {Id[worker[w].task]}
<1>1. /\ worker[w].task \in Tasks /\ fate[worker[w].task] = "live" /\ Alive(w)
      /\ {Id[u] : u \in {worker[w].task} \cap Tasks} = {Id[worker[w].task]}
  BY HeldTask DEF PutBack
<1>2. q \in SUBSET Tasks /\ running \in BOOLEAN
  BY <1>1 DEF IInv, TasksInv, PoolInv
<1>3. PICK job \in Job : Moved(w, q, a, job)
  <2>1. Proceed(w, q, a)
    BY DEF PutBack
  <2> HIDE DEF q, a
  <2> QED
    BY <1>2, <2>1, ProceedMoves
<1>4. /\ late \subseteq late' /\ late' \subseteq Tasks
      /\ ~ running => q \ queue \subseteq late'
      /\ UNCHANGED <<retries, fate>>
  BY <1>1 DEF PutBack, IInv, TasksInv
<1>5. TasksInv'
  BY <1>1, <1>2, <1>3, <1>4, TasksMove DEF IInv, TasksInv
<1>6. PoolInv'
  <2> HIDE DEF q, a
  <2> QED
    BY <1>1, <1>3, WorkerMoves DEF PutBack, Moved
<1>7. CountsInv'
  BY DEF PutBack, lifecycle, scaling, IInv, CountsInv
<1> QED
  BY <1>5, <1>6, <1>7 DEF IInv

LEMMA UnwindKeeps == ASSUME IInv, NEW w \in Workers, Unwind(w) PROVE IInv'
<1>1. Alive(w) /\ w \notin pool
  BY DEF Unwind, Cancelled, Alive, IInv, PoolInv
<1>2. PoolInv'
  BY <1>1, WorkerMoves, Jobs DEF Unwind
<1>3. /\ worker' \in [Workers -> Job] /\ worker'[w].task = NoTask
      /\ \A v \in Workers \ {w} : worker'[v] = worker[v]
  BY Jobs DEF Unwind, IInv, TasksInv
<1>4. CASE worker[w].task \in Tasks
  <2>1. /\ fate' = [fate EXCEPT ![worker[w].task] = "cut"]
        /\ active' = active \ {Id[worker[w].task]}
        /\ UNCHANGED <<queue, retries, depth, late>>
    BY <1>4 DEF Unwind
  <2>2. /\ w \in Holders(worker[w].task) /\ worker[w].task \notin queue
        /\ \A v \in Workers \ {w} : worker[v].task # worker[w].task
    BY <1>4 DEF Holders, IInv, TasksInv, TasksConserved
  <2>3. TasksConserved'
    BY <1>3, <1>4, <2>1, <2>2, Constants DEF IInv, TasksInv, TasksConserved, Holders
  <2>4. \A v \in Workers : InFlight(v)' \in Tasks => Id[InFlight(v)'] \in active' \/ Shared(InFlight(v)')
    BY <1>3, <1>4, <2>1, <2>2, Constants DEF IInv, TasksInv, InFlight, Shared
  <2>5. TasksInv'
    BY <1>3, <1>4, <2>1, <2>3, <2>4 DEF IInv, TasksInv
  <2> QED
    BY <1>2, <2>5 DEF Unwind, lifecycle, scaling, IInv, CountsInv
<1>5. CASE worker[w].task \notin Tasks
  <2>1. worker[w].task = NoTask
    BY <1>5, JobTasks DEF IInv, TasksInv
  <2>2. \A v \in Workers : worker'[v].task = worker[v].task
    BY <1>3, <2>1
  <2>3. TasksInv'
    BY <1>3, <1>5, <2>2, TasksStay DEF Unwind, IInv
  <2> QED
    BY <1>2, <2>3 DEF Unwind, lifecycle, scaling, IInv, CountsInv
<1> QED
  BY <1>4, <1>5

-----------------------------------------------------------------------------

LEMMA InitIInv == Init => IInv
<1> SUFFICES ASSUME Init PROVE IInv
  OBVIOUS
<1>1. TasksInv
  <2>1. /\ \A w \in Workers : worker[w].task = NoTask
        /\ worker \in [Workers -> Job]
    BY Jobs DEF Init
  <2>2. TasksConserved
    BY <2>1, Constants DEF Init, TasksConserved, Holders
  <2> QED
    BY <2>1, <2>2, Constants DEF Init, TasksInv, InFlight
<1>2. PoolInv
  <2>1. \A w \in Workers : ~ Alive(w)
    BY Jobs DEF Init, Alive
  <2>2. current \in 0 .. MaxWorkers /\ Cardinality({}) = 0
    BY Constants, FS_EmptySet DEF Init
  <2>3. Orderly
    BY <2>1 DEF Init, Orderly, Accounted
  <2>4. pool \cap Awaited = {} /\ pool \subseteq Workers /\ shrinking \subseteq Shrink /\ stops \subseteq Waits
    BY DEF Init
  <2>6. pool = {} /\ Cardinality(pool) = 0
    BY <2>2 DEF Init
  <2>5. Cardinality(pool) <= MaxWorkers
    BY <2>6, Constants
  <2>7. running = FALSE /\ overlapped = FALSE
    BY DEF Init
  <2> QED
    BY <2>2, <2>3, <2>4, <2>5, <2>7 DEF PoolInv
<1>3. CountsInv
  BY Constants DEF Init, CountsInv
<1> QED
  BY <1>1, <1>2, <1>3 DEF IInv

LEMMA StutterKeeps == ASSUME IInv, UNCHANGED vars PROVE IInv'
<1>1. PoolInv'
  BY DEF vars, lifecycle, scaling, IInv, PoolInv, Orderly, Accounted, Alive, Awaited
<1> QED
  BY <1>1, QuietStep DEF vars, lifecycle, scaling, IInv, CountsInv

LEMMA NextKeeps == IInv /\ [Next]_vars => IInv'
<1> SUFFICES ASSUME IInv, [Next]_vars PROVE IInv'
  OBVIOUS
<1>1. CASE Start \/ Stop \/ \E s \in stops : Stopped(s)
  BY <1>1, StartKeeps, StopKeeps, StoppedKeeps
<1>2. CASE \E t \in Tasks : Submit(t)
  BY <1>2, SubmitKeeps
<1>3. ASSUME NEW w \in Workers, WorkerStep(w) PROVE IInv'
  BY <1>3, TakeKeeps, TimeOutKeeps, CompleteKeeps, GiveUpKeeps, RetryKeeps, PutBackKeeps,
     UnwindKeeps DEF WorkerStep
<1>4. CASE \E s \in shrinking : Shrunk(s)
  BY <1>4, ShrunkKeeps
<1>5. CASE Collect \/ CollectorEnds \/ UNCHANGED vars
  BY <1>5, CollectKeeps, CollectorEndsKeeps, StutterKeeps
<1> QED
  BY <1>1, <1>2, <1>3, <1>4, <1>5 DEF Next

THEOREM Inductive == Spec => []IInv
BY InitIInv, NextKeeps, PTL DEF Spec

\* Every variable keeps its type: retries and the worker count are bounded.
THEOREM TypeCorrect == Spec => []TypeOK
<1>1. IInv => TypeOK
  BY DEF IInv, TasksInv, PoolInv, CountsInv, TypeOK
<1> QED
  BY <1>1, Inductive, PTL

\* No task is lost, duplicated or run again, but by the cancellation of a worker.
THEOREM TasksAlwaysConserved == Spec => []TasksConserved
<1>1. IInv => TasksConserved
  BY DEF IInv, TasksInv
<1> QED
  BY <1>1, Inductive, PTL

\* What drain reads hides no task that is queued or in flight, but for the two
\* cases the property names.
THEOREM WorkAlwaysVisible == Spec => []WorkVisible
<1>1. IInv => WorkVisible
  BY DEF IInv, TasksInv, WorkVisible, Drained, InFlight, Shared
<1> QED
  BY <1>1, Inductive, PTL

\* The pool stays within its bounds whatever evaluations overlap.
THEOREM PoolAlwaysSound == Spec => []PoolSound
<1>1. IInv => PoolSound
  BY DEF IInv, PoolInv, Orderly, Accounted, PoolSound, Cancelled, Alive
<1> QED
  BY <1>1, Inductive, PTL

-----------------------------------------------------------------------------
(* The task ledger.                                                        *)

\* A task in the queue, or with a worker, is where the ledger says.
LEMMA StageOf ==
    ASSUME TasksInv, NEW t \in Tasks
    PROVE  /\ fate[t] # "live" => Stage(t) = fate[t]
           /\ Stage(t) = "queued" <=> t \in queue
           /\ \A w \in Workers : worker[w].task = t =>
                 Stage(t) = IF worker[w].pc = "run" THEN "running" ELSE "resting"
<1>1. /\ fate[t] \in {"none", "live", "done", "failed", "cut"}
      /\ t \in queue => fate[t] = "live"
  BY DEF TasksInv, TasksConserved
<1>2. ASSUME NEW w \in Workers, worker[w].task = t
      PROVE  Stage(t) = IF worker[w].pc = "run" THEN "running" ELSE "resting"
  <2>1. w \in Holders(t)
    BY <1>2 DEF Holders
  <2>2. /\ fate[t] = "live" /\ t \notin queue
        /\ \A v \in Workers : worker[v].task = t => v = w
    BY <2>1 DEF TasksInv, TasksConserved, Holders
  <2>3. worker[w] = [pc |-> worker[w].pc, task |-> t]
    BY <1>2 DEF TasksInv, Job
  <2>4. With(t, "run") <=> worker[w].pc = "run"
    BY <2>2, <2>3 DEF With
  <2> QED BY <2>2, <2>4 DEF Stage
<1> QED BY <1>1, <1>2 DEF Stage

\* A task that no step of a worker concerned stays where it is.
LEMMA StageStays ==
    ASSUME NEW t \in Tasks, fate'[t] = fate[t], t \in queue' <=> t \in queue,
           \A w \in Workers :
               worker'[w] = worker[w] \/ (worker[w].task # t /\ worker'[w].task # t)
    PROVE  Stage(t)' = Stage(t)
<1>1. With(t, "run")' <=> With(t, "run")
  BY DEF With
<1> QED BY <1>1 DEF Stage

LEMMA StagesStay ==
    ASSUME UNCHANGED <<queue, retries, fate>>,
           \A t \in Tasks : With(t, "run")' <=> With(t, "run")
    PROVE  UNCHANGED Ledger!vars
<1>1. \A t \in Tasks : Stage(t)' = Stage(t)
  BY DEF Stage
<1> QED BY <1>1 DEF Ledger!vars, Stages

\* The worker that leaves its task t for x takes the most urgent one, or none.
LEMMA WorkerServes ==
    ASSUME TasksInv, TasksInv', NEW w \in Workers, NEW t, t = worker[w].task,
           NEW job \in Job, NEW q \in SUBSET Tasks, NEW a, Moved(w, q, a, job),
           \A u \in Tasks \ {t} : fate'[u] = fate[u] /\ (u \in q <=> u \in queue),
           t \in Tasks => (fate'[t] = "live" <=> t \in q),
           NEW x, x = [u \in Tasks |-> IF u # t THEN Stage(u)
                                       ELSE IF t \in q THEN "queued" ELSE fate'[t]]
    PROVE  Stages' \in Ledger!Served(x)
<1>1. /\ worker'[w] = job /\ worker' \in [Workers -> Job]
      /\ \A v \in Workers \ {w} : worker'[v] = worker[v]
  BY DEF TasksInv, Moved
<1>2. \A u \in Tasks : x[u] = "queued" <=> u \in q
  BY StageOf DEF TasksInv
<1>3. ASSUME NEW u \in Tasks, u # job.task, u \in queue' <=> u \in q
      PROVE  Stage(u)' = x[u]
  <2>1. CASE u # t
    BY <1>1, <1>3, <2>1, StageStays
  <2>2. CASE u = t
    BY <1>3, <2>2 DEF Stage
  <2> QED BY <2>1, <2>2
<1>4. CASE job.task = NoTask /\ queue' = q
  <2>1. \A u \in Tasks : Stage(u)' = x[u]
    BY <1>3, <1>4, Constants
  <2>2. Stages' = x
    BY <2>1 DEF Stages
  <2> QED BY <2>2 DEF Ledger!Served
<1>5. CASE job.pc = "run" /\ job.task \in First(q) /\ queue' = q \ {job.task}
  <2> DEFINE j == job.task
  <2>1. j \in q /\ j \in Tasks /\ \A u \in q : Priority[u] <= Priority[j]
    BY <1>5 DEF First
  <2>2. j \in Ledger!Foremost(x)
    BY <1>2, <2>1 DEF Ledger!Foremost, Ledger!Queued
  <2>3. Stage(j)' = "running"
    <3>1. worker'[w] = [pc |-> "run", task |-> j]
      BY <1>1, <1>5 DEF Job
    <3>2. With(j, "run")' /\ w \in Holders(j)'
      BY <3>1 DEF With, Holders
    <3>3. fate'[j] = "live" /\ j \notin queue'
      BY <2>1, <3>2 DEF TasksInv, TasksConserved
    <3> QED BY <3>2, <3>3 DEF Stage
  <2>4. \A u \in Tasks \ {j} : Stage(u)' = x[u]
    BY <1>3, <1>5
  <2>5. Stages' = [x EXCEPT ![j] = "running"]
    BY <2>1, <2>3, <2>4 DEF Stages
  <2> QED BY <2>2, <2>5 DEF Ledger!Served
<1> QED BY <1>4, <1>5 DEF Moved

\* Steps that move no task: evaluations, starts and stops.
LEMMA QuietLedger ==
    ASSUME IInv, UNCHANGED <<queue, retries, fate>>,
           \A w \in Workers : worker'[w].task = worker[w].task,
           \A w \in Workers : Alive(w) => worker'[w] = worker[w]
    PROVE  UNCHANGED Ledger!vars
<1>1. ASSUME NEW t \in Tasks, NEW w \in Workers,
             worker[w].task = t \/ worker'[w].task = t
      PROVE  worker'[w] = worker[w]
  <2>1. worker[w].task \in Tasks
    BY <1>1
  <2>2. Alive(w)
    BY <2>1, JobTasks DEF IInv, TasksInv, Alive
  <2> QED BY <2>2
<1>2. \A t \in Tasks : Stage(t)' = Stage(t)
  BY <1>1, StageStays
<1> QED BY <1>2 DEF Ledger!vars, Stages

LEMMA SubmitLedger == ASSUME IInv, NEW t \in Tasks, Submit(t) PROVE Ledger!Submit(t)
<1>1. /\ \A w \in Workers : worker'[w].task = worker[w].task
      /\ \A w \in Workers : Alive(w) => worker'[w] = worker[w]
  BY EvaluateKeeps DEF Submit
<1>2. /\ fate[t] = "none" /\ fate' = [fate EXCEPT ![t] = "live"]
      /\ queue' = queue \cup {t} /\ UNCHANGED retries
  BY DEF Submit
<1>3. Stage(t) = "none" /\ Stage(t)' = "queued"
  BY <1>2 DEF Stage, IInv, TasksInv
<1>4. ASSUME NEW u \in Tasks \ {t} PROVE Stage(u)' = Stage(u)
  <2>1. ASSUME NEW w \in Workers, worker[w].task = u \/ worker'[w].task = u
        PROVE  worker'[w] = worker[w]
    BY <1>1, <2>1, JobTasks DEF IInv, TasksInv, Alive
  <2> QED BY <1>2, <2>1, StageStays DEF IInv, TasksInv
<1>5. Stages' = [Stages EXCEPT ![t] = "queued"]
  BY <1>3, <1>4 DEF Stages
<1> QED BY <1>2, <1>3, <1>5 DEF Ledger!Submit, Ledger!Becomes, Stages

LEMMA RetryLedger ==
    ASSUME IInv, NEW w \in Workers, Retry(w), NEW t, t = worker[w].task
    PROVE  Ledger!Fail(t)
<1>1. t \in Tasks /\ fate[t] = "live" /\ t \notin queue
  BY HeldTask DEF Retry
<1>2. /\ worker[w].pc = "run" /\ retries[t] < MaxRetries
      /\ retries' = [retries EXCEPT ![t] = @ + 1]
      /\ UNCHANGED <<queue, fate>>
  BY DEF Retry, MayRetry
<1>3. worker'[w] = [pc |-> "retry", task |-> t] /\ \A v \in Workers \ {w} : worker'[v] = worker[v]
  BY <1>1, <1>2 DEF Retry, IInv, TasksInv, Job
<1>4. \A v \in Workers \ {w} : worker[v].task # t
  BY <1>1 DEF IInv, TasksInv, TasksConserved, Holders
<1>5. Stage(t) = "running"
  BY <1>1, <1>2, StageOf DEF IInv
<1>6. ~ With(t, "run")'
  BY <1>3, <1>4 DEF With
<1>7. Stage(t)' = "resting"
  BY <1>1, <1>2, <1>6 DEF Stage
<1>8. ASSUME NEW u \in Tasks \ {t} PROVE Stage(u)' = Stage(u)
  BY <1>2, <1>3, StageStays
<1>9. Stages' = [Stages EXCEPT ![t] = "resting"]
  BY <1>7, <1>8 DEF Stages
<1> QED BY <1>1, <1>2, <1>5, <1>9 DEF Ledger!Fail, Ledger!Becomes, Stages

LEMMA TakeLedger == ASSUME IInv, IInv', NEW w \in Workers, Take(w) PROVE Ledger!Take
<1>1. PICK t \in First(queue) : /\ queue' = queue \ {t} /\ depth' = Cardinality(queue')
                               /\ active' = active \cup {Id[t]}
                               /\ worker' = [worker EXCEPT ![w] = [pc |-> "run", task |-> t]]
  BY DEF Take, TakeFrom
<1>2. [pc |-> "run", task |-> t] \in Job
  BY <1>1, Jobs DEF First, IInv, TasksInv
<1>3. Moved(w, queue, active, [pc |-> "run", task |-> t])
  BY <1>1 DEF Moved
<1>4. worker[w].task \notin Tasks
  BY JobTasks DEF Take, IInv, TasksInv
<1>5. Stages = [u \in Tasks |-> IF u # worker[w].task THEN Stage(u)
                       ELSE IF worker[w].task \in queue THEN "queued" ELSE fate'[worker[w].task]]
  BY <1>4 DEF Stages
<1>6. UNCHANGED <<retries, fate>> /\ queue \in SUBSET Tasks
  BY DEF Take, IInv, TasksInv
<1>7. Stages' \in Ledger!Served(Stages)
  BY <1>2, <1>3, <1>4, <1>5, <1>6, WorkerServes DEF IInv
<1> QED BY <1>6, <1>7 DEF Ledger!Take

\* A worker ends its task, or puts it back into q, and goes on.
LEMMA ProceedServes ==
    ASSUME IInv, IInv', NEW w \in Workers, worker[w].pc \in {"run", "retry"},
           NEW t, t = worker[w].task, NEW q \in SUBSET Tasks,
           queue \subseteq q, q \subseteq queue \cup {t},
           Proceed(w, q, active \ {Id[t]}),
           \A u \in Tasks \ {t} : fate'[u] = fate[u], fate'[t] = "live" <=> t \in q
    PROVE  Stages' \in Ledger!Served([Stages EXCEPT ![t] = IF t \in q THEN "queued" ELSE fate'[t]])
<1> DEFINE x == [Stages EXCEPT ![t] = IF t \in q THEN "queued" ELSE fate'[t]]
<1>1. t \in Tasks
  BY HeldTask
<1>2. PICK job \in Job : Moved(w, q, active \ {Id[t]}, job)
  BY ProceedMoves DEF IInv, PoolInv
<1>3. x = [u \in Tasks |-> IF u # t THEN Stage(u)
                           ELSE IF t \in q THEN "queued" ELSE fate'[t]]
  BY <1>1 DEF Stages
<1> HIDE DEF x
<1>4. Stages' \in Ledger!Served(x)
  BY <1>2, <1>3, WorkerServes DEF IInv
<1> QED BY <1>4 DEF x

LEMMA EndTaskServes ==
    ASSUME IInv, IInv', NEW w \in Workers, worker[w].pc = "run",
           NEW outcome \in {"done", "failed"}, EndTask(w, outcome)
    PROVE  /\ worker[w].task \in Tasks /\ Stages[worker[w].task] = "running" /\ UNCHANGED retries
           /\ Stages' \in Ledger!Served(Ledger!Becomes(worker[w].task, outcome))
<1> DEFINE t == worker[w].task
<1>1. t \in Tasks /\ t \notin queue
  BY HeldTask
<1>2. fate'[t] = outcome /\ \A u \in Tasks \ {t} : fate'[u] = fate[u]
  BY <1>1 DEF EndTask, IInv, TasksInv
<1>3. Proceed(w, queue, active \ {Id[t]}) /\ queue \in SUBSET Tasks
  BY DEF EndTask, IInv, TasksInv
<1>4. Stages' \in Ledger!Served([Stages EXCEPT ![t] = IF t \in queue THEN "queued" ELSE fate'[t]])
  BY <1>1, <1>2, <1>3, ProceedServes
<1>5. Stages[t] = "running"
  BY <1>1, StageOf DEF IInv, Stages
<1> QED BY <1>1, <1>2, <1>4, <1>5 DEF EndTask, Ledger!Becomes

LEMMA CompleteLedger ==
    ASSUME IInv, IInv', NEW w \in Workers, Complete(w)
    PROVE  Ledger!Complete(worker[w].task)
BY EndTaskServes DEF Complete, Ledger!Complete

LEMMA GiveUpLedger ==
    ASSUME IInv, IInv', NEW w \in Workers, GiveUp(w)
    PROVE  Ledger!GiveUp(worker[w].task)
<1>1. retries[worker[w].task] = MaxRetries
  BY HeldTask, Constants DEF GiveUp, MayRetry, IInv, TasksInv
<1> QED BY <1>1, EndTaskServes DEF GiveUp, Ledger!GiveUp

LEMMA PutBackLedger ==
    ASSUME IInv, IInv', NEW w \in Workers, PutBack(w)
    PROVE  Ledger!PutBack(worker[w].task)
<1> DEFINE t == worker[w].task
           q == queue \cup {t}
<1>1. t \in Tasks /\ fate[t] = "live" /\ worker[w].pc = "retry"
  BY HeldTask DEF PutBack
<1>2. /\ Proceed(w, q, active \ {Id[t]}) /\ UNCHANGED <<retries, fate>>
      /\ q \in SUBSET Tasks
  BY <1>1 DEF PutBack, IInv, TasksInv
<1>3. t \in q /\ queue \subseteq q /\ q \subseteq queue \cup {t}
  OBVIOUS
<1> HIDE DEF q
<1>4. Stages' \in Ledger!Served([Stages EXCEPT ![t] = IF t \in q THEN "queued" ELSE fate'[t]])
  BY <1>1, <1>2, <1>3, ProceedServes
<1>5. Stages[t] = "resting"
  BY <1>1, StageOf DEF IInv, Stages
<1> QED BY <1>2, <1>3, <1>4, <1>5 DEF Ledger!PutBack, Ledger!Becomes

\* A cancelled worker loses its task, if it has one.
LEMMA UnwindLedger ==
    ASSUME IInv, NEW w \in Workers, Unwind(w), NEW t, t = worker[w].task
    PROVE  UNCHANGED Ledger!vars \/ (t \in Tasks /\ Ledger!Lose(t))
<1>1. /\ worker'[w] = Off /\ Off.task = NoTask /\ NoTask \notin Tasks
      /\ \A v \in Workers \ {w} : worker'[v] = worker[v]
      /\ UNCHANGED <<queue, retries>>
  BY Jobs, Constants DEF Unwind, IInv, TasksInv
<1>2. CASE t \notin Tasks
  <2>1. ASSUME NEW u \in Tasks PROVE Stage(u)' = Stage(u)
    BY <1>1, <1>2, StageStays DEF Unwind
  <2> QED BY <1>1, <2>1 DEF Ledger!vars, Stages
<1>3. CASE t \in Tasks
  <2>1. fate' = [fate EXCEPT ![t] = "cut"]
    BY <1>3 DEF Unwind
  <2>2. Stage(t)' = "cut" /\ \A u \in Tasks \ {t} : fate'[u] = fate[u]
    BY <1>3, <2>1 DEF Stage, IInv, TasksInv
  <2>3. Stage(t) \in {"running", "resting"}
    BY <1>3, StageOf DEF IInv
  <2>4. ASSUME NEW u \in Tasks \ {t} PROVE Stage(u)' = Stage(u)
    BY <1>1, <2>2, StageStays
  <2>5. Stages' = [Stages EXCEPT ![t] = "cut"]
    BY <2>2, <2>4 DEF Stages
  <2> QED BY <1>1, <1>3, <2>3, <2>5 DEF Ledger!Lose, Ledger!Becomes, Stages
<1> QED BY <1>2, <1>3

LEMMA StepLedger == IInv /\ IInv' /\ [Next]_vars => [Ledger!Next]_Ledger!vars
<1> SUFFICES ASSUME IInv, IInv', [Next]_vars PROVE [Ledger!Next]_Ledger!vars
  OBVIOUS
<1>1. ASSUME NEW t \in Tasks, Submit(t) PROVE Ledger!Next
  BY <1>1, SubmitLedger DEF Ledger!Next
<1>2. ASSUME NEW w \in Workers, WorkerStep(w) PROVE [Ledger!Next]_Ledger!vars
  <2>1. CASE TimeOut(w)
    <3>1. /\ \A v \in Workers : worker'[v].task = worker[v].task
          /\ UNCHANGED <<queue, retries, fate>>
          /\ \A v \in Workers \ {w} : worker'[v] = worker[v]
      BY <2>1, Jobs, JobTasks DEF TimeOut, tasks, IInv, TasksInv
    <3>2. worker[w].task \notin Tasks /\ worker'[w].task \notin Tasks
      BY <2>1, <3>1, JobTasks DEF TimeOut, IInv, TasksInv
    <3>3. ASSUME NEW u \in Tasks PROVE Stage(u)' = Stage(u)
      BY <3>1, <3>2, StageStays
    <3> QED BY <3>1, <3>3 DEF Ledger!vars, Stages
  <2>2. CASE worker[w].pc \in {"run", "retry"} => worker[w].task \in Tasks
    <3>1. CASE Take(w)
      BY <3>1, TakeLedger DEF Ledger!Next
    <3>2. CASE Complete(w) \/ GiveUp(w) \/ Retry(w)
      BY <2>2, <3>2, CompleteLedger, GiveUpLedger, RetryLedger
         DEF Ledger!Next, Complete, GiveUp, Retry
    <3>3. CASE PutBack(w)
      BY <2>2, <3>3, PutBackLedger DEF Ledger!Next, PutBack
    <3>4. CASE Unwind(w)
      BY <3>4, UnwindLedger DEF Ledger!Next
    <3> QED BY <1>2, <2>1, <3>1, <3>2, <3>3, <3>4 DEF WorkerStep
  <2> QED BY <2>2, HeldTask
<1>3. CASE Start
  <2>1. Resized(MinWorkers)
    BY <1>3, StartResizes
  <2> QED BY <1>3, <2>1, QuietLedger DEF Start, tasks, Resized
<1>4. CASE Collect
  BY <1>4, EvaluateKeeps, QuietLedger DEF Collect
<1>5. CASE Stop \/ (\E s \in stops : Stopped(s)) \/ CollectorEnds \/ UNCHANGED vars
  BY <1>5, QuietLedger DEF Stop, Stopped, CollectorEnds, tasks, vars
<1>6. CASE \E s \in shrinking : Shrunk(s)
  BY <1>6, QuietLedger DEF Shrunk
<1> QED BY <1>1, <1>2, <1>3, <1>4, <1>5, <1>6 DEF Next

LEMMA InitLedger == Init => Ledger!Init
BY DEF Init, Ledger!Init, Stages, Stage

\* Every step of submitters, workers and evaluations is one of the ledger
\* (queue_scheduler.py:156-280): urgency, the count of attempts and outcomes hold
\* for any number of tasks and workers.
THEOREM QueueKeepsLedger == Spec => ImplementsLedger
BY Inductive, InitLedger, StepLedger, PTL DEF Spec, ImplementsLedger, Ledger!Spec

=============================================================================
