------------------------------ MODULE Scheduler ------------------------------
(***************************************************************************)
(* The task scheduler (application/scheduler.py): expiring task locks and  *)
(* counted resource leases, as the execution workers of                    *)
(* application/worker.py use them for ReviewRuns and AgentTasks.           *)
(*                                                                         *)
(* Times are kept as what is left of them, so a tick of the clock counts   *)
(* every lock, lease and delay down.  A claim is one step: PostgreSQL      *)
(* holds the candidate rows and the pool rows locked until it commits, and *)
(* SQLite has one writer.  What a worker does with a task is abstracted to *)
(* the status it leaves behind (ReviewExecution has the review in full).   *)
(***************************************************************************)
EXTENDS Integers, FiniteSets

CONSTANTS
    Workers,        \* execution worker processes
    NumTasks,       \* tasks, numbered in the order of created_at
    Kind,           \* Kind[t]: "review" or "agent"
    Priority,       \* Priority[t]: the priority column
    MaxPriority,    \* 100 in the code
    Keys,           \* resource keys, the concurrency keys included
    Units,          \* Units[t][k]: units of k that t requests (0: none)
    Capacity,       \* Capacity[k]: policy capacity of the pool
    AdminCapacity,  \* AdminCapacity[k]: capacities an operator may set
    LockSeconds,    \* ticks a claim lasts
    PollInterval,   \* ticks a released AgentTask is delayed
    TaskTimeout,    \* ticks from started_at to deadline_at
    ScanLimit       \* settings.task_scheduler_scan_limit

Tasks == 1..NumTasks

ASSUME SchedulerAssumption ==
    /\ NumTasks \in Nat \ {0} /\ MaxPriority \in Nat
    /\ Kind \in [Tasks -> {"review", "agent"}]
    /\ Priority \in [Tasks -> 0..MaxPriority]
    /\ Units \in [Tasks -> [Keys -> Nat]]
    /\ Capacity \in [Keys -> Nat \ {0}]
    /\ AdminCapacity \in [Keys -> SUBSET (Nat \ {0})]
    /\ LockSeconds \in Nat \ {0} /\ PollInterval \in Nat
    /\ TaskTimeout \in Nat /\ ScanLimit \in Nat

VARIABLES
    task,     \* the scheduling columns of each Task row
    lease,    \* the ResourceLease rows
    pool,     \* the capacity column of each ResourcePool row
    wk,       \* what each worker holds in memory
    outlived  \* history: tasks in hand of which a claim has run out

vars == <<task, lease, pool, wk, outlived>>

-----------------------------------------------------------------------------

Open == {"queued", "running"}
Status == Open \cup {"awaiting_delivery", "terminal"}
\* The stage that a lease row is filed under: a cancellation changes it while a
\* worker has the task, and the worker may write its own stage over that.
Stage == {"start", "cancellation_pending"}
\* lock: ticks to locked_until, -1 once that is past and -2 while the lock
\* columns are NULL; nobody compares lock_owner.  delay: ticks until
\* available_at.  deadline: ticks to deadline_at, 0 once that is past and -1
\* while the column is NULL.  age: aging intervals since created_at.
Task == [status : Status, stage : Stage, lock : -2..LockSeconds, delay : Nat,
         deadline : -1..TaskTimeout, age : Nat, effective : Nat]
\* left: ticks to expires_at.  A lease with none left is not counted any more.
Lease == [task : Tasks, stage : Stage, key : Keys, owner : Workers,
          left : 1..LockSeconds]
\* loaded: the lock columns as the worker's Task object has them.  left: ticks
\* until the claim runs out, which the worker neither watches nor puts off:
\* renew_task_claim has no caller.
WorkerState == [pc : {"idle", "work", "release"}, task : Tasks,
                loaded : {"set", "null"}, left : 0..LockSeconds]

IdleWorker == [pc |-> "idle", task |-> 1, loaded |-> "null", left |-> 0]

Unlock(row) == [row EXCEPT !.lock = -2]

Busy(w) == wk[w].pc # "idle"

-----------------------------------------------------------------------------
(* claim_next_task *)

\* One element for every unit of k under lease.
UnitsInUse(k) ==
    UNION {{l} \X (1..Units[l.task][k]) : l \in {m \in lease : m.key = k}}

Used(k) == Cardinality(UnitsInUse(k))

\* mutant: the units already in use are compared, the requested ones ignored.
FitsOneMore(t) ==
    \A k \in Keys : Units[t][k] > 0 => Used(k) < pool[k]

\* mutant: the leases that the task itself has left behind are not counted.
FitsBesideItself(t) ==
    \A k \in Keys : Units[t][k] > 0 =>
        Cardinality({u \in UnitsInUse(k) : u[1].task # t}) + Units[t][k] <= pool[k]

\* _acquire_resources: all of the pools have room.
Fits(t) ==
    \A k \in Keys : Units[t][k] > 0 => Used(k) + Units[t][k] <= pool[k]

\* _apply_priority_aging: queued tasks only.
Aged(t) ==
    IF task[t].status = "queued"
    THEN IF Priority[t] + task[t].age > MaxPriority THEN MaxPriority
         ELSE Priority[t] + task[t].age
    ELSE task[t].effective

Claimable(kind) ==
    {t \in Tasks : /\ Kind[t] = kind /\ task[t].status \in Open
                   /\ task[t].delay = 0 /\ task[t].deadline # 0
                   /\ task[t].lock < 0}

\* ORDER BY effective_priority DESC, queued first, available_at, created_at;
\* tasks that are available alike go by created_at.
Before(s, t) ==
    LET queued(r) == task[r].status = "queued" IN
    \/ Aged(s) > Aged(t)
    \/ /\ Aged(s) = Aged(t)
       /\ \/ queued(s) /\ ~queued(t)
          \/ queued(s) = queued(t) /\ s < t

Scanned(kind) ==
    {t \in Claimable(kind) :
       Cardinality({s \in Claimable(kind) : Before(s, t)}) < ScanLimit}

\* The candidates that the scan passes over on its way to the ones in S.
PassedOver(kind, S) ==
    {s \in Scanned(kind) : \A t \in S : Before(s, t)}

\* A candidate that is passed over has been locked and is unlocked again.
AfterScan(passed) ==
    [t \in Tasks |-> [(IF t \in passed THEN Unlock(task[t]) ELSE task[t])
                        EXCEPT !.effective = Aged(t)]]

NewLeases(w, t) ==
    {[task |-> t, stage |-> task[t].stage, key |-> k, owner |-> w,
      left |-> LockSeconds] : k \in {m \in Keys : Units[t][m] > 0}}

\* uq_task_resource_lease: one row per task, stage and key.  The insert of
\* another one raises, and the whole claim is rolled back.
Duplicate(t) ==
    \E l \in lease : /\ l.task = t /\ l.stage = task[t].stage
                     /\ Units[t][l.key] > 0

ClaimTask(w, t) ==
    /\ wk[w].pc = "idle"
    /\ t \in Scanned(Kind[t])
    /\ Fits(t) /\ \A s \in PassedOver(Kind[t], {t}) : ~Fits(s)
    /\ ~Duplicate(t)
    /\ task' = [AfterScan(PassedOver(Kind[t], {t})) EXCEPT ![t] =
                  [@ EXCEPT !.status = "running", !.lock = LockSeconds]]
    /\ lease' = lease \cup NewLeases(w, t)
    /\ wk' = [wk EXCEPT ![w] = [pc |-> "work", task |-> t, loaded |-> "set",
                                left |-> LockSeconds]]
    /\ UNCHANGED <<pool, outlived>>

\* Nothing can be claimed; locks of the candidates are cleared all the same.
ClaimNothing(w, kind) ==
    /\ wk[w].pc = "idle"
    /\ \A t \in Scanned(kind) : ~Fits(t)
    /\ task' = AfterScan(Scanned(kind))
    /\ UNCHANGED <<lease, pool, wk, outlived>>

-----------------------------------------------------------------------------
(* The claimed task *)

\* The first start of a command's agent: deadline_at counts from started_at,
\* which the first claim has set any time ago.
SetDeadline(w) ==
    LET t == wk[w].task IN
    /\ wk[w].pc = "work" /\ Kind[t] = "agent" /\ task[t].deadline = -1
    /\ \E left \in 0..TaskTimeout :
         task' = [task EXCEPT ![t] = [@ EXCEPT !.stage = "start", !.deadline = left]]
    /\ UNCHANGED <<lease, pool, wk, outlived>>

\* process_next_review_run, _process_command_agent_task: the task is left in
\* some status, perhaps for a later time; its stage may be written from the
\* object, and the object may be refreshed.
Settle(w, status, delay) ==
    LET t == wk[w].task IN
    /\ wk[w].pc = "work"
    /\ \E stage \in {task[t].stage, "start"} :
         task' = [task EXCEPT ![t] = [@ EXCEPT !.status = status, !.stage = stage,
                                               !.delay = delay]]
    /\ \E loaded \in {wk[w].loaded, IF task[t].lock = -2 THEN "null" ELSE "set"} :
         wk' = [wk EXCEPT ![w] = [@ EXCEPT !.pc = "release", !.loaded = loaded]]
    /\ UNCHANGED <<lease, pool, outlived>>

\* A worker is done with its task, or dies.  An outlived claim is history once
\* nobody has the task in hand any more.
PutDown(w) ==
    /\ wk' = [wk EXCEPT ![w] = IdleWorker]
    /\ outlived' = {t \in outlived :
                      \E v \in Workers \ {w} : Busy(v) /\ wk[v].task = t}

\* release_task_claim, which both callers call without an owner: the leases
\* of the task are deleted whoever holds them, and the lock columns are
\* cleared unless the loaded ones are empty.
ReleaseTaskClaim(w) ==
    LET t == wk[w].task IN
    /\ wk[w].pc = "release"
    /\ lease' = {l \in lease : l.task # t}
    /\ \E delay \in {task[t].delay} \cup
         (IF Kind[t] = "agent" /\ task[t].status \in Open THEN {PollInterval} ELSE {}) :
         task' = [task EXCEPT ![t] =
                    [(IF wk[w].loaded = "set" THEN Unlock(task[t]) ELSE task[t])
                       EXCEPT !.delay = delay]]
    /\ PutDown(w)
    /\ UNCHANGED pool

\* process_next_agent_task for a mention, or without the comment capability:
\* the task ends and nothing is released.
LeaveUnreleased(w) ==
    LET t == wk[w].task IN
    /\ wk[w].pc = "work" /\ Kind[t] = "agent"
    /\ \E status \in {"terminal", "awaiting_delivery"} :
         task' = [task EXCEPT ![t] = [@ EXCEPT !.status = status]]
    /\ PutDown(w)
    /\ UNCHANGED <<lease, pool>>

CrashWorker(w) ==
    /\ Busy(w)
    /\ PutDown(w)
    /\ UNCHANGED <<task, lease, pool>>

-----------------------------------------------------------------------------
(* Everybody else *)

\* The hard timeout of a review run (emit_timeout_event), and the last commit
\* of cancel_agent_task: the lock is cleared, the leases stay.
EndTask(t) ==
    /\ task[t].status \in Open
    /\ task' = [task EXCEPT ![t] = [Unlock(@) EXCEPT !.status = "terminal"]]
    /\ UNCHANGED <<lease, pool, wk, outlived>>

\* cancel_active_agent_tasks_for_pr
CancelAgentTask(t) ==
    /\ Kind[t] = "agent" /\ task[t].status \in Open
    /\ task' = [task EXCEPT ![t] = [Unlock(@) EXCEPT
                  !.status = "running", !.stage = "cancellation_pending"]]
    /\ UNCHANGED <<lease, pool, wk, outlived>>

\* process_agent_task_timeouts: the lock and the leases are left alone.
TimeOutAgentTask(t) ==
    /\ task[t].status \in Open /\ task[t].deadline = 0 /\ task[t].stage = "start"
    /\ task' = [task EXCEPT ![t] = [@ EXCEPT !.status = "awaiting_delivery"]]
    /\ UNCHANGED <<lease, pool, wk, outlived>>

\* A delivery writes the status it has been enqueued with: a placeholder opens
\* its task for execution and a result ends it.  Only a review that has ended
\* is left alone.
DeliverySettles(t) ==
    /\ Kind[t] = "agent" \/ task[t].status # "terminal"
    /\ \E status \in {"queued", "terminal"} :
         task' = [task EXCEPT ![t] = [@ EXCEPT !.status = status]]
    /\ UNCHANGED <<lease, pool, wk, outlived>>

\* retry_agent_task
RetryAgentTask(t) ==
    /\ Kind[t] = "agent" /\ task[t].status = "terminal"
    /\ task' = [task EXCEPT ![t] = [Unlock(@) EXCEPT
                  !.status = "queued", !.stage = "start", !.deadline = -1]]
    /\ UNCHANGED <<lease, pool, wk, outlived>>

\* mutant: the request may set a capacity of zero.
SetAnyCapacity(k) ==
    /\ \E c \in AdminCapacity[k] \cup {0} : pool' = [pool EXCEPT ![k] = c]
    /\ UNCHANGED <<task, lease, wk, outlived>>

\* set_resource_pool_capacity, for a request that ResourcePoolUpdate admits
SetPoolCapacity(k) ==
    /\ \E c \in AdminCapacity[k] : pool' = [pool EXCEPT ![k] = c]
    /\ UNCHANGED <<task, lease, wk, outlived>>

\* A time that is past, or NULL, stays so.
Down(n, past) == IF n > past THEN n - 1 ELSE n

\* More than MaxPriority intervals make no difference.
Aging(age) == IF age < MaxPriority THEN age + 1 ELSE age

\* What a tick changes apart from the leases.
TimePasses ==
    /\ task' = [t \in Tasks |->
                  [task[t] EXCEPT !.lock = Down(task[t].lock, -1),
                                  !.delay = Down(task[t].delay, 0),
                                  !.deadline = Down(task[t].deadline, 0),
                                  !.age = Aging(task[t].age)]]
    /\ wk' = [w \in Workers |-> [wk[w] EXCEPT !.left = Down(wk[w].left, 0)]]
    /\ outlived' = outlived \cup
         {wk[w].task : w \in {v \in Workers : Busy(v) /\ wk[v].left <= 1}}
    /\ UNCHANGED pool

\* mutant: expired leases are never collected.
TickKeepsLeases == TimePasses /\ UNCHANGED lease

\* A worker's step may last longer than its claim: each git command of
\* prepare_workspace alone may take two fifths of it.
Tick ==
    /\ TimePasses
    /\ lease' = {[l EXCEPT !.left = l.left - 1] : l \in {m \in lease : m.left > 1}}

-----------------------------------------------------------------------------

Init ==
    /\ task = [t \in Tasks |->
                 [status |-> "queued", stage |-> "start", lock |-> -2,
                  delay |-> 0, deadline |-> -1, age |-> 0,
                  effective |-> Priority[t]]]
    /\ lease = {}
    /\ pool = Capacity
    /\ wk = [w \in Workers |-> IdleWorker]
    /\ outlived = {}

WorkerStep(w) ==
    \/ \E t \in Tasks : ClaimTask(w, t)
    \/ \E kind \in {"review", "agent"} : ClaimNothing(w, kind)
    \/ SetDeadline(w)
    \/ \E status \in Status, delay \in {0, PollInterval} : Settle(w, status, delay)
    \/ ReleaseTaskClaim(w) \/ LeaveUnreleased(w) \/ CrashWorker(w)

OtherStep ==
    \/ \E t \in Tasks : \/ EndTask(t) \/ CancelAgentTask(t) \/ TimeOutAgentTask(t)
                        \/ DeliverySettles(t) \/ RetryAgentTask(t)
    \/ \E k \in Keys : SetPoolCapacity(k)

Next == (\E w \in Workers : WorkerStep(w)) \/ OtherStep \/ Tick

Spec == Init /\ [][Next]_vars

-----------------------------------------------------------------------------
(* Fairness: time passes, and a worker gets done with the task it has, since *)
(* each of its calls has a timeout.                                          *)

EndWork(w) ==
    \/ \E status \in Status, delay \in {0, PollInterval} : Settle(w, status, delay)
    \/ ReleaseTaskClaim(w) \/ LeaveUnreleased(w) \/ CrashWorker(w)

FairSpec == Spec /\ WF_vars(Tick) /\ \A w \in Workers : WF_vars(EndWork(w))

-----------------------------------------------------------------------------
(* Properties *)

\* Every row and object keeps its shape.
TypeOK ==
    /\ task \in [Tasks -> Task]
    /\ lease \subseteq Lease
    /\ pool \in [Keys -> Nat \ {0}]
    /\ wk \in [Workers -> WorkerState]
    /\ outlived \subseteq Tasks

\* The units of a resource under lease grow only within the capacity of its
\* pool, whatever expires, is released by somebody else or is reconfigured
\* (_acquire_resources).
LeasesWithinCapacity ==
    [][\A k \in Keys : Used(k)' > Used(k) => Used(k)' <= pool[k]']_vars

\* Every task requests a resource that is never large enough for two of it: the
\* concurrency key of a task has one unit and its default capacity is one
\* (SchedulerPolicy.requirements, task_resource_capacities).  An operator
\* who widens such a pool gives this up.
ExclusiveKeys ==
    \A t \in Tasks : \E k \in Keys :
        /\ Units[t][k] > 0
        /\ \A c \in {Capacity[k]} \cup AdminCapacity[k] :
              c < Units[t][k] + Units[t][k]

\* Two workers have the same task in hand only when a claim of it has been
\* outlived and the task has not been put down since: a cancellation or a
\* timeout that clears the lock of a task in hand lets nobody in, since the
\* leases it leaves behind keep the others out, and an overlap ends with the
\* workers that it began with.
OneWorkerPerTask ==
    \A v, w \in Workers :
        v # w /\ Busy(v) /\ Busy(w) /\ wk[v].task = wk[w].task
            => wk[v].task \in outlived

\* A task that is left open, by a release, a timeout or the death of its worker,
\* can be claimed again in the end, unless it asks for more than a pool has
\* been left with or is past its deadline: its own locks and leases never block
\* it for good.
OpenTaskIsOfferedAgain ==
    \A t \in Tasks :
        task[t].status \in Open ~>
            \/ task[t].status \notin Open \/ task[t].deadline = 0
            \/ \E k \in Keys : Units[t][k] > pool[k]
            \/ t \in Claimable(Kind[t]) /\ Fits(t) /\ ~Duplicate(t)

=============================================================================
