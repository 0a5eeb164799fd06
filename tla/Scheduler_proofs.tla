--------------------------- MODULE Scheduler_proofs ---------------------------
(* Proofs about Scheduler for any workers, tasks, resources and capacities. *)
EXTENDS Scheduler, FiniteSetTheorems, TLAPS

\* Only finitely many units of a resource are under lease.
FiniteUse == \A k \in Keys : IsFiniteSet(UnitsInUse(k))

LEMMA UnitsMember ==
    ASSUME NEW k \in Keys
    PROVE  \A x : x \in UnitsInUse(k) <=>
             \E l \in lease : /\ l.key = k
                              /\ \E u \in 1..Units[l.task][k] : x = <<l, u>>
BY DEF UnitsInUse

-----------------------------------------------------------------------------
(* Types *)

LEMMA InitialTypes == Init => TypeOK /\ FiniteUse
<1> SUFFICES ASSUME Init PROVE TypeOK /\ FiniteUse
  OBVIOUS
<1>1. TypeOK
  <2>1. task \in [Tasks -> Task]
    BY SchedulerAssumption DEF Init, Task, Status, Open, Stage
  <2>2. wk \in [Workers -> WorkerState]
    BY SchedulerAssumption DEF Init, IdleWorker, WorkerState, Tasks
  <2> QED
    BY <2>1, <2>2, SchedulerAssumption DEF Init, TypeOK
<1>2. FiniteUse
  <2> SUFFICES ASSUME NEW k \in Keys PROVE IsFiniteSet(UnitsInUse(k))
    BY DEF FiniteUse
  <2>1. UnitsInUse(k) = {}
    BY UnitsMember DEF Init
  <2> QED
    BY <2>1, FS_EmptySet
<1> QED
  BY <1>1, <1>2

LEMMA Bounds == /\ LockSeconds \in Nat /\ PollInterval \in Nat
                /\ -2 \in -2..LockSeconds /\ LockSeconds \in -2..LockSeconds
                /\ TaskTimeout \in Nat /\ -1 \in -1..TaskTimeout
BY SchedulerAssumption

LEMMA UnlockType == \A row \in Task : Unlock(row) \in Task
BY Bounds DEF Unlock, Task

LEMMA IdleType == IdleWorker \in WorkerState
BY SchedulerAssumption DEF IdleWorker, WorkerState, Tasks

LEMMA ScanType ==
    ASSUME TypeOK, NEW S
    PROVE  AfterScan(S) \in [Tasks -> Task]
<1> SUFFICES ASSUME NEW t \in Tasks
             PROVE  [(IF t \in S THEN Unlock(task[t]) ELSE task[t])
                       EXCEPT !.effective = Aged(t)] \in Task
  BY DEF AfterScan
<1> DEFINE row == IF t \in S THEN Unlock(task[t]) ELSE task[t]
<1>1. row \in Task /\ task[t] \in Task
  BY UnlockType DEF TypeOK
<1>2. Aged(t) \in Nat
  <2>1. Priority[t] \in Nat /\ MaxPriority \in Nat
    BY SchedulerAssumption
  <2>2. task[t].age \in Nat /\ task[t].effective \in Nat
    BY <1>1 DEF Task
  <2> QED
    BY <2>1, <2>2 DEF Aged
<1> HIDE DEF row
<1>3. [row EXCEPT !.effective = Aged(t)] \in Task
  BY <1>1, <1>2 DEF Task
<1> QED
  BY <1>3 DEF row

\* A row that changes in one task only.
LEMMA RowType ==
    ASSUME TypeOK, NEW t \in Tasks, NEW row \in Task,
           task' = [task EXCEPT ![t] = row]
    PROVE  task' \in [Tasks -> Task]
BY DEF TypeOK

LEMMA WorkerTypes ==
    ASSUME TypeOK, NEW w \in Workers, WorkerStep(w)
    PROVE  TypeOK'
<1>0. /\ wk[w] \in WorkerState /\ wk[w].task \in Tasks
      /\ task[wk[w].task] \in Task
      /\ wk \in [Workers -> WorkerState] /\ task \in [Tasks -> Task]
      /\ pool \in [Keys -> Nat \ {0}] /\ outlived \subseteq Tasks
  BY DEF TypeOK, WorkerState
<1>1. ASSUME NEW t \in Tasks, ClaimTask(w, t) PROVE TypeOK'
  <2> DEFINE scan == AfterScan(PassedOver(Kind[t], {t}))
             row == [scan[t] EXCEPT !.status = "running", !.lock = LockSeconds]
             held == [pc |-> "work", task |-> t, loaded |-> "set",
                      left |-> LockSeconds]
  <2>1. scan \in [Tasks -> Task]
    BY ScanType
  <2>2. row \in Task
    BY <2>1, Bounds DEF Task, Status, Open
  <2>3. held \in WorkerState
    BY SchedulerAssumption DEF WorkerState
  <2>4. task' = [scan EXCEPT ![t] = row] /\ wk' = [wk EXCEPT ![w] = held]
    BY <1>1, <2>1 DEF ClaimTask
  <2>5. NewLeases(w, t) \subseteq Lease
    <3>1. task[t].stage \in Stage
      BY DEF TypeOK, Task
    <3> QED
      BY <3>1, SchedulerAssumption DEF NewLeases, Lease
  <2>6. lease' \subseteq Lease /\ pool' = pool /\ outlived' = outlived
    BY <1>1, <2>5 DEF ClaimTask, TypeOK
  <2> HIDE DEF scan, row, held
  <2> QED
    BY <1>0, <2>1, <2>2, <2>3, <2>4, <2>6 DEF TypeOK
<1>2. ASSUME NEW kind, ClaimNothing(w, kind) PROVE TypeOK'
  BY <1>2, ScanType DEF ClaimNothing, TypeOK
<1>3. ASSUME NEW status \in Status, NEW delay \in {0, PollInterval},
             Settle(w, status, delay)
      PROVE  TypeOK'
  <2> DEFINE t == wk[w].task
  <2>0. delay \in Nat /\ task[t] \in Task /\ task[t].stage \in Stage
    BY <1>0, Bounds DEF Task
  <2>1. PICK stage \in {task[t].stage, "start"} :
          task' = [task EXCEPT ![t] = [task[t] EXCEPT !.status = status,
                                         !.stage = stage, !.delay = delay]]
    BY <1>0, <1>3 DEF Settle
  <2>2. stage \in Stage
    BY <2>0 DEF Stage
  <2> DEFINE row == [task[t] EXCEPT !.status = status, !.stage = stage,
                                    !.delay = delay]
  <2>7. row \in Task
    BY <2>0, <2>2 DEF Task
  <2>3. PICK loaded \in {wk[w].loaded, "null", "set"} :
          wk' = [wk EXCEPT ![w] = [wk[w] EXCEPT !.pc = "release", !.loaded = loaded]]
    BY <1>0, <1>3 DEF Settle
  <2>4. [wk[w] EXCEPT !.pc = "release", !.loaded = loaded] \in WorkerState
    BY <1>0 DEF WorkerState, Task
  <2> HIDE DEF row
  <2>8. task' = [task EXCEPT ![t] = row]
    BY <2>1 DEF row
  <2>5. task' \in [Tasks -> Task]
    BY <1>0, <2>7, <2>8, RowType
  <2>6. wk' \in [Workers -> WorkerState]
    BY <1>0, <2>3, <2>4
  <2> QED
    BY <1>3, <2>5, <2>6 DEF Settle, TypeOK
<1>4. CASE ReleaseTaskClaim(w)
  <2> DEFINE t == wk[w].task
             old == IF wk[w].loaded = "set" THEN Unlock(task[t]) ELSE task[t]
  <2>1. PICK delay \in {task[t].delay, PollInterval} :
          task' = [task EXCEPT ![t] = [old EXCEPT !.delay = delay]]
    BY <1>4 DEF ReleaseTaskClaim
  <2>2. old \in Task /\ delay \in Nat
    BY <1>0, UnlockType, SchedulerAssumption DEF Task
  <2> HIDE DEF old
  <2>3. [old EXCEPT !.delay = delay] \in Task
    BY <2>2 DEF Task
  <2>4. task' \in [Tasks -> Task]
    BY <1>0, <2>1, <2>3, RowType
  <2> QED
    BY <1>0, <1>4, <2>4, IdleType DEF ReleaseTaskClaim, PutDown, TypeOK
<1>5. CASE LeaveUnreleased(w)
  <2> DEFINE t == wk[w].task
  <2>1. PICK status \in {"terminal", "awaiting_delivery"} :
          task' = [task EXCEPT ![t] = [task[t] EXCEPT !.status = status]]
    BY <1>0, <1>5 DEF LeaveUnreleased
  <2>2. [task[t] EXCEPT !.status = status] \in Task
    BY <1>0 DEF Task, Status
  <2>3. task' \in [Tasks -> Task]
    BY <1>0, <2>1, <2>2, RowType
  <2> QED
    BY <1>0, <1>5, <2>3, IdleType DEF LeaveUnreleased, PutDown, TypeOK
<1>6. CASE CrashWorker(w)
  BY <1>0, <1>6, IdleType DEF CrashWorker, PutDown, TypeOK
<1>7. CASE SetDeadline(w)
  <2> DEFINE t == wk[w].task
  <2>1. PICK left \in 0..TaskTimeout :
          task' = [task EXCEPT ![t] = [task[t] EXCEPT !.stage = "start",
                                                      !.deadline = left]]
    BY <1>0, <1>7 DEF SetDeadline
  <2>2. left \in -1..TaskTimeout
    BY <2>1, Bounds
  <2>3. [task[t] EXCEPT !.stage = "start", !.deadline = left] \in Task
    BY <1>0, <2>2 DEF Task, Stage
  <2>4. task' \in [Tasks -> Task]
    BY <1>0, <2>1, <2>3, RowType
  <2> QED
    BY <1>7, <2>4 DEF SetDeadline, TypeOK
<1> QED
  BY <1>1, <1>2, <1>3, <1>4, <1>5, <1>6, <1>7 DEF WorkerStep

LEMMA OtherTypes ==
    ASSUME TypeOK, OtherStep
    PROVE  TypeOK'
<1>1. ASSUME NEW t \in Tasks,
             \/ EndTask(t) \/ CancelAgentTask(t) \/ TimeOutAgentTask(t)
             \/ DeliverySettles(t) \/ RetryAgentTask(t)
      PROVE  TypeOK'
  <2>1. task[t] \in Task /\ Unlock(task[t]) \in Task /\ task \in [Tasks -> Task]
    BY UnlockType DEF TypeOK
  <2>2. \E row \in Task : task' = [task EXCEPT ![t] = row]
    <3>1. CASE EndTask(t)
      <4>1. [Unlock(task[t]) EXCEPT !.status = "terminal"] \in Task
        BY <2>1 DEF Task, Status
      <4> QED
        BY <2>1, <3>1, <4>1 DEF EndTask
    <3>2. CASE CancelAgentTask(t)
      <4>1. [Unlock(task[t]) EXCEPT !.status = "running",
                                    !.stage = "cancellation_pending"] \in Task
        BY <2>1 DEF Task, Status, Open, Stage
      <4> QED
        BY <2>1, <3>2, <4>1 DEF CancelAgentTask
    <3>3. CASE DeliverySettles(t)
      <4>1. PICK status \in {"queued", "terminal"} :
              task' = [task EXCEPT ![t] = [task[t] EXCEPT !.status = status]]
        BY <2>1, <3>3 DEF DeliverySettles
      <4>2. [task[t] EXCEPT !.status = status] \in Task
        BY <2>1 DEF Task, Status, Open
      <4> QED
        BY <4>1, <4>2
    <3>5. CASE TimeOutAgentTask(t)
      <4>1. [task[t] EXCEPT !.status = "awaiting_delivery"] \in Task
        BY <2>1 DEF Task, Status
      <4> QED
        BY <2>1, <3>5, <4>1 DEF TimeOutAgentTask
    <3>4. CASE RetryAgentTask(t)
      <4>1. [Unlock(task[t]) EXCEPT !.status = "queued", !.stage = "start",
                                    !.deadline = -1] \in Task
        BY <2>1, Bounds DEF Task, Status, Open, Stage
      <4> QED
        BY <2>1, <3>4, <4>1 DEF RetryAgentTask
    <3> QED
      BY <1>1, <3>1, <3>2, <3>3, <3>4, <3>5
  <2>3. task' \in [Tasks -> Task]
    BY <2>2, RowType
  <2> QED
    BY <1>1, <2>3 DEF EndTask, CancelAgentTask, TimeOutAgentTask, DeliverySettles,
       RetryAgentTask, TypeOK
<1>2. ASSUME NEW k \in Keys, SetPoolCapacity(k) PROVE TypeOK'
  <2>1. AdminCapacity[k] \subseteq Nat \ {0}
    BY SchedulerAssumption
  <2>2. PICK c \in Nat \ {0} : pool' = [pool EXCEPT ![k] = c]
    BY <1>2, <2>1 DEF SetPoolCapacity
  <2> QED
    BY <1>2, <2>2 DEF SetPoolCapacity, TypeOK
<1> QED
  BY <1>1, <1>2 DEF OtherStep

LEMMA TickTypes ==
    ASSUME TypeOK, Tick
    PROVE  TypeOK'
<1>1. task' \in [Tasks -> Task]
  <2> SUFFICES ASSUME NEW t \in Tasks
               PROVE  [task[t] EXCEPT !.lock = Down(task[t].lock, -1),
                                      !.delay = Down(task[t].delay, 0),
                                      !.deadline = Down(task[t].deadline, 0),
                                      !.age = Aging(task[t].age)] \in Task
    BY DEF Tick, TimePasses
  <2>1. task[t] \in Task
    BY DEF TypeOK
  <2>2. /\ Down(task[t].lock, -1) \in -2..LockSeconds
        /\ Down(task[t].delay, 0) \in Nat /\ Aging(task[t].age) \in Nat
        /\ Down(task[t].deadline, 0) \in -1..TaskTimeout
    BY <2>1, SchedulerAssumption DEF Task, Down, Aging
  <2> QED
    BY <2>1, <2>2 DEF Task
<1>2. wk' \in [Workers -> WorkerState]
  <2> SUFFICES ASSUME NEW w \in Workers
               PROVE  [wk[w] EXCEPT !.left = Down(wk[w].left, 0)] \in WorkerState
    BY DEF Tick, TimePasses
  <2>1. wk[w] \in WorkerState
    BY DEF TypeOK
  <2>2. Down(wk[w].left, 0) \in 0..LockSeconds
    BY <2>1, SchedulerAssumption DEF WorkerState, Down
  <2> QED
    BY <2>1, <2>2 DEF WorkerState
<1>3. lease' \subseteq Lease
  <2> SUFFICES ASSUME NEW l \in lease, l.left > 1
               PROVE  [l EXCEPT !.left = l.left - 1] \in Lease
    BY DEF Tick
  <2>1. l \in Lease
    BY DEF TypeOK
  <2>2. l.left - 1 \in 1..LockSeconds
    BY <2>1, SchedulerAssumption DEF Lease
  <2> QED
    BY <2>1, <2>2 DEF Lease
<1>4. outlived' \subseteq Tasks
  BY DEF Tick, TimePasses, TypeOK, WorkerState
<1> QED
  BY <1>1, <1>2, <1>3, <1>4 DEF Tick, TimePasses, TypeOK

\* Every lock, lease, delay and pool keeps its type, and no lease outlasts the
\* claim period.
THEOREM TypeCorrect == Spec => []TypeOK
<1>1. TypeOK /\ [Next]_vars => TypeOK'
  <2>1. CASE UNCHANGED vars
    BY <2>1 DEF vars, TypeOK
  <2> QED
    BY <2>1, WorkerTypes, OtherTypes, TickTypes DEF Next
<1> QED
  BY <1>1, InitialTypes, PTL DEF Spec

-----------------------------------------------------------------------------
(* Capacity *)

\* A claim adds the units that the task requests, and no more.
LEMMA ClaimUse ==
    ASSUME TypeOK, FiniteUse, NEW w \in Workers, NEW t \in Tasks, NEW k \in Keys,
           ClaimTask(w, t)
    PROVE  /\ IsFiniteSet(UnitsInUse(k)')
           /\ Used(k)' > Used(k) => Used(k)' <= pool[k]'
<1> DEFINE n == Units[t][k]
           new == [task |-> t, stage |-> task[t].stage, key |-> k, owner |-> w,
                   left |-> LockSeconds]
           more == {new} \X (1..n)
<1>0. n \in Nat /\ pool[k] \in Nat /\ pool' = pool
  BY SchedulerAssumption DEF TypeOK, ClaimTask
<1>1. lease' = lease \cup NewLeases(w, t)
  BY DEF ClaimTask
<1>2. \A x : x \in UnitsInUse(k)' <=>
        \E l \in lease' : /\ l.key = k
                          /\ \E u \in 1..Units[l.task][k] : x = <<l, u>>
  BY DEF UnitsInUse
<1>3. CASE n = 0
  <2>1. \A l \in NewLeases(w, t) : l.key # k
    BY <1>3 DEF NewLeases
  <2>2. ASSUME NEW x PROVE x \in UnitsInUse(k)' <=> x \in UnitsInUse(k)
    BY <1>1, <1>2, <2>1, UnitsMember
  <2>3. UnitsInUse(k)' = UnitsInUse(k)
    BY <2>2
  <2>4. Used(k)' = Used(k) /\ Used(k) \in Nat
    BY <2>3, FS_CardinalityType DEF Used, FiniteUse
  <2> QED
    BY <2>3, <2>4 DEF FiniteUse
<1>4. CASE n > 0
  <2>1. \A l : l \in NewLeases(w, t) /\ l.key = k <=> l = new
    BY <1>4 DEF NewLeases
  <2>2. UnitsInUse(k)' = UnitsInUse(k) \cup more
    <3>1. ASSUME NEW x PROVE x \in UnitsInUse(k)' <=> x \in UnitsInUse(k) \cup more
      <4>1. x \in UnitsInUse(k)' => x \in UnitsInUse(k) \cup more
        BY <1>1, <1>2, <2>1, UnitsMember
      <4>2. x \in UnitsInUse(k) => x \in UnitsInUse(k)'
        BY <1>1, <1>2, UnitsMember
      <4>3. x \in more => x \in UnitsInUse(k)'
        <5>1. new \in lease' /\ new.key = k /\ new.task = t
          BY <1>1, <2>1
        <5> HIDE DEF new
        <5> QED
          BY <1>2, <5>1
      <4> QED
        BY <4>1, <4>2, <4>3
    <3> QED
      BY <3>1
  <2>3. IsFiniteSet(more) /\ Cardinality(more) = n
    <3>2. IsFiniteSet({new}) /\ Cardinality({new}) = 1
      BY FS_Singleton
    <3> HIDE DEF n, new
    <3>1. IsFiniteSet(1..n) /\ Cardinality(1..n) = n
      <4>1. /\ IsFiniteSet(1..n)
            /\ Cardinality(1..n) = IF 1 > n THEN 0 ELSE n - 1 + 1
        BY <1>0, FS_Interval
      <4> QED
        BY <1>0, <1>4, <4>1
    <3>3. IsFiniteSet(more) /\ Cardinality(more) = 1 * n
      BY <3>1, <3>2, FS_Product
    <3> QED
      BY <1>0, <3>3
  <2>4. IsFiniteSet(UnitsInUse(k))
    BY DEF FiniteUse
  <2> HIDE DEF more
  <2>5. IsFiniteSet(UnitsInUse(k) \cap more)
    BY <2>4, FS_Intersection
  <2>6. /\ IsFiniteSet(UnitsInUse(k)')
        /\ Cardinality(UnitsInUse(k)') =
             Used(k) + n - Cardinality(UnitsInUse(k) \cap more)
    BY <2>2, <2>3, <2>4, FS_Union DEF Used
  <2>7. Cardinality(UnitsInUse(k) \cap more) \in Nat /\ Used(k) \in Nat
    BY <2>4, <2>5, FS_CardinalityType DEF Used
  <2>8. Used(k) + n <= pool[k]
    BY <1>4 DEF ClaimTask, Fits
  <2>9. Used(k)' = Cardinality(UnitsInUse(k)')
    BY DEF Used
  <2> QED
    BY <1>0, <2>6, <2>7, <2>8, <2>9
<1> QED
  BY <1>0, <1>3, <1>4

\* When time passes, leases only disappear.
LEMMA TickUse ==
    ASSUME TypeOK, FiniteUse, NEW k \in Keys, Tick
    PROVE  IsFiniteSet(UnitsInUse(k)') /\ Used(k)' <= Used(k)
<1> DEFINE Older(l) == [l EXCEPT !.left = l.left - 1]
           live == {x \in UnitsInUse(k) : x[1].left > 1}
           f == [x \in live |-> <<Older(x[1]), x[2]>>]
<1>1. \A x : x \in UnitsInUse(k)' <=>
        \E l \in lease' : /\ l.key = k
                          /\ \E u \in 1..Units[l.task][k] : x = <<l, u>>
  BY DEF UnitsInUse
<1>2. lease' = {Older(l) : l \in {m \in lease : m.left > 1}}
  BY DEF Tick
<1>3. \A l \in lease : Older(l).key = l.key /\ Older(l).task = l.task
  BY DEF TypeOK, Lease
<1> HIDE DEF Older
<1>4. \A y : y \in UnitsInUse(k)' <=> \E x \in live : y = <<Older(x[1]), x[2]>>
  <2>1. ASSUME NEW y \in UnitsInUse(k)' PROVE \E x \in live : y = <<Older(x[1]), x[2]>>
    <3>1. PICK l \in lease : /\ l.left > 1 /\ Older(l).key = k
                             /\ \E u \in 1..Units[Older(l).task][k] : y = <<Older(l), u>>
      BY <1>1, <1>2, <2>1
    <3>2. PICK u \in 1..Units[l.task][k] : y = <<Older(l), u>>
      BY <1>3, <3>1
    <3>3. <<l, u>> \in live
      BY <1>3, <3>1, <3>2, UnitsMember
    <3> QED
      BY <3>2, <3>3
  <2>2. ASSUME NEW x \in live PROVE <<Older(x[1]), x[2]>> \in UnitsInUse(k)'
    <3>1. PICK l \in lease : l.key = k /\ \E u \in 1..Units[l.task][k] : x = <<l, u>>
      BY <2>2, UnitsMember
    <3>2. PICK u \in 1..Units[l.task][k] : x = <<l, u>>
      BY <3>1
    <3>3. Older(l) \in lease'
      BY <1>2, <2>2, <3>2
    <3> QED
      BY <1>1, <1>3, <3>1, <3>2, <3>3
  <2> QED
    BY <2>1, <2>2
<1>5. f \in Surjection(live, UnitsInUse(k)')
  <2>1. f \in [live -> UnitsInUse(k)']
    BY <1>4
  <2>2. \A y \in UnitsInUse(k)' : \E x \in live : f[x] = y
    BY <1>4
  <2> QED
    BY <2>1, <2>2 DEF Surjection
<1>6. IsFiniteSet(live) /\ Cardinality(live) <= Used(k)
  <2>1. live \in SUBSET UnitsInUse(k) /\ IsFiniteSet(UnitsInUse(k))
    BY DEF FiniteUse
  <2> HIDE DEF live
  <2> QED
    BY <2>1, FS_Subset DEF Used
<1> HIDE DEF f, live
<1>7. IsFiniteSet(UnitsInUse(k)') /\ Cardinality(UnitsInUse(k)') <= Cardinality(live)
  BY <1>5, <1>6, FS_Surjection
<1>8. /\ Cardinality(UnitsInUse(k)') \in Nat /\ Cardinality(live) \in Nat
      /\ Used(k) \in Nat /\ Used(k)' = Cardinality(UnitsInUse(k)')
  BY <1>6, <1>7, FS_CardinalityType DEF Used, FiniteUse
<1> QED
  BY <1>6, <1>7, <1>8

\* Releasing a task, for whatever worker, frees units and takes none.
LEMMA ReleaseUse ==
    ASSUME TypeOK, FiniteUse, NEW k \in Keys, lease' \subseteq lease
    PROVE  IsFiniteSet(UnitsInUse(k)') /\ Used(k)' <= Used(k)
<1>1. UnitsInUse(k)' \in SUBSET UnitsInUse(k)
  BY DEF UnitsInUse
<1>2. IsFiniteSet(UnitsInUse(k))
  BY DEF FiniteUse
<1>3. Used(k)' = Cardinality(UnitsInUse(k)')
  BY DEF Used
<1> QED
  BY <1>1, <1>2, <1>3, FS_Subset DEF Used

LEMMA CapacityStep ==
    ASSUME TypeOK, FiniteUse, [Next]_vars, NEW k \in Keys
    PROVE  /\ IsFiniteSet(UnitsInUse(k)')
           /\ Used(k)' > Used(k) => Used(k)' <= pool[k]'
<1>0. ASSUME IsFiniteSet(UnitsInUse(k)'), Used(k)' <= Used(k)
      PROVE  ~(Used(k)' > Used(k))
  <2>1. Used(k) \in Nat /\ Used(k)' = Cardinality(UnitsInUse(k)')
    BY FS_CardinalityType DEF Used, FiniteUse
  <2>2. Used(k)' \in Nat
    BY <1>0, <2>1, FS_CardinalityType
  <2> QED
    BY <1>0, <2>1, <2>2
<1>1. CASE \E w \in Workers, t \in Tasks : ClaimTask(w, t)
  BY <1>1, ClaimUse
<1>2. CASE Tick
  BY <1>0, <1>2, TickUse
<1>3. CASE lease' \subseteq lease
  BY <1>0, <1>3, ReleaseUse
<1>4. \/ \E w \in Workers, t \in Tasks : ClaimTask(w, t)
      \/ Tick \/ lease' \subseteq lease
  BY DEF Next, WorkerStep, OtherStep, ClaimNothing, SetDeadline, Settle,
     ReleaseTaskClaim, LeaveUnreleased, CrashWorker, EndTask, CancelAgentTask,
     TimeOutAgentTask, DeliverySettles, RetryAgentTask, SetPoolCapacity, vars
<1> QED
  BY <1>1, <1>2, <1>3, <1>4

\* No step takes units of a resource beyond the capacity of its pool: for any
\* number of workers, tasks and units per request, whatever expires, is
\* released by another worker or is reconfigured meanwhile.
THEOREM CapacityRespected == Spec => LeasesWithinCapacity
<1>1. TypeOK /\ FiniteUse /\ [Next]_vars => (TypeOK /\ FiniteUse)'
  <2> SUFFICES ASSUME TypeOK, FiniteUse, [Next]_vars PROVE (TypeOK /\ FiniteUse)'
    OBVIOUS
  <2>1. TypeOK'
    <3>1. CASE UNCHANGED vars
      BY <3>1 DEF vars, TypeOK
    <3> QED
      BY <3>1, WorkerTypes, OtherTypes, TickTypes DEF Next
  <2>2. FiniteUse'
    BY CapacityStep DEF FiniteUse
  <2> QED
    BY <2>1, <2>2
<1>2. TypeOK /\ FiniteUse /\ [Next]_vars
        => [\A k \in Keys : Used(k)' > Used(k) => Used(k)' <= pool[k]']_vars
  BY CapacityStep
<1> QED
  BY <1>1, <1>2, InitialTypes, PTL DEF Spec, LeasesWithinCapacity

-----------------------------------------------------------------------------
(* Who has a task in hand *)

\* Pools have a capacity that the policy or the operator gave them.
PoolsConfigured ==
    \A k \in Keys : pool[k] \in {Capacity[k]} \cup AdminCapacity[k]

Covers(l, w, k) ==
    /\ l.task = wk[w].task /\ l.key = k /\ l.owner = w
    /\ l.left >= wk[w].left

\* A task of which no claim has been outlived is covered by leases that last as
\* long as the claim of the worker that has it.
ClaimsCovered ==
    \A w \in Workers : Busy(w) /\ wk[w].task \notin outlived =>
        /\ wk[w].left >= 1
        /\ \A k \in Keys : Units[wk[w].task][k] > 0 =>
              \E l \in lease : Covers(l, w, k)

Exclusive ==
    /\ TypeOK /\ FiniteUse
    /\ PoolsConfigured /\ ClaimsCovered /\ OneWorkerPerTask

LEMMA InitialExclusive == Init => Exclusive
<1> SUFFICES ASSUME Init PROVE Exclusive
  OBVIOUS
<1>1. \A w \in Workers : ~Busy(w)
  BY DEF Init, Busy, IdleWorker
<1>2. PoolsConfigured
  BY DEF Init, PoolsConfigured
<1> QED
  BY <1>1, <1>2, InitialTypes DEF Exclusive, ClaimsCovered, OneWorkerPerTask

\* One lease of a task takes the units the task requests.
LEMMA LeaseUse ==
    ASSUME TypeOK, FiniteUse, NEW k \in Keys, NEW l \in lease, l.key = k
    PROVE  Units[l.task][k] <= Used(k)
<1> DEFINE n == Units[l.task][k]
           one == {l}
           taken == one \X (1..n)
<1>0. n \in Nat
  BY SchedulerAssumption DEF TypeOK, Lease
<1>1. taken \in SUBSET UnitsInUse(k)
  BY UnitsMember
<1>2. IsFiniteSet(UnitsInUse(k))
  BY DEF FiniteUse
<1>3. IsFiniteSet(one) /\ Cardinality(one) = 1
  BY FS_Singleton
<1> HIDE DEF n, one
<1>4. IsFiniteSet(1..n) /\ Cardinality(1..n) = n
  <2>1. /\ IsFiniteSet(1..n)
        /\ Cardinality(1..n) = IF 1 > n THEN 0 ELSE n - 1 + 1
    BY <1>0, FS_Interval
  <2> QED
    BY <1>0, <2>1
<1>5. IsFiniteSet(taken) /\ Cardinality(taken) = 1 * n
  BY <1>3, <1>4, FS_Product
<1> HIDE DEF taken
<1>6. n <= Used(k)
  BY <1>0, <1>1, <1>2, <1>5, FS_Subset DEF Used
<1> QED
  BY <1>6 DEF n

\* Nobody claims a task that another worker has in hand within its claim.
LEMMA ClaimedIsFree ==
    ASSUME ExclusiveKeys, Exclusive, NEW w \in Workers, NEW t \in Tasks,
           ClaimTask(w, t), NEW v \in Workers, Busy(v), t \notin outlived
    PROVE  wk[v].task # t
<1> SUFFICES ASSUME wk[v].task = t PROVE FALSE
  OBVIOUS
<1>1. PICK k \in Keys : /\ Units[t][k] > 0
                        /\ \A c \in {Capacity[k]} \cup AdminCapacity[k] :
                             c < Units[t][k] + Units[t][k]
  BY DEF ExclusiveKeys
<1>2. PICK l \in lease : l.task = t /\ l.key = k
  BY <1>1 DEF Exclusive, ClaimsCovered, Covers
<1>3. Units[t][k] <= Used(k)
  BY <1>2, LeaseUse DEF Exclusive
<1>4. Used(k) + Units[t][k] <= pool[k]
  BY <1>1 DEF ClaimTask, Fits
<1>5. pool[k] < Units[t][k] + Units[t][k]
  BY <1>1 DEF Exclusive, PoolsConfigured
<1>6. Units[t][k] \in Nat /\ pool[k] \in Nat
  BY SchedulerAssumption DEF Exclusive, TypeOK
<1>7. Used(k) \in Nat
  BY FS_CardinalityType DEF Used, Exclusive, FiniteUse
<1> QED
  BY <1>3, <1>4, <1>5, <1>6, <1>7

LEMMA ClaimExclusive ==
    ASSUME ExclusiveKeys, Exclusive, NEW w \in Workers, NEW t \in Tasks,
           ClaimTask(w, t)
    PROVE  (PoolsConfigured /\ ClaimsCovered /\ OneWorkerPerTask)'
<1>1. /\ wk' = [wk EXCEPT ![w] = [pc |-> "work", task |-> t, loaded |-> "set",
                                  left |-> LockSeconds]]
      /\ lease' = lease \cup NewLeases(w, t) /\ pool' = pool
      /\ outlived' = outlived /\ wk \in [Workers -> WorkerState]
  BY DEF ClaimTask, Exclusive, TypeOK
<1>2. \A v \in Workers : Busy(v) /\ t \notin outlived => wk[v].task # t
  BY ClaimedIsFree
<1>3. \A v \in Workers \ {w} : wk'[v] = wk[v]
  BY <1>1
<1>4. wk'[w].task = t /\ wk'[w].left = LockSeconds
  BY <1>1
<1>5. OneWorkerPerTask'
  BY <1>1, <1>2, <1>3, <1>4 DEF Exclusive, OneWorkerPerTask, Busy
<1>6. ClaimsCovered'
  <2> SUFFICES ASSUME NEW v \in Workers, Busy(v)', wk'[v].task \notin outlived'
               PROVE  /\ wk'[v].left >= 1
                      /\ \A k \in Keys : Units[wk'[v].task][k] > 0 =>
                           \E l \in lease' : Covers(l, v, k)'
    BY DEF ClaimsCovered
  <2>1. CASE v = w
    <3>1. ASSUME NEW k \in Keys, Units[t][k] > 0
          PROVE  \E l \in lease' : Covers(l, v, k)'
      <4>0. PICK stage : stage = task[t].stage
        OBVIOUS
      <4> DEFINE new == [task |-> t, stage |-> stage, key |-> k,
                         owner |-> w, left |-> LockSeconds]
      <4>1. new \in lease'
        BY <1>1, <3>1, <4>0 DEF NewLeases
      <4>2. Covers(new, v, k)'
        BY <1>4, <2>1, SchedulerAssumption DEF Covers
      <4> QED
        BY <4>1, <4>2
    <3> QED
      BY <1>4, <2>1, <3>1, SchedulerAssumption
  <2>2. CASE v # w
    BY <1>1, <1>3, <2>2 DEF Exclusive, ClaimsCovered, Covers, Busy
  <2> QED
    BY <2>1, <2>2
<1> QED
  BY <1>1, <1>5, <1>6 DEF Exclusive, PoolsConfigured

\* Steps of one worker that put its task down.
LEMMA DropExclusive ==
    ASSUME Exclusive, NEW w \in Workers, PutDown(w), pool' = pool,
           Busy(w), \A l \in lease : l.task # wk[w].task => l \in lease'
    PROVE  (PoolsConfigured /\ ClaimsCovered /\ OneWorkerPerTask)'
<1>1. /\ \A v \in Workers \ {w} : wk'[v] = wk[v]
      /\ wk'[w] = IdleWorker /\ ~Busy(w)'
  BY DEF PutDown, Exclusive, TypeOK, Busy, IdleWorker
<1>2. \A v \in Workers : Busy(v)' =>
        v # w /\ wk'[v] = wk[v] /\ Busy(v)
  BY <1>1 DEF Busy
<1>3. \A v \in Workers : Busy(v)' /\ wk'[v].task \in outlived
        => wk'[v].task \in outlived'
  BY <1>2 DEF PutDown
<1>4. OneWorkerPerTask'
  BY <1>2, <1>3 DEF Exclusive, OneWorkerPerTask
<1>5. ClaimsCovered'
  <2> SUFFICES ASSUME NEW v \in Workers, Busy(v)', wk'[v].task \notin outlived'
               PROVE  /\ wk'[v].left >= 1
                      /\ \A k \in Keys : Units[wk'[v].task][k] > 0 =>
                           \E l \in lease' : Covers(l, v, k)'
    BY DEF ClaimsCovered
  <2>1. v # w /\ wk'[v] = wk[v] /\ Busy(v) /\ wk[v].task \notin outlived
    BY <1>2, <1>3
  <2>2. wk[v].task # wk[w].task
    BY <2>1 DEF Exclusive, OneWorkerPerTask
  <2> QED
    BY <2>1, <2>2 DEF Exclusive, ClaimsCovered, Covers
<1> QED
  BY <1>4, <1>5 DEF Exclusive, PoolsConfigured

\* Steps that leave alone who has which task and until when.
LEMMA KeepExclusive ==
    ASSUME Exclusive, lease' = lease, outlived' = outlived, PoolsConfigured',
           \A v \in Workers : /\ Busy(v)' = Busy(v)
                              /\ wk'[v].task = wk[v].task
                              /\ wk'[v].left = wk[v].left
    PROVE  (ClaimsCovered /\ OneWorkerPerTask)'
<1>1. OneWorkerPerTask'
  BY DEF Exclusive, OneWorkerPerTask
<1>2. ClaimsCovered'
  BY DEF Exclusive, ClaimsCovered, Covers
<1> QED
  BY <1>1, <1>2

\* As time passes, a claim either keeps its leases or counts as outlived.
LEMMA TickExclusive ==
    ASSUME Exclusive, Tick
    PROVE  (PoolsConfigured /\ ClaimsCovered /\ OneWorkerPerTask)'
<1>1. \A v \in Workers : /\ wk[v] \in WorkerState
                         /\ wk'[v] = [wk[v] EXCEPT !.left = Down(wk[v].left, 0)]
  BY DEF Tick, TimePasses, Exclusive, TypeOK
<1>2. \A v \in Workers : /\ wk'[v].pc = wk[v].pc /\ wk'[v].task = wk[v].task
                         /\ wk'[v].left = Down(wk[v].left, 0)
  BY <1>1 DEF WorkerState
<1>3. /\ outlived \subseteq outlived' /\ pool' = pool
      /\ \A v \in Workers : Busy(v) /\ wk[v].left <= 1 => wk[v].task \in outlived'
  BY DEF Tick, TimePasses
<1>4. OneWorkerPerTask'
  BY <1>2, <1>3 DEF Exclusive, OneWorkerPerTask, Busy
<1>5. ClaimsCovered'
  <2> SUFFICES ASSUME NEW v \in Workers, Busy(v)', wk'[v].task \notin outlived'
               PROVE  /\ wk'[v].left >= 1
                      /\ \A k \in Keys : Units[wk'[v].task][k] > 0 =>
                           \E l \in lease' : Covers(l, v, k)'
    BY DEF ClaimsCovered
  <2>2. wk[v].left \in Int
    <3>1. wk[v].left \in 0..LockSeconds
      BY <1>1 DEF WorkerState
    <3> QED
      BY <3>1, Bounds
  <2>1. Busy(v) /\ wk[v].task \notin outlived /\ wk[v].left > 1
    BY <1>2, <1>3, <2>2 DEF Busy
  <2>3. wk'[v].left = wk[v].left - 1 /\ wk'[v].task = wk[v].task
    BY <1>2, <2>1, <2>2 DEF Down
  <2>4. ASSUME NEW k \in Keys, Units[wk[v].task][k] > 0
        PROVE  \E l \in lease' : Covers(l, v, k)'
    <3>1. PICK l \in lease : Covers(l, v, k)
      BY <2>1, <2>4 DEF Exclusive, ClaimsCovered
    <3>2. l \in Lease /\ l.left \in Int
      BY DEF Exclusive, TypeOK, Lease
    <3>3. l.left > 1
      BY <2>1, <2>2, <3>1, <3>2 DEF Covers
    <3> DEFINE older == [l EXCEPT !.left = l.left - 1]
    <3>4. older \in lease'
      BY <3>3 DEF Tick
    <3>5. /\ older.task = l.task /\ older.key = l.key /\ older.owner = l.owner
          /\ older.left = l.left - 1
      BY <3>2 DEF Lease
    <3> HIDE DEF older
    <3>6. Covers(older, v, k)'
      BY <2>2, <2>3, <3>1, <3>2, <3>5 DEF Covers
    <3> QED
      BY <3>4, <3>6
  <2> QED
    BY <2>1, <2>2, <2>3, <2>4
<1> QED
  BY <1>3, <1>4, <1>5 DEF Exclusive, PoolsConfigured

LEMMA ExclusiveStep ==
    ASSUME ExclusiveKeys, Exclusive, [Next]_vars
    PROVE  Exclusive'
<1> DEFINE Goal == (PoolsConfigured /\ ClaimsCovered /\ OneWorkerPerTask)'
<1>1. TypeOK' /\ FiniteUse'
  <2>1. TypeOK /\ FiniteUse
    BY DEF Exclusive
  <2>2. TypeOK'
    <3>1. CASE UNCHANGED vars
      BY <2>1, <3>1 DEF vars, TypeOK
    <3> QED
      BY <2>1, <3>1, WorkerTypes, OtherTypes, TickTypes DEF Next
  <2> QED
    BY <2>1, <2>2, CapacityStep DEF FiniteUse
<1>2. wk \in [Workers -> WorkerState] /\ pool \in [Keys -> Nat \ {0}]
  BY DEF Exclusive, TypeOK
<1>3. ASSUME wk' = wk, lease' = lease, outlived' = outlived, PoolsConfigured'
      PROVE  Goal
  BY <1>3, KeepExclusive DEF Busy
<1>4. ASSUME pool' = pool PROVE PoolsConfigured'
  BY <1>4 DEF Exclusive, PoolsConfigured
<1>5. ASSUME NEW w \in Workers, WorkerStep(w) PROVE Goal
  <2>1. ASSUME NEW t \in Tasks, ClaimTask(w, t) PROVE Goal
    BY <2>1, ClaimExclusive
  <2>2. ASSUME NEW kind, ClaimNothing(w, kind) PROVE Goal
    BY <1>3, <1>4, <2>2 DEF ClaimNothing
  <2>3. ASSUME NEW status, NEW delay, Settle(w, status, delay) PROVE Goal
    <3>1. PICK loaded :
            wk' = [wk EXCEPT ![w] = [@ EXCEPT !.pc = "release", !.loaded = loaded]]
      BY <2>3 DEF Settle
    <3>2. wk[w] \in WorkerState /\ wk[w].pc = "work"
      BY <1>2, <2>3 DEF Settle
    <3>3. \A v \in Workers : /\ Busy(v)' = Busy(v)
                             /\ wk'[v].task = wk[v].task
                             /\ wk'[v].left = wk[v].left
      BY <1>2, <3>1, <3>2 DEF WorkerState, Busy
    <3> QED
      BY <1>4, <2>3, <3>3, KeepExclusive DEF Settle
  <2>4. ASSUME ReleaseTaskClaim(w) PROVE Goal
    BY <2>4, DropExclusive DEF ReleaseTaskClaim, Busy
  <2>5. ASSUME LeaveUnreleased(w) PROVE Goal
    BY <2>5, DropExclusive DEF LeaveUnreleased, Busy
  <2>6. ASSUME CrashWorker(w) PROVE Goal
    BY <2>6, DropExclusive DEF CrashWorker, Busy
  <2>7. ASSUME SetDeadline(w) PROVE Goal
    BY <1>3, <1>4, <2>7 DEF SetDeadline
  <2> QED
    BY <1>5, <2>1, <2>2, <2>3, <2>4, <2>5, <2>6, <2>7 DEF WorkerStep
<1>6. ASSUME OtherStep PROVE Goal
  <2>1. ASSUME NEW t \in Tasks,
               \/ EndTask(t) \/ CancelAgentTask(t) \/ TimeOutAgentTask(t)
               \/ DeliverySettles(t) \/ RetryAgentTask(t)
        PROVE  Goal
    BY <1>3, <1>4, <2>1
       DEF EndTask, CancelAgentTask, TimeOutAgentTask, DeliverySettles, RetryAgentTask
  <2>2. ASSUME NEW k \in Keys, SetPoolCapacity(k) PROVE Goal
    <3>1. PoolsConfigured'
      BY <1>2, <2>2 DEF SetPoolCapacity, Exclusive, PoolsConfigured
    <3> QED
      BY <1>3, <2>2, <3>1 DEF SetPoolCapacity
  <2> QED
    BY <1>6, <2>1, <2>2 DEF OtherStep
<1>7. ASSUME Tick PROVE Goal
  BY <1>7, TickExclusive
<1>8. ASSUME UNCHANGED vars PROVE Goal
  BY <1>3, <1>4, <1>8 DEF vars
<1>9. Goal
  BY <1>5, <1>6, <1>7, <1>8 DEF Next
<1> QED
  BY <1>1, <1>9 DEF Exclusive

\* When every task requests a resource that holds one of it, two workers have the
\* same task in hand only if a claim of it has been outlived and the task not
\* put down by everybody since.  An early unlock by a cancellation or a timeout
\* lets nobody in, because the leases of the task last as long as its claim; a
\* claim that has run out lets others in, and what it lets in ends with them.
THEOREM TaskExclusion ==
    ASSUME ExclusiveKeys
    PROVE  Spec => []OneWorkerPerTask
<1>1. Exclusive /\ [Next]_vars => Exclusive'
  BY ExclusiveStep
<1>2. Exclusive => OneWorkerPerTask
  BY DEF Exclusive
<1> QED
  BY <1>1, <1>2, InitialExclusive, PTL DEF Spec
=============================================================================
