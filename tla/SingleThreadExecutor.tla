------------------------- MODULE SingleThreadExecutor -------------------------
(***************************************************************************)
(* The single-thread executor of src/lwip_py/utility/scheduler.py: the     *)
(* TaskQueue (a heapq of (abs_time, priority, task)), the worker thread    *)
(* running SingleThreadExecutor.run(), and any number of client threads    *)
(* calling schedule_delayed, stop and Future.cancel.                       *)
(*                                                                         *)
(* Every step that runs while self._condition (the mutex) is held is one   *)
(* atomic action: schedule_delayed, stop, run()'s first block, and one     *)
(* evaluation of _wait_for_task_to_process followed by the pop of           *)
(* _process_expired_tasks.  The lock is released while the worker waits on *)
(* the condition and while it executes popped tasks (ScopedUnlocker); the  *)
(* steps of _process_task are separate actions so that client threads     *)
(* interleave with them, including the unlocked read-modify-write of      *)
(* _tasks_to_finish in its finally clause.                                 *)
(*                                                                         *)
(* Each element of Tasks stands for one schedule_delayed call; time is an  *)
(* integer clock that the environment advances.                            *)
(***************************************************************************)
EXTENDS Integers, Sequences, FiniteSets, SequencesExt, FiniteSetsExt

CONSTANTS
    Tasks,        \* identities of the schedule_delayed calls (model values)
    Delays,       \* delays a caller may pass (Naturals)
    Priorities,   \* priorities a caller may pass (0 is the highest)
    MaxTime,      \* bound of the clock; deadlines beyond it are not scheduled
    MaxStops,     \* bound of the number of stop() calls
    NoTimeout     \* condition.wait(None): wait without a timeout

ASSUME Delays \subseteq Nat /\ Priorities \subseteq Nat
ASSUME MaxTime \in Nat /\ MaxStops \in Nat

VARIABLES
    status,         \* self._status
    tasksToFinish,  \* self._tasks_to_finish
    queue,          \* the tasks held by self._tasks (the heap)
    deadline,       \* task.abs_time
    priority,       \* task.priority
    fut,            \* state of task.future, or "unsched"/"rejected"
    now,            \* self._time()
    wpc,            \* where the worker thread is
    wakeAt,         \* absolute time at which condition.wait(delay) times out
    batch,          \* expired_tasks still to process in _process_expired_tasks
    decTmp,         \* value of _tasks_to_finish loaded by "-= 1", not yet stored
    stops,          \* number of stop() calls made so far
    log,            \* history: tasks whose action started, in order
    coq,            \* history: pairs of tasks that were in the queue together
    drainSet,       \* history: tasks a stop(sync=True) promised to finish
                    \* (updated by stop(), not part of the executor's state)
    abandoned       \* history: tasks still queued at a stop(sync=False)

vars == <<status, tasksToFinish, queue, deadline, priority, fut, now, wpc,
          wakeAt, batch, decTmp, stops, log, coq, drainSet, abandoned>>

Statuses == {"Running", "Stopped", "StoppedSync"}
FutureStates == {"unsched", "rejected", "pending", "running",
                 "done", "failed", "cancelled"}
\* Future states in which Future.result() returns or raises.
Settled == {"done", "failed", "cancelled"}
WorkerPcs == {"run", "loop", "wait", "process", "action",
              "finally", "store", "done"}

-----------------------------------------------------------------------------
(* TaskQueue *)

\* The heap key (abs_time, priority) of a task.
Key(t) == <<deadline[t], priority[t]>>

\* Tuple comparison of heap keys.
KeyLess(a, b) ==
    \/ deadline[a] < deadline[b]
    \/ deadline[a] = deadline[b] /\ priority[a] < priority[b]

KeyLeq(a, b) == ~KeyLess(b, a)

\* Mutant: the heap keyed by (priority, abs_time).
PopOrdersPriorityFirst(ts) ==
    LET due == {t \in queue : deadline[t] <= ts}
        Leq(a, b) == \/ priority[a] < priority[b]
                     \/ priority[a] = priority[b] /\ deadline[a] <= deadline[b]
    IN  {s \in SetToSeqs(due) : IsSorted(s, Leq)}

\* TaskQueue.pop_tasks_till_timestamp(ts): the tasks with abs_time <= ts in
\* heap order.  Equal keys are ordered by comparing the rest of the _Task
\* records, which the model leaves open.
PopOrders(ts) ==
    LET due == {t \in queue : deadline[t] <= ts}
    IN  {s \in SetToSeqs(due) : IsSorted(s, KeyLeq)}

\* TaskQueue.get_time_till_next_task(ts): NoTimeout when the heap is empty.
TimeTillNextTask(ts) ==
    IF queue = {} THEN NoTimeout
    ELSE LET head == CHOOSE t \in queue : \A u \in queue : KeyLeq(t, u)
         IN  deadline[head] - ts

-----------------------------------------------------------------------------
(* Client threads *)

\* Mutant: the notify() call left out.
NotifyNone == UNCHANGED wpc

\* condition.notify(): wakes the worker if it waits on the condition.
Notify == wpc' = IF wpc = "wait" THEN "loop" ELSE wpc

\* Mutant: only Stopped rejects; a draining executor accepts new work.
ScheduleDelayedWhileDraining(t, d, p) ==
    /\ fut[t] = "unsched"
    /\ now + d <= MaxTime
    /\ IF status = "Stopped"
         THEN /\ fut' = [fut EXCEPT ![t] = "rejected"]
              /\ UNCHANGED <<queue, deadline, priority, wpc, coq>>
         ELSE /\ deadline' = [deadline EXCEPT ![t] = now + d]
              /\ priority' = [priority EXCEPT ![t] = p]
              /\ queue' = queue \cup {t}
              /\ fut' = [fut EXCEPT ![t] = "pending"]
              /\ coq' = coq \cup UNION {{<<t, u>>, <<u, t>>} : u \in queue}
              /\ Notify
    /\ UNCHANGED <<status, tasksToFinish, now, wakeAt, batch, decTmp, stops,
                   log, drainSet, abandoned>>

\* schedule_delayed(delay, priority, action): raises Stopped unless
\* Running; otherwise pushes the task with abs_time = now + delay and
\* notifies the worker.
ScheduleDelayed(t, d, p) ==
    /\ fut[t] = "unsched"
    /\ now + d <= MaxTime
    /\ IF status \in {"Stopped", "StoppedSync"}
         THEN /\ fut' = [fut EXCEPT ![t] = "rejected"]
              /\ UNCHANGED <<queue, deadline, priority, wpc, coq>>
         ELSE /\ deadline' = [deadline EXCEPT ![t] = now + d]
              /\ priority' = [priority EXCEPT ![t] = p]
              /\ queue' = queue \cup {t}
              /\ fut' = [fut EXCEPT ![t] = "pending"]
              /\ coq' = coq \cup UNION {{<<t, u>>, <<u, t>>} : u \in queue}
              /\ Notify
    /\ UNCHANGED <<status, tasksToFinish, now, wakeAt, batch, decTmp, stops,
                   log, drainSet, abandoned>>

\* Mutant: "StoppedSync if self._tasks_to_finish", the sync test dropped.
StopDrainAlways(sync) ==
    LET counted == {t \in queue : fut[t] # "cancelled"}
    IN  /\ stops < MaxStops
        /\ stops' = stops + 1
        /\ tasksToFinish' = Cardinality(counted)
        /\ status' = IF counted # {} THEN "StoppedSync" ELSE "Stopped"
        /\ drainSet' = CASE wpc = "done" -> drainSet
                          [] sync         -> drainSet \cup counted
                          [] OTHER        -> {}
        /\ abandoned' = IF sync THEN {} ELSE queue
        /\ Notify
        /\ UNCHANGED <<queue, deadline, priority, fut, now, wakeAt, batch,
                       decTmp, log, coq>>

\* stop(sync): counts the queued tasks whose future is not cancelled,
\* chooses StoppedSync only for sync with a non-zero count, notifies.
Stop(sync) ==
    LET counted == {t \in queue : fut[t] # "cancelled"}
    IN  /\ stops < MaxStops
        /\ stops' = stops + 1
        /\ tasksToFinish' = Cardinality(counted)
        /\ status' = IF sync /\ counted # {} THEN "StoppedSync" ELSE "Stopped"
        /\ drainSet' = CASE wpc = "done" -> drainSet
                          [] sync         -> drainSet \cup counted
                          [] OTHER        -> {}
        /\ abandoned' = IF sync THEN {} ELSE queue
        /\ Notify
        /\ UNCHANGED <<queue, deadline, priority, fut, now, wakeAt, batch,
                       decTmp, log, coq>>

\* Future.cancel(): only a pending future becomes cancelled.
Cancel(t) ==
    /\ fut[t] = "pending"
    /\ fut' = [fut EXCEPT ![t] = "cancelled"]
    /\ UNCHANGED <<status, tasksToFinish, queue, deadline, priority, now, wpc,
                   wakeAt, batch, decTmp, stops, log, coq, drainSet, abandoned>>

-----------------------------------------------------------------------------
(* The worker thread: SingleThreadExecutor.run() *)

\* run(): under the lock, reset _tasks_to_finish and set Running.
Run ==
    /\ wpc = "run"
    /\ wpc' = "loop"
    /\ tasksToFinish' = 0
    /\ status' = "Running"
    /\ abandoned' = {}
    /\ UNCHANGED <<queue, deadline, priority, fut, now, wakeAt, batch,
                   decTmp, stops, log, coq, drainSet>>

\* Mutant: should_stop without the empty-heap test.
ShouldStopCounterOnly ==
    /\ status = "StoppedSync"
    /\ tasksToFinish = 0

\* should_stop of _wait_for_task_to_process.
ShouldStop ==
    /\ status = "StoppedSync"
    /\ queue = {} \/ tasksToFinish = 0

KeepLooping == status # "Stopped" /\ ~ShouldStop

\* Mutant: condition.wait given the head's abs_time instead of the delay.
WakeTimeAbsolute(delay) ==
    IF delay = NoTimeout THEN NoTimeout ELSE now + (now + delay)

\* condition.wait(delay): the absolute time at which the wait times out.
WakeTime(delay) == IF delay = NoTimeout THEN NoTimeout ELSE now + delay

\* One evaluation of _wait_for_task_to_process with the lock held: leave
\* the loop when Stopped, or when StoppedSync with an empty heap or no
\* tasks left to finish; pop the expired tasks when the head is due
\* (_process_expired_tasks, then ScopedUnlocker releases the lock);
\* otherwise wait on the condition until the head's abs_time.
WaitForTaskToProcess ==
    LET delay == TimeTillNextTask(now)
        HeadIsDue == IF delay = NoTimeout THEN FALSE ELSE delay <= 0
    IN
    /\ wpc = "loop"
    /\ \/ /\ status = "Stopped"
          /\ wpc' = "done"
          /\ UNCHANGED <<status, queue, wakeAt, batch>>
       \/ /\ ShouldStop
          /\ status' = "Stopped"
          /\ wpc' = "done"
          /\ UNCHANGED <<queue, wakeAt, batch>>
       \/ /\ KeepLooping
          /\ HeadIsDue
          /\ \E s \in PopOrders(now) :
                /\ batch' = s
                /\ queue' = queue \ ToSet(s)
          /\ wpc' = "process"
          /\ UNCHANGED <<status, wakeAt>>
       \/ /\ KeepLooping
          /\ ~HeadIsDue
          /\ wakeAt' = WakeTime(delay)
          /\ wpc' = "wait"
          /\ UNCHANGED <<status, queue, batch>>
    /\ UNCHANGED <<tasksToFinish, deadline, priority, fut, now, decTmp, stops,
                   log, coq, drainSet, abandoned>>

\* condition.wait(delay) times out and the worker re-acquires the lock.
WaitTimeout ==
    /\ wpc = "wait"
    /\ wakeAt # NoTimeout /\ now >= wakeAt
    /\ wpc' = "loop"
    /\ UNCHANGED <<status, tasksToFinish, queue, deadline, priority, fut, now,
                   wakeAt, batch, decTmp, stops, log, coq, drainSet, abandoned>>

\* Mutant: the action called without consulting the future.
SetRunningIgnoringCancel ==
    LET t == Head(batch)
    IN  /\ wpc = "process"
        /\ batch # <<>>
        /\ fut[t] \in {"pending", "cancelled"}
        /\ fut' = [fut EXCEPT ![t] = IF @ = "pending" THEN "running" ELSE @]
        /\ log' = Append(log, t)
        /\ wpc' = "action"
        /\ UNCHANGED <<status, tasksToFinish, queue, deadline, priority, now,
                       wakeAt, batch, decTmp, stops, coq, drainSet, abandoned>>

\* _process_task, first statement: set_running_or_notify_cancel(); a
\* cancelled future is skipped, a pending one starts running its action.
SetRunningOrNotifyCancel ==
    LET t == Head(batch)
    IN  /\ wpc = "process"
        /\ batch # <<>>
        /\ \/ /\ fut[t] = "cancelled"
              /\ batch' = Tail(batch)
              /\ UNCHANGED <<fut, wpc, log>>
           \/ /\ fut[t] = "pending"
              /\ fut' = [fut EXCEPT ![t] = "running"]
              /\ log' = Append(log, t)
              /\ wpc' = "action"
              /\ UNCHANGED batch
        /\ UNCHANGED <<status, tasksToFinish, queue, deadline, priority, now,
                       wakeAt, decTmp, stops, coq, drainSet, abandoned>>

\* The action returns (set_result) or raises (set_exception).
RunAction ==
    LET t == Head(batch)
    IN  /\ wpc = "action"
        /\ \E outcome \in {"done", "failed"} :
              fut' = [fut EXCEPT ![t] = outcome]
        /\ wpc' = "finally"
        /\ UNCHANGED <<status, tasksToFinish, queue, deadline, priority, now,
                       wakeAt, batch, decTmp, stops, log, coq, drainSet, abandoned>>

\* Mutant: the remaining expired tasks dropped once stop() was called.
FinallyAbortOnStop ==
    /\ wpc = "finally"
    /\ IF status = "StoppedSync"
         THEN /\ decTmp' = tasksToFinish
              /\ wpc' = "store"
              /\ UNCHANGED batch
         ELSE /\ batch' = IF status = "Stopped" THEN <<>> ELSE Tail(batch)
              /\ wpc' = "process"
              /\ UNCHANGED decTmp
    /\ UNCHANGED <<status, tasksToFinish, queue, deadline, priority, fut, now,
                   wakeAt, stops, log, coq, drainSet, abandoned>>

\* finally: "if self._status == StoppedSync: self._tasks_to_finish -= 1",
\* without the lock.  The status read and the load of _tasks_to_finish are
\* this step; the store is StoreTasksToFinish.
Finally ==
    /\ wpc = "finally"
    /\ IF status = "StoppedSync"
         THEN /\ decTmp' = tasksToFinish
              /\ wpc' = "store"
              /\ UNCHANGED batch
         ELSE /\ batch' = Tail(batch)
              /\ wpc' = "process"
              /\ UNCHANGED decTmp
    /\ UNCHANGED <<status, tasksToFinish, queue, deadline, priority, fut, now,
                   wakeAt, stops, log, coq, drainSet, abandoned>>

StoreTasksToFinish ==
    /\ wpc = "store"
    /\ tasksToFinish' = decTmp - 1
    /\ batch' = Tail(batch)
    /\ wpc' = "process"
    /\ UNCHANGED <<status, queue, deadline, priority, fut, now, wakeAt, decTmp,
                   stops, log, coq, drainSet, abandoned>>

\* All expired tasks processed: ScopedUnlocker.__exit__ re-acquires the
\* lock and run() loops.
EndProcessing ==
    /\ wpc = "process"
    /\ batch = <<>>
    /\ wpc' = "loop"
    /\ UNCHANGED <<status, tasksToFinish, queue, deadline, priority, fut, now,
                   wakeAt, batch, decTmp, stops, log, coq, drainSet, abandoned>>

-----------------------------------------------------------------------------
(* Environment: the monotonic clock advances. *)

Tick ==
    /\ now < MaxTime
    /\ now' = now + 1
    /\ UNCHANGED <<status, tasksToFinish, queue, deadline, priority, fut, wpc,
                   wakeAt, batch, decTmp, stops, log, coq, drainSet, abandoned>>

-----------------------------------------------------------------------------

Init ==
    /\ status = "Stopped"
    /\ tasksToFinish = 0
    /\ queue = {}
    /\ deadline = [t \in Tasks |-> 0]
    /\ priority = [t \in Tasks |-> 0]
    /\ fut = [t \in Tasks |-> "unsched"]
    /\ now = 0
    /\ wpc = "run"
    /\ wakeAt = NoTimeout
    /\ batch = <<>>
    /\ decTmp = 0
    /\ stops = 0
    /\ log = <<>>
    /\ coq = {}
    /\ drainSet = {}
    /\ abandoned = {}

Worker ==
    \/ Run
    \/ WaitForTaskToProcess
    \/ WaitTimeout
    \/ SetRunningOrNotifyCancel
    \/ RunAction
    \/ Finally
    \/ StoreTasksToFinish
    \/ EndProcessing

Client ==
    \/ \E t \in Tasks, d \in Delays, p \in Priorities : ScheduleDelayed(t, d, p)
    \/ \E sync \in BOOLEAN : Stop(sync)
    \/ \E t \in Tasks : Cancel(t)

Next == Worker \/ Client \/ Tick

\* The worker thread is scheduled by the OS and the clock never stops;
\* client threads may stop calling at any time.
Spec == Init /\ [][Next]_vars /\ WF_vars(Worker) /\ WF_vars(Tick)

-----------------------------------------------------------------------------
(* Refinement: the executor implements ExecutorAbstract. A task is taken  *)
(* once popped from the heap; the worker is new before run() and exited   *)
(* after it returned.                                                      *)

Abs == INSTANCE ExecutorAbstract WITH
           taken <- {t \in Tasks : fut[t] \notin {"unsched", "rejected"}
                                   /\ t \notin queue},
           worker <- CASE wpc = "run"  -> "new"
                       [] wpc = "done" -> "exited"
                       [] OTHER        -> "running"

-----------------------------------------------------------------------------
(* Properties *)

\* The executor keeps the promises of spec.md 4.3 and 6 (ExecutorAbstract):
\* schedule_delayed accepts exactly while Running, stop(sync) drains only
\* while queued work remains, the worker takes work only before it sees
\* Stopped, runs taken tasks one at a time, never a cancelled one, to
\* completion, and leaves run() only between tasks after a stop.
ImplementsExecutorAbstract == Abs!Spec

TypeOK ==
    /\ status \in Statuses
    /\ tasksToFinish \in -Cardinality(Tasks)..Cardinality(Tasks)
    /\ queue \subseteq Tasks
    /\ deadline \in [Tasks -> 0..MaxTime]
    /\ priority \in [Tasks -> Priorities \cup {0}]
    /\ fut \in [Tasks -> FutureStates]
    /\ now \in 0..MaxTime
    /\ wpc \in WorkerPcs
    /\ wakeAt \in 0..MaxTime \cup {NoTimeout}
    /\ batch \in Seq(Tasks)
    /\ stops \in 0..MaxStops
    /\ log \in Seq(Tasks)
    /\ abandoned \subseteq Tasks

\* Heap order of execution (pop_tasks_till_timestamp popping in heap
\* order and _process_expired_tasks running the batch in that order): of
\* two tasks that were ever queued together, the one with the smaller
\* (abs_time, priority) starts its action first, unless it was cancelled.
ExecutedInKeyOrder ==
    \A a, b \in Tasks :
        (/\ <<a, b>> \in coq
         /\ KeyLess(a, b)
         /\ b \in ToSet(log))
        => \/ fut[a] = "cancelled"
           \/ \E i, j \in DOMAIN log : i < j /\ log[i] = a /\ log[j] = b

\* Cancellation against execution (Future.cancel racing the worker's
\* set_running_or_notify_cancel): a task whose future was cancelled never
\* starts its action.
CancelledNeverRuns ==
    \A t \in Tasks : fut[t] = "cancelled" => t \notin ToSet(log)

\* Wake-up of the worker (notify on schedule_delayed, wait timeout at the
\* head's abs_time): while the executor is Running, every queued task is
\* eventually popped.
QueuedTaskIsPopped ==
    \A t \in Tasks :
        (t \in queue /\ status = "Running")
            ~> (t \notin queue \/ status # "Running")

\* _process_expired_tasks runs every popped task, whatever stop() does
\* meanwhile: a popped task's future is eventually settled.
PoppedTaskSettles ==
    \A t \in Tasks : (t \in ToSet(batch)) ~> (fut[t] \in Settled)

\* stop() called while run() is looping makes run() return (the join in
\* Host.stop and EthernetBus.stop returns), whichever of sync, cancel and
\* the unlocked decrement of _tasks_to_finish interleave.
StopTakesEffect ==
    (wpc \notin {"run", "done"} /\ status # "Running") ~> (wpc = "done")

\* stop(sync=True) finishes the work already accepted: when run() returns,
\* every task that was queued and not cancelled at a sync stop made before
\* run() returned (and not voided by a later stop(sync=False)) has a
\* settled future.
DrainFinishesQueuedTasks ==
    wpc = "done" => \A t \in drainSet : fut[t] \in Settled


\* stop(sync=False) halts without running queued work (spec.md 4.3 and 7:
\* "they simply never run and their handles remain pending forever"): a
\* task still in the heap when stop(sync=False) was called never starts its
\* action, whatever the worker was doing (waiting, or executing a batch it
\* popped before), unless a later stop(sync=True) or run() revoked the stop.
AbruptStopRunsNoQueuedTask ==
    \A t \in abandoned : t \notin ToSet(log)

=============================================================================
