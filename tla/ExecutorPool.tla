---------------------------- MODULE ExecutorPool ----------------------------
(***************************************************************************)
(* A set of SingleThreadExecutors with their worker threads, as the       *)
(* emulation uses them: one per Host and one for the EthernetBus.         *)
(*                                                                         *)
(* This is coarser than SingleThreadExecutor: a popped task runs,         *)
(* together with the decrement in its `finally`, as one step, which the  *)
(* module that extends this one defines. Every task of the emulation is   *)
(* scheduled with a delay of 0 (IMMEDIATE, Host.execute's default, the    *)
(* bus's 0), and schedule_delayed reads time.monotonic() under the lock,  *)
(* so a task is due as soon as it is queued. A queue is abstracted to a  *)
(* FIFO sequence with no clock; two pushes that read the same clock value *)
(* really pop in the order of their contents (TaskHeap, taskheap_fifo),   *)
(* and no property of the extending modules depends on a queue's order.  *)
(* Nothing in the emulation cancels a Future.                             *)
(***************************************************************************)
EXTENDS Integers, Sequences, SequencesExt

CONSTANT Executors

VARIABLES
    thread,         \* e -> "new" | "started": threading.Thread.start()
    status,         \* e -> _status of e's executor
    tasksToFinish,  \* e -> _tasks_to_finish
    queue,          \* e -> the heap, in pop order
    batch,          \* e -> the popped tasks still to run
    wpc             \* e -> where e's worker thread is

poolVars == <<thread, status, tasksToFinish, queue, batch, wpc>>

Statuses == {"Running", "Stopped", "StoppedSync"}
WorkerPcs == {"run", "loop", "wait", "process", "done"}

-----------------------------------------------------------------------------
(* schedule_delayed on each executor of S: push the task and notify the   *)
(* condition. The caller has checked Accepting first.                      *)
Pushed(q, S, task) == [e \in Executors |-> IF e \in S THEN Append(q[e], task)
                                                       ELSE q[e]]
NotifyNone(w, S) == w
Notify(w, S) == [e \in Executors |-> IF e \in S /\ w[e] = "wait" THEN "loop"
                                                                 ELSE w[e]]

(* schedule_delayed raises Stopped unless the status is Running.           *)
Accepting(e) == status[e] = "Running"

(* Thread.start() of the executors in S (Host.start, EthernetBus.start).   *)
StartThreads(S) ==
    thread' = [e \in Executors |-> IF e \in S THEN "started" ELSE thread[e]]

-----------------------------------------------------------------------------
(* Worker threads: SingleThreadExecutor.run and its loop.                 *)

Run(e) ==
    /\ thread[e] = "started" /\ wpc[e] = "run"
    /\ tasksToFinish' = [tasksToFinish EXCEPT ![e] = 0]
    /\ status' = [status EXCEPT ![e] = "Running"]
    /\ wpc' = [wpc EXCEPT ![e] = "loop"]
    /\ UNCHANGED <<thread, queue, batch>>

ShouldStop(e) ==
    /\ status[e] = "StoppedSync"
    /\ queue[e] = <<>> \/ tasksToFinish[e] = 0

(* TaskQueue.pop_tasks_till_timestamp(now): every queued task is due.    *)
Popped(e) == queue[e]

(* _wait_for_task_to_process, and the pop of _process_expired_tasks.      *)
(* With an empty heap the worker waits without a timeout until notified.  *)
WaitForTaskToProcess(e) ==
    /\ wpc[e] = "loop"
    /\ \/ /\ status[e] = "Stopped"
          /\ wpc' = [wpc EXCEPT ![e] = "done"]
          /\ UNCHANGED <<status, queue, batch>>
       \/ /\ ShouldStop(e)
          /\ status' = [status EXCEPT ![e] = "Stopped"]
          /\ wpc' = [wpc EXCEPT ![e] = "done"]
          /\ UNCHANGED <<queue, batch>>
       \/ /\ status[e] # "Stopped" /\ ~ShouldStop(e)
          /\ queue[e] # <<>>
          /\ batch' = [batch EXCEPT ![e] = Popped(e)]
          /\ queue' = [queue EXCEPT ![e] = <<>>]
          /\ wpc' = [wpc EXCEPT ![e] = "process"]
          /\ UNCHANGED status
       \/ /\ status[e] # "Stopped" /\ ~ShouldStop(e)
          /\ queue[e] = <<>>
          /\ wpc' = [wpc EXCEPT ![e] = "wait"]
          /\ UNCHANGED <<status, queue, batch>>
    /\ UNCHANGED <<thread, tasksToFinish>>

(* The end of _process_task for the head of the batch: the `finally`      *)
(* decrement during a sync stop. The task's own effects on queue and wpc  *)
(* are the extending module's.                                             *)
FinishedAlwaysCounting(e) ==
    /\ tasksToFinish' = [tasksToFinish EXCEPT ![e] = @ - 1]
    /\ batch' = [batch EXCEPT ![e] = Tail(@)]
Finished(e) ==
    /\ tasksToFinish' = [tasksToFinish EXCEPT ![e] =
                           IF status[e] = "StoppedSync" THEN @ - 1 ELSE @]
    /\ batch' = [batch EXCEPT ![e] = Tail(@)]

(* The worker pcs after e's task: the next popped task, or the lock again. *)
AfterTask(e) == [wpc EXCEPT ![e] = IF Len(batch[e]) = 1 THEN "loop"
                                                        ELSE "process"]

(* SingleThreadExecutor.stop(sync=True), as Host.stop and EthernetBus.stop *)
(* call it. Nothing is cancelled, so every queued task is counted.         *)
StopSyncWithoutNotify(e) ==
    /\ tasksToFinish' = [tasksToFinish EXCEPT ![e] = Len(queue[e])]
    /\ status' = [status EXCEPT ![e] =
                    IF queue[e] # <<>> THEN "StoppedSync" ELSE "Stopped"]
    /\ UNCHANGED <<wpc, thread, queue, batch>>
StopSync(e) ==
    /\ tasksToFinish' = [tasksToFinish EXCEPT ![e] = Len(queue[e])]
    /\ status' = [status EXCEPT ![e] =
                    IF queue[e] # <<>> THEN "StoppedSync" ELSE "Stopped"]
    /\ wpc' = Notify(wpc, {e})
    /\ UNCHANGED <<thread, queue, batch>>

(* SingleThreadExecutor.__init__ and the unstarted Thread.                *)
PoolInit ==
    /\ thread = [e \in Executors |-> "new"]
    /\ status = [e \in Executors |-> "Stopped"]
    /\ tasksToFinish = [e \in Executors |-> 0]
    /\ queue = [e \in Executors |-> <<>>]
    /\ batch = [e \in Executors |-> <<>>]
    /\ wpc = [e \in Executors |-> "run"]

(* The pool's part of a type invariant, for the tasks in TaskSet.          *)
PoolTypeOK(TaskSet, Bound) ==
    /\ thread \in [Executors -> {"new", "started"}]
    /\ status \in [Executors -> Statuses]
    /\ tasksToFinish \in [Executors -> -Bound..Bound]
    /\ queue \in [Executors -> Seq(TaskSet)]
    /\ batch \in [Executors -> Seq(TaskSet)]
    /\ wpc \in [Executors -> WorkerPcs]

(* A worker runs or waits on its condition; the pool has no step of its   *)
(* own for a worker in "process".                                         *)
PoolStep(e) == Run(e) \/ WaitForTaskToProcess(e)

====
