------------------------------ MODULE TaskHeap ------------------------------
(***************************************************************************)
(* TaskQueue of scheduler.py over CPython's heapq (the C _heapq module):  *)
(* schedule_task pushes the tuple (abs_time, priority, task), and          *)
(* pop_tasks_till_timestamp pops while the head is due.                    *)
(*                                                                         *)
(* heapq orders by the tuples' own `<`. When abs_time and priority are    *)
(* equal it compares the _Task records field by field: the action, then   *)
(* the args tuple, then the kwargs dict and the Future, and `<` on a      *)
(* function, a bound method, a Host, a dict or a Future raises TypeError. *)
(* Only bytearray args (the frames of Host.on_incoming_data) are ordered. *)
(* A comparison is therefore TRUE, FALSE or "raise". The sift loops are   *)
(* the C ones, which swap as they go and return at the first failing      *)
(* comparison.                                                             *)
(*                                                                         *)
(* A task is a record [id, t, p, act, arg]: t the abs_time in clock ticks *)
(* (time.monotonic has a coarse resolution, so equal abs_time happens),   *)
(* p the priority, act the action, arg the args: a byte string as a       *)
(* number for an ordered action, 0 where the args are the same object.    *)
(***************************************************************************)
EXTENDS Integers, Sequences, SequencesExt

CONSTANTS
    TaskSet,     \* the tasks schedule_delayed may be called with
    Ordered,     \* the actions whose args compare (NetIf.input_data)
    MaxTime      \* bound on the clock

VARIABLES
    heap,        \* TaskQueue._queue, as a 1-based sequence
    now,         \* time.monotonic(), in ticks
    pushed,      \* the tasks schedule_task was called with, in call order
    raisedPush,  \* the tasks whose schedule_task raised TypeError
    popped,      \* the tasks pop_tasks_till_timestamp returned, in order
    alive        \* the worker thread is still in run()

vars == <<heap, now, pushed, raisedPush, popped, alive>>

-----------------------------------------------------------------------------
(* The tuple comparison (a.t, a.p, a) < (b.t, b.p, b): "lt", "ge" or     *)
(* "raise".                                                                *)
Outcome(b) == IF b THEN "lt" ELSE "ge"
Lt(a, b) ==
    CASE a.t # b.t     -> Outcome(a.t < b.t)
      [] a.p # b.p     -> Outcome(a.p < b.p)
      [] a.act # b.act -> "raise"
      [] a.act \in Ordered /\ a.arg # b.arg -> Outcome(a.arg < b.arg)
      [] OTHER         -> "raise"

(* Positions are heapq's 0-based indices into the 1-based sequence.        *)
Swap(h, i, j) == [h EXCEPT ![i + 1] = h[j + 1], ![j + 1] = h[i + 1]]

(* _siftdown(heap, startpos, pos): move the item at pos up while it is    *)
(* less than its parent.                                                   *)
RECURSIVE SiftDown(_, _, _)
SiftDown(h, startpos, pos) ==
    IF pos <= startpos THEN [heap |-> h, raised |-> FALSE]
    ELSE LET parentpos == (pos - 1) \div 2
             cmp == Lt(h[pos + 1], h[parentpos + 1])
         IN  CASE cmp = "raise" -> [heap |-> h, raised |-> TRUE]
               [] cmp = "ge"    -> [heap |-> h, raised |-> FALSE]
               [] OTHER         -> SiftDown(Swap(h, pos, parentpos),
                                            startpos, parentpos)

(* _siftup(heap, pos): move the smaller child up to a leaf, then sift the *)
(* item there down towards startpos.                                       *)
RECURSIVE SiftUp(_, _, _)
SiftUp(h, startpos, pos) ==
    LET endpos == Len(h)
        childpos == 2 * pos + 1
    IN  IF pos >= endpos \div 2 THEN SiftDown(h, startpos, pos)
        ELSE IF childpos + 1 >= endpos
          THEN SiftUp(Swap(h, childpos, pos), startpos, childpos)
          ELSE LET cmp == Lt(h[childpos + 1], h[childpos + 2])
                   smaller == IF cmp = "lt" THEN childpos ELSE childpos + 1
               IN  IF cmp = "raise" THEN [heap |-> h, raised |-> TRUE]
                   ELSE SiftUp(Swap(h, smaller, pos), startpos, smaller)

(* heappush: append, then _siftdown from the new last position.           *)
HeapPush(h, x) == SiftDown(Append(h, x), 0, Len(h))

(* heappop: take the last item off, put it at the root and _siftup. The   *)
(* old root is returned only when the sift succeeds.                       *)
HeapPop(h) ==
    LET rest == SubSeq(h, 1, Len(h) - 1)
    IN  IF rest = <<>> THEN [heap |-> rest, raised |-> FALSE]
        ELSE SiftUp([rest EXCEPT ![1] = h[Len(h)]], 0, 0)

(* Mutant: `if` for `while`: one due task per call.                      *)
PopOneTaskTillTimestamp(h, timestamp) ==
    IF h = <<>> \/ h[1].t > timestamp
      THEN [heap |-> h, tasks |-> <<>>, raised |-> FALSE]
      ELSE LET r == HeapPop(h)
           IN  [heap |-> r.heap, tasks |-> IF r.raised THEN <<>> ELSE <<h[1]>>,
                raised |-> r.raised]

(* TaskQueue.pop_tasks_till_timestamp: while the head is due, append it   *)
(* to the local list and heappop. An exception from any heappop leaves    *)
(* the loop and the method, so the whole local list is lost with it.      *)
RECURSIVE PopTasksTillTimestamp(_, _)
PopTasksTillTimestamp(h, timestamp) ==
    IF h = <<>> \/ h[1].t > timestamp
      THEN [heap |-> h, tasks |-> <<>>, raised |-> FALSE]
      ELSE LET r == HeapPop(h)
               rest == PopTasksTillTimestamp(r.heap, timestamp)
           IN  IF r.raised THEN [heap |-> r.heap, tasks |-> <<>>, raised |-> TRUE]
               ELSE [heap |-> rest.heap,
                     tasks |-> IF rest.raised THEN <<>>
                               ELSE <<h[1]>> \o rest.tasks,
                     raised |-> rest.raised]

-----------------------------------------------------------------------------
Init ==
    /\ heap = <<>> /\ now = 0 /\ pushed = <<>> /\ raisedPush = {}
    /\ popped = <<>> /\ alive = TRUE

(* Mutant: abs_time passed where the delay is expected, so now is added *)
(* twice.                                                                  *)
ScheduleTaskNowTwice(x) ==
    /\ x \notin ToSet(pushed) /\ x.t >= now
    /\ LET r == HeapPush(heap, [x EXCEPT !.t = x.t + now])
       IN  /\ heap' = r.heap
           /\ raisedPush' = IF r.raised THEN raisedPush \cup {x} ELSE raisedPush
    /\ pushed' = Append(pushed, x)
    /\ UNCHANGED <<now, popped, alive>>

(* schedule_delayed -> TaskQueue.schedule_task with abs_time = now +      *)
(* delay. A TypeError from heappush propagates to the caller of           *)
(* schedule_delayed after the task was appended to the list.              *)
ScheduleTask(x) ==
    /\ x \notin ToSet(pushed) /\ x.t >= now
    /\ LET r == HeapPush(heap, x)
       IN  /\ heap' = r.heap
           /\ raisedPush' = IF r.raised THEN raisedPush \cup {x} ELSE raisedPush
    /\ pushed' = Append(pushed, x)
    /\ UNCHANGED <<now, popped, alive>>

(* _wait_for_task_to_process returns once the head is due, and           *)
(* _process_expired_tasks pops the due tasks. A TypeError from heappop    *)
(* ends run() and the worker thread.                                       *)
ProcessExpiredTasks ==
    /\ alive /\ heap # <<>> /\ heap[1].t <= now
    /\ LET r == PopTasksTillTimestamp(heap, now)
       IN  /\ heap' = r.heap
           /\ popped' = popped \o r.tasks
           /\ alive' = ~r.raised
    /\ UNCHANGED <<now, pushed, raisedPush>>

Tick == now < MaxTime /\ now' = now + 1
        /\ UNCHANGED <<heap, pushed, raisedPush, popped, alive>>

Next == (\E x \in TaskSet : ScheduleTask(x)) \/ ProcessExpiredTasks \/ Tick

Spec == Init /\ [][Next]_vars

-----------------------------------------------------------------------------
(* Properties *)

TypeOK ==
    /\ heap \in Seq(TaskSet) /\ pushed \in Seq(TaskSet) /\ popped \in Seq(TaskSet)
    /\ raisedPush \subseteq TaskSet /\ now \in 0..MaxTime /\ alive \in BOOLEAN

(* a < b does not hold: it is false, or it raises. *)
NotLess(a, b) == Lt(a, b) # "lt"

(* Every task given to schedule_task is, exactly once, either still in    *)
(* the heap or among the tasks pop_tasks_till_timestamp handed to the      *)
(* worker: heappush and heappop neither lose nor duplicate a task.         *)
NoTaskLost ==
    /\ Len(heap) + Len(popped) = Len(pushed)
    /\ \A x \in ToSet(pushed) : x \in ToSet(heap) \cup ToSet(popped)

(* Each call of pop_tasks_till_timestamp(now) returns its tasks sorted by  *)
(* (abs_time, priority) and leaves no due task behind in the heap.         *)
PopsDueInOrder ==
    [][popped' # popped =>
         LET batch == SubSeq(popped', Len(popped) + 1, Len(popped'))
         IN  /\ IsSorted(batch, LAMBDA a, b : NotLess(b, a))
             /\ alive' => \A x \in ToSet(heap') : x.t > now]_vars

(* spec.md 4.2 and 6: tasks with equal deadline and priority run in        *)
(* insertion order. The worker gets them in the order schedule_task was    *)
(* called.                                                                 *)
PushIndex(x) == SelectInSeq(pushed, LAMBDA y : y = x)
EqualKeysInInsertionOrder ==
    \A i, j \in 1..Len(popped) :
        /\ i < j
        /\ popped[i].t = popped[j].t /\ popped[i].p = popped[j].p
        => PushIndex(popped[i]) < PushIndex(popped[j])

====
