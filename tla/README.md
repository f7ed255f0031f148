# TLA+ models of py-lwip

This directory holds TLA+ models of the concurrency core of py-lwip, with
the TLC configurations that check them. py-lwip runs lwIP stacks (a C
library loaded through ctypes) inside one Python process. It emulates a
no-OS deployment: every host's stack is touched by exactly one worker
thread, which runs a `SingleThreadExecutor`.

## 1. Inventory

### Components

| Component | Source | State | Operations |
|---|---|---|---|
| TaskQueue | `utility/scheduler.py` 21-111 | heap `_queue` of `(abs_time, priority, _Task)` | `schedule_task`, `empty`, `pop_tasks_till_timestamp`, `get_time_till_next_task`, `get_tasks` |
| ScopedUnlocker | `scheduler.py` 123-166 | the lock it wraps | release on enter, re-acquire on exit |
| SingleThreadExecutor | `scheduler.py` 175-318 | `_status` (Running/Stopped/StoppedSync), `_tasks_to_finish`, `_tasks`, a mutex with its condition | `run`, `stop(sync)`, `schedule_delayed`, `_wait_for_task_to_process`, `_process_expired_tasks`, `_process_task` |
| Future | `concurrent.futures` (stdlib) | PENDING/RUNNING/CANCELLED/FINISHED | `cancel`, `set_running_or_notify_cancel`, `set_result`, `set_exception`, `result` |
| Host | `emulation/host.py` | a stack, an executor, its worker thread | `start`, `stop` (sync stop and join), `set_up_interfaces(sync)`, `on_incoming_data`, `execute` |
| EthernetBus | `emulation/ethernet_bus.py` | interfaces with delivery callbacks, observers, filters, its own executor and thread | `broadcast` (scheduled), `_broadcast`, `start`, `stop`, `add_*` |
| EthernetNetwork | `emulation/ethernet_network.py` | the bus and the hosts | `add_host`, `start`, `stop` (bus first, then hosts), `set_up_interfaces` |
| NetIf | `stack/netif.py` | the ctypes `netif` structure and its callbacks | `add`, `set_up`, `set_link_up`, `input_data`, `_link_output_wrapper` |
| Stack, Allocator, UdpSocket, PingClient | `stack/*.py` | handles into the loaded lwIP library | factories, pbuf allocation, `bind`/`send_to`/`_recv_callback`, `ping`/`_ping_callback_internal` |
| Address helpers | `utility/address_helpers.py`, `stack/ip_address.py` | none | `int_ip_from_string`, `int_ip_to_string` |
| Library loading, ctypes declarations, recorder, examples, test | the rest | | |

### How the components interact

Any thread calls `schedule_delayed(delay, priority, action, *args)`. Under
the executor's lock, the call raises `Stopped` unless the status is Running.
Otherwise it pushes a task with `abs_time = now + delay` onto the heap,
notifies the condition and returns the task's Future. The worker thread runs
`run()`. Under the lock it decides to exit, to wait on the condition (until
the head's `abs_time`, or for ever when the heap is empty), or to pop every
due task. It then releases the lock (`ScopedUnlocker`) and runs the popped
tasks one by one. For each one it calls `set_running_or_notify_cancel`, runs
the action, records the result or the exception, and, during a sync stop,
decrements `_tasks_to_finish`. The decrement is done *without* the lock.
`stop(sync)` counts the queued, non-cancelled tasks under the lock. It sets
StoppedSync (drain them) or Stopped (exit at the next check) and notifies.

Every `Host` and the `EthernetBus` own one executor and one worker thread. A
NetIf's link output goes through `EthernetBus.broadcast`, a task on the
bus's executor. That task runs the filters and the observers, then calls
every other interface's delivery callback, `Host.on_incoming_data`. This
callback schedules `NetIf.input_data` on the receiving host's executor.
Applications (the examples) run code on a host through `Host.execute` and
wait on the returned Future. `EthernetNetwork.stop` stops the bus, then each
host, each with `stop(sync=True)` followed by a thread join.

### What is hard here

- Interleavings of client threads with the worker. `schedule_delayed`,
  `stop` and `cancel` arrive while the worker waits, while it holds the lock,
  or while it runs tasks with the lock released.
- The unlocked read-modify-write of `_tasks_to_finish`, racing `stop()`.
- Timeouts. The worker's wait timeout is computed from the heap head and
  must be cut short by `notify()` when a task is pushed.
- Shutdown. A sync stop must drain what was accepted. An abrupt stop leaves
  futures pending. A stop that arrives before the worker enters `run()` is
  overwritten. Stopping the bus before the hosts makes deliveries fail.
- Ordering. The heap order by `(abs_time, priority)`, and its comparison of
  whole `_Task` records when two keys are equal.

### Correctness properties per component

- TaskQueue: tasks are popped in `(abs_time, priority)` order, and every due
  task is popped.
- SingleThreadExecutor: tasks run one at a time in heap order. A cancelled
  task never runs. Every queued task is eventually popped while Running.
  Every popped task settles. `stop()` makes `run()` return. `stop(sync=True)`
  runs every task that was queued and not cancelled at the call.
- Host: `start()` followed by `stop()` returns. Work scheduled after
  `start()` is accepted. A caller waiting on a Future is eventually answered.
- EthernetBus / EthernetNetwork: a frame broadcast while the network runs
  reaches every other interface. Shutdown loses no frame that was accepted.
- Address helpers: `int_ip_to_string(int_ip_from_string(s)) = s` for valid
  dotted quads.

## 2. Plan

Modules in the order they are built:

1. `SingleThreadExecutor` (done): TaskQueue, executor, ScopedUnlocker and the
   Future transitions, with client threads. MC module `MCSingleThreadExecutor`.
2. `ExecutorPool` and `EmulatedNetwork` (done). `ExecutorPool` is a set of
   coarse executors with their worker threads (`Thread.start`, then `run()`).
   `EmulatedNetwork` extends it with the bus, the hosts, frame delivery and
   the main thread of `test_create_network`. Host, EthernetBus and
   EthernetNetwork are modelled here, so the planned separate `Host` module
   was merged into it. MC module `MCEmulatedNetwork`.
3. `AddressHelpers` (done): `int_ip_from_string`, `int_ip_to_string`,
   `IpV4Addr` and `IpAddr` as operators over base-256 digit sequences.
4. `Examples` (done): both scenarios of `examples.py` on `ExecutorPool`,
   with `Host.execute`, `UdpSocket` and the pbuf it leaks, and the ICMP
   ping through `PingClient`.
5. `ExecutorAbstract` (done): what an executor promises its callers.
   `SingleThreadExecutor` is shown to implement it through
   `INSTANCE ... WITH`.
6. `TaskHeap` (done): the heapq as a list with the C sift loops, and the
   comparison of equal keys that may raise `TypeError`.
7. `PingClient` (done): the stored callback and the C pointer registered
   with lwIP, used by `Examples` for the icmp-ping scenario.
8. Next: `Host.set_up_interfaces(False)` and the bus's filters, if a caller
   appears; larger networks for `BroadcastReachesAcceptingHosts`.

## 3. Modules and runs

### SingleThreadExecutor (`SingleThreadExecutor.tla`, `MCSingleThreadExecutor.tla`)

State. `status` is `_status`. `tasksToFinish` is `_tasks_to_finish`.
`queue`, `deadline` and `priority` are the heap's tasks with their keys.
`fut` is each task's Future state, plus `unsched` (the call has not been
made) and `rejected` (the call raised `Stopped`). `now` is
`time.monotonic()` as an integer clock. `wpc` is where the worker thread
is. `wakeAt` is when its condition wait times out. `batch` is the popped
tasks still to run. `decTmp` is the value loaded by the unlocked `-= 1`.
`stops` counts the `stop()` calls. `log`, `coq`, `drainSet` and
`abandoned` are history variables used only by properties: `abandoned`
holds the tasks still queued at the last `stop(sync=False)`, and a later
`stop(sync=True)` or `run()` empties it.

Atomicity. A step that the code runs with the lock held is one action:
`ScheduleDelayed`, `Stop`, `Run`, and `WaitForTaskToProcess` (one
evaluation of `_wait_for_task_to_process`, with the pop of
`_process_expired_tasks` when the head is due). While the worker waits or
runs tasks, the lock is free. `SetRunningOrNotifyCancel`, `RunAction`,
`Finally` and `StoreTasksToFinish` are the steps of `_process_task`, and
clients interleave with each of them. `Finally` reads the status and loads
the counter. `StoreTasksToFinish` stores the decremented value. A
`stop()` between these two steps therefore overwrites, or is overwritten
by, the decrement, as it can be in CPython. `Cancel` is `Future.cancel()`,
which only moves a pending future to cancelled. The action is opaque: it
returns or raises (`RunAction` chooses). The action may itself call
`schedule_delayed`. That call is the same atomic step as a client's call.

Heap order: `PopOrders(ts)` is the set of orders of the due tasks that are
sorted by `(abs_time, priority)`. Equal keys are left in any order, because
the code compares the rest of the `_Task` tuples there. `TaskHeap` models
that comparison.

Fairness. `WF_vars(Worker)`: the worker thread is runnable whenever it
does not wait on the condition, and the OS schedules it. `WF_vars(Tick)`:
the monotonic clock keeps advancing. Clients have no fairness: a caller may
stop calling at any time.

Deadlock checking is off. When no client calls anything more, the worker
waits on the condition for ever. This is the executor's idle state.

| Run | Cfg | Bounds | Checks | Result |
|---|---|---|---|---|
| executor_safety | `MCSingleThreadExecutor.cfg` | 3 tasks, delays {0,1}, priorities {0,1}, clock 0..1, 2 stops | `ExecutedInKeyOrder`, `CancelledNeverRuns`, `AbruptStopRunsNoQueuedTask` | pass (≈6.5M states, under 1 minute) |
| executor_liveness | `MCSingleThreadExecutorLive.cfg` | 2 tasks, clock 0..2, 2 stops | `TypeOK`, `QueuedTaskIsPopped`, `PoppedTaskSettles`, `StopTakesEffect`, `ImplementsExecutorAbstract` (see below) | pass (≈286k states, 45 s) |
| executor_drain | `MCSingleThreadExecutorDrain.cfg` | as liveness | `DrainFinishesQueuedTasks` | violation (code bug) |

Why the bounds are enough. Three tasks let a batch of two be popped while a
third is scheduled, cancelled or counted by `stop`. Two delays and two
priorities give tasks with equal deadlines and different priorities, and
tasks due later than others. A clock of 0..1 lets a task become due while
the worker waits. Liveness uses 0..2, so that a wait can start with a
non-zero timeout after the clock has moved. Two `stop()` calls allow sync
followed by abrupt, two sync stops (which recount), and a stop before
`run()`.

`AbruptStopRunsNoQueuedTask` states spec.md 4.3 and 7 for
`stop(sync=False)`: a task still in the heap
at the stop never runs, so its future stays pending unless the caller
cancels it. The hard case is a stop that lands while the worker executes a
popped batch outside the lock: the batch finishes, and the next evaluation
of `_wait_for_task_to_process` must leave before popping again. Its mutant
drops `sync` from the choice of `StoppedSync`, and the worker then drains
the abandoned tasks.

The drain violation. t1 is popped and runs. Meanwhile a client schedules t2
and calls `stop(sync=True)`, which counts 1. t1's `finally` sees
StoppedSync and decrements the counter to 0. `run()` returns with t2 still
queued, and t2's future is pending for ever. `Host.stop()` and
`EthernetBus.stop()` rely on the sync stop to finish accepted work
(spec §6, §8). See the finding in `PROJECT.json`.

### ExecutorAbstract and the refinement (`ExecutorAbstract.tla`)

`ExecutorAbstract` states what a `SingleThreadExecutor` promises its
callers, from spec.md 4.3 and 6. It has no heap, clock, condition or drain
counter. Its variables are `status`, `fut`, `taken` (the tasks the worker
has taken from the queue) and `worker` (`new`, `running`, `exited`). Its
promises are these:

- `Schedule` is accepted exactly while the status is Running.
- `Stop` chooses StoppedSync only while accepted work is still waiting.
- `Begin` is `run()` entry, which sets Running.
- `Take` takes accepted tasks only while the status is not Stopped.
- `Start` and `Complete` run a taken task once, never a cancelled one, and
  never two at a time.
- `Exit` leaves `run()` only between tasks, after a stop.
- Weak fairness on running and on exiting.

Two things are deliberately not promised. A drain need not finish the
counted tasks: that is the executor_drain violation. A stop made before
`run()` need not stay in force: spec.md 4.3 has `run()` set Running.

`SingleThreadExecutor` defines the refinement mapping
`Abs == INSTANCE ExecutorAbstract WITH taken <- ..., worker <- ...`:

- A task is taken once it is accepted and no longer in the heap.
- The worker is `new` while `wpc = "run"`, `exited` at `done`, and
  `running` otherwise.
- `status` and `fut` map to themselves.

`ImplementsExecutorAbstract == Abs!Spec` is checked as a temporal
property, fairness included.

| Run | Cfg | Bounds | Checks | Result |
|---|---|---|---|---|
| executor_liveness | `MCSingleThreadExecutorLive.cfg` | 2 tasks, clock 0..2, 2 stops | `ImplementsExecutorAbstract`, with the liveness properties above | pass (≈286k states) |

How the detailed steps map to abstract ones:

- A pop of due tasks is `Take`.
- `SetRunningOrNotifyCancel` and `RunAction` are `Start` and `Complete`.
- The `ShouldStop` return, and the return on Stopped, are `Exit`.
- The clock, the waits, the `finally` decrement and the scoped re-lock
  stutter.

The mutant that lets `schedule_delayed` accept work while draining (it
rejects only when Stopped) breaks the refinement at the first such call.

### TaskHeap (`TaskHeap.tla`, `MCTaskHeap.tla`)

`TaskQueue` over CPython's heapq. `heap` is `_queue`. A task is a record of
abs_time, priority, action and args. `Lt` is the tuple comparison
`(abs_time, priority, task) < ...`, with three outcomes: "lt", "ge" or
"raise". When the keys are equal, Python goes on to compare the `_Task`
fields. Different actions (functions, lambdas) raise. Equal actions go on
to the args: bytearrays (the frames of `NetIf.input_data`) are ordered by
their bytes, and the same Host object is equal. The Futures then raise.

`SiftDown` and `SiftUp` are the loops of the C `_heapq` module. They swap
as they go and return at the first comparison that raises, so:

- `heappush` has already appended the task when it raises.
- `heappop` has already removed the root when it raises.

`ScheduleTask` is `schedule_task`. A TypeError there goes to the caller of
`schedule_delayed`. `PopTasksTillTimestamp` is
`pop_tasks_till_timestamp` as a recursive operator: it appends each due head
to a local list and pops it. A TypeError from any `heappop` leaves the method,
so the whole local list is lost with it, not only the task of that pop.
`ProcessExpiredTasks` is the worker's call of it. A TypeError there ends `run()` and the worker
thread (`alive`). `Tick` is the monotonic clock. Equal abs_times are real:
on Windows, `time.monotonic` has a resolution of about 16 ms.

| Run | Cfg | Tasks | Checks | Result |
|---|---|---|---|---|
| taskheap_order | `MCTaskHeap.cfg` | 5 tasks at 3 times and 2 priorities, comparisons never raise | `TypeOK`, `PopsDueInOrder` | pass (6108 states) |
| taskheap_fifo | `MCTaskHeapFifo.cfg` | 4 frames, two per tick | `EqualKeysInInsertionOrder` | violation (divergence from spec.md 4.2) |
| taskheap_lost | `MCTaskHeapLost.cfg` | 3 `Host.execute` tasks in one tick | `NoTaskLost` | violation (code bug) |

`PopsDueInOrder` checks the C sift loops through what the worker sees: every
batch is sorted by (abs_time, priority) and no due task stays behind. Its
mutant pops only the first due task.

Why the bounds are enough. Five tasks make a heap of depth 3. A pop then
sifts through both children, and the last element is moved to the root.
Tasks may be scheduled between pops, at any clock value up to 2.

What the violations show. In taskheap_fifo, frame 1 (bytes 2) is scheduled
before frame 2 (bytes 1) in the same tick, and frame 2 is handed to lwIP
first. The spec requires stable tie-breaking by insertion sequence.

In taskheap_lost, the second and third `Host.execute` calls raise TypeError
to their callers, yet their tasks stay queued. The worker's first
`heappop` then raises after removing the first task. That task is lost,
and the worker thread ends with the other Futures pending.

### ExecutorPool (`ExecutorPool.tla`)

A set `Executors` of executors, each with the state of `SingleThreadExecutor`
in a coarser form: `thread[e]` records `Thread.start()`, and `status[e]`,
`tasksToFinish[e]`, `queue[e]`, `batch[e]` and `wpc[e]` are as before. Every
task of the emulation is scheduled with delay 0 and priority 0, and
`schedule_delayed` reads the clock under the lock, so a task is due once
queued. The pool models a queue as a FIFO sequence with no clock. That is an
abstraction: two pushes that read the same clock value have equal keys, and
heapq then orders them by their contents (frames by their bytes), not by
push order; taskheap_fifo shows this in `TaskHeap`. No property of the
network models depends on the order of a queue. The pool defines `Run`, `WaitForTaskToProcess`
(which pops the whole queue), `StopSync`, and the helpers that the
extending modules use inside their task steps: `Pushed` and `Notify`
(`schedule_delayed`), `Accepting` (its `Stopped` check), `Finished` (the
`finally` decrement) and `AfterTask`. The unlocked decrement and
cancellation are left to `SingleThreadExecutor`, which checks them in
detail. The pool has no specification of its own: `EmulatedNetwork` and
`Examples` extend it with the tasks their executors run.

### EmulatedNetwork (`EmulatedNetwork.tla`, `MCEmulatedNetwork.tla`)

The parts. `Hosts` are the hosts, one interface each. `HostOrder` is the
order of `add_host`, which is the order of the bus's interface list. `Bus`
names the bus's executor. Each executor `e` has `status[e]`,
`tasksToFinish[e]`, `queue[e]`, `batch[e]` and `wpc[e]`, as in
`SingleThreadExecutor`. `thread[e]` records `Thread.start()`. `mpc` is the
main thread, which runs `network.start()`, `network.set_up_interfaces()` and
`network.stop()`. `frames[f]` is the sender of frame `f`, numbered in
sending order. `lost` holds the frames whose `EthernetBus.broadcast` raised
`Stopped`. `reports[h]` lists the calls of the network's link and status
callbacks for `h` (what the test's `status_cbk_mock` counts). `observed` holds the frames the observers saw. `inputs[h]` lists
the frames that `input_data` handed to lwIP on host `h`, in order.
`setUpFut[h]` is the Future of the set-up task.

The executors are those of `ExecutorPool`. A worker's steps are the pool's
`Run` and `WaitForTaskToProcess`, and one step per task: `RunHostTask` or
`RunBroadcast`. Each of these includes the `finally` decrement (`Finished`).

lwIP. `SetUpInterfacesTask` (`Host._set_up_interfaces`) calls `SetLinkUp`
(`NetIf.set_link_up`, whose `netif_set_link_up` calls the link callback)
and then `SetUp` (`NetIf.set_up`, whose `netif_set_up` calls the status
callback); both callbacks reach `NetworkReport`
(`EthernetNetwork._internal_*_callback`). lwIP then sends one gratuitous
ARP. `InputData` (`NetIf.input_data`) may make lwIP answer with
one frame, at most `MaxReplies` answers in all. Sending is `Transmit`
(`_link_output_wrapper`, then `EthernetBus.broadcast`). If the bus does not
accept work, the `Stopped` it raises ends in the ctypes callback, which
prints it and drops the frame. `RunBroadcast` (`_broadcast`) calls the
observers, then `on_incoming_data` of the other hosts in list order. A host
that is not Running raises `Stopped`, which ends the loop.

Fairness. Weak fairness for each worker and for the main thread: all of
them are OS threads. Deadlock checking is off, because `network.stop()`
ends every thread.

| Run | Cfg | Bounds | Checks | Result |
|---|---|---|---|---|
| network_order | `MCEmulatedNetwork.cfg` | 3 hosts, 1 answer | `TypeOK`, `SetUpReturns`, `StopReturnsOnceRunning` | pass (≈232k states, 50 s) |
| network_setup_rejected | `MCEmulatedNetworkSetUp.cfg` | 2 hosts | `SetUpNeverRejected` | violation (code bug) |
| network_stop_hangs | `MCEmulatedNetworkStop.cfg` | 2 hosts | `NetworkStopReturns` | violation (code bug) |
| network_partial_broadcast | `MCEmulatedNetworkBroadcast.cfg` | 3 hosts, 1 answer | `BroadcastReachesAcceptingHosts` | violation (code bug) |

Why the bounds are enough. With three hosts, each frame has two receivers,
and a receiver gets frames from two senders. The three gratuitous ARPs
already put two frames in the bus's heap, and two frames for one host in
its heap, so batches of two occur at every stage; the answer adds a frame
sent from inside a worker's input task. Two answers with the liveness
properties take more than five minutes, so the run has one.

The violations. In `network_setup_rejected`, `network.start()` returns. The
first host's worker has not run yet, and `set_up_interfaces()` raises
`Stopped`. In `network_stop_hangs`, both hosts are set up, but the bus's
worker has not entered `run()` yet. `EthernetBus.stop()` sets Stopped, and
then `run()` sets Running and waits on an empty heap. The join never
returns. Both start from the same cause: `start()` returns before `run()`
has set the status. `StopReturnsOnceRunning` shows that the hang needs
exactly this: once every worker is inside `run()`, `network.stop()`
returns, even with the over-eager drain counter. Frames sent during the
shutdown may be lost (in `lost`, or undelivered from the bus's heap), but
no thread hangs.

`BroadcastReachesAcceptingHosts` is an action property: when the bus
forwards a frame (it enters `observed`), every other host that is Running
at that step has the frame in its heap or batch afterwards. This is what
the docstring of `EthernetBus.broadcast` promises ("forward data to all
interfaces connected to the bus"). In `network_partial_broadcast`, the
first host's gratuitous ARP is forwarded while the second host's worker
has not entered `run()` and the third's has. `on_incoming_data` of the
second host raises `Stopped`, `_broadcast` has no `try`, and the third host
never gets the frame (`ethernet_bus.py:138`). The repository's scenarios
have two hosts, where the loop has only one receiver, so only networks of
three or more hosts meet this.

### Examples (`Examples.tla`, `MCExamples.tla`) and PingClient (`PingClient.tla`)

Both scenarios of `examples.py`, chosen by `scenario` in `Init` (the
`args.scenario` of `_run_example`). There are two peers and the bus, on the
executors of `ExecutorPool`. The main thread runs `network.start()`, then
`network.set_up_interfaces()`. In udp-ping-pong it runs
`execute(peer_one_app.start)` and waits on the result, then peer two's
`start_and_send_ping`, which sends counter 1, then waits on both completion
Events. In icmp-ping it runs `execute(ping_app.ping)` on peer one and waits
on `wait_for_completion()`. Both end with `network.stop()`.

A datagram is `Frame("data", c)`, its counter. The 4-byte big-endian
encoding and decoding give the counter back below 2^32. Peer two sends the
odd counters, and peer one sends the even ones. The ICMP messages are
`Frame("echoReq", 0)` and `Frame("echoRep", 0)`.

State, beyond the pool:
- `scenario`: the scenario argument.
- `bound[h]`: `UdpSocket.bind` and `set_recv_callback` have run.
- `done[h]`: the app's completion Event is set.
- `memFree[h]`: the PBUF_RAM buffers left in the host's lwIP heap.
- `lost`: frames dropped because `EthernetBus.broadcast` raised `Stopped`.
- `failed`: counters whose `send_to` raised.
- `received[h]`: the counters the app was called with.
- `mfut`: the Future the main thread waits on.
- `pingCallback`, `cCallback` (`PingClient`): `PingClient._ping_callback`
  and whether the pointer last given to `set_ping_callback` is
  `_ping_callback_internal` or NULL.

Actions:
- `SendTo` is `send_to`. The buffer from `allocate_transport_pbuf_from_data`
  is never freed, so each send takes one buffer for good. With the heap
  empty, `.contents` of the NULL pointer raises ValueError (`HeapEmpty`).
- `RecvCallback` is `_recv_callback`, and `ReceiveData` is `_receive_data`.
  Below `max_counter`, `ReceiveData` schedules the answer with `Host.execute`
  on its own host, and sets the completion when the answer is the last
  counter. At `max_counter` it only sets the completion.
- `PingAppPing` is `_PingApp.ping`: `PingClient.ping` (`Ping` stores the
  callback and registers `_ping_callback_internal`), then `ping_send_now`
  transmits the echo request.
- `IcmpInput` is lwIP's ICMP input: peer two answers an echo request; on
  peer one an echo reply calls the registered pointer unless it is NULL, and
  `PingCallbackInternal` registers NULL, clears the stored callback and
  calls it, which is `_on_ping_result` setting the completion.
- `Schedule` is `Host.execute` (and the schedule of
  `set_up_interfaces(True)`): push the task, or raise `Stopped` to the main
  thread.

lwIP. A datagram or echo request leaves as one frame. The first frame to a
peer is really an ARP request, an ARP reply and then the frame. The bus
accepts all of them once it accepts the first, so only the first can be
dropped. Nothing in the repository calls `Stack.service_timeouts`, so lwIP
never retransmits: a dropped frame stops the exchange. The C ping
application is not in the repository; the model assumes only what
`PingClient` relies on, that it calls the registered pointer on a reply.

Fairness is as in `EmulatedNetwork`: every worker and the main thread are OS
threads. Deadlock checking is off, because `network.stop()` ends every
thread.

| Run | Cfg | Bounds | Checks | Result |
|---|---|---|---|---|
| examples_quiet | `MCExamples.cfg` | both scenarios, max_counter 10, 5 buffers per host | `TypeOK`, `QuietWhenStopping`, `CompletesUnlessLost` | pass (1084 states) |

`max_counter` is the example's own value. The 5 buffers are exactly what each
peer's sends leak. With 4, the fifth send raises, the exchange stops, and
`CompletesUnlessLost` fails (hazard at `udp_socket.py:166`; the heap size is
the lwIP build's `MEM_SIZE`, which is outside the repository).
`QuietWhenStopping` shows that the second completion wait matters. Peer one
sets its Event when it schedules the last counter, before that counter
leaves. In icmp-ping it shows that the echo exchange is over when
`_on_ping_result` sets the Event. `CompletesUnlessLost` admits one way not
to finish: the first frame dropped at start-up, when the bus's worker has
not entered `run()` yet. This is the same cause as the `EmulatedNetwork`
violations, and the run reaches it in both scenarios.

`CompletesUnlessLost` counts the main thread leaving `_run_example` with
`Stopped` (set-up at start-up, the `network_setup_rejected` cause) as the
main thread's end. The workers are non-daemon threads, so the process then
does not exit; that hang is the set-up violation already reported, and the
property does not claim against it. `MemSlots` is sized to the leak: the
property holds because 5 buffers per host are enough for the exchange, and
the real `MEM_SIZE` is not in the repository.

`SendTo` takes `udp_sendto` to return ERR_OK. A `Stopped` raised in the
link-output callback is printed by ctypes, which returns 0; lwIP's own
errors (routing, header allocation) are outside the repository. So the
`StackException` branch of `send_to` (`udp_socket.py:169`) is not reached in
the model.

`_run_example` pings once, so a second `ping()` before the first result,
which would replace the stored callback, is not in the reachable behaviour.

### AddressHelpers (`AddressHelpers.tla`, `MCAddressHelpers.tla`)

Python integers are unbounded, and TLC's are 32-bit. So a number is the
sequence of its base-256 digits, least significant first. `<< 8` prepends a
zero digit, `|` works digit by digit (Bitwise), and `& 0xFF` after a shift
reads one digit. A dotted string is the sequence of its segments after
`split('.')` and `int()`. The helpers are:
- `IntIpFromString`: the `reduce` over the reversed segments.
- `IpV4Addr`: the `c_uint32` field, which keeps the low four digits.
- `IntIpToString`: the four masked shifts.
- `IpAddrType`: the branches of `IpAddr.__init__`.

Each step of the spec is a new call with another input.

`IpAddrType` also shows that the `elif` of `IpAddr.__init__` repeats the
IPv4 test, so an `IpV6Addr` raises `ValueError`. That branch is dead for
every input, which reading the code shows without a model check, so no run
checks it.

| Run | Cfg | Inputs | Checks | Result |
|---|---|---|---|---|
| address_roundtrip | `MCAddressHelpers.cfg` | quads over {0,1,127,128,255} | `ParsesLittleEndian`, `RoundTrip` | pass |

The octets cover 0, the byte boundaries at 127/128, and 255. Every digit
position takes each of them, which is what an error in shift or byte order
would show. A segment above 255 is accepted without an error and spills
into the next byte; that is an input check of a single call, which a unit
test reaches, so no run is spent on it.

## 4. Not modelled, and why

- The lwIP library (everything behind ctypes) is an opaque collaborator.
  Its effects enter the models only as actions that may schedule work or
  transmit frames.
- ctypes declarations, library loading (`ctypes_lib_loader`), structure
  layouts (`pbuf`, `NetIf._LwipNetIf`), exception classes and
  `EthernetRecorder`: data and I/O, with nothing to check.
- Argument parsing, printing and the Wireshark output in `examples.py`.
- `PingClient.__init__` only wraps foreign functions. The C ping
  application behind `set_ping_callback`, `ping_init` and `ping_send_now`
  is not in the repository.
- `Stack`: its factories are part of the app tasks that call them; library
  loading and `lwip_init` are native set-up; `service_timeouts` has no
  caller.
- `SingleThreadExecutor.stop(sync=False)` in the network models: no caller
  in the repository uses it (spec.md 4.3 says its futures stay pending).
- `Host.set_up_interfaces(False)`: no caller in the repository uses it.
- Observers and filters in `Examples`: the example installs no filter,
  and installs observers only with the logging flags. They only print or
  record frames.
- `EthernetBus.add_filter` and the filter verdict in `_broadcast`: no code
  in the repository installs a filter; a filter is user code whose verdict
  is arbitrary, and the models deliver every frame the bus forwards.
- `NetIf.add`, `set_name`, `set_etharp_flag`, `set_output_callbacks` and
  `Host.add_network_interface` only fill in the native `netif` structure
  before any thread starts; `set_down`, `set_link_down`, `set_default` and
  `NetIf.input` have no caller.
- The test's `bus_cbk_mock.assert_called_once()` also fails, with no
  exception, when the gratuitous ARP is sent before the bus's worker
  entered `run()` (the frame enters `lost` and the main thread reaches the
  end). It has the cause of `network_setup_rejected` and
  `network_stop_hangs`, and the number of runs is kept to one per
  question, so it is listed as a hazard without its own run.
