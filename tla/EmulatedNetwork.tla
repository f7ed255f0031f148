--------------------------- MODULE EmulatedNetwork ---------------------------
(***************************************************************************)
(* EthernetNetwork: one EthernetBus and its Hosts, each with its own      *)
(* SingleThreadExecutor and worker thread (ExecutorPool), and the main    *)
(* thread that runs the sequence of test_create_network and the examples: *)
(* network.start(), network.set_up_interfaces(), network.stop().          *)
(*                                                                         *)
(* lwIP is opaque. Setting an interface up makes it send one gratuitous   *)
(* ARP frame; taking in a frame may make it answer with one frame.        *)
(***************************************************************************)
EXTENDS ExecutorPool, FiniteSets

CONSTANTS
    Hosts,      \* the hosts, one network interface each
    HostOrder,  \* the order of add_host: the bus's interface list
    Bus,        \* the EthernetBus's executor
    MaxReplies  \* bound on the frames lwIP sends in answer to input

ASSUME /\ Bus \notin Hosts /\ Executors = Hosts \cup {Bus}
       /\ HostOrder \in Seq(Hosts) /\ Len(HostOrder) = Cardinality(Hosts)
       /\ ToSet(HostOrder) = Hosts
       /\ MaxReplies \in Nat

MaxFrames == Cardinality(Hosts) + MaxReplies
FrameIds == 1..MaxFrames

VARIABLES
    setUpFut,       \* h -> the Future of h's _set_up_interfaces task
    frames,         \* frames[f] is the host whose lwIP sent frame f
    lost,           \* frames whose EthernetBus.broadcast raised Stopped
    observed,       \* frames the bus observers were called with
    inputs,         \* h -> frames handed to lwIP by h's input_data, in order
    reports,        \* h -> calls of the network's link and status callbacks
    mpc             \* the main thread: [at |-> label, i |-> host index]

netVars == <<setUpFut, frames, lost, observed, inputs, reports, mpc>>
vars == <<poolVars, netVars>>

Tasks == [kind : {"setup"}, frame : {0}]
         \cup [kind : {"input", "broadcast"}, frame : FrameIds]
MainPcs == {"start", "setup", "wait", "stopBus", "joinBus",
            "stopHost", "joinHost", "end", "raised"}

-----------------------------------------------------------------------------
(* NetIf._link_output_wrapper -> EthernetBus.broadcast: lwIP of host h    *)
(* (the Python NetIf held in netif.state)                                  *)
(* sends frame f, given the worker pcs w after h's own step. The bus      *)
(* accepts it, or raises Stopped into the ctypes callback, which prints   *)
(* and drops it.                                                          *)
TransmitUnattributed(h, w) ==
    LET f == Len(frames) + 1
        task == [kind |-> "broadcast", frame |-> f]
    IN  /\ frames' = Append(frames, Bus)
        /\ IF Accepting(Bus)
             THEN /\ queue' = Pushed(queue, {Bus}, task)
                  /\ wpc' = Notify(w, {Bus})
                  /\ UNCHANGED lost
             ELSE /\ lost' = lost \cup {f}
                  /\ UNCHANGED queue
                  /\ wpc' = w
Transmit(h, w) ==
    LET f == Len(frames) + 1
        task == [kind |-> "broadcast", frame |-> f]
    IN  /\ frames' = Append(frames, h)
        /\ IF Accepting(Bus)
             THEN /\ queue' = Pushed(queue, {Bus}, task)
                  /\ wpc' = Notify(w, {Bus})
                  /\ UNCHANGED lost
             ELSE /\ lost' = lost \cup {f}
                  /\ UNCHANGED queue
                  /\ wpc' = w

SetUpsDone == Cardinality({h \in Hosts : setUpFut[h] = "done"})

(* EthernetNetwork._internal_status_callback / _internal_link_callback:  *)
(* forward to the user's callback (the test's Mock), counted in reports.  *)
NetworkReport(r, h, kind) == [r EXCEPT ![h] = Append(@, kind)]

(* NetIf.set_link_up: netif_set_link_up calls netif.link_callback, i.e.   *)
(* _link_status_callback_internal, which calls the callback add_host      *)
(* registered with set_status_callbacks.                                   *)
SetLinkUp(r, h) == NetworkReport(r, h, "link")

(* NetIf.set_up: netif_set_up calls netif.status_callback,                *)
(* _status_callback_internal, the same way.                                *)
SetUp(r, h) == NetworkReport(r, h, "status")

(* Host._set_up_interfaces: set_link_up, then set_up, after which lwIP    *)
(* announces the interface with a gratuitous ARP; its Future is resolved. *)
SetUpInterfacesTask(h, w) ==
    /\ setUpFut' = [setUpFut EXCEPT ![h] = "done"]
    /\ reports' = SetUp(SetLinkUp(reports, h), h)
    /\ Transmit(h, w)
    /\ UNCHANGED inputs

(* NetIf.input_data(f): lwIP takes in the frame and may answer it. The   *)
(* bound MaxReplies caps the answers.                                     *)
InputData(h, f, w) ==
    /\ inputs' = [inputs EXCEPT ![h] = Append(@, f)]
    /\ UNCHANGED <<setUpFut, reports>>
    /\ \/ /\ wpc' = w
          /\ UNCHANGED <<queue, frames, lost>>
       \/ /\ Len(frames) - SetUpsDone < MaxReplies
          /\ Transmit(h, w)

(* _process_task for the head of a host's batch.                          *)
RunHostTask(h) ==
    /\ wpc[h] = "process"
    /\ LET task == Head(batch[h])
           w == AfterTask(h)
       IN  /\ Finished(h)
           /\ \/ task.kind = "setup" /\ SetUpInterfacesTask(h, w)
              \/ task.kind = "input" /\ InputData(h, task.frame, w)
    /\ UNCHANGED <<thread, status, observed, mpc>>

(* EthernetBus._broadcast(netif_from, data): no filters, so the frame is  *)
(* forwarded; the observers are called; then each other interface's       *)
(* Host.on_incoming_data in the bus's list order. on_incoming_data        *)
(* schedules input_data on the receiving host; a host that does not       *)
(* accept work raises Stopped, which ends the loop and fails the task.    *)
RunBroadcast ==
    /\ wpc[Bus] = "process"
    /\ LET f == Head(batch[Bus]).frame
           receivers == SelectSeq(HostOrder, LAMBDA x : x # frames[f])
           k == SelectInSeq(receivers, LAMBDA x : ~Accepting(x))
           reached == ToSet(IF k = 0 THEN receivers
                                     ELSE SubSeq(receivers, 1, k - 1))
       IN  /\ observed' = observed \cup {f}
           /\ queue' = Pushed(queue, reached,
                              [kind |-> "input", frame |-> f])
           /\ wpc' = Notify(AfterTask(Bus), reached)
    /\ Finished(Bus)
    /\ UNCHANGED <<thread, status, setUpFut, frames, lost, inputs, reports,
                   mpc>>

-----------------------------------------------------------------------------
(* The main thread.                                                        *)

(* EthernetNetwork.start: EthernetBus.start, then Host.start for each     *)
(* host. Each only calls Thread.start(); run() begins later.              *)
NetworkStart ==
    /\ mpc.at = "start"
    /\ StartThreads(Executors)
    /\ mpc' = [at |-> "setup", i |-> 1]
    /\ UNCHANGED <<status, tasksToFinish, queue, batch, wpc, setUpFut,
                   frames, lost, observed, inputs, reports>>

(* EthernetNetwork.set_up_interfaces -> Host.set_up_interfaces(True) for  *)
(* the i-th host: schedule _set_up_interfaces, or raise Stopped out of    *)
(* the call.                                                               *)
SetUpInterfaces ==
    /\ mpc.at = "setup"
    /\ LET h == HostOrder[mpc.i] IN
       IF Accepting(h)
         THEN /\ queue' = Pushed(queue, {h}, [kind |-> "setup", frame |-> 0])
              /\ wpc' = Notify(wpc, {h})
              /\ setUpFut' = [setUpFut EXCEPT ![h] = "pending"]
              /\ mpc' = [mpc EXCEPT !.at = "wait"]
         ELSE /\ setUpFut' = [setUpFut EXCEPT ![h] = "rejected"]
              /\ mpc' = [mpc EXCEPT !.at = "raised"]
              /\ UNCHANGED <<queue, wpc>>
    /\ UNCHANGED <<thread, status, tasksToFinish, batch, frames, lost,
                   observed, inputs, reports>>

(* task.result() in Host.set_up_interfaces(True), then the next host, or  *)
(* EthernetNetwork.stop after the last one.                               *)
AwaitSetUp ==
    /\ mpc.at = "wait"
    /\ setUpFut[HostOrder[mpc.i]] = "done"
    /\ mpc' = IF mpc.i < Len(HostOrder) THEN [at |-> "setup", i |-> mpc.i + 1]
                                        ELSE [at |-> "stopBus", i |-> 0]
    /\ UNCHANGED <<thread, status, tasksToFinish, queue, batch, wpc,
                   setUpFut, frames, lost, observed, inputs, reports>>

(* EthernetNetwork.stop: EthernetBus.stop, then Host.stop for each host;  *)
(* each is stop(sync=True) followed by Thread.join().                     *)
StopExecutor ==
    /\ mpc.at \in {"stopBus", "stopHost"}
    /\ StopSync(IF mpc.at = "stopBus" THEN Bus ELSE HostOrder[mpc.i])
    /\ mpc' = [mpc EXCEPT !.at = IF @ = "stopBus" THEN "joinBus"
                                                ELSE "joinHost"]
    /\ UNCHANGED <<setUpFut, frames, lost, observed, inputs, reports>>

JoinExecutor ==
    /\ mpc.at \in {"joinBus", "joinHost"}
    /\ wpc[IF mpc.at = "joinBus" THEN Bus ELSE HostOrder[mpc.i]] = "done"
    /\ mpc' = IF mpc.i < Len(HostOrder) THEN [at |-> "stopHost", i |-> mpc.i + 1]
                                        ELSE [at |-> "end", i |-> mpc.i]
    /\ UNCHANGED <<thread, status, tasksToFinish, queue, batch, wpc,
                   setUpFut, frames, lost, observed, inputs, reports>>

-----------------------------------------------------------------------------
(* EthernetNetwork.__init__ and add_host: each Host and the bus own an    *)
(* executor and an unstarted thread.                                       *)
Init ==
    /\ PoolInit
    /\ setUpFut = [h \in Hosts |-> "none"]
    /\ frames = <<>>
    /\ lost = {}
    /\ observed = {}
    /\ inputs = [h \in Hosts |-> <<>>]
    /\ reports = [h \in Hosts |-> <<>>]
    /\ mpc = [at |-> "start", i |-> 0]

Worker(e) ==
    \/ PoolStep(e) /\ UNCHANGED netVars
    \/ e \in Hosts /\ RunHostTask(e)
    \/ e = Bus /\ RunBroadcast

Main == NetworkStart \/ SetUpInterfaces \/ AwaitSetUp \/ StopExecutor
        \/ JoinExecutor

Next == Main \/ \E e \in Executors : Worker(e)

(* Every worker thread and the main thread are scheduled by the OS when   *)
(* runnable.                                                               *)
Spec == Init /\ [][Next]_vars /\ WF_vars(Main)
        /\ \A e \in Executors : WF_vars(Worker(e))

-----------------------------------------------------------------------------
(* Properties.                                                             *)

TypeOK ==
    /\ PoolTypeOK(Tasks, MaxFrames)
    /\ setUpFut \in [Hosts -> {"none", "rejected", "pending", "done"}]
    /\ frames \in Seq(Hosts) /\ Len(frames) <= MaxFrames
    /\ lost \subseteq FrameIds /\ observed \subseteq FrameIds
    /\ inputs \in [Hosts -> Seq(FrameIds)]
    /\ reports \in [Hosts -> Seq({"link", "status"})]
    /\ mpc.at \in MainPcs /\ mpc.i \in 0..Len(HostOrder)

(* Host.set_up_interfaces(True) returns: the _set_up_interfaces task it   *)
(* waits on runs, because scheduling it wakes the host's worker.          *)
SetUpReturns == mpc.at = "wait" ~> mpc.at # "wait"

(* EthernetNetwork.stop returns when every worker thread had entered      *)
(* run() before it was called: each stop(sync=True) ends its run() loop,  *)
(* so each join returns.                                                   *)
StopReturnsOnceRunning ==
    (mpc.at = "stopBus" /\ \A e \in Executors : wpc[e] # "run")
        ~> mpc.at = "end"

(* What the test and the examples rely on: after network.start(),         *)
(* network.set_up_interfaces() schedules on every host without Stopped.   *)
SetUpNeverRejected == mpc.at # "raised"

(* network.stop() returns (test_create_network, the examples).            *)
NetworkStopReturns == mpc.at = "stopBus" ~> mpc.at = "end"

(* EthernetBus.broadcast: "Forward data to all interfaces connected to    *)
(* the bus." Each frame _broadcast forwards is scheduled on every other   *)
(* host that accepts work at that moment, whatever the state of the hosts *)
(* before it in the bus's interface list.                                 *)
Pending(h, f) == [kind |-> "input", frame |-> f] \in ToSet(queue[h]) \cup ToSet(batch[h])
BroadcastReachesAcceptingHosts ==
    [][\A f \in observed' \ observed :
         \A h \in Hosts \ {frames[f]} : Accepting(h) => Pending(h, f)']_vars

====
