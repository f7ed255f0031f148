------------------------------- MODULE Examples -------------------------------
(***************************************************************************)
(* The two scenarios of examples.py on the emulated network: two hosts on *)
(* the bus and the main thread of _run_example: network.start(),          *)
(* network.set_up_interfaces(), then                                       *)
(*   udp-ping-pong: start of peer one's _UdpPingPongApp, start of peer    *)
(*     two's with the first datagram, the two completion waits;           *)
(*   icmp-ping: _PingApp.ping on peer one (make_ping_client and           *)
(*     PingClient.ping to peer two), the completion wait;                 *)
(* and network.stop(). args.scenario is chosen in Init.                   *)
(*                                                                         *)
(* A datagram is its counter. Peer two sends the odd counters, peer one   *)
(* the even ones; int.from_bytes(counter.to_bytes(4, 'big'), 'big') gives *)
(* the counter back for every counter below 2^32. lwIP is opaque: a       *)
(* datagram sent with udp_sendto, and ping_send_now's echo request, leave *)
(* as one frame; a datagram that arrives is handed to the bound socket's *)
(* callback or dropped, an echo request is answered with an echo reply,   *)
(* and an echo reply is handed to the ping application's callback. ARP    *)
(* traffic carries neither and is left out.                                *)
(***************************************************************************)
EXTENDS ExecutorPool, PingClient, FiniteSets

CONSTANTS
    PeerOne,     \* host 'peer_one', added first; its app binds port 1000
    PeerTwo,     \* host 'peer_two'; its app binds port 2000 and starts
    Bus,         \* the EthernetBus's executor
    MaxCounter,  \* _UdpPingPongApp's max_counter (10 in the example)
    MemSlots     \* PBUF_RAM buffers each stack's heap can hand out

Hosts == {PeerOne, PeerTwo}
HostOrder == <<PeerOne, PeerTwo>>
Counters == 1..MaxCounter
Scenarios == {"udp-ping-pong", "icmp-ping"}
OnPingResult == "_PingApp._on_ping_result"

(* A frame: a UDP datagram with its counter, or an ICMP echo message.    *)
Frame(f, c) == [f |-> f, c |-> c]
Frames == {Frame("data", c) : c \in Counters}
          \cup {Frame(f, 0) : f \in {"echoReq", "echoRep"}}
NoFrame == Frame("none", 0)

ASSUME /\ Executors = Hosts \cup {Bus} /\ Cardinality(Executors) = 3
       /\ MaxCounter \in Nat \ {0} /\ MemSlots \in Nat

VARIABLES
    scenario,  \* args.scenario
    bound,     \* h -> the app's socket is bound with its recv callback set
    done,      \* h -> the completion Event of h's app is set
    memFree,   \* h -> PBUF_RAM buffers left in h's lwIP heap
    lost,      \* frames whose EthernetBus.broadcast raised Stopped
    failed,    \* counters whose send_to raised (no buffer)
    received,  \* h -> counters handed to h's app, in order
    mfut,      \* the Future the main thread waits on
    mpc        \* the main thread: [at |-> label, i |-> host index]

appVars == <<scenario, bound, done, memFree, lost, failed, received, mfut,
             mpc, pingVars>>
vars == <<poolVars, appVars>>

Kinds == {"setup", "start", "startSend", "ping", "send", "input", "broadcast"}
Tasks == [kind : Kinds, fr : Frames \cup {NoFrame}, src : Hosts]
Task(k, fr, h) == [kind |-> k, fr |-> fr, src |-> h]
MainPcs == {"start", "setup", "waitSetup", "execStart", "waitStart",
            "execSend", "waitSend", "awaitOne", "awaitTwo", "execPing",
            "waitPing", "awaitPing", "stopBus", "joinBus", "stopHost",
            "joinHost", "end", "raised"}

-----------------------------------------------------------------------------
(* NetIf._link_output_wrapper -> EthernetBus.broadcast of frame fr from   *)
(* h's worker, given the worker pcs w after h's own step: the bus accepts *)
(* it, or raises Stopped into the ctypes callback, where it is printed    *)
(* and dropped.                                                            *)
Transmit(h, fr, w) ==
    IF Accepting(Bus)
      THEN /\ queue' = Pushed(queue, {Bus}, Task("broadcast", fr, h))
           /\ wpc' = Notify(w, {Bus})
           /\ UNCHANGED lost
      ELSE /\ lost' = lost \cup {fr}
           /\ wpc' = w
           /\ UNCHANGED queue

(* UdpSocket.send_to. The PBUF_RAM buffer of                               *)
(* allocate_transport_pbuf_from_data is never freed: udp_sendto leaves it *)
(* to the caller. With the heap empty, pbuf_alloc returns NULL and        *)
(* `.contents` raises ValueError out of send_to. udp_sendto's own result *)
(* is taken to be ERR_OK: a Stopped raised in the link-output callback    *)
(* is printed by ctypes and returns 0, and its other errors come from     *)
(* lwIP internals (routing, header allocation) outside the repository,    *)
(* so the StackException branch of send_to is not reached.                *)
HeapEmpty(h) == memFree[h] = 0

SendTo(h, c, w) ==
    IF HeapEmpty(h)
      THEN /\ failed' = failed \cup {c}
           /\ wpc' = w
           /\ UNCHANGED <<memFree, lost, queue>>
      ELSE /\ memFree' = [memFree EXCEPT ![h] = @ - 1]
           /\ UNCHANGED failed
           /\ Transmit(h, Frame("data", c), w)

(* _UdpPingPongApp._receive_data, called by UdpSocket._recv_callback in   *)
(* h's worker. Below max_counter the app schedules the answer on its own  *)
(* host with Host.execute and sets its completion when the answer is the *)
(* last counter; a Stopped from Host.execute leaves _receive_data before  *)
(* the set and ends in the ctypes callback. At max_counter it only sets   *)
(* its completion.                                                        *)
ReceiveDataPastMax(h, c, w) ==
    /\ received' = [received EXCEPT ![h] = Append(@, c)]
    /\ IF c <= MaxCounter
         THEN /\ IF Accepting(h)
                   THEN /\ queue' = Pushed(queue, {h},
                                           Task("send", Frame("data", c + 1), h))
                        /\ wpc' = Notify(w, {h})
                        /\ done' = [done EXCEPT ![h] = @ \/ c + 1 = MaxCounter]
                   ELSE /\ wpc' = w /\ UNCHANGED <<queue, done>>
         ELSE /\ done' = [done EXCEPT ![h] = TRUE]
              /\ wpc' = w /\ UNCHANGED queue
ReceiveData(h, c, w) ==
    /\ received' = [received EXCEPT ![h] = Append(@, c)]
    /\ IF c < MaxCounter
         THEN /\ IF Accepting(h)
                   THEN /\ queue' = Pushed(queue, {h},
                                           Task("send", Frame("data", c + 1), h))
                        /\ wpc' = Notify(w, {h})
                        /\ done' = [done EXCEPT ![h] = @ \/ c + 1 = MaxCounter]
                   ELSE /\ wpc' = w /\ UNCHANGED <<queue, done>>
         ELSE /\ done' = [done EXCEPT ![h] = TRUE]
              /\ wpc' = w /\ UNCHANGED queue

(* UdpSocket.bind and set_recv_callback: udp_new_ip_type, udp_bind to the *)
(* app's port and udp_recv with _recv_callback, then the app's callback.   *)
Bind(h) == bound' = [bound EXCEPT ![h] = TRUE]

(* UdpSocket._recv_callback, which lwIP calls for a datagram to the bound *)
(* port: copy the payload, free the pbuf, call the app.                    *)
RecvCallback(h, c, w) ==
    IF bound[h] THEN ReceiveData(h, c, w)
                ELSE wpc' = w /\ UNCHANGED <<queue, done, received>>

(* _PingApp.ping in h's worker: Stack.make_ping_client, then              *)
(* PingClient.ping with _on_ping_result; ping_send_now sends the echo     *)
(* request.                                                                *)
PingAppPing(h, w) ==
    /\ Ping(OnPingResult)
    /\ Transmit(h, Frame("echoReq", 0), w)

(* An ICMP frame taken in by h's lwIP: an echo request is answered; an     *)
(* echo reply goes to the ping application, which calls the registered    *)
(* pointer unless it is NULL. _ping_callback_internal then calls the      *)
(* stored callback, _PingApp._on_ping_result, which sets the completion.  *)
IcmpInput(h, fr, w) ==
    \/ /\ fr.f = "echoReq"
       /\ Transmit(h, Frame("echoRep", 0), w)
       /\ UNCHANGED <<done, pingVars>>
    \/ /\ fr.f = "echoRep"
       /\ wpc' = w
       /\ IF cCallback = "internal"
            THEN /\ PingCallbackInternal
                 /\ done' = IF pingCallback = OnPingResult
                              THEN [done EXCEPT ![h] = TRUE] ELSE done
            ELSE UNCHANGED <<done, pingVars>>
       /\ UNCHANGED <<queue, lost>>

-----------------------------------------------------------------------------
(* _process_task for the head of a host's batch. The app tasks are the    *)
(* actions the main thread passes to Host.execute: peer_one_app.start     *)
(* (make_socket, bind, set_recv_callback), peer two's                     *)
(* start_and_send_ping, which sends counter 1 to peer one, and            *)
(* ping_app.ping. A frame arriving through NetIf.input_data is a datagram *)
(* or an ICMP message; a datagram reaches UdpSocket._recv_callback, which *)
(* frees the pool pbuf and calls the app, when the destination port is    *)
(* bound; lwIP drops it otherwise.                                         *)
RunHostTask(h) ==
    /\ wpc[h] = "process"
    /\ LET task == Head(batch[h])
           w == AfterTask(h)
       IN  /\ Finished(h)
           /\ \/ /\ task.kind = "setup"
                 /\ mfut' = "done" /\ wpc' = w
                 /\ UNCHANGED <<queue, bound, done, memFree, lost, failed,
                                received, pingVars>>
              \/ /\ task.kind = "start"
                 /\ Bind(h)
                 /\ mfut' = "done" /\ wpc' = w
                 /\ UNCHANGED <<queue, done, memFree, lost, failed, received,
                                pingVars>>
              \/ /\ task.kind = "startSend"
                 /\ Bind(h)
                 /\ SendTo(h, 1, w)
                 /\ mfut' = IF HeapEmpty(h) THEN "failed" ELSE "done"
                 /\ UNCHANGED <<done, received, pingVars>>
              \/ /\ task.kind = "ping"
                 /\ PingAppPing(h, w)
                 /\ mfut' = "done"
                 /\ UNCHANGED <<bound, done, memFree, failed, received>>
              \/ /\ task.kind = "send"
                 /\ SendTo(h, task.fr.c, w)
                 /\ UNCHANGED <<bound, done, received, mfut, pingVars>>
              \/ /\ task.kind = "input" /\ task.fr.f = "data"
                 /\ RecvCallback(h, task.fr.c, w)
                 /\ UNCHANGED <<bound, memFree, lost, failed, mfut, pingVars>>
              \/ /\ task.kind = "input" /\ task.fr.f # "data"
                 /\ IcmpInput(h, task.fr, w)
                 /\ UNCHANGED <<bound, memFree, failed, received, mfut>>
    /\ UNCHANGED <<thread, status, scenario, mpc>>

(* EthernetBus._broadcast: Host.on_incoming_data of the other interface   *)
(* schedules input_data there, or raises Stopped, which fails the bus's   *)
(* task and drops the frame.                                               *)
RunBroadcast ==
    /\ wpc[Bus] = "process"
    /\ LET task == Head(batch[Bus])
           r == CHOOSE x \in Hosts : x # task.src
       IN  IF Accepting(r)
             THEN /\ queue' = Pushed(queue, {r}, Task("input", task.fr, r))
                  /\ wpc' = Notify(AfterTask(Bus), {r})
                  /\ UNCHANGED lost
             ELSE /\ lost' = lost \cup {task.fr}
                  /\ wpc' = AfterTask(Bus)
                  /\ UNCHANGED queue
    /\ Finished(Bus)
    /\ UNCHANGED <<thread, status, scenario, bound, done, memFree, failed,
                   received, mfut, mpc, pingVars>>

-----------------------------------------------------------------------------
(* The main thread of _run_example.                                        *)

NetworkStart ==
    /\ mpc.at = "start"
    /\ StartThreads(Executors)
    /\ mpc' = [at |-> "setup", i |-> 1]
    /\ UNCHANGED <<status, tasksToFinish, queue, batch, wpc, scenario, bound,
                   done, memFree, lost, failed, received, mfut, pingVars>>

(* Host.execute(action) and Host.set_up_interfaces(True) on host h with   *)
(* the task kind k: schedule_delayed, or Stopped raised out of the call.  *)
(* The next label waits on the Future.                                    *)
ScheduleWithoutNotify(h, k, next) ==
    /\ IF Accepting(h)
         THEN /\ queue' = Pushed(queue, {h}, Task(k, NoFrame, h))
              /\ mfut' = "pending"
              /\ mpc' = [mpc EXCEPT !.at = next]
              /\ UNCHANGED wpc
         ELSE /\ mpc' = [mpc EXCEPT !.at = "raised"]
              /\ UNCHANGED <<queue, wpc, mfut>>
    /\ UNCHANGED <<thread, status, tasksToFinish, batch, scenario, bound, done,
                   memFree, lost, failed, received, pingVars>>
Schedule(h, k, next) ==
    /\ IF Accepting(h)
         THEN /\ queue' = Pushed(queue, {h}, Task(k, NoFrame, h))
              /\ wpc' = Notify(wpc, {h})
              /\ mfut' = "pending"
              /\ mpc' = [mpc EXCEPT !.at = next]
         ELSE /\ mpc' = [mpc EXCEPT !.at = "raised"]
              /\ UNCHANGED <<queue, wpc, mfut>>
    /\ UNCHANGED <<thread, status, tasksToFinish, batch, scenario, bound, done,
                   memFree, lost, failed, received, pingVars>>

SetUpInterfaces ==
    mpc.at = "setup" /\ Schedule(HostOrder[mpc.i], "setup", "waitSetup")

(* The get_host(...).execute(...) calls of the scenario.                  *)
ExecuteApp ==
    \/ mpc.at = "execStart" /\ Schedule(PeerOne, "start", "waitStart")
    \/ mpc.at = "execSend" /\ Schedule(PeerTwo, "startSend", "waitSend")
    \/ mpc.at = "execPing" /\ Schedule(PeerOne, "ping", "waitPing")

(* Future.result(): the next step, or the task's exception re-raised.     *)
AwaitResult ==
    /\ mpc.at \in {"waitSetup", "waitStart", "waitSend", "waitPing"}
    /\ mfut \in {"done", "failed"}
    /\ mpc' = IF mfut = "failed" THEN [mpc EXCEPT !.at = "raised"]
              ELSE CASE mpc.at = "waitSetup" /\ mpc.i < Len(HostOrder)
                          -> [at |-> "setup", i |-> mpc.i + 1]
                     [] mpc.at = "waitSetup" /\ scenario = "udp-ping-pong"
                          -> [at |-> "execStart", i |-> 0]
                     [] mpc.at = "waitSetup" -> [at |-> "execPing", i |-> 0]
                     [] mpc.at = "waitStart" -> [at |-> "execSend", i |-> 0]
                     [] mpc.at = "waitSend" -> [at |-> "awaitOne", i |-> 0]
                     [] OTHER -> [at |-> "awaitPing", i |-> 0]
    /\ mfut' = "none"
    /\ UNCHANGED <<poolVars, scenario, bound, done, memFree, lost, failed,
                   received, pingVars>>

(* peer_one_app.completion.wait(), then peer_two_app.completion.wait();   *)
(* or ping_app.wait_for_completion().                                      *)
AwaitCompletionOneOnly ==
    /\ \/ mpc.at = "awaitOne" /\ done[PeerOne]
          /\ mpc' = [mpc EXCEPT !.at = "stopBus"]
       \/ mpc.at = "awaitPing" /\ done[PeerOne]
          /\ mpc' = [mpc EXCEPT !.at = "stopBus"]
    /\ UNCHANGED <<poolVars, scenario, bound, done, memFree, lost, failed,
                   received, mfut, pingVars>>
AwaitCompletion ==
    /\ \/ mpc.at = "awaitOne" /\ done[PeerOne]
          /\ mpc' = [mpc EXCEPT !.at = "awaitTwo"]
       \/ mpc.at = "awaitTwo" /\ done[PeerTwo]
          /\ mpc' = [mpc EXCEPT !.at = "stopBus"]
       \/ mpc.at = "awaitPing" /\ done[PeerOne]
          /\ mpc' = [mpc EXCEPT !.at = "stopBus"]
    /\ UNCHANGED <<poolVars, scenario, bound, done, memFree, lost, failed,
                   received, mfut, pingVars>>

(* network.stop(): EthernetBus.stop, then Host.stop for each host.        *)
StopExecutor ==
    /\ mpc.at \in {"stopBus", "stopHost"}
    /\ StopSync(IF mpc.at = "stopBus" THEN Bus ELSE HostOrder[mpc.i])
    /\ mpc' = [mpc EXCEPT !.at = IF @ = "stopBus" THEN "joinBus"
                                                ELSE "joinHost"]
    /\ UNCHANGED <<scenario, bound, done, memFree, lost, failed, received,
                   mfut, pingVars>>

JoinExecutor ==
    /\ mpc.at \in {"joinBus", "joinHost"}
    /\ wpc[IF mpc.at = "joinBus" THEN Bus ELSE HostOrder[mpc.i]] = "done"
    /\ mpc' = IF mpc.i < Len(HostOrder) THEN [at |-> "stopHost", i |-> mpc.i + 1]
                                        ELSE [at |-> "end", i |-> mpc.i]
    /\ UNCHANGED <<poolVars, scenario, bound, done, memFree, lost, failed,
                   received, mfut, pingVars>>

-----------------------------------------------------------------------------
(* _run_example after add_host: args.scenario is one of the two choices.  *)
Init ==
    /\ PoolInit
    /\ PingInit
    /\ scenario \in Scenarios
    /\ bound = [h \in Hosts |-> FALSE]
    /\ done = [h \in Hosts |-> FALSE]
    /\ memFree = [h \in Hosts |-> MemSlots]
    /\ lost = {} /\ failed = {}
    /\ received = [h \in Hosts |-> <<>>]
    /\ mfut = "none"
    /\ mpc = [at |-> "start", i |-> 0]

Worker(e) ==
    \/ PoolStep(e) /\ UNCHANGED appVars
    \/ e \in Hosts /\ RunHostTask(e)
    \/ e = Bus /\ RunBroadcast

Main == NetworkStart \/ SetUpInterfaces \/ AwaitResult \/ ExecuteApp
        \/ AwaitCompletion \/ StopExecutor \/ JoinExecutor

Next == Main \/ \E e \in Executors : Worker(e)

Spec == Init /\ [][Next]_vars /\ WF_vars(Main)
        /\ \A e \in Executors : WF_vars(Worker(e))

-----------------------------------------------------------------------------
TypeOK ==
    /\ PoolTypeOK(Tasks, 2)
    /\ PingTypeOK({OnPingResult})
    /\ scenario \in Scenarios
    /\ bound \in [Hosts -> BOOLEAN] /\ done \in [Hosts -> BOOLEAN]
    /\ memFree \in [Hosts -> 0..MemSlots]
    /\ lost \subseteq Frames /\ failed \subseteq Counters
    /\ received \in [Hosts -> Seq(Counters)]
    /\ mfut \in {"none", "pending", "done", "failed"}
    /\ mpc.at \in MainPcs /\ mpc.i \in 0..Len(HostOrder)

(* The frames queued or being processed on executor e.                     *)
InFlight(e) == {t.fr : t \in {t \in ToSet(queue[e]) \cup ToSet(batch[e]) :
                                t.kind \in {"send", "broadcast", "input"}}}

(* When the main thread calls network.stop(), after the completion waits, *)
(* no datagram or echo message of the exchange is still queued in a       *)
(* host's or the bus's executor, so stopping loses nothing. Peer one's    *)
(* completion in udp-ping-pong is set when it schedules the last counter, *)
(* before that counter is sent; only peer two's, set when the last        *)
(* counter arrives, marks the end.                                        *)
QuietWhenStopping ==
    mpc.at = "stopBus" => \A e \in Executors : InFlight(e) = {}

(* The main thread leaves _run_example (network.stop() returns, or        *)
(* Stopped is raised to it at start-up, the network_setup_rejected cause, *)
(* after which the non-daemon workers keep the process alive) unless a   *)
(* frame is dropped because the bus was not yet accepting work:          *)
(* every datagram is answered up to max_counter, the echo request is      *)
(* answered and its reply reaches _on_ping_result, and the completion     *)
(* waits return.                                                           *)
CompletesUnlessLost ==
    <>(mpc.at \in {"end", "raised"}) \/ <>(lost # {})

====
