\* Three hosts and the bus: a frame forwarded while one receiver's worker has not yet entered run().
CONSTANTS
    h1 = h1
    h2 = h2
    h3 = h3
    bus = bus
    Hosts <- MCHosts
    HostOrder <- MCHostOrder
    Bus <- bus
    Executors <- MCExecutors
    MaxReplies <- MCOneReply
SPECIFICATION Spec
\* EthernetNetwork.stop ends every thread: the run may stop there.
CHECK_DEADLOCK FALSE
PROPERTY BroadcastReachesAcceptingHosts
