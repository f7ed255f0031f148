\* Three hosts and the bus: the gratuitous ARP of each host and one answer.
CONSTANTS
    h1 = h1
    h2 = h2
    h3 = h3
    bus = bus
    Hosts <- MCHosts
    HostOrder <- MCHostOrder
    Bus <- bus
    Executors <- MCExecutors
    MaxReplies <- MCOneReply
SPECIFICATION Spec
\* EthernetNetwork.stop ends every thread: the run may stop there.
CHECK_DEADLOCK FALSE
INVARIANT TypeOK
PROPERTY SetUpReturns StopReturnsOnceRunning
