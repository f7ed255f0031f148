CONSTANTS
    h1 = h1
    h2 = h2
    h3 = h3
    bus = bus
    Hosts <- MCTwoHosts
    HostOrder <- MCTwoHostOrder
    Bus <- bus
    Executors <- MCTwoExecutors
    MaxReplies <- MCMaxReplies
SPECIFICATION Spec
\* EthernetNetwork.stop ends every thread: the run may stop there.
CHECK_DEADLOCK FALSE
PROPERTY NetworkStopReturns
