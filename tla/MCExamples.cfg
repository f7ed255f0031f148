\* Both scenarios; two peers and the bus, max_counter 10 (the example's), and just enough heap for the
\* PBUF_RAM buffer each send leaks (five sends per peer).
CONSTANTS
    p1 = p1
    p2 = p2
    bus = bus
    PeerOne <- p1
    PeerTwo <- p2
    Bus <- bus
    Executors <- MCExecutors
    MaxCounter = 10
    MemSlots = 5
SPECIFICATION Spec
INVARIANT TypeOK QuietWhenStopping
PROPERTY CompletesUnlessLost
\* network.stop() ends every worker thread and the main thread.
CHECK_DEADLOCK FALSE
