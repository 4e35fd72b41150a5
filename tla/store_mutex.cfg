\* One Topic shared by two publishers and two consumers: what the mutex does protect.
SPECIFICATION Spec
CONSTANTS
    p1 = p1  p2 = p2  c1 = c1  c2 = c2  k1 = k1  k2 = k2  k3 = k3  k4 = k4
    Publishers = {p1, p2}
    Consumers = {c1, c2}
    Chunks = {k1}
    chunkOf <- SharedChunk
    Batches <- OneEvent
    MaxEventSize = 2
    MaxPacketSize = 2
    Reopen = FALSE
    SplitWrites = TRUE
    Positions <- FirstFrame
    Faults <- MutexFaults
    MaxFaults = 1
    MaxPublishes = 1
    MaxSize = 100
INVARIANTS PersistedIsOnDisk
