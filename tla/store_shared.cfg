\* README: thread-safe operations.  One Topic shared by a publisher and a consumer.
SPECIFICATION Spec
CONSTANTS
    p1 = p1  p2 = p2  c1 = c1  c2 = c2  k1 = k1  k2 = k2  k3 = k3  k4 = k4
    Publishers = {p1}
    Consumers = {c1}
    Chunks = {k1}
    chunkOf <- SharedChunk
    Batches <- OneEvent
    MaxEventSize = 2
    MaxPacketSize = 2
    Reopen = FALSE
    SplitWrites = FALSE
    Positions <- FirstFrame
    Faults <- NoFaults
    MaxFaults = 0
    MaxPublishes = 2
    MaxSize = 100
INVARIANTS AcceptedOnDisk
