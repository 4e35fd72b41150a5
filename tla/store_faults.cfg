\* Two programs keep a Topic each on one file: allocations, writes and processes fail.
SPECIFICATION Spec
CONSTANTS
    p1 = p1  p2 = p2  c1 = c1  c2 = c2  k1 = k1  k2 = k2  k3 = k3  k4 = k4
    Publishers = {p1, p2}
    Consumers = {c1}
    Chunks = {k1, k2, k3}
    chunkOf <- PrivateChunks
    Batches <- BatchesAndEvents
    MaxEventSize = 2
    MaxPacketSize = 2
    Reopen = FALSE
    SplitWrites = FALSE
    Positions <- FirstFrame
    Faults <- ReportedFaults
    MaxFaults = 2
    MaxPublishes = 1
    MaxSize = 7
INVARIANTS Durable DeliveredFromFile FileIsFrames
