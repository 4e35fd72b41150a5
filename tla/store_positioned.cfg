\* A publisher that reopens the topic, as the HTTP handler does, and two groups that a program has
\* positioned at the first frame.  Nothing fails.
SPECIFICATION FairSpec
CONSTANTS
    p1 = p1  p2 = p2  c1 = c1  c2 = c2  k1 = k1  k2 = k2  k3 = k3  k4 = k4
    Publishers = {p1}
    Consumers = {c1, c2}
    Chunks = {k1, k3, k4}
    chunkOf <- PrivateChunks
    Batches <- SomeEvents
    MaxEventSize = 2
    MaxPacketSize = 2
    Reopen = TRUE
    SplitWrites = TRUE
    Positions <- FirstFrame
    Faults <- NoFaults
    MaxFaults = 0
    MaxPublishes = 2
    MaxSize = 100
INVARIANTS TypeOK Durable DeliveredInOrder
PROPERTIES EventuallyDelivered ImplementsTopicLog
