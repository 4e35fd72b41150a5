\* README: create a group, consume the packet.  The group starts where create_group() puts it.
SPECIFICATION FairSpec
CONSTANTS
    p1 = p1  p2 = p2  c1 = c1  c2 = c2  k1 = k1  k2 = k2  k3 = k3  k4 = k4
    Publishers = {p1}
    Consumers = {c1}
    Chunks = {k1, k3}
    chunkOf <- PrivateChunks
    Batches <- SomeEvents
    MaxEventSize = 2
    MaxPacketSize = 10485760
    Reopen = TRUE
    SplitWrites = FALSE
    Positions <- FreshGroup
    Faults <- NoFaults
    MaxFaults = 0
    MaxPublishes = 2
    MaxSize = 100
PROPERTIES EventuallyDelivered
