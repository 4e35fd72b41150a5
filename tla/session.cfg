\* One client against two topics: any commands in any order, sized ACKs of any value.
SPECIFICATION Spec
CONSTANTS
    none = none  orders = orders  ordersLine = ordersLine  bills = bills
    g1 = g1  noGroup = noGroup
    Names = {none, orders, bills}
    EmptyName = none
    Line <- BareLine
    Groups = {g1}
    EmptyGroup = noGroup
    Null = Null
    Events <- OneEvent
    AckSizes <- SomeAckSizes
    MaxPacketSize = 3
    MaxFileSize = 12
    MaxBytes = 14
    MaxFaults = 2
INVARIANTS TypeOK GroupOnPresentTopic PointerWithinTopic RepliesAreFrames
SYMMETRY Alike
