\* README: ACK acknowledges the last consumed packet.
SPECIFICATION Spec
CONSTANTS
    none = none  orders = orders  ordersLine = ordersLine  bills = bills
    g1 = g1  noGroup = noGroup
    Names = {none, orders}
    EmptyName = none
    Line <- BareLine
    Groups = {g1}
    EmptyGroup = noGroup
    Null = Null
    Events <- OneEvent
    AckSizes <- OverFirstEvent
    MaxPacketSize = 3
    MaxFileSize = 17
    MaxBytes = 17
    MaxFaults = 0
PROPERTIES AckStaysBehindSent
