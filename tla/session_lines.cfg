\* README: SET_TOPIC sets the named topic.  The commands are the lines the README shows.
SPECIFICATION Spec
CONSTANTS
    none = none  orders = orders  ordersLine = ordersLine  bills = bills
    g1 = g1  noGroup = noGroup
    Names = {none, orders}
    EmptyName = none
    Line <- TerminatedLine
    Groups = {g1}
    EmptyGroup = noGroup
    Null = Null
    Events <- OneEvent
    AckSizes <- OverFirstEvent
    MaxPacketSize = 3
    MaxFileSize = 17
    MaxBytes = 17
    MaxFaults = 0
INVARIANTS TopicIsTheOneNamed
