\* The same requests, announced as libmicrohttpd announces them; nothing fails.
SPECIFICATION Spec
CONSTANTS
    r1 = r1  r2 = r2  r3 = r3  r4 = r4  s1 = s1  s2 = s2
    Requests = {r1, r2, r3, r4}
    Unacceptable = {r3}
    Empty = {}
    Sessions = {s1}
    route <- EveryRoute
    MaxBody = 1
    Announces = TRUE
    Faults <- NoFaults
    MaxFaults = 0
    MaxDeletes = 0
INVARIANTS EveryRequestIsAnswered
CHECK_DEADLOCK FALSE
