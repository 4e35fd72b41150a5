\* Requests, a session and a program that deletes, on one topic, with two faults.
SPECIFICATION Spec
CONSTANTS
    r1 = r1  r2 = r2  r3 = r3  r4 = r4  s1 = s1  s2 = s2
    Requests = {r1, r2, r3, r4}
    Unacceptable = {r3}
    Empty = {r3}
    Sessions = {s1}
    route <- EveryRoute
    MaxBody = 1
    Announces = FALSE
    Faults <- AllFaults
    MaxFaults = 2
    MaxDeletes = 1
INVARIANTS TypeOK AnswersAreTrue PrologueFirst FailuresHaveCauses
\* All requests are answered and all sessions have their topic: nothing is left to do.
CHECK_DEADLOCK FALSE
