---------------------------- MODULE MCTopicStore ----------------------------
(* TopicStore on small instances: the values the configurations choose from. *)
EXTENDS TopicStore

CONSTANTS p1, p2, c1, c2, k1, k2, k3, k4

\* Every thread has a Chunk of its own (the HTTP server and the socket sessions), or
\* all use one Topic (a program that embeds the library).
PrivateChunks == [t \in {p1, p2, c1, c2} |->
                    CASE t = p1 -> k1 [] t = p2 -> k2 [] t = c1 -> k3 [] t = c2 -> k4]
SharedChunk == [t \in {p1, p2, c1, c2} |-> k1]

\* An event that reads like the prologue, one of a single byte, and what
\* publish_event() refuses: an empty one and one above the limit.
SomeEvents ==
    [p \in {p1, p2} |-> { << <<7>> >>, << <<123, 125>> >>, << << >> >>, << <<1, 2, 3>> >> }]
OneEvent == [p \in {p1, p2} |-> { << <<7, 8>> >> }]

\* A publisher of batches, the second element of one of which is refused, and one of events.
BatchesAndEvents ==
    [p \in {p1, p2} |-> IF p = p1 THEN { << <<7>>, <<8>> >>, << <<7>>, << >> >> }
                                  ELSE { << <<9>> >> }]
FirstFrame == {2}
AnyPosition == {0, 2, 3, 100}
FreshGroup == {0}
NoFaults == {}
MutexFaults == {"alloc", "open"}
ReportedFaults == {"alloc", "open", "short", "crash"}
=============================================================================
