--------------------------- MODULE MCTopicRequests ---------------------------
(* TopicRequests on small instances: the values the configurations choose from. *)
EXTENDS TopicRequests

CONSTANTS r1, r2, r3, r4, s1, s2

\* Two publishes, the second of which publish_event() refuses, a creation, and a GET.
EveryRoute == [r \in Requests |->
                 CASE r = r2 -> "create" [] r = r4 -> "other" [] OTHER -> "publish"]
AllFaults == {"alloc", "blind", "write", "crash"}
NoFaults == {}
=============================================================================
