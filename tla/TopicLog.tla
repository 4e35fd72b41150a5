------------------------------ MODULE TopicLog ------------------------------
(***************************************************************************)
(* What a topic promises, with no file, buffer or lock in sight: a log of   *)
(* events that only grows, and for each consumer group the events it has    *)
(* been given, taken from the log one after another and from its beginning. *)
(* A restart of the server forgets what the groups were given (their read   *)
(* pointers live in RAM); it never forgets an event.                        *)
(***************************************************************************)
EXTENDS Integers, Sequences

CONSTANTS
    Groups,   \* the consumer groups
    Batches   \* what a publisher may publish: one event, or several at once

VARIABLES
    log,      \* the events of the topic, in the order they were published
    given     \* for each group, the events its consumer was given

vars == <<log, given>>

Init == /\ log = << >>
        /\ given = [g \in Groups |-> << >>]

Publish(es) == /\ log' = log \o es
               /\ UNCHANGED given

Consume(g) ==
    /\ Len(given[g]) < Len(log)
    /\ given' = [given EXCEPT ![g] = Append(given[g], log[Len(given[g]) + 1])]
    /\ UNCHANGED log

Forget == /\ given' = [g \in Groups |-> << >>]
          /\ UNCHANGED log

Next == \/ \E es \in Batches : Publish(es)
        \/ \E g \in Groups : Consume(g)
        \/ Forget

Spec == Init /\ [][Next]_vars
=============================================================================
