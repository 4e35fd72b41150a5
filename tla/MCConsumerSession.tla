------------------------- MODULE MCConsumerSession -------------------------
(* ConsumerSession on small instances: the values the configurations choose from. *)
EXTENDS ConsumerSession, TLC

CONSTANTS none, orders, ordersLine, bills, g1, noGroup

\* Commands that arrive without an end of line (one send per command) or with one.
BareLine == [n \in {none, orders, bills} |-> n]
TerminatedLine == [n \in {none, orders} |-> IF n = orders THEN ordersLine ELSE n]

\* Nothing tells these two topics apart (the lines of BareLine end alike).
Alike == Permutations({orders, bills})

OneEvent == { <<7>> }
\* To the first frame and back from it, over the first event from the file's start,
\* too far in both directions, and what atoi() makes of a word.
SomeAckSizes == {-100, -6, -2, 0, 1, 3, 100}
OverFirstEvent == {3}
=============================================================================
