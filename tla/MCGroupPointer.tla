--------------------------- MODULE MCGroupPointer ---------------------------
(* GroupPointer on a small instance: the values the configuration chooses from. *)
EXTENDS GroupPointer

\* Two events of different lengths.
TwoEvents == { <<7>>, <<1, 2>> }
\* Nothing, a payload, and more than there is: so much that it goes back by two with its header.
SomeSizes == {0, 1, 122}
\* The first frame, and behind everything: the end of a byte there wraps to the first frame.
SomeOffsets == {2, 125}
=============================================================================
