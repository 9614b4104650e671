--------------------------- MODULE MCClientBuffer ---------------------------
(* Instances of ClientBuffer. *)
EXTENDS ClientBuffer

\* A first message of one length and then messages of another: the shortest (2), up to half
\* of the buffer (3, 4), longer (5), longer than the buffer (9); and a stream with an invalid
\* message in it.
MixedStreams ==
    {[o \in 0 .. End |-> IF o < a THEN a ELSE b] : a, b \in {2, 3, 4, 5, 9}}
        \cup {[o \in 0 .. End |-> IF o = 2 THEN 1 ELSE 2]}
=============================================================================
