----------------------------- MODULE DurableLog -----------------------------
(***************************************************************************)
(* What drb_queue promises (base/src/mqueue.h, lines 190 to 193 and 247 to *)
(* 270): a log that only grows.  A push takes the next place, fills it     *)
(* once, and nothing is ever taken out; the size never counts a message    *)
(* that is not there yet.                                                  *)
(***************************************************************************)
EXTENDS Integers, Sequences, FiniteSets

CONSTANTS Values, Hole

VARIABLES
    log,      \* what each place holds, Hole while its push is not done
    size      \* what size() says

Filled == {i \in DOMAIN log : log[i] # Hole}

Init == log = <<>> /\ size = 0

Reserve == log' = Append(log, Hole) /\ UNCHANGED size

Fill ==
    /\ \E i \in DOMAIN log, v \in Values : log[i] = Hole /\ log' = [log EXCEPT ![i] = v]
    /\ UNCHANGED size

Count == size < Cardinality(Filled) /\ size' = size + 1 /\ UNCHANGED log

Next == Reserve \/ Fill \/ Count

Spec == Init /\ [][Next]_<<log, size>>
=============================================================================
