----------------------------- MODULE TaskQueue -----------------------------
(***************************************************************************)
(* What a queue of base/src/mqueue.h promises to its users: several        *)
(* threads push, one thread pops, nothing accepted is lost, duplicated or  *)
(* reordered.                                                              *)
(*                                                                         *)
(* A push is not atomic.  It first takes its place in the order (the fetch *)
(* and increment of post_index_), and only later becomes visible to the    *)
(* reader (the store of the slot's flag).  The reader takes messages in    *)
(* the order of the places, so an unpublished message at the head holds    *)
(* back every message behind it.  SrtQueue is shown to implement this      *)
(* specification, and CellManager uses its operators.                      *)
(***************************************************************************)
EXTENDS Naturals, Sequences

CONSTANTS
    Writers,     \* the threads that push
    Tasks,       \* the messages
    Bound        \* the most messages that can ever be inside

VARIABLES
    queue,       \* the accepted messages, oldest first
    got          \* the message the last successful pop returned

vars == <<queue, got>>

(***************************************************************************)
(* An entry knows the writers still at work on it: one from the moment the *)
(* place is taken until the flag is stored, none from then on.             *)
(***************************************************************************)
Entry == [task : Tasks, writing : SUBSET Writers]

TypeOK ==
    /\ queue \in Seq(Entry)
    /\ got \in Tasks

Init ==
    /\ queue = << >>
    /\ got \in Tasks

\* A push takes its place behind every earlier one.
Reserve(w, t) ==
    /\ Len(queue) < Bound
    /\ queue' = Append(queue, [task |-> t, writing |-> {w}])
    /\ UNCHANGED got

\* The writer's message becomes visible to the reader.
Publish(w) ==
    /\ \E i \in DOMAIN queue : w \in queue[i].writing
    /\ queue' = [i \in DOMAIN queue |->
                   [queue[i] EXCEPT !.writing = @ \ {w}]]
    /\ UNCHANGED got

\* The reader finds a message: the queue is not empty and its head is published.
HeadReady == queue # << >> /\ Head(queue).writing = {}

Take ==
    /\ HeadReady
    /\ queue' = Tail(queue)
    /\ got' = Head(queue).task

Next ==
    \/ \E w \in Writers, t \in Tasks : Reserve(w, t)
    \/ \E w \in Writers : Publish(w)
    \/ Take

Spec == Init /\ [][Next]_vars
=============================================================================
