------------------------------ MODULE SendRing ------------------------------
(***************************************************************************)
(* The send path of one connection: handleSend puts messages into the      *)
(* cell's ring, checkWrite asks epoll for EPOLLOUT while the ring is not   *)
(* empty, doSend writes what the socket takes, ~clientCell frees the rest. *)
(*                                                                         *)
(* The manager's thread runs all of it; the kernel and the peer act        *)
(* between any two of its steps, so also between two writes of one doSend. *)
(* The queue of tasks is CellManager's subject: here a message may arrive  *)
(* whenever handleTask runs.                                               *)
(*                                                                         *)
(* A byte is its offset in the stream of all bytes the ring has accepted;  *)
(* a message knows the offset of its first byte.                           *)
(*                                                                         *)
(* Line numbers are those of cell_manager.cpp.                             *)
(***************************************************************************)
EXTENDS Integers

CONSTANTS
    Ring,          \* SYSSENDBUF, the slots of the ring
    MaxTimes,      \* serverMaxSendTimes
    Space,         \* the bytes the kernel buffers for the socket
    Sizes,         \* the sizes of messages
    MaxMessages    \* BOUND: how many messages are sent at most

ASSUME RingAssumption == Ring \in Nat \ {0, 1}
ASSUME TimesAssumption == MaxTimes \in Nat \ {0}
ASSUME SpaceAssumption == Space \in Nat \ {0}
ASSUME SizesAssumption == Sizes \subseteq Nat
ASSUME MessagesAssumption == MaxMessages \in Nat

VARIABLES
    peer,      \* "open"; "shut" after its FIN; "reset" with the error pending in
               \* the socket; "pipe" once that error is gone, or reset after a FIN
    space,     \* free bytes in the socket's buffer
    ready,     \* the socket is on epoll's ready list
    sendBuf,   \* m_SendBuf
    readPos,   \* m_SendReadPos
    writePos,  \* m_SendWritePos
    watch,     \* EPOLLOUT is in m_Events and in epoll's mask
    pc,        \* where the manager is; "gone" after ~clientCell, "killed" by SIGPIPE
    times,     \* i of doSend
    deleting,  \* a D task for the connection is queued
    offered,   \* history: how many messages handleSend was given
    dropped,   \* history: which of them are not in the ring
    accepted,  \* history: how many bytes the ring accepted
    written,   \* history: how many bytes write took
    wrote,     \* history: the last write, its first byte and its length
    freed,     \* history: how often each message has been freed
    failed,    \* history: a write of doSend has failed
    errors     \* history: the codes OnError has been called with

vars == <<peer, space, ready, sendBuf, readPos, writePos, watch, pc, times, deleting,
          offered, dropped, accepted, written, wrote, freed, failed, errors>>

kernel == <<peer, space>>
ring == <<sendBuf, readPos, writePos>>
history == <<offered, dropped, accepted, written, wrote, freed, failed, errors>>

Slots == 0 .. Ring - 1
Ids == 1 .. MaxMessages

Message == [id : Ids, from : Nat, size : Sizes, sendPos : Nat]
Null == [id |-> 0, from |-> 0, size |-> 0, sendPos |-> 0]

Init ==
    /\ peer = "open"
    /\ space = Space
    /\ ready = FALSE
    /\ sendBuf = [i \in Slots |-> Null]
    /\ readPos = 0
    /\ writePos = 0
    /\ watch = FALSE
    /\ pc = "task"
    /\ times = 0
    /\ deleting = FALSE
    /\ offered = 0
    /\ dropped = {}
    /\ accepted = 0
    /\ written = 0
    /\ wrote = [from |-> 0, count |-> 0]
    /\ freed = [i \in Ids |-> 0]
    /\ failed = FALSE
    /\ errors = {}

-----------------------------------------------------------------------------
(***************************************************************************)
(* The peer and the kernel.                                                *)
(***************************************************************************)
\* The peer takes bytes; only a socket that was full makes an event of it.
PeerTake ==
    /\ peer \in {"open", "shut"}
    /\ \E n \in 1 .. Space - space : space' = space + n
    /\ ready' = (ready \/ space = 0)
    /\ UNCHANGED <<peer, ring, watch, pc, times, deleting, history>>

\* Bytes from the peer make an event that carries EPOLLOUT too.
PeerSend ==
    /\ peer = "open"
    /\ ready' = TRUE
    /\ UNCHANGED <<kernel, ring, watch, pc, times, deleting, history>>

PeerShut ==
    /\ peer = "open"
    /\ peer' = "shut"
    /\ ready' = TRUE
    /\ UNCHANGED <<space, ring, watch, pc, times, deleting, history>>

PeerReset ==
    /\ peer \in {"open", "shut"}
    /\ peer' = IF peer = "open" THEN "reset" ELSE "pipe"
    /\ ready' = TRUE
    /\ UNCHANGED <<space, ring, watch, pc, times, deleting, history>>

-----------------------------------------------------------------------------
(***************************************************************************)
(* handleTask: S and D tasks.                                              *)
(***************************************************************************)
\* lines 178-179, 431-432: the next slot.
After(i) == (i + 1) % Ring

Pending == writePos # readPos

\* line 164: one slot stays empty.
Full == After(writePos) = readPos

\* lines 154-162, 176-179.
HandleSend ==
    /\ pc = "task"
    /\ offered < MaxMessages
    /\ ~ Full
    /\ \E size \in Sizes :
         /\ sendBuf' = [sendBuf EXCEPT ![writePos] =
                          [id |-> offered + 1, from |-> accepted, size |-> size, sendPos |-> 0]]
         /\ accepted' = accepted + size
    /\ writePos' = After(writePos)
    /\ offered' = offered + 1
    /\ UNCHANGED <<kernel, ready, readPos, watch, pc, times, deleting, dropped, written, wrote,
                   freed, failed, errors>>

\* lines 164-167 with a full ring, 155-160 without a cell: nobody keeps the message.
\* The lines after 167 never run.
HandleSendDrop ==
    /\ (pc = "task" /\ Full) \/ pc = "gone"
    /\ offered < MaxMessages
    /\ offered' = offered + 1
    /\ dropped' = dropped \cup {offered + 1}
    /\ UNCHANGED <<kernel, ready, ring, watch, pc, times, deleting, accepted, written, wrote,
                   freed, failed, errors>>

\* The slots m_SendReadPos passes on its way to m_SendWritePos.
Occupied ==
    IF readPos <= writePos THEN readPos .. writePos - 1
                           ELSE (readPos .. Ring - 1) \cup (0 .. writePos - 1)

UnfreedFirst == Occupied \ {readPos}   \* FAULT: skips the message doSend is in
\* client_cell.cpp:28-39: the slots ~clientCell frees.
Unfreed == Occupied

\* lines 183-205: handleDel.
HandleDel ==
    /\ pc = "task"
    /\ deleting
    /\ freed' = [i \in Ids |-> IF \E k \in Unfreed : sendBuf[k].id = i THEN freed[i] + 1 ELSE freed[i]]
    /\ sendBuf' = [k \in Slots |-> IF k \in Unfreed THEN Null ELSE sendBuf[k]]
    /\ readPos' = writePos
    /\ deleting' = FALSE
    /\ pc' = "gone"
    /\ UNCHANGED <<kernel, ready, writePos, watch, times, offered, dropped, accepted, written,
                   wrote, failed, errors>>

\* line 210: pop finds the queue empty, or its head not yet published.
TasksDone ==
    /\ pc = "task"
    /\ pc' = "check"
    /\ UNCHANGED <<kernel, ready, ring, watch, times, deleting, history>>

-----------------------------------------------------------------------------
(***************************************************************************)
(* checkWrite and epoll_wait.                                              *)
(***************************************************************************)
ModifiedOnce == Pending # watch     \* FAULT: no EPOLL_CTL_MOD while EPOLLOUT is watched
\* lines 239-259: epoll_ctl is called, which looks at the socket again.
Modified == Pending \/ watch

CheckWrite ==
    /\ pc = "check"
    /\ watch' = Pending
    /\ ready' = (ready \/ Modified)
    /\ pc' = "wait"
    /\ UNCHANGED <<kernel, ring, times, deleting, history>>

\* lines 288, 304-308.
EventHup ==
    /\ pc = "wait"
    /\ ready
    /\ peer # "open"
    /\ ready' = FALSE
    /\ deleting' = TRUE
    /\ pc' = "task"
    /\ UNCHANGED <<kernel, ring, watch, times, history>>

Writable == watch /\ peer = "open" /\ space > 0

\* lines 288, 312-313.
EventOut ==
    /\ pc = "wait"
    /\ ready
    /\ Writable
    /\ ready' = FALSE
    /\ times' = 0
    /\ pc' = "send"
    /\ UNCHANGED <<kernel, ring, watch, deleting, history>>

\* No event that matters to sending.
EventNone ==
    /\ pc = "wait"
    /\ ready => peer = "open" /\ ~ Writable
    /\ ready' = FALSE
    /\ pc' = "task"
    /\ UNCHANGED <<kernel, ring, watch, times, deleting, history>>

\* lines 309-310, 333-342, 380: the same event carried EPOLLIN, and doRecv, which runs
\* before doSend, found the connection ended; the error of a reset goes to its read.
RecvFails ==
    /\ pc = "send"
    /\ times = 0
    /\ peer # "open"
    /\ ~ deleting
    /\ deleting' = TRUE
    /\ peer' = IF peer = "reset" THEN "pipe" ELSE peer
    /\ UNCHANGED <<space, ready, ring, watch, pc, times, history>>

-----------------------------------------------------------------------------
(***************************************************************************)
(* doSend.                                                                 *)
(***************************************************************************)
Current == sendBuf[readPos]

RestForgotten == [from |-> Current.from, count |-> Current.size - Current.sendPos]   \* FAULT: writes from ptr
\* lines 404-405: what doSend asks write to take.
Rest == [from |-> Current.from + Current.sendPos, count |-> Current.size - Current.sendPos]

Sending == pc = "send" /\ times < MaxTimes /\ Pending

\* The kernel takes n bytes.
Take(n) ==
    /\ Sending
    /\ peer \in {"open", "shut"}
    /\ n \in 1 .. space
    /\ space' = space - n
    /\ written' = written + n
    /\ wrote' = [from |-> Rest.from, count |-> n]

\* lines 421-423: a part of the message; doSend returns.
WritePart ==
    /\ \E n \in 1 .. Rest.count - 1 :
         /\ Take(n)
         /\ sendBuf' = [sendBuf EXCEPT ![readPos].sendPos = @ + n]
    /\ pc' = "task"
    /\ UNCHANGED <<peer, ready, readPos, writePos, watch, times, deleting, offered, dropped,
                   accepted, freed, failed, errors>>

\* lines 424-433: all of it; the message is freed.
WriteAll ==
    /\ Take(Rest.count)
    /\ freed' = [freed EXCEPT ![Current.id] = @ + 1]
    /\ sendBuf' = [sendBuf EXCEPT ![readPos] = Null]
    /\ readPos' = After(readPos)
    /\ times' = times + 1
    /\ UNCHANGED <<peer, ready, writePos, watch, pc, deleting, offered, dropped, accepted,
                   failed, errors>>

\* lines 407-410: EAGAIN, the loop goes on.
WriteAgain ==
    /\ Sending
    /\ peer \in {"open", "shut"}
    /\ space = 0
    /\ Rest.count > 0
    /\ times' = times + 1
    /\ UNCHANGED <<kernel, ready, ring, watch, pc, deleting, history>>

\* lines 415-418: write returned 0, which it does when asked for nothing.
WriteNothing ==
    /\ Sending
    /\ peer \in {"open", "shut"}
    /\ Rest.count = 0
    /\ pc' = "task"
    /\ UNCHANGED <<kernel, ready, ring, watch, times, deleting, history>>

AfterErrorAgain == "send"   \* FAULT: continue, as for EAGAIN
\* line 413: where the manager goes after a failed write.
AfterError == "task"

\* lines 411-414: the error of a reset; it is reported once.
WriteError ==
    /\ Sending
    /\ peer = "reset"
    /\ peer' = "pipe"
    /\ failed' = TRUE
    /\ pc' = AfterError
    /\ UNCHANGED <<space, ready, ring, watch, times, deleting, offered, dropped, accepted,
                   written, wrote, freed, errors>>

\* line 404: writing to a connection whose error is gone raises SIGPIPE, which the
\* program neither handles nor ignores.
WriteKilled ==
    /\ Sending
    /\ peer = "pipe"
    /\ pc' = "killed"
    /\ UNCHANGED <<kernel, ready, ring, watch, times, deleting, history>>

\* lines 401-402, 437: the loop ends; an empty ring only lets it run out.
SendDone ==
    /\ pc = "send"
    /\ times = MaxTimes \/ ~ Pending
    /\ pc' = "task"
    /\ UNCHANGED <<kernel, ready, ring, watch, times, deleting, history>>

-----------------------------------------------------------------------------
Manager ==
    \/ HandleSend
    \/ HandleSendDrop
    \/ HandleDel
    \/ TasksDone
    \/ CheckWrite
    \/ EventHup
    \/ EventOut
    \/ EventNone
    \/ RecvFails
    \/ WritePart
    \/ WriteAll
    \/ WriteAgain
    \/ WriteNothing
    \/ WriteError
    \/ WriteKilled
    \/ SendDone

Next == Manager \/ PeerTake \/ PeerSend \/ PeerShut \/ PeerReset

Spec == Init /\ [][Next]_vars

(***************************************************************************)
(* Fairness: the manager's loop runs (run, lines 280-300); epoll_wait      *)
(* returns after a millisecond at the latest.                              *)
(***************************************************************************)
FairSpec == Spec /\ WF_vars(Manager)

-----------------------------------------------------------------------------
(***************************************************************************)
(* Properties.                                                             *)
(***************************************************************************)
\* The type of the ring, its positions and everything around them.
TypeOK ==
    /\ peer \in {"open", "shut", "reset", "pipe"}
    /\ space \in 0 .. Space
    /\ ready \in BOOLEAN
    /\ sendBuf \in [Slots -> Message \cup {Null}]
    /\ readPos \in Slots /\ writePos \in Slots
    /\ watch \in BOOLEAN
    /\ pc \in {"task", "check", "wait", "send", "gone", "killed"}
    /\ times \in 0 .. MaxTimes
    /\ deleting \in BOOLEAN
    /\ offered \in 0 .. MaxMessages
    /\ dropped \subseteq 1 .. offered
    /\ accepted \in Nat /\ written \in Nat
    /\ wrote \in [from : Nat, count : Nat]
    /\ freed \in [Ids -> Nat]
    /\ failed \in BOOLEAN
    /\ errors \subseteq Int

\* The ring holds, from m_SendReadPos to m_SendWritePos, exactly the bytes that have
\* been accepted and not yet written, in order: nothing is overwritten when the ring
\* is full, and only the message at its head is written in part.
RingIsStream ==
    pc # "gone" =>
        /\ IF Pending THEN Current.id # 0 /\ Current.from + Current.sendPos = written
                      ELSE written = accepted
        /\ \A k \in Occupied :
             /\ sendBuf[k].id # 0
             /\ sendBuf[k].sendPos <= sendBuf[k].size
             /\ k # readPos => sendBuf[k].sendPos = 0
             /\ sendBuf[k].from + sendBuf[k].size =
                  IF After(k) = writePos THEN accepted ELSE sendBuf[After(k)].from

\* The bytes a write (line 404) takes are the ones that follow those taken before,
\* also when a message is written in several parts.
WritesInOrder == wrote.from + wrote.count = written

\* Every accepted message is freed once, by doSend (427-430) or by ~clientCell, and
\* not while it is in the ring.
FreedOnce ==
    /\ \A i \in (1 .. offered) \ dropped :
         freed[i] = IF \E k \in Occupied : sendBuf[k].id = i THEN 0 ELSE 1
    /\ pc = "gone" => ~ Pending

\* doSend leaves after a failed write and never writes to the connection again: it is
\* not the one who makes SIGPIPE out of a reset (lines 411-414).
NoWriteAfterFailure == failed => pc # "killed"

\* As long as the peer goes on taking bytes, every accepted byte is written although
\* the socket is edge-triggered and doSend stops after serverMaxSendTimes writes
\* (lines 400-401) and after a partial one; unless an empty message blocks the ring.
PendingIsWritten ==
    []<>(space > 0) =>
        \A n \in 1 .. MaxMessages :
            accepted >= n ~> written >= n \/ peer # "open" \/ (Pending /\ Current.size = 0)
=============================================================================
