----------------------------- MODULE RecvBuffer -----------------------------
(***************************************************************************)
(* The receive path of one connection: cellManager::doRecv reads the       *)
(* socket into the cell's buffer, tcp_server_notify::OnRecvData cuts the   *)
(* buffer into messages and hands each to the application, doRecv moves    *)
(* what is left to the front of the buffer.                                *)
(*                                                                         *)
(* The manager's thread runs the whole path; the peer and the kernel act   *)
(* between any two of its reads.  The socket is watched edge-triggered: an *)
(* arrival makes one event, whether or not doRecv reads everything.        *)
(*                                                                         *)
(* A byte is its offset in the peer's stream, so that a lost, repeated or  *)
(* misplaced byte shows.  The stream says for every offset at which a      *)
(* message may start how long that message is, header included; a length   *)
(* of no more than a header is one whose data_size is not positive.        *)
(***************************************************************************)
EXTENDS Integers, Sequences

CONSTANTS
    Size,        \* SYSRECVBUF
    Header,      \* m_msg_header_size_
    End,         \* BOUND: the number of bytes a peer sends at most
    Streams      \* the streams a peer may send

ASSUME SizeAssumption == Size \in Nat \ {0} /\ Size % 2 = 0
ASSUME HeaderAssumption == Header \in Nat \ {0}
ASSUME EndAssumption == End \in Nat
ASSUME StreamsAssumption == Streams \subseteq [0 .. End -> Nat]

VARIABLES
    stream,        \* the stream the peer sends; chosen once
    sent,          \* how many bytes of it the peer has sent
    peer,          \* "open", "shut" for an orderly end, "reset"
    ready,         \* the socket is on epoll's ready list
    taken,         \* how many bytes doRecv has read
    recvBuf,       \* m_RecvBuf
    recvReadPos,   \* m_RecvReadPos
    recvWritePos,  \* m_RecvWritePos
    pc,            \* where the manager is in doRecv; "dead" once it queued a D task
    breakflag,     \* breakflag of doRecv
    readpos,       \* readpos of OnRecvData
    handed,        \* history: how many bytes of messages on_read has accepted
    last,          \* history: the bytes of the message it accepted last
    refused        \* history: on_read has refused a message

vars == <<stream, sent, peer, ready, taken, recvBuf, recvReadPos, recvWritePos, pc,
          breakflag, readpos, handed, last, refused>>

network == <<stream, sent, peer>>
history == <<handed, last, refused>>

Positions == 0 .. Size - 1

Init ==
    /\ stream \in Streams
    /\ sent = 0
    /\ peer = "open"
    /\ ready = FALSE
    /\ taken = 0
    /\ recvBuf = [i \in Positions |-> 0]
    /\ recvReadPos = 0
    /\ recvWritePos = 0
    /\ pc = "wait"
    /\ breakflag = FALSE
    /\ readpos = 0
    /\ handed = 0
    /\ last = << >>
    /\ refused = FALSE

-----------------------------------------------------------------------------
(***************************************************************************)
(* The peer and the kernel.                                                *)
(***************************************************************************)
manager == <<taken, recvBuf, recvReadPos, recvWritePos, pc, breakflag, readpos>>

PeerSend ==
    /\ peer = "open"
    /\ \E n \in 1 .. End - sent : sent' = sent + n
    /\ ready' = TRUE
    /\ UNCHANGED <<stream, peer, manager, history>>

PeerEnd ==
    /\ peer = "open"
    /\ peer' \in {"shut", "reset"}
    /\ ready' = TRUE
    /\ UNCHANGED <<stream, sent, manager, history>>

\* The EPOLL_CTL_MOD of checkWrite (lines 246, 258) puts a readable socket back on
\* the list.
Rearm ==
    /\ pc = "wait"
    /\ taken < sent
    /\ ready' = TRUE
    /\ UNCHANGED <<network, manager, history>>

-----------------------------------------------------------------------------
(***************************************************************************)
(* doEvent and doRecv (lines of cell_manager.cpp).                         *)
(***************************************************************************)
\* lines 304-308: the event carries the end of the connection; what has not been
\* read never is.
EventHup ==
    /\ pc = "wait"
    /\ ready
    /\ peer # "open"
    /\ ready' = FALSE
    /\ pc' = "dead"
    /\ UNCHANGED <<network, taken, recvBuf, recvReadPos, recvWritePos, breakflag, readpos, history>>

\* lines 309-310, 325: a full buffer is not read into.
EventIn ==
    /\ pc = "wait"
    /\ ready
    /\ peer = "open"
    /\ taken < sent
    /\ ready' = FALSE
    /\ pc' = IF recvWritePos < Size THEN "read" ELSE "wait"
    /\ UNCHANGED <<network, taken, recvBuf, recvReadPos, recvWritePos, breakflag, readpos, history>>

\* line 327: the free space behind the unread bytes.
Room == Size - recvWritePos

\* FAULT: doRecv always leaves after one read.
ReadAllAlways(n) == TRUE
\* line 344: a read of n bytes that fills less than the free space took everything.
ReadAll(n) == n < Room

Smaller(m, n) == IF m < n THEN m ELSE n

\* lines 327, 343-349, 352: the kernel gives what it has, as far as it fits.
Read ==
    /\ pc = "read"
    /\ peer # "reset"
    /\ taken < sent
    /\ LET n == Smaller(sent - taken, Room)
       IN  /\ recvBuf' = [i \in Positions |->
                            IF i \in recvWritePos .. recvWritePos + n - 1
                            THEN taken + (i - recvWritePos)
                            ELSE recvBuf[i]]
           /\ taken' = taken + n
           /\ recvWritePos' = recvWritePos + n
           /\ breakflag' = ReadAll(n)
    /\ readpos' = 0
    /\ pc' = "parse"
    /\ UNCHANGED <<network, ready, recvReadPos, history>>

\* lines 329-332: EAGAIN or EINTR, try again.
ReadAgain ==
    /\ pc = "read"
    /\ peer = "open"
    /\ taken = sent
    /\ UNCHANGED vars

\* lines 333-342, 379-380: the connection has ended.
ReadEnd ==
    /\ pc = "read"
    /\ peer = "reset" \/ (peer = "shut" /\ taken = sent)
    /\ pc' = "dead"
    /\ UNCHANGED <<network, ready, taken, recvBuf, recvReadPos, recvWritePos, breakflag,
                   readpos, history>>

-----------------------------------------------------------------------------
(***************************************************************************)
(* OnRecvData, called with the buffer from m_RecvReadPos on.               *)
(***************************************************************************)
Cursor == recvReadPos + readpos
Left == recvWritePos - Cursor

\* tcp_server_notify.cpp, lines 60-65: the length the header at the cursor gives.
Length == stream[recvBuf[Cursor]]

HeaderComplete == Left > Header /\ Length > Header

\* FAULT: the header is not counted.
CompleteShort == HeaderComplete /\ Left >= Length - Header
\* lines 59-65: a whole message with a positive data_size lies at the cursor.
Complete == HeaderComplete /\ Left >= Length

\* lines 81-82: on_read takes the message.
Deliver ==
    /\ pc = "parse"
    /\ Complete
    /\ last' = [k \in 1 .. Length |->
                  IF Cursor + k - 1 \in Positions THEN recvBuf[Cursor + k - 1] ELSE -1]
    /\ handed' = handed + Length
    /\ readpos' = readpos + Length
    /\ UNCHANGED <<network, ready, taken, recvBuf, recvReadPos, recvWritePos, pc, breakflag, refused>>

\* lines 81-85, 97: on_read refuses it, OnRecvData returns.
Refuse ==
    /\ pc = "parse"
    /\ Complete
    /\ refused' = TRUE
    /\ pc' = "shift"
    /\ UNCHANGED <<network, ready, taken, recvBuf, recvReadPos, recvWritePos, breakflag, readpos,
                   handed, last>>

\* lines 59-63, 92-97: no whole message is left, OnRecvData returns.
ParseDone ==
    /\ pc = "parse"
    /\ ~ Complete
    /\ pc' = "shift"
    /\ UNCHANGED <<network, ready, taken, recvBuf, recvReadPos, recvWritePos, breakflag, readpos,
                   history>>

-----------------------------------------------------------------------------
(***************************************************************************)
(* doRecv again: the positions after OnRecvData returned readpos.          *)
(***************************************************************************)
MovableEarly == Cursor >= Size \div 4   \* FAULT: the rest may be longer than the gap
MovableNever == FALSE                   \* FAULT: never compacted
\* line 358: the rest of the buffer is short enough to be moved.
Movable == Cursor >= Size \div 2

\* lines 355-362.
Shifted ==
    \/ /\ Cursor >= recvWritePos
       /\ recvReadPos' = 0
       /\ recvWritePos' = 0
       /\ UNCHANGED recvBuf
    \/ /\ Cursor < recvWritePos
       /\ Movable
       /\ recvBuf' = [i \in Positions |->
                        IF i < Left THEN recvBuf[Cursor + i] ELSE recvBuf[i]]
       /\ recvReadPos' = 0
       /\ recvWritePos' = Left
    \/ /\ Cursor < recvWritePos
       /\ ~ Movable
       /\ recvReadPos' = Cursor
       /\ UNCHANGED <<recvBuf, recvWritePos>>

\* lines 353-373: the loop ends when the buffer is full or the socket read empty.
Shift ==
    /\ pc = "shift"
    /\ Shifted
    /\ pc' = IF recvWritePos' >= Size \/ breakflag THEN "wait" ELSE "read"
    /\ readpos' = 0
    /\ UNCHANGED <<network, ready, taken, breakflag, history>>

Manager ==
    \/ EventHup
    \/ EventIn
    \/ Read
    \/ ReadAgain
    \/ ReadEnd
    \/ Deliver
    \/ Refuse
    \/ ParseDone
    \/ Shift

Next == Manager \/ PeerSend \/ PeerEnd \/ Rearm

Spec == Init /\ [][Next]_vars

(***************************************************************************)
(* Fairness: the manager's loop runs (run, cell_manager.cpp:280-300).      *)
(***************************************************************************)
FairSpec == Spec /\ WF_vars(Manager)

-----------------------------------------------------------------------------
(***************************************************************************)
(* Properties.                                                             *)
(***************************************************************************)
\* The type of the buffer, its positions and everything around them.
TypeOK ==
    /\ stream \in Streams
    /\ sent \in 0 .. End
    /\ peer \in {"open", "shut", "reset"}
    /\ ready \in BOOLEAN
    /\ taken \in 0 .. sent
    /\ recvBuf \in [Positions -> Nat]
    /\ recvReadPos \in Nat /\ recvWritePos \in 0 .. Size
    /\ pc \in {"wait", "read", "parse", "shift", "dead"}
    /\ breakflag \in BOOLEAN
    /\ readpos \in Nat
    /\ handed \in Nat
    /\ last \in Seq(Nat)
    /\ refused \in BOOLEAN

\* Whatever arrives in whatever pieces, the unread part of the buffer is exactly the
\* part of the stream between the last message handed over and the last byte read.
BufferIsStream ==
    /\ Cursor <= recvWritePos
    /\ Left = taken - handed
    /\ \A i \in Cursor .. recvWritePos - 1 : recvBuf[i] = handed + (i - Cursor)

\* A message handed to on_read (tcp_server_notify.cpp:81) is the stream's next
\* message, whole.
HandedIntact ==
    last # << >> =>
        LET from == handed - Len(last)
        IN  /\ from \in 0 .. End
            /\ Len(last) = stream[from]
            /\ \A k \in 1 .. Len(last) : last[k] = from + k - 1

\* The memcpy of line 359 never copies between regions that overlap.
CopiesDisjoint ==
    pc = "shift" /\ Cursor < recvWritePos /\ Movable => Left <= Cursor

\* The buffer fills up for good (lines 364-369) only because the application refused
\* a message, or because a message is longer than half of it or not valid.
FullHasCause ==
    recvWritePos = Size /\ pc \in {"wait", "read"} =>
        \/ refused
        \/ stream[handed] > Size \div 2
        \/ stream[handed] <= Header

Stuck == refused \/ pc = "dead" \/ recvWritePos = Size

\* A message that has arrived is handed over although its socket is edge-triggered,
\* unless the connection ends or the path is stuck.
ArrivedIsHanded ==
    \A n \in 1 .. End :
        sent >= n ~> handed + stream[handed] > n \/ stream[handed] <= Header \/ Stuck

\* line 345: once everything has been read, doRecv leaves its loop and the manager
\* can serve the other connections.
ReadLoopEnds == pc = "read" /\ taken = sent ~> pc \in {"wait", "dead"}
=============================================================================
