---------------------------- MODULE ClientBuffer ----------------------------
(***************************************************************************)
(* The receive path of easyTcpClient: RecvData (tcpClient.cpp) reads the   *)
(* socket into _szMsgBuf, tcp_client_notify::OnRecvData cuts the buffer    *)
(* into messages and hands each to handle_msg, RecvData moves what is left *)
(* to the front.  OnRun calls RecvData while select finds something to     *)
(* read, and ends the connection when it returns -1.  The object may then  *)
(* be connected again.                                                     *)
(*                                                                         *)
(* A byte is the number of its connection and its offset in what the       *)
(* server sends there.  "stream" says for every offset how long the        *)
(* message is that starts there, header included; a length of no more than *)
(* a header is one whose data_size is not positive.                        *)
(***************************************************************************)
EXTENDS Integers, Sequences

CONSTANTS
    Size,            \* MAX_BUF_SIZE
    Header,          \* m_msg_header_size_
    End,             \* BOUND: the number of bytes a server sends at most
    Streams,         \* the streams a server may send
    Connections      \* BOUND: how often the object is connected

ASSUME SizeAssumption == Size \in Nat \ {0} /\ Size % 2 = 0
ASSUME HeaderAssumption == Header \in Nat \ {0}
ASSUME EndAssumption == End \in Nat
ASSUME StreamsAssumption == Streams \subseteq [0 .. End -> Nat]
ASSUME ConnectionsAssumption == Connections \in Nat \ {0}

VARIABLES
    stream,          \* what the server sends on every connection; chosen once
    conn,            \* the number of the connection
    sent, server,    \* what the server has sent on it; "open", "shut" or "reset"
    taken,           \* how many bytes of it RecvData has read
    buf,             \* _szMsgBuf
    readIndex,       \* m_ReadIndex
    writeIndex,      \* m_WriteIndex
    pc,              \* "run", "parse" inside OnRecvData, "closed"
    readpos,         \* readpos of OnRecvData
    handed,          \* history: how many bytes of messages were handled on it
    last,            \* history: the bytes of the message handled last
    cause            \* history: why RecvData returned -1

vars == <<stream, conn, sent, server, taken, buf, readIndex, writeIndex, pc, readpos,
          handed, last, cause>>
network == <<stream, conn, sent, server>>
buffer == <<taken, buf, readIndex, writeIndex>>

Positions == 0 .. Size - 1
Byte == [conn : 1 .. Connections, at : 0 .. End]

\* The buffer of a new object is zeroed: as the first byte of a message it says nothing.
Init ==
    /\ stream \in Streams /\ conn = 1 /\ sent = 0 /\ server = "open"
    /\ taken = 0 /\ buf = [i \in Positions |-> [conn |-> 1, at |-> End]]
    /\ readIndex = 0 /\ writeIndex = 0
    /\ pc = "run" /\ readpos = 0
    /\ handed = 0 /\ last = <<>> /\ cause = "none"

-----------------------------------------------------------------------------
(* The server and the kernel. *)

ServerSend ==
    /\ server = "open"
    /\ \E n \in 1 .. End - sent : sent' = sent + n
    /\ UNCHANGED <<stream, conn, server, buffer, pc, readpos, handed, last, cause>>

ServerEnd ==
    /\ server = "open"
    /\ server' \in {"shut", "reset"}
    /\ UNCHANGED <<stream, conn, sent, buffer, pc, readpos, handed, last, cause>>

-----------------------------------------------------------------------------
(* RecvData up to OnRecvData. *)

Smaller(m, n) == IF m < n THEN m ELSE n

Room == Size - writeIndex

\* recv returns what has arrived, as far as it fits.
Recv ==
    /\ pc = "run" /\ server # "reset" /\ taken < sent /\ Room > 0
    /\ LET n == Smaller(sent - taken, Room) IN
         /\ buf' = [i \in Positions |->
                      IF i \in writeIndex .. writeIndex + n - 1
                      THEN [conn |-> conn, at |-> taken + (i - writeIndex)]
                      ELSE buf[i]]
         /\ taken' = taken + n
         /\ writeIndex' = writeIndex + n
    /\ pc' = "parse" /\ readpos' = 0
    /\ UNCHANGED <<network, readIndex, handed, last, cause>>

\* recv fails, finds the end of the stream, or is given no room and returns 0.
RecvNothing ==
    /\ pc = "run"
    /\ cause' = IF server # "reset" /\ taken < sent THEN "full" ELSE "server"
    /\ \/ server = "reset"
       \/ server = "shut" /\ taken = sent
       \/ taken < sent /\ Room = 0
    /\ pc' = "closed"
    /\ UNCHANGED <<network, buffer, readpos, handed, last>>

-----------------------------------------------------------------------------
(* OnRecvData, called with the buffer from m_ReadIndex on. *)

Cursor == readIndex + readpos
Left == writeIndex - Cursor
Length == stream[buf[Cursor].at]

HeaderComplete == Left > Header /\ Length > Header
\* FAULT: the header is not counted.
CompleteShort == HeaderComplete /\ Left >= Length - Header
\* A whole message with a positive data_size lies at the cursor.
Complete == HeaderComplete /\ Left >= Length

Handle ==
    /\ pc = "parse" /\ Complete
    /\ last' = [k \in 1 .. Length |->
                  IF Cursor + k - 1 \in Positions THEN buf[Cursor + k - 1]
                  ELSE [conn |-> 0, at |-> 0]]
    /\ handed' = handed + Length
    /\ readpos' = readpos + Length
    /\ UNCHANGED <<network, buffer, pc, cause>>

-----------------------------------------------------------------------------
(* RecvData after OnRecvData. *)

\* m_ReadIndex += retsize.
Advanced(n) == readIndex + n

MovableEarly(n) == n >= Size \div 4   \* FAULT: the rest may be longer than the gap
MovableNever(n) == FALSE              \* FAULT: never moved
Movable(n) == n >= Size \div 2

\* OnRecvData handled something: the rest moves to the front once half of the buffer is
\* read.
Advance ==
    /\ pc = "parse" /\ ~ Complete /\ readpos > 0
    /\ LET next == Advanced(readpos) IN
         \/ /\ Movable(next)
            /\ buf' = [i \in Positions |->
                         IF i < writeIndex - next THEN buf[next + i] ELSE buf[i]]
            /\ writeIndex' = writeIndex - next /\ readIndex' = 0
         \/ /\ ~ Movable(next)
            /\ readIndex' = next
            /\ UNCHANGED <<buf, writeIndex>>
    /\ pc' = "run" /\ readpos' = 0
    /\ UNCHANGED <<network, taken, handed, last, cause>>

\* It handled nothing: RecvData reports an error, although more of the message may follow.
HandledNothing ==
    /\ pc = "parse" /\ ~ Complete /\ readpos = 0
    /\ cause' = "nothing"
    /\ pc' = "closed"
    /\ UNCHANGED <<network, buffer, readpos, handed, last>>

\* Connect and Start on the same object; the buffer and its indexes stay as they are.
Reconnect ==
    /\ pc = "closed" /\ conn < Connections
    /\ conn' = conn + 1
    /\ sent' = 0 /\ server' = "open" /\ taken' = 0
    /\ handed' = 0 /\ last' = <<>> /\ cause' = "none"
    /\ pc' = "run"
    /\ UNCHANGED <<stream, buf, readIndex, writeIndex, readpos>>

Reader == Recv \/ RecvNothing \/ Handle \/ Advance \/ HandledNothing
Next == ServerSend \/ ServerEnd \/ Reader \/ Reconnect

Spec == Init /\ [][Next]_vars
\* OnRun calls RecvData as long as select finds the socket readable.
FairSpec == Spec /\ WF_vars(Reader)

-----------------------------------------------------------------------------
(* Properties. *)

\* The difference of the indexes, an unsigned number, is the length OnRecvData is given.
TypeOK ==
    /\ stream \in Streams /\ conn \in 1 .. Connections
    /\ sent \in 0 .. End /\ server \in {"open", "shut", "reset"} /\ taken \in 0 .. sent
    /\ buf \in [Positions -> Byte]
    /\ writeIndex \in 0 .. Size /\ readIndex \in 0 .. writeIndex
    /\ pc \in {"run", "parse", "closed"} /\ readpos \in 0 .. writeIndex - readIndex
    /\ handed \in Nat /\ last \in Seq(Byte)
    /\ cause \in {"none", "server", "full", "nothing"}

\* "收数据 粘包 拆包": what handle_msg is given is one message of the server, whole, however
\* the messages were joined or split on the way; until the object is connected again.
HandledIntact ==
    conn = 1 /\ last # <<>> =>
        LET from == handed - Len(last) IN
          /\ from \in 0 .. End
          /\ Len(last) = stream[from]
          /\ \A k \in 1 .. Len(last) : last[k] = [conn |-> conn, at |-> from + k - 1]

\* Whatever the bytes say, also those of an old connection: the indexes stay in the buffer
\* and in order, and the memcpy of RecvData never copies between regions that overlap.
CopiesDisjoint ==
    /\ TypeOK
    /\ pc = "parse" /\ Movable(Cursor) => Left <= Cursor

\* The only ends of a connection that leave a message unhandled which has arrived whole:
\* the server's reset, a message at the front that is too long for the buffer, and, against
\* SplitIsAwaited, a read after which the message at the front was not complete.
Excused ==
    /\ pc = "closed"
    /\ \/ cause = "server" /\ server = "reset"
       \/ cause = "full" /\ stream[handed] > Size \div 2
       \/ cause = "nothing" /\ handed + stream[handed] > taken

\* A message that has arrived is handled, unless the connection ends before for a reason
\* above, or a message before it is not valid.
ArrivedIsHandled ==
    \A n \in 1 .. End :
        sent >= n ~> \/ conn > 1 \/ Excused
                     \/ handed + stream[handed] > n \/ stream[handed] <= Header

\* "收数据 粘包 拆包" (receive data, joined packets, split packets): a message whose first
\* part is all a read has brought is waited for; finding nothing to hand on ends the
\* connection only at a message that is not valid.
SplitIsAwaited ==
    conn = 1 /\ cause = "nothing" => stream[handed] <= Header
=============================================================================
