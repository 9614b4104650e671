------------------------- MODULE ClientBufferProofs -------------------------
(***************************************************************************)
(* Theorems about ClientBuffer, for any even size of the buffer, any       *)
(* header, any streams, any way they arrive and any number of connections. *)
(***************************************************************************)
EXTENDS ClientBuffer, TLAPS

\* On the first connection the unread part of the buffer is the stream from the last
\* message handled on.
StreamInv ==
    conn = 1 =>
        /\ Left = taken - handed
        /\ \A i \in Cursor .. writeIndex - 1 : buf[i] = [conn |-> 1, at |-> handed + (i - Cursor)]

\* OnRecvData's position is 0 outside of it.
ParseInv == pc # "parse" => readpos = 0

(***************************************************************************)
(* The invariant.  TypeOK and ParseInv are inductive by themselves and     *)
(* hold whatever the bytes say, StreamInv makes HandledIntact inductive.   *)
(***************************************************************************)
IInv == TypeOK /\ ParseInv /\ StreamInv /\ HandledIntact

-----------------------------------------------------------------------------
\* The indexes and the cursor.
LEMMA Indexes ==
    ASSUME TypeOK
    PROVE  /\ Size \in Nat \ {0} /\ Header \in Nat \ {0} /\ End \in Nat
           /\ readIndex \in Nat /\ writeIndex \in Nat /\ readpos \in Nat
           /\ Cursor \in Nat /\ Left \in Nat
           /\ Cursor + Left = writeIndex /\ writeIndex <= Size
           /\ taken \in Nat /\ sent \in Nat /\ taken <= sent /\ sent <= End
           /\ handed \in Nat
BY SizeAssumption, HeaderAssumption, EndAssumption DEF TypeOK, Cursor, Left

\* A complete message lies inside what has been received.
LEMMA CompleteMeans ==
    ASSUME TypeOK, Complete
    PROVE  /\ Length \in Nat \ {0} /\ Length <= Left
           /\ Cursor \in Positions /\ Left > 0
<1>1. Left > 0 /\ Cursor \in Positions
  BY Indexes DEF Complete, HeaderComplete, Positions
<1>2. buf[Cursor].at \in 0 .. End
  BY <1>1 DEF TypeOK, Byte
<1>3. Length \in Nat
  BY <1>2, StreamsAssumption DEF TypeOK, Length
<1> QED
  BY <1>1, <1>3, Indexes DEF Complete, HeaderComplete

\* Steps that leave the buffer and what was handled alone, and read no more.
LEMMA QuietStep ==
    ASSUME IInv, UNCHANGED <<stream, conn, buffer, readpos, handed, last>>,
           sent' \in sent .. End, server' \in {"open", "shut", "reset"},
           pc' = pc \/ (pc' = "closed" /\ readpos = 0),
           cause' \in {"none", "server", "full", "nothing"}
    PROVE  IInv'
<1> USE DEF buffer
<1>1. TypeOK'
  <2>1. sent' \in 0 .. End /\ taken \in 0 .. sent'
    BY Indexes DEF IInv, TypeOK
  <2>2. pc' \in {"run", "parse", "closed"}
    BY DEF IInv, TypeOK
  <2> QED
    BY <2>1, <2>2 DEF IInv, TypeOK, Positions, Byte
<1>2. ParseInv'
  BY DEF IInv, ParseInv
<1>3. StreamInv'
  BY DEF IInv, StreamInv, Cursor, Left
<1>4. HandledIntact'
  BY DEF IInv, HandledIntact
<1> QED
  BY <1>1, <1>2, <1>3, <1>4 DEF IInv

LEMMA AroundStep ==
    ASSUME IInv, ServerSend \/ ServerEnd \/ RecvNothing \/ HandledNothing
    PROVE  IInv'
<1> USE DEF network
<1>1. UNCHANGED <<stream, conn, buffer, readpos, handed, last>>
  BY DEF ServerSend, ServerEnd, RecvNothing, HandledNothing
<1>2. sent' \in sent .. End
  <2>1. CASE ServerSend
    BY <2>1, Indexes DEF ServerSend, IInv
  <2>2. CASE sent' = sent
    BY <2>2, Indexes DEF IInv
  <2> QED
    BY <2>1, <2>2 DEF ServerEnd, RecvNothing, HandledNothing
<1>3. server' \in {"open", "shut", "reset"}
  BY DEF ServerSend, ServerEnd, RecvNothing, HandledNothing, IInv, TypeOK
<1>4. pc' = pc \/ (pc' = "closed" /\ readpos = 0)
  BY DEF ServerSend, ServerEnd, RecvNothing, HandledNothing, IInv, ParseInv
<1>5. cause' \in {"none", "server", "full", "nothing"}
  BY DEF ServerSend, ServerEnd, RecvNothing, HandledNothing, IInv, TypeOK
<1> QED
  BY <1>1, <1>2, <1>3, <1>4, <1>5, QuietStep

\* recv appends to what is unread, and never writes behind the buffer.
LEMMA RecvStep ==
    ASSUME IInv, Recv
    PROVE  IInv'
<1> USE DEF network
<1>0. TypeOK
  BY DEF IInv
<1>1. PICK n : n = Smaller(sent - taken, Room)
  OBVIOUS
<1>2. /\ buf' = [i \in Positions |->
                   IF i \in writeIndex .. writeIndex + n - 1
                   THEN [conn |-> conn, at |-> taken + (i - writeIndex)]
                   ELSE buf[i]]
      /\ taken' = taken + n /\ writeIndex' = writeIndex + n
      /\ pc' = "parse" /\ readpos' = 0 /\ readpos = 0
      /\ UNCHANGED <<stream, conn, sent, server, readIndex, handed, last, cause>>
  BY <1>1 DEF Recv, IInv, ParseInv
<1>3. n \in Nat /\ taken + n <= sent /\ writeIndex + n <= Size
  BY <1>0, <1>1, Indexes DEF Recv, Smaller, Room
<1>4. Cursor' = Cursor /\ Left' = Left + n
  <2>1. Cursor' = Cursor
    BY <1>2 DEF Cursor
  <2>2. Left' = (writeIndex + n) - Cursor
    BY <1>2, <2>1 DEF Left
  <2>3. (writeIndex + n) - Cursor = (writeIndex - Cursor) + n
    BY <1>0, <1>3, Indexes
  <2> QED
    BY <2>1, <2>2, <2>3 DEF Left
<1>5. TypeOK'
  <2>1. buf' \in [Positions -> Byte]
    <3>1. ASSUME NEW i \in writeIndex .. writeIndex + n - 1
          PROVE  [conn |-> conn, at |-> taken + (i - writeIndex)] \in Byte
      <4>1. taken + (i - writeIndex) \in 0 .. End
        BY <1>0, <1>3, Indexes
      <4> QED
        BY <1>0, <4>1 DEF TypeOK, Byte
    <3>2. buf \in [Positions -> Byte]
      BY <1>0 DEF TypeOK
    <3> QED
      BY <1>2, <3>1, <3>2
  <2>2. taken + n \in 0 .. sent /\ writeIndex + n \in 0 .. Size
    BY <1>0, <1>3, Indexes
  <2>3. readIndex \in 0 .. writeIndex + n /\ 0 \in 0 .. (writeIndex + n) - readIndex
    BY <1>0, <1>3, Indexes DEF TypeOK
  <2>4. taken' \in 0 .. sent' /\ writeIndex' \in 0 .. Size
    BY <1>2, <2>2
  <2>5. readIndex' \in 0 .. writeIndex' /\ readpos' \in 0 .. writeIndex' - readIndex'
    BY <1>2, <2>3
  <2>6. buf' \in [Positions' -> Byte']
    BY <2>1 DEF Positions, Byte
  <2> QED
    BY <1>0, <1>2, <2>4, <2>5, <2>6 DEF TypeOK, Byte
<1>6. StreamInv'
  <2>1. SUFFICES ASSUME conn = 1
                 PROVE  /\ Left' = taken' - handed'
                        /\ \A i \in Cursor' .. writeIndex' - 1 :
                              buf'[i] = [conn |-> 1, at |-> handed' + (i - Cursor')]
    BY <1>2 DEF StreamInv
  <2>2. Left = taken - handed /\ handed \in Nat
    BY <1>0, <2>1, Indexes DEF IInv, StreamInv
  <2>3. Left + n = (taken + n) - handed
    BY <1>0, <1>3, <2>2, Indexes
  <2>4. ASSUME NEW i \in Cursor .. writeIndex + n - 1
        PROVE  buf'[i] = [conn |-> 1, at |-> handed + (i - Cursor)]
    <3>1. i \in Positions /\ i \in Int
      BY <1>0, <1>3, Indexes DEF Positions
    <3>2. CASE i >= writeIndex
      <4>1. i \in writeIndex .. writeIndex + n - 1
        BY <1>0, <1>3, <3>1, <3>2, Indexes
      <4>2. buf'[i] = [conn |-> 1, at |-> taken + (i - writeIndex)]
        BY <1>2, <2>1, <3>1, <4>1
      <4>3. taken + (i - writeIndex) = handed + (i - Cursor)
        BY <1>0, <2>2, <3>1, Indexes
      <4> QED
        BY <4>2, <4>3
    <3>3. CASE i < writeIndex
      <4>1. i \notin writeIndex .. writeIndex + n - 1
        BY <3>3, <1>0, Indexes
      <4>2. buf'[i] = buf[i]
        BY <1>2, <3>1, <4>1
      <4>3. i \in Cursor .. writeIndex - 1
        BY <1>0, <3>1, <3>3, Indexes
      <4> QED
        BY <2>1, <4>2, <4>3 DEF IInv, StreamInv
    <3> QED
      BY <1>0, <3>1, <3>2, <3>3, Indexes
  <2>5. Left' = taken' - handed'
    BY <1>2, <1>4, <2>3
  <2>6. ASSUME NEW i \in Cursor' .. writeIndex' - 1
        PROVE  buf'[i] = [conn |-> 1, at |-> handed' + (i - Cursor')]
    <3>1. writeIndex' = writeIndex + n /\ Cursor' = Cursor /\ handed' = handed
      BY <1>2, <1>4
    <3>2. i \in Cursor .. writeIndex + n - 1
      BY <1>0, <1>3, <2>6, <3>1, Indexes
    <3> QED
      BY <2>4, <3>1, <3>2
  <2> QED
    BY <2>5, <2>6
<1>7. HandledIntact' /\ ParseInv'
  BY <1>2 DEF IInv, HandledIntact, ParseInv
<1> QED
  BY <1>5, <1>6, <1>7 DEF IInv

\* handle_msg is given the message at the cursor.
LEMMA HandleStep ==
    ASSUME IInv, Handle
    PROVE  IInv'
<1> USE DEF network, buffer
<1>0. TypeOK
  BY DEF IInv
<1>1. /\ last' = [k \in 1 .. Length |->
                    IF Cursor + k - 1 \in Positions THEN buf[Cursor + k - 1]
                    ELSE [conn |-> 0, at |-> 0]]
      /\ handed' = handed + Length /\ readpos' = readpos + Length /\ pc = "parse"
      /\ UNCHANGED <<stream, conn, sent, server, taken, buf, readIndex, writeIndex, pc, cause>>
  BY DEF Handle
<1>2. Length \in Nat \ {0} /\ Length <= Left /\ Cursor \in Positions /\ Left > 0
  BY <1>0, CompleteMeans DEF Handle
<1>3. Cursor' = Cursor + Length /\ Left' = Left - Length
  <2>1. Cursor' = readIndex + (readpos + Length)
    BY <1>1 DEF Cursor
  <2>2. readIndex + (readpos + Length) = Cursor + Length
    BY <1>0, <1>2, Indexes DEF Cursor
  <2>3. Left' = writeIndex - (Cursor + Length)
    BY <1>1, <2>1, <2>2 DEF Left
  <2>4. writeIndex - (Cursor + Length) = (writeIndex - Cursor) - Length
    BY <1>0, <1>2, Indexes
  <2> QED
    BY <2>1, <2>2, <2>3, <2>4 DEF Left
<1>4. \A k \in 1 .. Length : /\ Cursor + k - 1 \in Positions
                             /\ Cursor + k - 1 \in Cursor .. writeIndex - 1
  BY <1>0, <1>2, Indexes DEF Positions
<1>5. \A k \in 1 .. Length : last'[k] = buf[Cursor + k - 1]
  BY <1>1, <1>4
<1>6. last' \in Seq(Byte) /\ Len(last') = Length
  <2>1. buf \in [Positions -> Byte]
    BY <1>0 DEF TypeOK
  <2>2. last' \in [1 .. Length -> Byte]
    BY <1>1, <1>4, <2>1
  <2> QED
    BY <1>2, <2>2
<1>7. TypeOK'
  <2>1. readpos + Length \in 0 .. writeIndex - readIndex
    BY <1>0, <1>2, Indexes DEF Left, Cursor
  <2>2. handed + Length \in Nat
    BY <1>0, <1>2, Indexes
  <2>3. readpos' \in 0 .. writeIndex' - readIndex' /\ handed' \in Nat
    BY <1>1, <2>1, <2>2
  <2> QED
    BY <1>0, <1>1, <1>6, <2>3 DEF TypeOK, Positions, Byte
<1>8. StreamInv'
  <2>1. SUFFICES ASSUME conn = 1
                 PROVE  /\ Left' = taken' - handed'
                        /\ \A i \in Cursor' .. writeIndex' - 1 :
                              buf'[i] = [conn |-> 1, at |-> handed' + (i - Cursor')]
    BY <1>1 DEF StreamInv
  <2>2. Left = taken - handed
    BY <2>1 DEF IInv, StreamInv
  <2>3. Left - Length = taken - (handed + Length)
    BY <1>0, <1>2, <2>2, Indexes
  <2>4. ASSUME NEW i \in Cursor + Length .. writeIndex - 1
        PROVE  buf[i] = [conn |-> 1, at |-> (handed + Length) + (i - (Cursor + Length))]
    <3>1. i \in Cursor .. writeIndex - 1
      BY <1>0, <1>2, Indexes
    <3>2. buf[i] = [conn |-> 1, at |-> handed + (i - Cursor)]
      BY <2>1, <3>1 DEF IInv, StreamInv
    <3>3. handed + (i - Cursor) = (handed + Length) + (i - (Cursor + Length))
      BY <1>0, <1>2, Indexes
    <3> QED
      BY <3>2, <3>3
  <2> QED
    BY <1>1, <1>3, <2>3, <2>4
<1>9. HandledIntact'
  <2>1. SUFFICES ASSUME conn = 1
                 PROVE  /\ handed' - Len(last') \in 0 .. End
                        /\ Len(last') = stream[handed' - Len(last')]
                        /\ \A k \in 1 .. Len(last') :
                              last'[k] = [conn |-> 1, at |-> (handed' - Len(last')) + k - 1]
    BY <1>1 DEF HandledIntact
  <2>2. Left = taken - handed
    BY <2>1 DEF IInv, StreamInv
  <2>3. handed' - Len(last') = handed
    <3>1. (handed + Length) - Length = handed
      BY <1>0, <1>2, Indexes
    <3> QED
      BY <1>1, <1>6, <3>1
  <2>4. handed \in 0 .. End
    BY <1>0, <1>2, <2>2, Indexes
  <2>5. ASSUME NEW k \in 1 .. Length
        PROVE  last'[k] = [conn |-> 1, at |-> handed + k - 1]
    <3>1. Cursor + k - 1 \in Cursor .. writeIndex - 1
      BY <1>4
    <3>2. buf[Cursor + k - 1] = [conn |-> 1, at |-> handed + ((Cursor + k - 1) - Cursor)]
      BY <2>1, <3>1 DEF IInv, StreamInv
    <3>3. handed + ((Cursor + k - 1) - Cursor) = handed + k - 1
      BY <1>0, <1>2, Indexes
    <3> QED
      BY <1>5, <3>2, <3>3
  <2>6. Length = stream[handed]
    <3>1. Cursor \in Cursor .. writeIndex - 1
      BY <1>0, <1>2, Indexes
    <3>2. buf[Cursor] = [conn |-> 1, at |-> handed + (Cursor - Cursor)]
      BY <2>1, <3>1 DEF IInv, StreamInv
    <3>3. handed + (Cursor - Cursor) = handed
      BY <1>0, Indexes
    <3>4. buf[Cursor].at = handed
      BY <3>2, <3>3
    <3> QED
      BY <3>4 DEF Length
  <2> QED
    BY <1>6, <2>3, <2>4, <2>5, <2>6
<1>10. ParseInv'
  BY <1>1 DEF ParseInv
<1> QED
  BY <1>7, <1>8, <1>9, <1>10 DEF IInv

\* What is left moves to the front, or stays where it is.
LEMMA AdvanceStep ==
    ASSUME IInv, Advance
    PROVE  IInv'
<1> USE DEF network
<1>0. TypeOK
  BY DEF IInv
<1>1. /\ pc' = "run" /\ readpos' = 0
      /\ UNCHANGED <<stream, conn, sent, server, taken, handed, last, cause>>
      /\ \/ /\ buf' = [i \in Positions |-> IF i < Left THEN buf[Cursor + i] ELSE buf[i]]
            /\ writeIndex' = Left /\ readIndex' = 0
         \/ readIndex' = Cursor /\ UNCHANGED <<buf, writeIndex>>
  BY DEF Advance, Advanced, Cursor, Left
<1>2. /\ readIndex' \in Nat /\ writeIndex' \in 0 .. Size /\ readIndex' <= writeIndex'
      /\ Left = writeIndex' - readIndex'
  BY <1>0, <1>1, Indexes
<1>3. Cursor' = readIndex' /\ Left' = Left
  <2>1. Cursor' = readIndex'
    BY <1>1, <1>2 DEF Cursor
  <2>2. Left' = writeIndex' - readIndex'
    BY <2>1 DEF Left
  <2> QED
    BY <1>2, <2>1, <2>2
<1>4. buf' \in [Positions -> Byte]
  <2>1. buf \in [Positions -> Byte]
    BY <1>0 DEF TypeOK
  <2>2. \A i \in Positions : i < Left => Cursor + i \in Positions
    BY <1>0, Indexes DEF Positions
  <2> QED
    BY <1>1, <2>1, <2>2
<1>5. TypeOK'
  <2>1. readIndex' \in 0 .. writeIndex' /\ readpos' \in 0 .. writeIndex' - readIndex'
    BY <1>0, <1>1, <1>2, Indexes
  <2>2. buf' \in [Positions' -> Byte']
    BY <1>4 DEF Positions, Byte
  <2> QED
    BY <1>0, <1>1, <1>2, <2>1, <2>2 DEF TypeOK, Byte
<1>6. StreamInv'
  <2>1. SUFFICES ASSUME conn = 1
                 PROVE  /\ Left' = taken' - handed'
                        /\ \A i \in Cursor' .. writeIndex' - 1 :
                              buf'[i] = [conn |-> 1, at |-> handed' + (i - Cursor')]
    BY <1>1 DEF StreamInv
  <2>2. Left = taken - handed
    BY <2>1 DEF IInv, StreamInv
  <2>3. CASE readIndex' = Cursor /\ UNCHANGED <<buf, writeIndex>>
    BY <1>1, <1>3, <2>1, <2>2, <2>3 DEF IInv, StreamInv
  <2>4. CASE /\ buf' = [i \in Positions |-> IF i < Left THEN buf[Cursor + i] ELSE buf[i]]
             /\ writeIndex' = Left /\ readIndex' = 0
    <3>1. ASSUME NEW i \in 0 .. Left - 1
          PROVE  buf'[i] = [conn |-> 1, at |-> handed + (i - 0)]
      <4>1. i \in Positions /\ i < Left /\ Cursor + i \in Cursor .. writeIndex - 1
        BY <1>0, Indexes DEF Positions
      <4>2. buf'[i] = buf[Cursor + i]
        BY <2>4, <4>1
      <4>3. buf[Cursor + i] = [conn |-> 1, at |-> handed + ((Cursor + i) - Cursor)]
        BY <2>1, <4>1 DEF IInv, StreamInv
      <4>4. handed + ((Cursor + i) - Cursor) = handed + (i - 0)
        BY <1>0, Indexes
      <4> QED
        BY <4>2, <4>3, <4>4
    <3>2. Cursor' = 0
      BY <1>3, <2>4
    <3> QED
      BY <1>1, <1>3, <2>2, <2>4, <3>1, <3>2
  <2> QED
    BY <1>1, <2>3, <2>4
<1>7. HandledIntact' /\ ParseInv'
  BY <1>1 DEF IInv, HandledIntact, ParseInv
<1> QED
  BY <1>5, <1>6, <1>7 DEF IInv

\* Another connection: nothing is claimed about its stream.
LEMMA ReconnectStep ==
    ASSUME IInv, Reconnect
    PROVE  IInv'
<1>0. TypeOK
  BY DEF IInv
<1>1. /\ conn < Connections /\ conn' = conn + 1 /\ sent' = 0 /\ server' = "open" /\ taken' = 0
      /\ handed' = 0 /\ last' = <<>> /\ cause' = "none" /\ pc' = "run" /\ pc = "closed"
      /\ UNCHANGED <<stream, buf, readIndex, writeIndex, readpos>>
  BY DEF Reconnect
<1>2. conn + 1 \in 1 .. Connections /\ conn + 1 # 1
  BY <1>0, <1>1, ConnectionsAssumption DEF TypeOK
<1>3. TypeOK'
  <2>1. last' \in Seq(Byte)
    BY <1>1
  <2>2. sent' \in 0 .. End /\ taken' \in 0 .. sent' /\ handed' \in Nat
    BY <1>1, EndAssumption
  <2>3. conn' \in 1 .. Connections
    BY <1>1, <1>2
  <2> QED
    BY <1>0, <1>1, <2>1, <2>2, <2>3 DEF TypeOK, Positions, Byte
<1>4. StreamInv' /\ HandledIntact'
  BY <1>1, <1>2 DEF StreamInv, HandledIntact
<1>5. ParseInv'
  BY <1>1 DEF IInv, ParseInv
<1> QED
  BY <1>3, <1>4, <1>5 DEF IInv

-----------------------------------------------------------------------------
LEMMA InitIInv == Init => IInv
<1> SUFFICES ASSUME Init PROVE IInv
  OBVIOUS
<1>1. [conn |-> 1, at |-> End] \in Byte
  BY EndAssumption, ConnectionsAssumption DEF Byte
<1>2. TypeOK
  <2>1. buf \in [Positions -> Byte]
    BY <1>1 DEF Init
  <2>2. <<>> \in Seq(Byte)
    OBVIOUS
  <2>3. 1 \in 1 .. Connections /\ 0 \in 0 .. End /\ 0 \in 0 .. Size
    BY EndAssumption, ConnectionsAssumption, SizeAssumption
  <2> QED
    BY <2>1, <2>2, <2>3 DEF Init, TypeOK
<1>3. StreamInv
  BY DEF Init, StreamInv, Left, Cursor
<1>4. HandledIntact /\ ParseInv
  BY DEF Init, HandledIntact, ParseInv
<1> QED
  BY <1>2, <1>3, <1>4 DEF IInv

LEMMA NextIInv == IInv /\ [Next]_vars => IInv'
<1> SUFFICES ASSUME IInv, [Next]_vars PROVE IInv'
  OBVIOUS
<1>1. CASE UNCHANGED vars
  <2>1. sent \in sent .. End
    BY Indexes DEF IInv
  <2> QED
    BY <1>1, <2>1, QuietStep DEF vars, buffer, IInv, TypeOK
<1>2. CASE Next
  BY <1>2, AroundStep, RecvStep, HandleStep, AdvanceStep, ReconnectStep DEF Next, Reader
<1> QED
  BY <1>1, <1>2

LEMMA InvariantIInv == Spec => []IInv
BY InitIInv, NextIInv, PTL DEF Spec

\* RecvData never has the kernel write behind _szMsgBuf, its indexes stay in order and
\* OnRecvData never reads past what has been received, on every connection of the object and
\* whatever the bytes say; and the memcpy of RecvData never copies between regions that
\* overlap.
THEOREM DisjointTheorem == Spec => []CopiesDisjoint
<1>1. IInv => CopiesDisjoint
  <2> SUFFICES ASSUME IInv PROVE CopiesDisjoint
    OBVIOUS
  <2>1. TypeOK
    BY DEF IInv
  <2>2. Movable(Cursor) => Left <= Cursor
    BY <2>1, Indexes, SizeAssumption DEF Movable
  <2> QED
    BY <2>1, <2>2 DEF CopiesDisjoint
<1> QED
  BY <1>1, InvariantIInv, PTL

\* Until the object is connected again, every message handle_msg is given is the stream's
\* next one, whole, however it was joined with others or split on the way.
THEOREM IntactTheorem == Spec => []HandledIntact
<1>1. IInv => HandledIntact
  BY DEF IInv
<1> QED
  BY <1>1, InvariantIInv, PTL

=============================================================================
