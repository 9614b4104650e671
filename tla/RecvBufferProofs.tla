-------------------------- MODULE RecvBufferProofs --------------------------
(***************************************************************************)
(* Theorems about RecvBuffer, for any even size of the buffer, any header, *)
(* any streams and any way they arrive.                                    *)
(***************************************************************************)
EXTENDS RecvBuffer, TLAPS

(***************************************************************************)
(* The invariant.  OnRecvData's position is 0 outside of it, and when it   *)
(* returns without a refusal no whole message is left at the cursor.       *)
(***************************************************************************)
ParseInv ==
    /\ pc \notin {"parse", "shift"} => readpos = 0
    /\ pc = "shift" => refused \/ ~ Complete

IInv == TypeOK /\ BufferIsStream /\ HandedIntact /\ FullHasCause /\ ParseInv

buffer == <<stream, recvBuf, recvReadPos, recvWritePos, readpos, taken>>

-----------------------------------------------------------------------------
\* If something is left at the cursor, it is the stream from `handed' on.
LEMMA AtCursor ==
    ASSUME TypeOK, BufferIsStream
    PROVE  /\ Cursor \in Nat /\ Left \in Nat /\ Left = taken - handed /\ handed \in 0 .. End
           /\ Left > 0 => Cursor \in Positions /\ recvBuf[Cursor] = handed
           /\ stream[handed] \in Nat
<1>1. /\ Cursor \in Nat /\ Left \in Nat /\ Left = taken - handed /\ handed \in 0 .. taken
      /\ taken \in 0 .. sent /\ sent \in 0 .. End /\ End \in Nat
      /\ Cursor + Left = recvWritePos /\ recvWritePos <= Size /\ Size \in Nat
  BY EndAssumption, SizeAssumption DEF TypeOK, BufferIsStream, Cursor, Left
<1>2. handed \in 0 .. End
  BY <1>1
<1>3. ASSUME Left > 0
      PROVE  Cursor \in Positions /\ recvBuf[Cursor] = handed
  <2>1. Cursor \in Positions /\ Cursor \in Cursor .. recvWritePos - 1
    BY <1>1, <1>3 DEF Positions
  <2>2. recvBuf[Cursor] = handed + (Cursor - Cursor)
    BY <2>1 DEF BufferIsStream
  <2> QED
    BY <1>1, <2>1, <2>2
<1>4. stream[handed] \in Nat
  BY <1>2, StreamsAssumption DEF TypeOK
<1> QED
  BY <1>1, <1>2, <1>3, <1>4

\* A complete message at the cursor is the stream's next one.
LEMMA CompleteMeans ==
    ASSUME TypeOK, BufferIsStream, Complete
    PROVE  /\ Length = stream[handed] /\ Length \in Nat /\ Length > Header
           /\ Length <= Left /\ Left > 0
<1>1. Left > 0
  BY AtCursor, HeaderAssumption DEF Complete, HeaderComplete
<1>2. Length = stream[handed]
  BY <1>1, AtCursor DEF Length
<1>3. stream[handed] \in Nat
  BY AtCursor
<1> QED
  BY <1>1, <1>2, <1>3 DEF Complete, HeaderComplete

-----------------------------------------------------------------------------
\* A step that leaves the buffer and the application alone.
LEMMA QuietStep ==
    ASSUME IInv, TypeOK', UNCHANGED buffer, UNCHANGED <<handed, last>>,
           refused => refused',
           pc' \in {"wait", "read"} => pc \in {"wait", "read"},
           ParseInv'
    PROVE  IInv'
<1> USE DEF buffer
<1>1. BufferIsStream'
  BY DEF IInv, BufferIsStream, Cursor, Left
<1>2. HandedIntact' /\ FullHasCause'
  BY DEF IInv, HandedIntact, FullHasCause
<1> QED
  BY <1>1, <1>2 DEF IInv

\* The peer, the kernel, and the steps of doEvent and doRecv around the buffer.
LEMMA AroundStep ==
    ASSUME IInv, PeerSend \/ PeerEnd \/ Rearm \/ EventHup \/ EventIn \/ ReadAgain \/ ReadEnd
    PROVE  IInv'
<1> USE DEF manager, network, history
<1>1. /\ UNCHANGED buffer /\ UNCHANGED history
      /\ pc' = pc \/ (pc \in {"wait", "read"} /\ pc' \in {"wait", "read", "dead"})
      /\ breakflag' = breakflag
  BY DEF PeerSend, PeerEnd, Rearm, EventHup, EventIn, ReadAgain, ReadEnd, buffer, vars
<1>2. sent' \in sent .. End /\ peer' \in {"open", "shut", "reset"} /\ ready' \in BOOLEAN
  <2>1. sent \in 0 .. End /\ End \in Nat
    BY EndAssumption DEF IInv, TypeOK
  <2>2. sent' \in sent .. End
    <3>1. CASE PeerSend
      BY <2>1, <3>1 DEF PeerSend
    <3>2. CASE ~ PeerSend
      <4>1. sent' = sent
        BY <3>2 DEF PeerEnd, Rearm, EventHup, EventIn, ReadAgain, ReadEnd, vars
      <4> QED
        BY <2>1, <4>1
    <3> QED
      BY <3>1, <3>2
  <2>3. peer' = peer \/ peer' \in {"shut", "reset"}
    BY DEF PeerSend, PeerEnd, Rearm, EventHup, EventIn, ReadAgain, ReadEnd, vars
  <2>4. ready' \in {ready, TRUE, FALSE}
    BY DEF PeerSend, PeerEnd, Rearm, EventHup, EventIn, ReadAgain, ReadEnd, vars
  <2> QED
    BY <2>2, <2>3, <2>4 DEF IInv, TypeOK
<1>3. TypeOK'
  BY <1>1, <1>2, EndAssumption DEF IInv, TypeOK, buffer
<1>4. ParseInv'
  BY <1>1 DEF IInv, ParseInv, buffer, Complete, HeaderComplete, Length, Left, Cursor
<1> QED
  BY <1>1, <1>3, <1>4, QuietStep

\* OnRecvData returns.
LEMMA ReturnStep ==
    ASSUME IInv, Refuse \/ ParseDone
    PROVE  IInv'
<1> USE DEF network, history
<1>1. /\ UNCHANGED buffer /\ UNCHANGED <<handed, last, sent, peer, ready, breakflag>>
      /\ pc' = "shift" /\ refused' \in BOOLEAN
      /\ refused => refused'
      /\ refused' \/ ~ Complete
  BY DEF Refuse, ParseDone, buffer, IInv, TypeOK
<1>2. TypeOK'
  BY <1>1 DEF IInv, TypeOK, buffer
<1>3. ParseInv'
  BY <1>1 DEF ParseInv, buffer, Complete, HeaderComplete, Length, Left, Cursor
<1> QED
  BY <1>1, <1>2, <1>3, QuietStep

\* A read appends to the unread part, and never writes behind the buffer.
LEMMA ReadStep ==
    ASSUME IInv, Read
    PROVE  IInv'
<1> USE DEF network, history
<1> DEFINE n == Smaller(sent - taken, Room)
<1>1. /\ n \in Nat /\ taken + n <= sent /\ recvWritePos + n <= Size
      /\ taken \in Nat /\ recvWritePos \in Nat /\ Size \in Nat /\ handed \in Nat
  BY SizeAssumption DEF Read, IInv, TypeOK, Smaller, Room
<1>2. /\ recvBuf' = [i \in Positions |->
                       IF i \in recvWritePos .. recvWritePos + n - 1
                       THEN taken + (i - recvWritePos) ELSE recvBuf[i]]
      /\ taken' = taken + n /\ recvWritePos' = recvWritePos + n
      /\ readpos' = 0 /\ readpos = 0 /\ recvReadPos' = recvReadPos
      /\ pc' = "parse" /\ breakflag' \in BOOLEAN
      /\ UNCHANGED <<stream, sent, peer, ready, handed, last, refused>>
  BY DEF Read, ReadAll, IInv, ParseInv
<1>3. /\ Cursor' = Cursor /\ Left' = Left + n /\ Cursor \in Nat /\ Cursor <= recvWritePos
      /\ Left = taken - handed /\ Left = recvWritePos - Cursor
  <2>1. /\ Cursor \in Nat /\ Cursor <= recvWritePos
        /\ Left = taken - handed /\ Left = recvWritePos - Cursor
    BY <1>1, <1>2 DEF IInv, TypeOK, BufferIsStream, Cursor, Left
  <2>2. Cursor' = Cursor
    BY <1>2 DEF Cursor
  <2>3. Left' = (recvWritePos + n) - Cursor
    BY <1>2, <2>2 DEF Left
  <2>4. (recvWritePos + n) - Cursor = Left + n
    BY <1>1, <2>1
  <2> QED
    BY <2>1, <2>2, <2>3, <2>4
<1>4. TypeOK'
  <2>1. TypeOK
    BY DEF IInv
  <2>2. recvBuf' \in [Positions -> Nat]
    <3>1. \A i \in recvWritePos .. recvWritePos + n - 1 : taken + (i - recvWritePos) \in Nat
      BY <1>1
    <3>2. recvBuf \in [Positions -> Nat]
      BY <2>1 DEF TypeOK
    <3> QED
      BY <1>2, <3>1, <3>2
  <2>3. taken + n \in 0 .. sent /\ recvWritePos + n \in 0 .. Size
    BY <1>1, <2>1 DEF TypeOK
  <2>4. taken' \in 0 .. sent' /\ recvWritePos' \in 0 .. Size
    BY <1>2, <2>3
  <2>5. Positions' = Positions
    BY DEF Positions
  <2> QED
    BY <1>2, <2>1, <2>2, <2>4, <2>5 DEF TypeOK
<1>5. BufferIsStream'
  <2>1. ASSUME NEW i \in Cursor .. recvWritePos + n - 1
        PROVE  recvBuf'[i] = handed + (i - Cursor)
    <3>1. i \in Positions
      BY <1>1, <1>3 DEF Positions
    <3>2. CASE i >= recvWritePos
      <4>1. i \in recvWritePos .. recvWritePos + n - 1
        BY <1>1, <1>3, <3>2
      <4>2. recvBuf'[i] = taken + (i - recvWritePos)
        BY <1>2, <3>1, <4>1
      <4> QED
        BY <1>1, <1>3, <4>2
    <3>3. CASE i < recvWritePos
      <4>1. recvBuf'[i] = recvBuf[i]
        BY <1>1, <1>2, <1>3, <3>1, <3>3
      <4>2. i \in Cursor .. recvWritePos - 1
        BY <1>1, <1>3, <3>3
      <4> QED
        BY <4>1, <4>2 DEF IInv, BufferIsStream
    <3> QED
      BY <1>1, <1>3, <3>2, <3>3
  <2> QED
    BY <1>1, <1>2, <1>3, <2>1 DEF BufferIsStream
<1>6. HandedIntact' /\ FullHasCause' /\ ParseInv'
  BY <1>2 DEF IInv, HandedIntact, FullHasCause, ParseInv
<1> QED
  BY <1>4, <1>5, <1>6 DEF IInv

\* on_read takes the message at the cursor.
LEMMA DeliverStep ==
    ASSUME IInv, Deliver
    PROVE  IInv'
<1> USE DEF network
<1>1. /\ pc = "parse" /\ pc' = "parse"
      /\ last' = [k \in 1 .. Length |->
                    IF Cursor + k - 1 \in Positions THEN recvBuf[Cursor + k - 1] ELSE -1]
      /\ handed' = handed + Length /\ readpos' = readpos + Length
      /\ UNCHANGED <<stream, sent, peer, ready, taken, recvBuf, recvReadPos, recvWritePos,
                     breakflag, refused>>
  BY DEF Deliver
<1>2. /\ Length = stream[handed] /\ Length \in Nat /\ Length <= Left
      /\ Cursor \in Nat /\ Left \in Nat /\ Left = taken - handed /\ handed \in 0 .. End
      /\ Cursor + Left = recvWritePos /\ recvWritePos <= Size /\ Size \in Nat
      /\ readpos \in Nat /\ recvReadPos \in Nat /\ recvWritePos \in Nat /\ taken \in Nat
  BY CompleteMeans, AtCursor, SizeAssumption, EndAssumption DEF Deliver, IInv, TypeOK, Left, Cursor
<1>3. /\ Cursor' = Cursor + Length /\ Left' = Left - Length
  <2>1. Cursor' = recvReadPos + (readpos + Length)
    BY <1>1 DEF Cursor
  <2>2. recvReadPos + (readpos + Length) = Cursor + Length
    BY <1>2 DEF Cursor
  <2>3. Cursor' = Cursor + Length
    BY <2>1, <2>2
  <2>4. Left' = recvWritePos - Cursor'
    BY <1>1 DEF Left
  <2>5. recvWritePos - (Cursor + Length) = Left - Length
    BY <1>2 DEF Left
  <2> QED
    BY <2>3, <2>4, <2>5
<1>4. \A k \in 1 .. Length : last'[k] = handed + (k - 1)
  <2>1. ASSUME NEW k \in 1 .. Length
        PROVE  last'[k] = handed + (k - 1)
    <3>1. /\ Cursor + k - 1 \in Positions
          /\ Cursor + k - 1 \in Cursor .. recvWritePos - 1
      BY <1>2 DEF Positions
    <3>2. recvBuf[Cursor + k - 1] = handed + ((Cursor + k - 1) - Cursor)
      BY <3>1 DEF IInv, BufferIsStream
    <3> QED
      BY <1>1, <1>2, <3>1, <3>2
  <2> QED
    BY <2>1
<1>5. last' \in Seq(Nat) /\ Len(last') = Length
  <2>1. \A k \in 1 .. Length : last'[k] \in Nat
    BY <1>2, <1>4
  <2>2. last' \in [1 .. Length -> Nat]
    BY <1>1, <2>1
  <2> QED
    BY <1>2, <2>2
<1>6. TypeOK'
  <2>1. handed \in Nat /\ handed + Length \in Nat /\ readpos + Length \in Nat
    BY <1>2, EndAssumption
  <2>2. handed' \in Nat /\ readpos' \in Nat
    BY <1>1, <2>1
  <2>3. TypeOK
    BY DEF IInv
  <2>4. Positions' = Positions
    BY DEF Positions
  <2> QED
    BY <1>1, <1>5, <2>2, <2>3, <2>4 DEF TypeOK
<1>7. BufferIsStream'
  <2>1. ASSUME NEW i \in Cursor + Length .. recvWritePos - 1
        PROVE  recvBuf[i] = handed + Length + (i - (Cursor + Length))
    <3>1. i \in Cursor .. recvWritePos - 1
      BY <1>2
    <3>2. recvBuf[i] = handed + (i - Cursor)
      BY <3>1 DEF IInv, BufferIsStream
    <3> QED
      BY <1>2, <3>2
  <2> QED
    <3>1. Cursor' <= recvWritePos' /\ Left' = taken' - handed'
      <4>1. handed \in Int /\ handed' = handed + Length /\ taken' = taken /\ recvWritePos' = recvWritePos
        BY <1>1, <1>2, EndAssumption
      <4> QED
        BY <1>2, <1>3, <4>1
    <3>2. \A i \in Cursor' .. recvWritePos' - 1 : recvBuf'[i] = handed' + (i - Cursor')
      BY <1>1, <1>3, <2>1
    <3> QED
      BY <3>1, <3>2 DEF BufferIsStream
<1>8. HandedIntact'
  <2>1. handed' - Len(last') = handed
    BY <1>1, <1>2, <1>5
  <2>2. \A k \in 1 .. Len(last') : last'[k] = handed + k - 1
    BY <1>2, <1>4, <1>5
  <2> QED
    BY <1>1, <1>2, <1>5, <2>1, <2>2 DEF HandedIntact
<1>9. FullHasCause' /\ ParseInv'
  BY <1>1 DEF FullHasCause, ParseInv
<1> QED
  BY <1>6, <1>7, <1>8, <1>9 DEF IInv

\* doRecv resets the positions, moves the rest to the front, or leaves it.
LEMMA ShiftStep ==
    ASSUME IInv, Shift
    PROVE  IInv'
<1> USE DEF network, history
<1>1. /\ pc = "shift" /\ pc' \in {"wait", "read"} /\ readpos' = 0 /\ Shifted
      /\ UNCHANGED <<stream, sent, peer, ready, taken, breakflag, handed, last, refused>>
  BY DEF Shift
<1>2. /\ Cursor \in Nat /\ Left \in Nat /\ Left = taken - handed /\ handed \in 0 .. End
      /\ Cursor + Left = recvWritePos /\ recvWritePos \in 0 .. Size
      /\ Size \in Nat \ {0} /\ stream[handed] \in Nat /\ taken \in Nat
  BY AtCursor, SizeAssumption, EndAssumption DEF IInv, TypeOK, Left, Cursor
<1>3. /\ recvReadPos' \in Nat /\ recvWritePos' \in 0 .. Size
      /\ recvBuf' \in [Positions -> Nat]
      /\ recvReadPos' <= recvWritePos' /\ recvWritePos' - recvReadPos' = Left
      /\ \A i \in recvReadPos' .. recvWritePos' - 1 : recvBuf'[i] = handed + (i - recvReadPos')
  <2>1. CASE Cursor >= recvWritePos /\ recvReadPos' = 0 /\ recvWritePos' = 0 /\ recvBuf' = recvBuf
    BY <1>2, <2>1 DEF IInv, TypeOK
  <2>2. CASE /\ Cursor < recvWritePos
             /\ recvBuf' = [i \in Positions |->
                              IF i < Left THEN recvBuf[Cursor + i] ELSE recvBuf[i]]
             /\ recvReadPos' = 0 /\ recvWritePos' = Left
    <3>1. ASSUME NEW i \in 0 .. Left - 1
          PROVE  recvBuf'[i] = handed + i
      <4>1. i \in Positions /\ Cursor + i \in Cursor .. recvWritePos - 1 /\ i < Left
        BY <1>2 DEF Positions
      <4>2. recvBuf'[i] = recvBuf[Cursor + i]
        BY <2>2, <4>1
      <4>3. recvBuf[Cursor + i] = handed + ((Cursor + i) - Cursor)
        BY <4>1 DEF IInv, BufferIsStream
      <4> QED
        BY <1>2, <4>2, <4>3
    <3>2. ASSUME NEW i \in Positions
          PROVE  recvBuf'[i] \in Nat
      <4>1. CASE i < Left
        BY <1>2, <3>1, <4>1 DEF Positions
      <4>2. CASE ~ (i < Left)
        BY <2>2, <4>2 DEF IInv, TypeOK
      <4> QED
        BY <4>1, <4>2
    <3>3. recvBuf' \in [Positions -> Nat]
      BY <2>2, <3>2
    <3>4. 0 <= Left /\ Left \in 0 .. Size /\ Left - 0 = Left
      BY <1>2, <2>2
    <3>5. \A i \in 0 .. Left - 1 : recvBuf'[i] = handed + (i - 0)
      BY <3>1
    <3> QED
      BY <2>2, <3>3, <3>4, <3>5
  <2>3. CASE Cursor < recvWritePos /\ recvReadPos' = Cursor
             /\ recvBuf' = recvBuf /\ recvWritePos' = recvWritePos
    BY <1>2, <2>3 DEF IInv, TypeOK, BufferIsStream
  <2> QED
    BY <1>1, <2>1, <2>2, <2>3 DEF Shifted
<1>4. TypeOK'
  BY <1>1, <1>3 DEF IInv, TypeOK
<1>5. BufferIsStream'
  <2>1. Cursor' = recvReadPos' /\ Left' = Left
    <3>1. Cursor' = recvReadPos'
      <4>1. recvReadPos' \in Nat /\ readpos' = 0
        BY <1>1, <1>3
      <4>2. Cursor' = recvReadPos' + readpos'
        BY DEF Cursor
      <4>3. \A x \in Nat : x + 0 = x
        OBVIOUS
      <4> QED
        BY <4>1, <4>2, <4>3, Zenon
    <3>2. Left' = recvWritePos' - Cursor'
      BY DEF Left
    <3> QED
      BY <1>3, <3>1, <3>2
  <2> QED
    BY <1>1, <1>2, <1>3, <2>1 DEF BufferIsStream
<1>6. HandedIntact' /\ ParseInv'
  BY <1>1 DEF IInv, HandedIntact, ParseInv
<1>7. FullHasCause'
  <2> SUFFICES ASSUME recvWritePos' = Size, ~ refused, stream[handed] > Header
               PROVE  stream[handed] > Size \div 2
    BY <1>1, <1>2, HeaderAssumption DEF FullHasCause
  <2>1. Cursor < Size \div 2 /\ recvWritePos = Size
    <3>1. Size \div 2 \in Nat /\ Size \div 2 >= 1
      BY SizeAssumption
    <3>2. CASE Cursor >= recvWritePos
      BY <1>1, <1>2, <3>2 DEF Shifted
    <3>3. CASE Cursor < recvWritePos /\ Cursor >= Size \div 2
      <4>1. recvWritePos' = Left
        BY <1>1, <1>2, <3>3 DEF Shifted, Movable
      <4> QED
        BY <1>2, <3>1, <3>3, <4>1
    <3>4. CASE Cursor < recvWritePos /\ ~ (Cursor >= Size \div 2)
      BY <1>1, <1>2, <3>1, <3>4 DEF Shifted, Movable
    <3> QED
      BY <1>2, <3>2, <3>3, <3>4
  <2>2. Left > Size \div 2
    BY <1>2, <2>1
  <2>3. Length = stream[handed]
    BY <1>2, <2>2, AtCursor DEF Length, IInv
  <2>4. ~ (Left > Header /\ Left >= stream[handed])
    BY <1>1, <2>3 DEF IInv, ParseInv, Complete, HeaderComplete
  <2> QED
    BY <1>2, <2>2, <2>4, HeaderAssumption
<1> QED
  BY <1>4, <1>5, <1>6, <1>7 DEF IInv

-----------------------------------------------------------------------------
LEMMA Invariance == Spec => []IInv
<1>1. Init => IInv
  <2> SUFFICES ASSUME Init
               PROVE  IInv
    OBVIOUS
  <2>1. TypeOK
    <3>1. 0 \in 0 .. End /\ 0 \in 0 .. Size /\ 0 \in 0 .. 0
      BY EndAssumption, SizeAssumption
    <3>2. recvBuf \in [Positions -> Nat] /\ last \in Seq(Nat)
      BY DEF Init
    <3> QED
      BY <3>1, <3>2 DEF Init, TypeOK
  <2>2. BufferIsStream
    BY DEF Init, BufferIsStream, Cursor, Left
  <2>3. HandedIntact /\ FullHasCause /\ ParseInv
    BY SizeAssumption DEF Init, HandedIntact, FullHasCause, ParseInv
  <2> QED
    BY <2>1, <2>2, <2>3 DEF IInv
<1>2. IInv /\ [Next]_vars => IInv'
  <2> SUFFICES ASSUME IInv, [Next]_vars
               PROVE  IInv'
    OBVIOUS
  <2>1. CASE Next
    BY <2>1, AroundStep, ReturnStep, ReadStep, DeliverStep, ShiftStep DEF Next, Manager
  <2>2. CASE UNCHANGED vars
    BY <2>2 DEF vars, IInv, TypeOK, BufferIsStream, HandedIntact, FullHasCause, ParseInv,
                Complete, HeaderComplete, Length, Left, Cursor
  <2> QED
    BY <2>1, <2>2
<1> QED
  BY <1>1, <1>2, PTL DEF Spec

\* For every buffer size and every stream: no read goes past the end of m_RecvBuf
\* (line 327), and all positions stay inside it.
THEOREM TypeCorrect == Spec => []TypeOK
BY Invariance, PTL DEF IInv

\* For every way the stream is cut into reads, the unread part of the buffer is the
\* stream from the last message handed over on.
THEOREM StreamTheorem == Spec => []BufferIsStream
BY Invariance, PTL DEF IInv

\* Every message handed to on_read is the stream's next message, whole.
THEOREM IntactTheorem == Spec => []HandedIntact
BY Invariance, PTL DEF IInv

\* The buffer is full for good only after a refusal, or because of a message that is
\* invalid or longer than half of the buffer.
THEOREM FullTheorem == Spec => []FullHasCause
BY Invariance, PTL DEF IInv

\* The memcpy of line 359 is defined: moving starts at half of an even size.
THEOREM DisjointTheorem == Spec => []CopiesDisjoint
<1>1. IInv => CopiesDisjoint
  <2> SUFFICES ASSUME IInv, Movable
               PROVE  Left <= Cursor
    BY DEF CopiesDisjoint
  <2>1. Cursor \in Nat /\ Cursor + Left <= Size /\ Left \in Nat /\ Size \in Nat /\ Size % 2 = 0
    BY AtCursor, SizeAssumption DEF IInv, TypeOK, Left, Cursor
  <2>2. Cursor >= Size \div 2
    BY DEF Movable
  <2> QED
    BY <2>1, <2>2
<1> QED
  BY <1>1, Invariance, PTL
=============================================================================
