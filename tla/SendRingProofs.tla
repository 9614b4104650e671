--------------------------- MODULE SendRingProofs ---------------------------
(***************************************************************************)
(* Theorems about SendRing, for every size of the ring, of the socket's    *)
(* buffer and of the messages.                                             *)
(***************************************************************************)
EXTENDS SendRing, SequenceTheorems, TLAPS

-----------------------------------------------------------------------------
(***************************************************************************)
(* The ring's positions.                                                   *)
(***************************************************************************)
Between(r, w) ==
    IF r <= w THEN r .. w - 1 ELSE (r .. Ring - 1) \cup (0 .. w - 1)

\* The remainder only matters for the last slot.
LEMMA AfterIs ==
    ASSUME NEW k \in Slots
    PROVE  /\ After(k) = IF k = Ring - 1 THEN 0 ELSE k + 1
           /\ After(k) \in Slots /\ After(k) # k
<1>1. Ring \in Nat /\ Ring > 1 /\ k \in Nat /\ k < Ring
  BY RingAssumption DEF Slots
<1>2. CASE k = Ring - 1
  <2>1. Ring % Ring = 0
    BY <1>1
  <2> QED
    BY <1>1, <1>2, <2>1 DEF After, Slots
<1>3. CASE k # Ring - 1
  <2>1. k + 1 \in 0 .. Ring - 1
    BY <1>1, <1>3
  <2>2. \A a \in 0 .. Ring - 1 : a % Ring = a
    BY <1>1
  <2>3. (k + 1) % Ring = k + 1
    BY <2>1, <2>2
  <2> QED
    BY <1>1, <1>3, <2>1, <2>3 DEF After, Slots
<1> QED
  BY <1>2, <1>3

\* Different slots have different successors.
LEMMA AfterInjective ==
    ASSUME NEW j \in Slots, NEW k \in Slots, After(j) = After(k)
    PROVE  j = k
BY AfterIs, RingAssumption DEF Slots

\* Walking from a slot in use leads to slots in use, up to the write position.
LEMMA BetweenWalk ==
    ASSUME NEW r \in Slots, NEW w \in Slots, NEW k \in Between(r, w)
    PROVE  /\ k \in Slots /\ k # w
           /\ After(k) # r
           /\ After(k) # w => After(k) \in Between(r, w)
BY AfterIs, RingAssumption DEF Slots, Between

\* Advancing the write position of a ring that is not full.
LEMMA BetweenPut ==
    ASSUME NEW r \in Slots, NEW w \in Slots, After(w) # r
    PROVE  /\ Between(r, After(w)) = Between(r, w) \cup {w}
           /\ w \notin Between(r, w)
<1>1. /\ r \in Nat /\ w \in Nat /\ r < Ring /\ w < Ring /\ Ring \in Nat
      /\ After(w) = IF w = Ring - 1 THEN 0 ELSE w + 1
  BY AfterIs, RingAssumption DEF Slots
<1>2. \A k : k \in Between(r, After(w)) <=> k \in Between(r, w) \/ k = w
  BY <1>1 DEF Between
<1> QED
  BY <1>1, <1>2 DEF Between

\* Advancing the read position of a ring that is not empty.
LEMMA BetweenGet ==
    ASSUME NEW r \in Slots, NEW w \in Slots, r # w
    PROVE  /\ r \in Between(r, w)
           /\ Between(After(r), w) = Between(r, w) \ {r}
<1>1. /\ r \in Nat /\ w \in Nat /\ r < Ring /\ w < Ring /\ Ring \in Nat
      /\ After(r) = IF r = Ring - 1 THEN 0 ELSE r + 1
  BY AfterIs, RingAssumption DEF Slots
<1>2. \A k : k \in Between(After(r), w) <=> k \in Between(r, w) /\ k # r
  BY <1>1 DEF Between
<1> QED
  BY <1>1, <1>2 DEF Between

LEMMA OccupiedIs == Occupied = Between(readPos, writePos)
BY DEF Occupied, Between

-----------------------------------------------------------------------------
(***************************************************************************)
(* The inductive invariant.                                                *)
(***************************************************************************)
\* The messages in the ring are different ones, none of them dropped.
IdsInv ==
    /\ \A k \in Occupied : sendBuf[k].id \in 1 .. offered /\ sendBuf[k].id \notin dropped
    /\ \A j, k \in Occupied : sendBuf[j].id = sendBuf[k].id => j = k
    /\ \A i \in Ids : i > offered => freed[i] = 0

\* After a failed write the socket's error is gone, and the manager is not in doSend.
FailedInv == failed => peer = "pipe" /\ pc \notin {"send", "killed"}

IInv ==
    /\ TypeOK
    /\ RingIsStream
    /\ WritesInOrder
    /\ IdsInv
    /\ FreedOnce
    /\ FailedInv

LEMMA InitHolds == Init => IInv
<1> SUFFICES ASSUME Init PROVE IInv
  OBVIOUS
<1>1. TypeOK
  <2>1. 0 \in Slots /\ 0 \in 0 .. MaxTimes /\ Space \in 0 .. Space /\ 0 \in 0 .. MaxMessages
    BY RingAssumption, TimesAssumption, SpaceAssumption, MessagesAssumption DEF Slots
  <2>2. sendBuf \in [Slots -> Message \cup {Null}] /\ freed \in [Ids -> Nat]
    BY DEF Init
  <2>3. wrote \in [from : Nat, count : Nat]
    BY DEF Init
  <2> QED
    BY <2>1, <2>2, <2>3 DEF Init, TypeOK
<1>2. Occupied = {} /\ ~ Pending
  BY DEF Init, Occupied, Pending
<1> QED
  BY <1>1, <1>2, MessagesAssumption
  DEF Init, IInv, RingIsStream, WritesInOrder, IdsInv, FreedOnce, FailedInv, Ids

-----------------------------------------------------------------------------
(***************************************************************************)
(* Steps that leave the ring and what it has taken and given alone.        *)
(***************************************************************************)
LEMMA QuietStep ==
    ASSUME IInv, TypeOK', FailedInv',
           UNCHANGED <<sendBuf, readPos, writePos, offered, dropped, accepted, written, wrote, freed>>,
           pc' = "gone" <=> pc = "gone"
    PROVE  IInv'
<1>1. Occupied' = Occupied /\ Pending' = Pending /\ Current' = Current
  BY DEF Occupied, Pending, Current
<1>2. RingIsStream'
  BY <1>1 DEF IInv, RingIsStream, After
<1>3. WritesInOrder'
  BY DEF IInv, WritesInOrder
<1>4. IdsInv'
  BY <1>1 DEF IInv, IdsInv
<1>5. FreedOnce'
  BY <1>1 DEF IInv, FreedOnce
<1> QED
  BY <1>2, <1>3, <1>4, <1>5 DEF IInv

\* handleSend refuses a message: it belongs to no slot.
LEMMA DropStep ==
    ASSUME IInv, HandleSendDrop
    PROVE  IInv'
<1>1. /\ offered \in 0 .. MaxMessages /\ offered < MaxMessages /\ offered' = offered + 1
      /\ dropped' = dropped \cup {offered + 1} /\ dropped \subseteq 1 .. offered
      /\ UNCHANGED <<peer, space, ready, sendBuf, readPos, writePos, watch, pc, times, deleting,
                     accepted, written, wrote, freed, failed, errors>>
      /\ MaxMessages \in Nat
  BY MessagesAssumption DEF HandleSendDrop, kernel, ring, IInv, TypeOK
<1>2. Occupied' = Occupied /\ Pending' = Pending /\ Current' = Current
  BY <1>1 DEF Occupied, Pending, Current
<1>3. TypeOK'
  <2>1. offered' \in 0 .. MaxMessages /\ dropped' \subseteq 1 .. offered'
    BY <1>1
  <2> QED
    BY <1>1, <2>1 DEF IInv, TypeOK
<1>4. RingIsStream' /\ WritesInOrder' /\ FailedInv'
  BY <1>1, <1>2 DEF IInv, RingIsStream, WritesInOrder, FailedInv, After
<1>5. IdsInv'
  <2>1. \A n \in 1 .. offered : n \in 1 .. offered' /\ n # offered + 1
    BY <1>1
  <2>2. \A i \in Ids : i > offered' => i > offered
    BY <1>1 DEF Ids
  <2> QED
    BY <1>1, <1>2, <2>1, <2>2 DEF IInv, IdsInv
<1>6. FreedOnce'
  <2>1. (1 .. offered') \ dropped' = (1 .. offered) \ dropped
    BY <1>1
  <2> QED
    BY <1>1, <1>2, <2>1 DEF IInv, FreedOnce
<1> QED
  BY <1>3, <1>4, <1>5, <1>6 DEF IInv

-----------------------------------------------------------------------------
(***************************************************************************)
(* handleSend puts a message into the ring.                                *)
(***************************************************************************)
LEMMA SendStep ==
    ASSUME IInv, HandleSend
    PROVE  IInv'
<1> PICK size \in Sizes :
      /\ sendBuf' = [sendBuf EXCEPT ![writePos] =
                       [id |-> offered + 1, from |-> accepted, size |-> size, sendPos |-> 0]]
      /\ accepted' = accepted + size
  BY DEF HandleSend
<1> DEFINE new == [id |-> offered + 1, from |-> accepted, size |-> size, sendPos |-> 0]
<1>1. /\ pc = "task" /\ pc' = "task" /\ offered < MaxMessages /\ After(writePos) # readPos
      /\ writePos' = After(writePos) /\ offered' = offered + 1 /\ readPos' = readPos
      /\ UNCHANGED <<peer, space, ready, watch, times, deleting, dropped, written, wrote,
                     freed, failed, errors>>
  BY DEF HandleSend, Full, kernel
<1>2. /\ offered \in Nat /\ offered <= MaxMessages /\ MaxMessages \in Nat /\ dropped \subseteq 1 .. offered
      /\ accepted \in Nat /\ written \in Nat /\ size \in Nat
      /\ readPos \in Slots /\ writePos \in Slots
      /\ sendBuf \in [Slots -> Message \cup {Null}] /\ freed \in [Ids -> Nat]
  BY MessagesAssumption, SizesAssumption DEF IInv, TypeOK
<1>3. /\ Occupied' = Occupied \cup {writePos} /\ writePos \notin Occupied
      /\ Occupied = Between(readPos, writePos)
  <2>1. Occupied' = Between(readPos, After(writePos))
    BY <1>1 DEF Occupied, Between
  <2> QED
    BY <1>1, <1>2, <2>1, BetweenPut, OccupiedIs
<1>4. /\ sendBuf'[writePos] = new
      /\ \A k \in Slots : k # writePos => sendBuf'[k] = sendBuf[k]
  BY <1>2
<1>5. /\ After(writePos) \in Slots /\ After(writePos) # writePos
      /\ \A k \in Slots : After(k) = After(writePos) => k = writePos
  BY <1>2, AfterIs, AfterInjective
<1>6. TypeOK'
  <2>1. new \in Message
    BY <1>1, <1>2 DEF Message, Ids
  <2>2. sendBuf' \in [Slots -> Message \cup {Null}]
    BY <1>2, <2>1
  <2>3. accepted' \in Nat /\ offered' \in 0 .. MaxMessages /\ dropped' \subseteq 1 .. offered'
    BY <1>1, <1>2
  <2> QED
    BY <1>1, <1>2, <1>5, <2>2, <2>3 DEF IInv, TypeOK
<1>7. RingIsStream'
  <2>1. /\ Pending'
        /\ IF Pending THEN Current' = Current /\ Current.id # 0 /\ Current.from + Current.sendPos = written
                      ELSE Current' = new /\ written = accepted
    BY <1>1, <1>2, <1>4 DEF IInv, RingIsStream, Pending, Current
  <2>2. Current'.id # 0 /\ Current'.from + Current'.sendPos = written'
    BY <1>1, <1>2, <2>1
  <2>3. ASSUME NEW k \in Occupied'
        PROVE  /\ sendBuf'[k].id # 0
               /\ sendBuf'[k].sendPos <= sendBuf'[k].size
               /\ k # readPos' => sendBuf'[k].sendPos = 0
               /\ sendBuf'[k].from + sendBuf'[k].size =
                    IF After(k) = writePos' THEN accepted' ELSE sendBuf'[After(k)].from
    <3>1. CASE k = writePos
      BY <1>1, <1>2, <1>4, <3>1
    <3>2. CASE k # writePos
      <4>1. k \in Occupied /\ k \in Slots /\ After(k) \in Slots /\ sendBuf'[k] = sendBuf[k]
        BY <1>2, <1>3, <1>4, <3>2, BetweenWalk, AfterIs
      <4>2. /\ sendBuf[k].id # 0
            /\ sendBuf[k].sendPos <= sendBuf[k].size
            /\ k # readPos => sendBuf[k].sendPos = 0
            /\ sendBuf[k].from + sendBuf[k].size =
                 IF After(k) = writePos THEN accepted ELSE sendBuf[After(k)].from
        BY <1>1, <4>1 DEF IInv, RingIsStream
      <4>3. After(k) # writePos'
        BY <1>1, <1>5, <3>2, <4>1
      <4>4. sendBuf'[After(k)].from = IF After(k) = writePos THEN accepted ELSE sendBuf[After(k)].from
        BY <1>4, <4>1
      <4> QED
        BY <1>1, <4>1, <4>2, <4>3, <4>4
    <3> QED
      BY <3>1, <3>2
  <2> QED
    BY <2>1, <2>2, <2>3 DEF RingIsStream, After
<1>8. WritesInOrder' /\ FailedInv'
  BY <1>1 DEF IInv, WritesInOrder, FailedInv
<1>9. \A k \in Occupied : sendBuf'[k] = sendBuf[k] /\ sendBuf[k].id \in 1 .. offered
                          /\ sendBuf[k].id \notin dropped /\ sendBuf[k].id # offered + 1
  BY <1>2, <1>3, <1>4, BetweenWalk DEF IInv, IdsInv
<1>10. IdsInv'
  <2>1. \A n \in 1 .. offered : n \in 1 .. offered'
    BY <1>1, <1>2
  <2>2. offered + 1 \in 1 .. offered' /\ offered + 1 \notin dropped
    BY <1>1, <1>2
  <2>3. \A i \in Ids : i > offered' => i > offered
    BY <1>1, <1>2 DEF Ids
  <2>4. \A k \in Occupied' : sendBuf'[k].id \in 1 .. offered' /\ sendBuf'[k].id \notin dropped'
    BY <1>1, <1>3, <1>4, <1>9, <2>1, <2>2
  <2>5. \A j, k \in Occupied' : sendBuf'[j].id = sendBuf'[k].id => j = k
    BY <1>3, <1>4, <1>9 DEF IInv, IdsInv
  <2> QED
    BY <1>1, <2>3, <2>4, <2>5 DEF IInv, IdsInv
<1>11. FreedOnce'
  <2>1. ASSUME NEW i \in (1 .. offered') \ dropped'
        PROVE  freed'[i] = IF \E k \in Occupied' : sendBuf'[k].id = i THEN 0 ELSE 1
    <3>1. CASE i = offered + 1
      <4>1. i \in Ids /\ i > offered
        BY <1>1, <1>2, <3>1 DEF Ids
      <4>2. freed[i] = 0
        BY <4>1 DEF IInv, IdsInv
      <4> QED
        BY <1>1, <1>3, <1>4, <3>1, <4>2
    <3>2. CASE i # offered + 1
      <4>1. i \in (1 .. offered) \ dropped
        BY <1>1, <1>2, <3>2
      <4>2. (\E k \in Occupied' : sendBuf'[k].id = i) <=> (\E k \in Occupied : sendBuf[k].id = i)
        BY <1>3, <1>4, <1>9, <3>2
      <4> QED
        BY <1>1, <4>1, <4>2 DEF IInv, FreedOnce
    <3> QED
      BY <3>1, <3>2
  <2> QED
    BY <1>1, <2>1 DEF FreedOnce
<1> QED
  BY <1>6, <1>7, <1>8, <1>10, <1>11 DEF IInv

-----------------------------------------------------------------------------
(***************************************************************************)
(* doSend writes.                                                          *)
(***************************************************************************)
\* What doSend finds at the head of the ring.
LEMMA AtCurrent ==
    ASSUME IInv, Sending
    PROVE  /\ pc = "send" /\ readPos # writePos /\ readPos \in Slots /\ writePos \in Slots
           /\ Current \in Message /\ Current.id # 0
           /\ Current.size \in Nat /\ Current.sendPos \in Nat /\ Current.from \in Nat
           /\ Current.from + Current.sendPos = written
           /\ Rest.from = written /\ Rest.count = Current.size - Current.sendPos
           /\ Current.sendPos <= Current.size
           /\ readPos \in Occupied /\ Occupied = Between(readPos, writePos)
           /\ sendBuf \in [Slots -> Message \cup {Null}]
           /\ written \in Nat /\ times \in 0 .. MaxTimes /\ times < MaxTimes /\ MaxTimes \in Nat
           /\ space \in 0 .. Space /\ Space \in Nat /\ freed \in [Ids -> Nat]
<1>1. /\ pc = "send" /\ Pending /\ readPos # writePos /\ readPos \in Slots /\ writePos \in Slots
      /\ sendBuf \in [Slots -> Message \cup {Null}]
      /\ written \in Nat /\ times \in 0 .. MaxTimes /\ times < MaxTimes /\ MaxTimes \in Nat
      /\ space \in 0 .. Space /\ Space \in Nat /\ freed \in [Ids -> Nat]
  BY TimesAssumption, SpaceAssumption DEF IInv, TypeOK, Sending, Pending
<1>2. readPos \in Occupied /\ Occupied = Between(readPos, writePos)
  BY <1>1, BetweenGet, OccupiedIs
<1>3. Current.id # 0 /\ Current.from + Current.sendPos = written /\ Current.sendPos <= Current.size
  BY <1>1, <1>2 DEF IInv, RingIsStream, Current
<1>4. Current \in Message
  <2>1. Current \in Message \cup {Null} /\ Current # Null
    BY <1>1, <1>3 DEF Current, Null
  <2> QED
    BY <2>1
<1>5. Current.size \in Nat /\ Current.sendPos \in Nat /\ Current.from \in Nat
  BY <1>4, SizesAssumption DEF Message
<1>6. Rest.from = written /\ Rest.count = Current.size - Current.sendPos
  BY <1>3 DEF Rest
<1> QED
  BY <1>1, <1>2, <1>3, <1>4, <1>5, <1>6

LEMMA PartStep ==
    ASSUME IInv, WritePart
    PROVE  IInv'
<1> PICK n \in 1 .. Rest.count - 1 :
      /\ Take(n)
      /\ sendBuf' = [sendBuf EXCEPT ![readPos].sendPos = @ + n]
  BY DEF WritePart
<1> DEFINE part == [Current EXCEPT !.sendPos = @ + n]
<1>1. /\ pc' = "task" /\ space' = space - n /\ n \in 1 .. space
      /\ written' = written + n /\ wrote' = [from |-> Rest.from, count |-> n]
      /\ peer \in {"open", "shut"} /\ Sending
      /\ UNCHANGED <<peer, ready, readPos, writePos, watch, times, deleting, offered, dropped,
                     accepted, freed, failed, errors>>
  BY DEF WritePart, Take
<1>2. /\ readPos # writePos /\ readPos \in Slots /\ writePos \in Slots
      /\ Current \in Message /\ Current.id # 0 /\ pc = "send"
      /\ Current.size \in Nat /\ Current.sendPos \in Nat /\ Current.from \in Nat
      /\ Current.from + Current.sendPos = written /\ Rest.from = written
      /\ Rest.count = Current.size - Current.sendPos
      /\ readPos \in Occupied /\ Occupied = Between(readPos, writePos)
      /\ sendBuf \in [Slots -> Message \cup {Null}]
      /\ written \in Nat /\ space \in 0 .. Space /\ Space \in Nat
  BY <1>1, AtCurrent
<1>3. n \in Nat /\ n >= 1 /\ Current.sendPos + n <= Current.size
  BY <1>1, <1>2
<1>4. /\ sendBuf'[readPos] = part
      /\ \A k \in Slots : k # readPos => sendBuf'[k] = sendBuf[k]
  BY <1>2 DEF Current
<1>5. /\ part.id = Current.id /\ part.from = Current.from /\ part.size = Current.size
      /\ part.sendPos = Current.sendPos + n
  BY <1>2 DEF Message
<1>6. \A k \in Slots : /\ sendBuf'[k].id = sendBuf[k].id
                       /\ sendBuf'[k].from = sendBuf[k].from
                       /\ sendBuf'[k].size = sendBuf[k].size
  BY <1>4, <1>5 DEF Current
<1>7. Occupied' = Occupied /\ Pending /\ Pending' /\ Occupied \subseteq Slots
  BY <1>1, <1>2, BetweenWalk DEF Occupied, Pending
<1>8. TypeOK'
  <2>1. part \in Message
    BY <1>2, <1>3 DEF Message
  <2>2. sendBuf' \in [Slots -> Message \cup {Null}]
    BY <1>2, <1>4, <2>1
  <2>3. space - n \in 0 .. Space /\ written + n \in Nat /\ Rest.from \in Nat /\ n \in Nat
    BY <1>1, <1>2, <1>3
  <2> QED
    BY <1>1, <2>2, <2>3 DEF IInv, TypeOK
<1>9. RingIsStream'
  <2>1. Current'.id # 0 /\ Current'.from + Current'.sendPos = written'
    <3>1. Current' = part
      BY <1>1, <1>4 DEF Current
    <3> QED
      BY <1>1, <1>2, <1>3, <1>5, <3>1
  <2>2. ASSUME NEW k \in Occupied'
        PROVE  /\ sendBuf'[k].id # 0
               /\ sendBuf'[k].sendPos <= sendBuf'[k].size
               /\ k # readPos' => sendBuf'[k].sendPos = 0
               /\ sendBuf'[k].from + sendBuf'[k].size =
                    IF After(k) = writePos' THEN accepted' ELSE sendBuf'[After(k)].from
    <3>1. k \in Occupied /\ k \in Slots /\ After(k) \in Slots
      BY <1>2, <1>7, BetweenWalk, AfterIs
    <3>2. /\ sendBuf[k].id # 0
          /\ sendBuf[k].sendPos <= sendBuf[k].size
          /\ k # readPos => sendBuf[k].sendPos = 0
          /\ sendBuf[k].from + sendBuf[k].size =
               IF After(k) = writePos THEN accepted ELSE sendBuf[After(k)].from
      BY <1>2, <3>1 DEF IInv, RingIsStream
    <3>3. sendBuf'[k].sendPos <= sendBuf'[k].size /\ (k # readPos' => sendBuf'[k].sendPos = 0)
      <4>1. CASE k = readPos
        <5>1. sendBuf'[k] = part
          BY <1>4, <4>1
        <5>2. part.sendPos <= part.size
          BY <1>3
        <5>3. k = readPos'
          BY <1>1, <4>1
        <5> QED
          BY <5>1, <5>2, <5>3
      <4>2. CASE k # readPos
        <5>1. sendBuf'[k] = sendBuf[k]
          BY <1>4, <3>1, <4>2
        <5> QED
          BY <3>2, <4>2, <5>1
      <4> QED
        BY <4>1, <4>2
    <3>4. sendBuf'[After(k)].from = sendBuf[After(k)].from
      BY <1>6, <3>1
    <3> QED
      BY <1>1, <1>6, <3>1, <3>2, <3>3, <3>4
  <2> QED
    BY <1>7, <2>1, <2>2 DEF RingIsStream, After
<1>10. WritesInOrder' /\ FailedInv'
  BY <1>1, <1>2 DEF IInv, WritesInOrder, FailedInv
<1>11. IdsInv' /\ FreedOnce'
  <2>1. \A k \in Occupied' : sendBuf'[k].id = sendBuf[k].id
    BY <1>6, <1>7
  <2> QED
    BY <1>1, <1>7, <2>1 DEF IInv, IdsInv, FreedOnce
<1> QED
  BY <1>8, <1>9, <1>10, <1>11 DEF IInv

LEMMA AllStep ==
    ASSUME IInv, WriteAll
    PROVE  IInv'
<1>1. /\ Sending /\ peer \in {"open", "shut"} /\ Rest.count \in 1 .. space
      /\ space' = space - Rest.count /\ written' = written + Rest.count
      /\ wrote' = [from |-> Rest.from, count |-> Rest.count]
      /\ freed' = [freed EXCEPT ![Current.id] = @ + 1]
      /\ sendBuf' = [sendBuf EXCEPT ![readPos] = Null]
      /\ readPos' = After(readPos) /\ times' = times + 1
      /\ UNCHANGED <<peer, ready, writePos, watch, pc, deleting, offered, dropped, accepted,
                     failed, errors>>
  BY DEF WriteAll, Take
<1>2. /\ readPos # writePos /\ readPos \in Slots /\ writePos \in Slots
      /\ Current \in Message /\ Current.id # 0 /\ pc = "send"
      /\ Current.size \in Nat /\ Current.sendPos \in Nat /\ Current.from \in Nat
      /\ Current.from + Current.sendPos = written /\ Rest.from = written
      /\ Rest.count = Current.size - Current.sendPos
      /\ readPos \in Occupied /\ Occupied = Between(readPos, writePos)
      /\ sendBuf \in [Slots -> Message \cup {Null}] /\ freed \in [Ids -> Nat]
      /\ written \in Nat /\ space \in 0 .. Space /\ Space \in Nat
      /\ times \in 0 .. MaxTimes /\ times < MaxTimes /\ MaxTimes \in Nat
  BY <1>1, AtCurrent
<1>3. written' = Current.from + Current.size /\ written' \in Nat
  BY <1>1, <1>2
<1>4. /\ Occupied' = Occupied \ {readPos} /\ Occupied \subseteq Slots
      /\ After(readPos) \in Slots /\ After(readPos) # readPos
  <2>1. Occupied' = Between(After(readPos), writePos)
    BY <1>1 DEF Occupied, Between
  <2> QED
    BY <1>2, <2>1, BetweenGet, BetweenWalk, AfterIs
<1>5. \A k \in Slots : k # readPos => sendBuf'[k] = sendBuf[k]
  BY <1>1, <1>2
<1>6. TypeOK'
  <2>1. sendBuf' \in [Slots -> Message \cup {Null}] /\ freed' \in [Ids -> Nat]
    <3>1. sendBuf' \in [Slots -> Message \cup {Null}]
      BY <1>1, <1>2
    <3>2. Current.id \in Ids
      BY <1>2 DEF Message
    <3>3. freed[Current.id] + 1 \in Nat
      BY <1>2, <3>2
    <3>4. freed' \in [Ids -> Nat]
      BY <1>1, <1>2, <3>3
    <3> QED
      BY <3>1, <3>4
  <2>2. times + 1 \in 0 .. MaxTimes /\ space - Rest.count \in 0 .. Space
        /\ Rest.from \in Nat /\ Rest.count \in Nat
    BY <1>1, <1>2
  <2> QED
    BY <1>1, <1>3, <1>4, <2>1, <2>2 DEF IInv, TypeOK
<1>7. RingIsStream'
  <2>1. Current.from + Current.size =
          IF After(readPos) = writePos THEN accepted ELSE sendBuf[After(readPos)].from
    BY <1>2 DEF IInv, RingIsStream, Current
  <2>2. CASE After(readPos) = writePos
    <3>1. ~ Pending' /\ Occupied' = {} /\ written' = accepted'
      <4>1. readPos' = writePos'
        BY <1>1, <2>2
      <4>2. ~ Pending'
        BY <4>1 DEF Pending
      <4>3. Occupied' = {}
        BY <1>1, <1>2, <4>1 DEF Occupied, Slots
      <4> QED
        BY <1>1, <1>3, <2>1, <2>2, <4>2, <4>3
    <3> QED
      BY <3>1 DEF RingIsStream
  <2>3. CASE After(readPos) # writePos
    <3>1. After(readPos) \in Occupied /\ After(readPos) \in Occupied'
      BY <1>2, <1>4, <2>3, BetweenWalk
    <3>2. /\ sendBuf[After(readPos)].id # 0 /\ sendBuf[After(readPos)].sendPos = 0
          /\ sendBuf'[After(readPos)] = sendBuf[After(readPos)]
      BY <1>2, <1>4, <1>5, <3>1 DEF IInv, RingIsStream
    <3>3. Pending' /\ Current' = sendBuf[After(readPos)]
      BY <1>1, <2>3, <3>2 DEF Pending, Current
    <3>4. sendBuf[After(readPos)].from = written'
      BY <1>3, <2>1, <2>3
    <3>5. Current'.id # 0 /\ Current'.from + Current'.sendPos = written'
      BY <1>3, <3>2, <3>3, <3>4
    <3>6. ASSUME NEW k \in Occupied'
          PROVE  /\ sendBuf'[k].id # 0
                 /\ sendBuf'[k].sendPos <= sendBuf'[k].size
                 /\ k # readPos' => sendBuf'[k].sendPos = 0
                 /\ sendBuf'[k].from + sendBuf'[k].size =
                      IF After(k) = writePos' THEN accepted' ELSE sendBuf'[After(k)].from
      <4>1. /\ k \in Occupied /\ k # readPos /\ k \in Slots
            /\ After(k) \in Slots /\ After(k) # readPos
        BY <1>2, <1>4, BetweenWalk, AfterIs
      <4>2. sendBuf'[k] = sendBuf[k] /\ sendBuf'[After(k)] = sendBuf[After(k)]
        BY <1>5, <4>1
      <4> QED
        BY <1>1, <1>2, <4>1, <4>2 DEF IInv, RingIsStream
    <3> QED
      BY <3>3, <3>5, <3>6 DEF RingIsStream, After
  <2> QED
    BY <2>2, <2>3
<1>8. WritesInOrder' /\ FailedInv'
  BY <1>1, <1>2 DEF IInv, WritesInOrder, FailedInv
<1>9. /\ Current.id \in 1 .. offered /\ Current.id \in Ids
      /\ \A k \in Occupied' : sendBuf'[k] = sendBuf[k] /\ sendBuf[k].id # Current.id
  BY <1>2, <1>4, <1>5 DEF IInv, IdsInv, Current, Message
<1>10. IdsInv'
  <2>1. \A i \in Ids : i > offered => i # Current.id
    BY <1>9 DEF IInv, TypeOK
  <2>2. \A i \in Ids : i # Current.id => freed'[i] = freed[i]
    BY <1>1, <1>2
  <2> QED
    BY <1>1, <1>4, <1>9, <2>1, <2>2 DEF IInv, IdsInv
<1>11. FreedOnce'
  <2>1. ASSUME NEW i \in (1 .. offered') \ dropped'
        PROVE  freed'[i] = IF \E k \in Occupied' : sendBuf'[k].id = i THEN 0 ELSE 1
    <3>1. i \in Ids /\ i \in (1 .. offered) \ dropped
      BY <1>1, MessagesAssumption DEF IInv, TypeOK, Ids
    <3>2. freed[i] = IF \E k \in Occupied : sendBuf[k].id = i THEN 0 ELSE 1
      BY <3>1 DEF IInv, FreedOnce
    <3>3. CASE i = Current.id
      <4>1. freed[i] = 0
        BY <1>2, <3>2, <3>3 DEF Current
      <4>2. freed'[i] = 1
        BY <1>1, <1>2, <3>1, <3>3, <4>1
      <4> QED
        BY <1>9, <3>3, <4>2
    <3>4. CASE i # Current.id
      <4>1. freed'[i] = freed[i]
        BY <1>1, <1>2, <3>4
      <4>2. (\E k \in Occupied' : sendBuf'[k].id = i) <=> (\E k \in Occupied : sendBuf[k].id = i)
        BY <1>4, <1>9, <3>4 DEF Current
      <4> QED
        BY <3>2, <4>1, <4>2
    <3> QED
      BY <3>3, <3>4
  <2> QED
    BY <1>1, <1>2, <2>1 DEF FreedOnce
<1> QED
  BY <1>6, <1>7, <1>8, <1>10, <1>11 DEF IInv

-----------------------------------------------------------------------------
(***************************************************************************)
(* handleDel: ~clientCell frees what the ring still holds.                 *)
(***************************************************************************)
LEMMA DelStep ==
    ASSUME IInv, HandleDel
    PROVE  IInv'
<1>1. /\ pc = "task" /\ pc' = "gone" /\ deleting' = FALSE /\ readPos' = writePos
      /\ freed' = [i \in Ids |-> IF \E k \in Occupied : sendBuf[k].id = i THEN freed[i] + 1 ELSE freed[i]]
      /\ sendBuf' = [k \in Slots |-> IF k \in Occupied THEN Null ELSE sendBuf[k]]
      /\ UNCHANGED <<peer, space, ready, writePos, watch, times, offered, dropped, accepted,
                     written, wrote, failed, errors>>
  BY DEF HandleDel, Unfreed, kernel
<1>2. readPos \in Slots /\ writePos \in Slots /\ freed \in [Ids -> Nat] /\ offered \in 0 .. MaxMessages
  BY DEF IInv, TypeOK
<1>3. Occupied' = {} /\ ~ Pending'
  <2>1. readPos' = writePos'
    BY <1>1
  <2> QED
    BY <1>1, <1>2, <2>1 DEF Occupied, Pending, Slots
<1>4. TypeOK'
  <2>1. sendBuf' \in [Slots -> Message \cup {Null}]
    BY <1>1 DEF IInv, TypeOK
  <2>2. freed' \in [Ids -> Nat]
    <3>1. \A i \in Ids : freed[i] \in Nat /\ freed[i] + 1 \in Nat
      BY <1>2
    <3> QED
      BY <1>1, <3>1
  <2> QED
    BY <1>1, <1>2, <2>1, <2>2 DEF IInv, TypeOK
<1>5. RingIsStream' /\ WritesInOrder' /\ FailedInv'
  BY <1>1 DEF IInv, RingIsStream, WritesInOrder, FailedInv
<1>6. IdsInv'
  <2>1. ASSUME NEW i \in Ids, i > offered
        PROVE  freed'[i] = 0
    <3>1. \A n \in 1 .. offered : n # i
      BY <1>2, <2>1 DEF Ids
    <3>2. ~ \E k \in Occupied : sendBuf[k].id = i
      BY <3>1 DEF IInv, IdsInv
    <3> QED
      BY <1>1, <2>1, <3>2 DEF IInv, IdsInv
  <2> QED
    BY <1>1, <1>3, <2>1 DEF IdsInv
<1>7. FreedOnce'
  <2>1. ASSUME NEW i \in (1 .. offered') \ dropped'
        PROVE  freed'[i] = 1
    <3>1. i \in Ids /\ i \in (1 .. offered) \ dropped
      BY <1>1, <1>2, MessagesAssumption DEF Ids
    <3>2. freed[i] = IF \E k \in Occupied : sendBuf[k].id = i THEN 0 ELSE 1
      BY <3>1 DEF IInv, FreedOnce
    <3> QED
      BY <1>1, <3>1, <3>2
  <2> QED
    BY <1>3, <2>1 DEF FreedOnce
<1> QED
  BY <1>4, <1>5, <1>6, <1>7 DEF IInv

-----------------------------------------------------------------------------
(***************************************************************************)
(* The theorems.                                                           *)
(***************************************************************************)
\* The steps of peer and kernel, and the manager's steps that do not touch the ring.
LEMMA OtherStep ==
    ASSUME IInv,
           \/ PeerTake \/ PeerSend \/ PeerShut \/ PeerReset
           \/ TasksDone \/ CheckWrite \/ EventHup \/ EventOut \/ EventNone \/ RecvFails
           \/ WriteAgain \/ WriteNothing \/ WriteError \/ WriteKilled \/ SendDone
    PROVE  IInv'
<1> USE DEF kernel, ring, history
<1>1. TypeOK /\ FailedInv
  BY DEF IInv
<1>2. /\ UNCHANGED <<sendBuf, readPos, writePos, offered, dropped, accepted, written, wrote, freed>>
      /\ pc' = "gone" <=> pc = "gone"
  BY DEF PeerTake, PeerSend, PeerShut, PeerReset, TasksDone, CheckWrite, EventHup, EventOut,
         EventNone, RecvFails, WriteAgain, WriteNothing, WriteError, WriteKilled, SendDone,
         Sending, AfterError
<1>3. /\ peer' \in {"open", "shut", "reset", "pipe"} /\ space' \in 0 .. Space
      /\ ready' \in BOOLEAN /\ watch' \in BOOLEAN
      /\ pc' \in {"task", "check", "wait", "send", "gone", "killed"}
      /\ times' \in 0 .. MaxTimes /\ deleting' \in BOOLEAN /\ failed' \in BOOLEAN
      /\ errors' = errors
  <2>1. CASE PeerTake
    <3>1. space' \in 0 .. Space
      BY <1>1, <2>1, SpaceAssumption DEF PeerTake, TypeOK
    <3> QED
      BY <1>1, <2>1, <3>1 DEF PeerTake, TypeOK
  <2>2. CASE CheckWrite
    <3>1. Pending \in BOOLEAN /\ (ready \/ Modified) \in BOOLEAN
      BY DEF Pending
    <3> QED
      BY <1>1, <2>2, <3>1 DEF CheckWrite, TypeOK
  <2>3. CASE EventOut
    <3>1. 0 \in 0 .. MaxTimes
      BY TimesAssumption
    <3> QED
      BY <1>1, <2>3, <3>1 DEF EventOut, TypeOK
  <2>4. CASE WriteAgain
    <3>1. times' \in 0 .. MaxTimes
      BY <1>1, <2>4, TimesAssumption DEF WriteAgain, Sending, TypeOK
    <3> QED
      BY <1>1, <2>4, <3>1 DEF WriteAgain, TypeOK
  <2>5. CASE PeerSend
    BY <1>1, <2>5 DEF PeerSend, TypeOK
  <2>6. CASE PeerShut
    BY <1>1, <2>6 DEF PeerShut, TypeOK
  <2>7. CASE PeerReset
    BY <1>1, <2>7 DEF PeerReset, TypeOK
  <2>8. CASE TasksDone
    BY <1>1, <2>8 DEF TasksDone, TypeOK
  <2>9. CASE EventHup
    BY <1>1, <2>9 DEF EventHup, TypeOK
  <2>10. CASE EventNone
    BY <1>1, <2>10 DEF EventNone, TypeOK
  <2>11. CASE RecvFails
    BY <1>1, <2>11 DEF RecvFails, TypeOK
  <2>12. CASE WriteNothing
    BY <1>1, <2>12 DEF WriteNothing, TypeOK
  <2>13. CASE WriteError
    BY <1>1, <2>13 DEF WriteError, AfterError, TypeOK
  <2>14. CASE WriteKilled
    BY <1>1, <2>14 DEF WriteKilled, TypeOK
  <2>15. CASE SendDone
    BY <1>1, <2>15 DEF SendDone, TypeOK
  <2> QED
    BY <2>1, <2>2, <2>3, <2>4, <2>5, <2>6, <2>7, <2>8, <2>9,
       <2>10, <2>11, <2>12, <2>13, <2>14, <2>15
<1>4. TypeOK'
  BY <1>1, <1>2, <1>3 DEF TypeOK
<1>5. FailedInv'
  <2>1. CASE WriteError
    BY <2>1 DEF WriteError, AfterError, FailedInv
  <2>2. CASE failed
    BY <1>1, <2>2 DEF FailedInv, PeerTake, PeerSend, PeerShut, PeerReset, TasksDone, CheckWrite,
         EventHup, EventOut, Writable, EventNone, RecvFails, WriteAgain, WriteNothing, WriteError,
         WriteKilled, SendDone, Sending
  <2>3. CASE ~ failed /\ ~ WriteError
    BY <2>3 DEF FailedInv, PeerTake, PeerSend, PeerShut, PeerReset, TasksDone, CheckWrite,
         EventHup, EventOut, EventNone, RecvFails, WriteAgain, WriteNothing, WriteKilled, SendDone
  <2> QED
    BY <2>1, <2>2, <2>3
<1> QED
  BY <1>2, <1>4, <1>5, QuietStep

LEMMA Invariance == Spec => []IInv
<1>1. IInv /\ [Next]_vars => IInv'
  <2> SUFFICES ASSUME IInv, [Next]_vars
               PROVE  IInv'
    OBVIOUS
  <2>1. CASE Next
    BY <2>1, SendStep, DropStep, DelStep, PartStep, AllStep, OtherStep DEF Next, Manager
  <2>2. CASE UNCHANGED vars
    <3>1. TypeOK' /\ FailedInv'
      BY <2>2 DEF vars, IInv, TypeOK, FailedInv
    <3> QED
      BY <2>2, <3>1, QuietStep DEF vars
  <2> QED
    BY <2>1, <2>2
<1> QED
  BY <1>1, InitHolds, PTL DEF Spec

\* All positions stay inside the ring (lines 176-179, 431-432), for every size of it.
THEOREM TypeCorrect == Spec => []TypeOK
BY Invariance, PTL DEF IInv

\* The ring holds the accepted and unwritten bytes in order, however often it wraps
\* around or is full.
THEOREM StreamTheorem == Spec => []RingIsStream
BY Invariance, PTL DEF IInv

\* However write cuts the messages, bytes go out once each and in order.
THEOREM OrderTheorem == Spec => []WritesInOrder
BY Invariance, PTL DEF IInv

\* Every accepted message is freed exactly once.
THEOREM FreedTheorem == Spec => []FreedOnce
BY Invariance, PTL DEF IInv

\* doSend writes nothing after a failed write.
THEOREM FailureTheorem == Spec => []NoWriteAfterFailure
<1>1. IInv => NoWriteAfterFailure
  BY DEF IInv, FailedInv, NoWriteAfterFailure
<1> QED
  BY <1>1, Invariance, PTL
=============================================================================
