--------------------------- MODULE SrtQueueProofs ---------------------------
(***************************************************************************)
(* Theorems about SrtQueue, for any number of producers, any messages and  *)
(* any sizes of the two tables; those about the memory, and that the queue *)
(* implements TaskQueue, of the queue up to the first place handed out     *)
(* beyond the window, which two producers never come to.                   *)
(***************************************************************************)
EXTENDS SrtQueue, FiniteSetTheorems, SequenceTheorems, TLAPS

-----------------------------------------------------------------------------
(***************************************************************************)
(* Arithmetic.                                                             *)
(***************************************************************************)
\* The address of a place is inside the tables.
LEMMA AddressInside ==
    ASSUME NEW i \in Nat
    PROVE  PageOf(i) \in Pages /\ SlotOf(i) \in Slots
<1>1. i % PMC \in 0 .. PMC - 1
  BY PMCAssumption
<1>2. i \div PMC \in Nat
  BY PMCAssumption
<1>3. (i \div PMC) % PIC \in 0 .. PIC - 1
  BY <1>2, PICAssumption
<1> QED
  BY <1>1, <1>3 DEF PageOf, SlotOf, Pages, Slots

\* Line 95 compares pages; it refuses exactly from Capacity messages on.
LEMMA LooksFullMeansCapacity ==
    ASSUME NEW x \in Int, NEW y \in Int
    PROVE  LooksFull(x, y) <=> x - y >= Capacity
<1> DEFINE d == x - y
           q == d \div PMC
           r == d % PMC
<1>1. d = PMC * q + r /\ r \in 0 .. PMC - 1 /\ q \in Int /\ d \in Int
  BY PMCAssumption
<1>2. CASE q >= PIC - 1
  <2>1. PMC * q >= PMC * (PIC - 1)
    BY <1>1, <1>2, PMCAssumption, PICAssumption
  <2> QED
    BY <1>1, <1>2, <2>1, PMCAssumption, PICAssumption DEF LooksFull, Capacity
<1>3. CASE q < PIC - 1
  <2>1. q + 1 <= PIC - 1
    BY <1>1, <1>3, PICAssumption
  <2>2. PMC * (q + 1) <= PMC * (PIC - 1)
    BY <1>1, <2>1, PMCAssumption, PICAssumption
  <2>3. PMC * (q + 1) = PMC * q + PMC
    BY <1>1, PMCAssumption
  <2> QED
    BY <1>1, <1>3, <2>2, <2>3, PMCAssumption, PICAssumption DEF LooksFull, Capacity
<1> QED
  BY <1>1, <1>2, <1>3, PICAssumption

-----------------------------------------------------------------------------
(***************************************************************************)
(* Type correctness.                                                       *)
(***************************************************************************)
LEMMA NoMsgType == NoMsg \in Msg
BY MsgAssumption DEF NoMsg

LEMMA EmptyPageType == EmptyPage \in [Slots -> Slot]
BY NoMsgType DEF EmptyPage, Slot

\* The pointers and pages that get_msg_page makes are of their types.
LEMMA AllocPageType ==
    ASSUME TypeOK, NEW pi \in Pages, AllocPage(pi)
    PROVE  /\ page' \in [Pages -> {"null", "live", "freed"}]
           /\ gen' \in [Pages -> Nat]
           /\ slots' \in [Pages -> [Slots -> Slot]]
<1>1. CASE page[pi] = "null"
  <2>1. page' \in [Pages -> {"null", "live", "freed"}]
    BY <1>1 DEF TypeOK, AllocPage
  <2>2. gen' \in [Pages -> Nat]
    <3>1. gen \in [Pages -> Nat] /\ gen' = [gen EXCEPT ![pi] = @ + 1]
      BY <1>1 DEF TypeOK, AllocPage
    <3> QED
      BY <3>1
  <2>3. slots' \in [Pages -> [Slots -> Slot]]
    BY <1>1, EmptyPageType DEF TypeOK, AllocPage
  <2> QED
    BY <2>1, <2>2, <2>3
<1>2. CASE page[pi] # "null"
  BY <1>2 DEF TypeOK, AllocPage
<1> QED
  BY <1>1, <1>2

LEMMA LoadType ==
    ASSUME TypeOK, NEW pi \in Pages
    PROVE  Load(pi) \in Nat
BY DEF TypeOK, Load

LEMMA StoreType ==
    ASSUME TypeOK, NEW p \in Producers, NEW slot \in Slot,
           Store(p, slot)
    PROVE  slots' \in [Pages -> [Slots -> Slot]]
<1>1. mine[p] \in Nat
  BY DEF TypeOK
<1>2. PageOf(mine[p]) \in Pages /\ SlotOf(mine[p]) \in Slots
  BY <1>1, AddressInside
<1> QED
  BY <1>2 DEF TypeOK, Store

LEMMA TypeInit == Init => TypeOK
<1> SUFFICES ASSUME Init PROVE TypeOK
  OBVIOUS
<1>1. claimed \in Seq(Msg) /\ popped \in Seq(Msg)
  BY DEF Init
<1>2. slots \in [Pages -> [Slots -> Slot]]
  BY EmptyPageType DEF Init
<1> QED
  BY <1>1, <1>2, NoMsgType DEF Init, TypeOK, Pages, Inside

\* A step of push keeps the types.
LEMMA TypeProduce ==
    ASSUME TypeOK, NEW p \in Producers, Produce(p)
    PROVE  TypeOK'
<1> USE DEF TypeOK, Goto, Inside, heap, consumer
<1>0. PageOf(mine[p]) \in Pages /\ SlotOf(mine[p]) \in Slots
  BY AddressInside
<1>1. ASSUME NEW m \in Msg, PushStart(p, m)
      PROVE  TypeOK'
  BY <1>1 DEF PushStart
<1>2. CASE PushRefuse(p)
  BY <1>2, NoMsgType DEF PushRefuse, Return
<1>3. CASE PushAdmit(p)
  BY <1>3 DEF PushAdmit
<1>4. CASE PushClaim(p)
  BY <1>4 DEF PushClaim
<1>5. CASE PushLook(p)
  BY <1>5 DEF PushLook
<1>6. CASE PushAlloc(p)
  BY <1>0, <1>6, AllocPageType DEF PushAlloc
<1>7. CASE PushLoad(p)
  BY <1>0, <1>7, LoadType DEF PushLoad
<1>8. CASE PushWrite(p)
  <2>1. SlotAt(p) \in Slot
    BY <1>0 DEF SlotAt
  <2>2. [SlotAt(p) EXCEPT !.msg = arg[p]] \in Slot
    BY <2>1 DEF Slot
  <2> QED
    BY <1>8, <2>2, StoreType DEF PushWrite
<1>9. CASE PushFlag(p)
  <2>1. SlotAt(p) \in Slot
    BY <1>0 DEF SlotAt
  <2>2. [SlotAt(p) EXCEPT !.flag = 1] \in Slot
    BY <2>1 DEF Slot
  <2> QED
    BY <1>9, <2>2, StoreType, NoMsgType DEF PushFlag, Return
<1> QED
  BY <1>1, <1>2, <1>3, <1>4, <1>5, <1>6, <1>7, <1>8, <1>9 DEF Produce

\* A step of pop keeps the types.
LEMMA TypeConsume ==
    ASSUME TypeOK, Consume
    PROVE  TypeOK'
<1> USE DEF TypeOK, CGoto, heap, producer
<1>0. PageOf(get_index) \in Pages /\ SlotOf(get_index) \in Slots
  BY AddressInside
<1>1. CASE PopStart
  BY <1>1 DEF PopStart
<1>2. CASE PopEmpty
  BY <1>2 DEF PopEmpty
<1>3. CASE PopLook
  BY <1>3 DEF PopLook
<1>4. CASE PopAlloc
  BY <1>0, <1>4, AllocPageType DEF PopAlloc
<1>5. CASE PopLoad
  BY <1>0, <1>5, LoadType DEF PopLoad
<1>6. CASE PopRead
  BY <1>0, <1>6 DEF PopRead, Slot
<1>7. CASE PopUnready
  BY <1>7 DEF PopUnready
<1>8. CASE PopDelete
  BY <1>0, <1>8 DEF PopDelete
<1>9. CASE PopNull
  BY <1>0, <1>9 DEF PopNull
<1>10. CASE PopAdvance
  BY <1>10 DEF PopAdvance
<1> QED
  BY <1>1, <1>2, <1>3, <1>4, <1>5, <1>6, <1>7, <1>8, <1>9, <1>10 DEF Consume

LEMMA TypeStutter == TypeOK /\ UNCHANGED vars => TypeOK'
BY DEF TypeOK, vars

\* Every variable of srt_queue, push and pop keeps its type.
THEOREM TypeCorrect == Spec => []TypeOK
<1>1. TypeOK /\ [Next]_vars => TypeOK'
  BY TypeProduce, TypeConsume, TypeStutter DEF Next
<1> QED
  BY <1>1, TypeInit, PTL DEF Spec

-----------------------------------------------------------------------------
(***************************************************************************)
(* How far the queue can be overfilled.                                    *)
(***************************************************************************)
LEMMA CapacityType == Capacity \in Nat /\ Capacity >= 1
<1>1. PIC - 1 \in Nat /\ PIC - 1 >= 1 /\ PMC \in Nat /\ PMC >= 1
  BY PICAssumption, PMCAssumption
<1>2. \A a, b \in Nat : a >= 1 /\ b >= 1 => a * b \in Nat /\ a * b >= 1
  OBVIOUS
<1> QED
  BY <1>1, <1>2 DEF Capacity

LEMMA StaleFinite ==
    ASSUME NEW y
    PROVE  /\ IsFiniteSet(Stale(y))
           /\ Cardinality(Stale(y)) \in Nat
           /\ Cardinality(Producers) \in Nat
           /\ Cardinality(Stale(y)) <= Cardinality(Producers)
<1>1. Stale(y) \subseteq Producers
  BY DEF Stale
<1> QED
  BY <1>1, ProducersAssumption, FS_Subset, FS_CardinalityType

\* The same sets of stale producers have the same sizes, and smaller ones smaller.
LEMMA StaleShrinks ==
    ASSUME NEW y, Stale(y)' \subseteq Stale(y)
    PROVE  /\ Cardinality(Stale(y)') \in Nat
           /\ Cardinality(Stale(y)') <= Cardinality(Stale(y))
BY StaleFinite, FS_Subset, FS_CardinalityType

LEMMA CountInit == Init => CountInv
<1> SUFFICES ASSUME Init PROVE CountInv
  OBVIOUS
<1>1. 0 + Capacity > 0
  BY CapacityType
<1>2. \A y \in get_index + Capacity .. post_index : FALSE
  BY <1>1, CapacityType DEF Init
<1> QED
  BY <1>2 DEF Init, CountInv

\* A claim uses up the claimant: it was stale for every y already handed out, as it
\* passed the test, and it no longer is.
LEMMA CountClaim ==
    ASSUME TypeOK, CountInv, NEW p \in Producers, PushClaim(p)
    PROVE  CountInv'
<1> USE DEF Goto, consumer
<1>1. /\ post_index' = post_index + 1
      /\ get_index' = get_index
      /\ seen' = seen
      /\ pc[p] = "claim"
      /\ pc' = [pc EXCEPT ![p] = "look"]
      /\ cpc' = cpc
  BY DEF PushClaim
<1>2. /\ post_index \in Nat /\ get_index \in Nat
      /\ seen \in [Producers -> Nat]
      /\ DOMAIN pc = Producers
  BY DEF TypeOK
<1>3. get_index' <= post_index' /\ (cpc' # "idle" => get_index' < post_index')
  BY <1>1, <1>2 DEF CountInv
<1>4. ASSUME NEW q \in Producers
      PROVE  /\ pc'[q] \in {"check", "claim"} => seen'[q] <= post_index'
             /\ pc'[q] = "claim" => seen'[q] - get_index' < Capacity
  BY <1>1, <1>2 DEF CountInv
<1>5. ASSUME NEW y \in (get_index + Capacity .. post_index)'
      PROVE  post_index' - y + 1 + Cardinality(Stale(y)') <= Cardinality(Producers)
  <2>1. y \in Int /\ y >= get_index + Capacity /\ y <= post_index + 1
    BY <1>1, <1>2, <1>5, CapacityType
  <2>2. seen[p] < y
    BY <1>1, <1>2, <2>1, CapacityType DEF CountInv
  <2>3. p \in Stale(y)
    BY <1>1, <2>2 DEF Stale
  <2>4. Stale(y)' = Stale(y) \ {p}
    BY <1>1, <1>2 DEF Stale
  <2>5. Cardinality(Stale(y)') = Cardinality(Stale(y)) - 1
    BY <2>3, <2>4, StaleFinite, FS_RemoveElement
  <2>6. CASE y <= post_index
    <3>1. post_index - y + 1 + Cardinality(Stale(y)) <= Cardinality(Producers)
      BY <1>2, <2>1, <2>6, CapacityType DEF CountInv
    <3> QED
      BY <1>1, <1>2, <2>1, <2>5, <3>1, StaleFinite
  <2>7. CASE y = post_index + 1
    BY <1>1, <1>2, <2>5, <2>7, StaleFinite
  <2> QED
    BY <1>2, <2>1, <2>6, <2>7
<1> QED
  BY <1>1, <1>3, <1>4, <1>5 DEF CountInv

\* A step of push that claims nothing makes nobody stale.
LEMMA CountProduce ==
    ASSUME TypeOK, CountInv, NEW p \in Producers, Produce(p)
    PROVE  CountInv'
<1> USE DEF Goto, consumer, TypeOK, CountInv
<1>1. ASSUME post_index' = post_index, get_index' = get_index, cpc' = cpc,
             \A q \in Producers :
                /\ pc'[q] \in {"check", "claim"} => seen'[q] <= post_index
                /\ pc'[q] = "claim" => seen'[q] - get_index < Capacity,
             \A y \in get_index + Capacity .. post_index : Stale(y)' \subseteq Stale(y)
      PROVE  CountInv'
  <2>1. ASSUME NEW y \in get_index + Capacity .. post_index
        PROVE  post_index - y + 1 + Cardinality(Stale(y)') <= Cardinality(Producers)
    <3>1. post_index - y + 1 + Cardinality(Stale(y)) <= Cardinality(Producers)
      OBVIOUS
    <3>2. y \in Int
      BY CapacityType
    <3>3. Cardinality(Stale(y)') \in Nat /\ Cardinality(Stale(y)') <= Cardinality(Stale(y))
      BY <1>1, StaleShrinks
    <3>4. Cardinality(Stale(y)) \in Nat /\ Cardinality(Producers) \in Nat
      BY StaleFinite
    <3> QED
      BY <3>1, <3>2, <3>3, <3>4
  <2> QED
    BY <1>1, <2>1
<1>2. ASSUME NEW m \in Msg, PushStart(p, m)
      PROVE  CountInv'
  <2>1. \A y \in get_index + Capacity .. post_index : Stale(y)' \subseteq Stale(y)
    BY <1>2, CapacityType DEF PushStart, Stale
  <2> QED
    BY <1>1, <1>2, <2>1 DEF PushStart
<1>3. CASE PushRefuse(p)
  BY <1>1, <1>3 DEF PushRefuse, Return, Stale
<1>4. CASE PushAdmit(p)
  <2>1. seen[p] - get_index < Capacity
    BY <1>4, LooksFullMeansCapacity, CapacityType DEF PushAdmit
  <2> QED
    BY <1>1, <1>4, <2>1 DEF PushAdmit, Stale
<1>5. CASE PushClaim(p)
  BY <1>5, CountClaim
<1>6. CASE PushLook(p)
  BY <1>1, <1>6 DEF PushLook, Stale
<1>7. CASE PushAlloc(p)
  BY <1>1, <1>7 DEF PushAlloc, Stale
<1>8. CASE PushLoad(p)
  BY <1>1, <1>8 DEF PushLoad, Stale, heap
<1>9. CASE PushWrite(p)
  BY <1>1, <1>9 DEF PushWrite, Stale
<1>10. CASE PushFlag(p)
  BY <1>1, <1>10 DEF PushFlag, Return, Stale
<1> QED
  BY <1>2, <1>3, <1>4, <1>5, <1>6, <1>7, <1>8, <1>9, <1>10 DEF Produce

\* pop only moves the reader forward.
LEMMA CountConsume ==
    ASSUME TypeOK, CountInv, Consume
    PROVE  CountInv'
<1> USE DEF CGoto, producer, TypeOK, CountInv
<1>1. /\ \A y : Stale(y)' = Stale(y)
      /\ UNCHANGED <<post_index, pc, seen>>
  BY DEF Consume, PopStart, PopEmpty, PopLook, PopAlloc, PopLoad, PopRead,
         PopUnready, PopDelete, PopNull, PopAdvance, Stale
<1>2. CASE PopAdvance
  <2>1. get_index' = get_index + 1 /\ get_index < post_index /\ cpc' = "idle"
    BY <1>2 DEF PopAdvance
  <2>2. ASSUME NEW q \in Producers, pc[q] = "claim"
        PROVE  seen[q] - get_index' < Capacity
    BY <2>1, <2>2, CapacityType
  <2>3. ASSUME NEW y \in get_index' + Capacity .. post_index
        PROVE  post_index - y + 1 + Cardinality(Stale(y)) <= Cardinality(Producers)
    <3>1. y \in get_index + Capacity .. post_index
      BY <2>1, CapacityType
    <3> QED
      BY <3>1
  <2> QED
    BY <1>1, <2>1, <2>2, <2>3
<1>3. ASSUME get_index' = get_index, cpc' # "idle" => get_index < post_index
      PROVE  CountInv'
  BY <1>1, <1>3
<1>4. CASE ~ PopAdvance
  <2>1. get_index' = get_index /\ (cpc' # "idle" => get_index < post_index)
    BY <1>4 DEF Consume, PopStart, PopEmpty, PopLook, PopAlloc, PopLoad, PopRead,
                PopUnready, PopDelete, PopNull
  <2> QED
    BY <1>3, <2>1
<1> QED
  BY <1>2, <1>4

LEMMA CountStutter == CountInv /\ UNCHANGED vars => CountInv'
BY DEF CountInv, Stale, vars

THEOREM CountCorrect == Spec => []CountInv
<1>1. TypeOK /\ CountInv /\ [Next]_vars => CountInv'
  BY CountProduce, CountConsume, CountStutter DEF Next
<1> QED
  BY <1>1, CountInit, TypeCorrect, PTL DEF Spec

LEMMA Overshoot ==
    ASSUME TypeOK, CountInv, Producers # {}
    PROVE  OvershootBounded
<1> DEFINE y == get_index + Capacity
<1>1. post_index \in Nat /\ y \in Nat /\ Cardinality(Producers) \in Nat
  BY CapacityType, ProducersAssumption, FS_CardinalityType DEF TypeOK
<1>2. CASE y <= post_index
  <2>1. post_index - y + 1 + Cardinality(Stale(y)) <= Cardinality(Producers)
    BY <1>1, <1>2 DEF CountInv
  <2> QED
    BY <1>1, <2>1, StaleFinite, CapacityType DEF OvershootBounded, TypeOK
<1>3. CASE post_index < y
  <2>1. Cardinality(Producers) # 0
    BY ProducersAssumption, FS_EmptySet
  <2> QED
    BY <1>1, <1>3, <2>1, CapacityType DEF OvershootBounded, TypeOK
<1> QED
  BY <1>1, <1>2, <1>3

\* However many threads push however often, the test of line 95 lets the queue grow
\* past its capacity by at most one message for every thread but one.
THEOREM OvershootTheorem ==
    ASSUME Producers # {}
    PROVE  Spec => []OvershootBounded
<1>1. TypeOK /\ CountInv => OvershootBounded
  BY Overshoot
<1> QED
  BY <1>1, TypeCorrect, CountCorrect, PTL

-----------------------------------------------------------------------------
(***************************************************************************)
(* What push and pop may trust until the queue is overrun: pages in use    *)
(* are live, slots are nobody else's, messages come out as they went in.   *)
(***************************************************************************)
(***************************************************************************)
(* Addresses.  The places of a window lie on PIC consecutive pages, so the *)
(* table gives every one of them a slot of its own.                        *)
(***************************************************************************)
\* Quotient and remainder, the only facts about \div and % used below.
LEMMA Division ==
    ASSUME NEW d \in Nat \ {0}, NEW i \in Nat
    PROVE  /\ i \div d \in Nat
           /\ i % d \in 0 .. d - 1
           /\ i = d * (i \div d) + (i % d)
OBVIOUS

\* Multiplication distributes; its factors are variables, which the solver needs.
LEMMA Distributes ==
    ASSUME NEW d \in Int, NEW a \in Int, NEW b \in Int
    PROVE  /\ d * (a + b) = d * a + d * b
           /\ d * (a - b) = d * a - d * b
           /\ d * a \in Int
           /\ a * d = d * a
           /\ d * 1 = d
OBVIOUS

\* Adding d does not change the remainder.
LEMMA Wraps ==
    ASSUME NEW d \in Nat \ {0}, NEW a \in Nat
    PROVE  (a + d) % d = a % d
<1> DEFINE q == a \div d
           r == a % d
<1>1. q \in Nat /\ r \in 0 .. d - 1 /\ a = d * q + r
  BY Division
<1>2. d * (q + 1) = d * q + d /\ d * q \in Int
  BY <1>1, Distributes
<1>3. a + d = d * (q + 1) + r /\ q + 1 \in Int /\ a + d \in Nat
  BY <1>1, <1>2
<1>4. ASSUME NEW n \in Nat, NEW k \in Int, NEW e \in 0 .. d - 1, n = d * k + e
      PROVE  n % d = e
  BY <1>4
<1>5. (a + d) % d = r
  BY <1>1, <1>3, <1>4, Zenon
<1> QED
  BY <1>5

\* A multiple of d that is smaller than d is 0.
LEMMA SmallMultiple ==
    ASSUME NEW d \in Nat \ {0}, NEW k \in Int, d * k < d, - d < d * k
    PROVE  k = 0
<1>1. CASE k >= 1
  <2>1. d * k >= d * 1
    BY <1>1
  <2> QED
    BY <2>1
<1>2. CASE k <= -1
  <2>1. d * k <= d * (-1)
    BY <1>2
  <2> QED
    BY <2>1
<1> QED
  BY <1>1, <1>2

\* Numbers less than d apart with the same remainder are equal.
LEMMA SameRemainder ==
    ASSUME NEW d \in Nat \ {0}, NEW a \in Nat, NEW b \in Nat,
           a - b < d, b - a < d, a % d = b % d
    PROVE  a = b
<1> DEFINE k == (a \div d) - (b \div d)
<1>1. k \in Int /\ a - b = d * k
  <2>1. a = d * (a \div d) + (a % d) /\ b = d * (b \div d) + (b % d)
    BY Division
  <2>2. a \div d \in Nat /\ b \div d \in Nat
    BY Division
  <2>3. d * k = d * (a \div d) - d * (b \div d)
    BY <2>2, Distributes
  <2>4. d * (a \div d) \in Int /\ d * (b \div d) \in Int
    BY <2>2, Distributes
  <2> QED
    BY <2>1, <2>2, <2>3, <2>4
<1>2. k = 0
  BY <1>1, SmallMultiple
<1> QED
  BY <1>1, <1>2

\* The quotient of a number between two multiples of d.
LEMMA QuotientBetween ==
    ASSUME NEW d \in Nat \ {0}, NEW i \in Nat, NEW a \in Nat, NEW b \in Nat,
           d * a <= i, i < d * b
    PROVE  i \div d >= a /\ i \div d < b
<1> DEFINE q == i \div d
<1>1. q \in Nat /\ i % d \in 0 .. d - 1 /\ i = d * q + (i % d)
  BY Division
<1>2. CASE q < a
  <2>1. d * (q + 1) <= d * a
    BY <1>1, <1>2
  <2>2. d * (q + 1) = d * q + d
    BY <1>1
  <2> QED
    BY <1>1, <2>1, <2>2
<1>3. CASE q >= b
  <2>1. d * q >= d * b
    BY <1>1, <1>3
  <2> QED
    BY <1>1, <2>1
<1> QED
  BY <1>1, <1>2, <1>3

\* The place after one that is not the last of its page is on the same page.
LEMMA NextOnPage ==
    ASSUME NEW i \in Nat, ~ LastSlot(i)
    PROVE  PageOf(i + 1) = PageOf(i)
<1> DEFINE q == i \div PMC
<1>1. q \in Nat /\ i % PMC \in 0 .. PMC - 1 /\ i = PMC * q + (i % PMC) /\ i % PMC # PMC - 1
  BY Division, PMCAssumption DEF LastSlot, SlotOf
<1> HIDE DEF q
<1> DEFINE j == i + 1
           a == PMC * q
<1>2. PMC * (q + 1) = a + PMC /\ a \in Int /\ j \in Nat /\ q + 1 \in Nat
  BY <1>1, Distributes, PMCAssumption
<1>3. i = a + (i % PMC) /\ i % PMC \in 0 .. PMC - 1 /\ i % PMC # PMC - 1
  BY <1>1
<1> HIDE DEF a
<1>4. a <= j /\ j < a + PMC
  BY <1>2, <1>3, PMCAssumption
<1>5. PMC * q <= j /\ j < PMC * (q + 1)
  BY <1>2, <1>4 DEF a
<1> HIDE DEF j
<1>6. j \div PMC >= q /\ j \div PMC < q + 1
  BY <1>1, <1>2, <1>5, QuotientBetween, PMCAssumption
<1>7. j \div PMC \in Nat
  BY <1>2, Division, PMCAssumption
<1>8. j \div PMC = q
  BY <1>1, <1>6, <1>7
<1> QED
  BY <1>8 DEF PageOf, j, q

\* The pages of the places of a window.
LEMMA WindowPages ==
    ASSUME get_index \in Nat, NEW i \in Window
    PROVE  /\ i \in Nat
           /\ i \div PMC >= get_index \div PMC
           /\ i \div PMC < (get_index \div PMC) + PIC
<1> DEFINE q == get_index \div PMC
<1>1. q \in Nat /\ PMC * q <= get_index
  BY Division, PMCAssumption
<1>2. i \in Int /\ i >= get_index /\ i < (q + PIC) * PMC
  BY <1>1, PMCAssumption, PICAssumption DEF Window
<1>3. i \in Nat /\ PMC * q <= i /\ i < PMC * (q + PIC)
  BY <1>1, <1>2, PMCAssumption, PICAssumption
<1> QED
  BY <1>1, <1>3, QuotientBetween, PMCAssumption, PICAssumption

\* Two places of a window on the same entry of the table are on the same page.
LEMMA WindowSamePage ==
    ASSUME get_index \in Nat, NEW i \in Window, NEW j \in Window,
           PageOf(i) = PageOf(j)
    PROVE  i \div PMC = j \div PMC
<1> DEFINE q == get_index \div PMC
           a == i \div PMC
           b == j \div PMC
<1>1. a \in Nat /\ b \in Nat /\ q \in Nat
  BY WindowPages, Division, PMCAssumption
<1>2. a >= q /\ a < q + PIC /\ b >= q /\ b < q + PIC
  BY WindowPages
<1>3. a % PIC = b % PIC
  BY DEF PageOf
<1>4. a - b < PIC /\ b - a < PIC
  BY <1>1, <1>2, PICAssumption
<1> QED
  BY <1>1, <1>3, <1>4, SameRemainder, PICAssumption

\* No two places of a window share a slot.
LEMMA WindowDistinct ==
    ASSUME get_index \in Nat, NEW i \in Window, NEW j \in Window,
           PageOf(i) = PageOf(j), SlotOf(i) = SlotOf(j)
    PROVE  i = j
<1>1. i \in Nat /\ j \in Nat /\ i \div PMC = j \div PMC
  BY WindowPages, WindowSamePage
<1>2. i % PMC = j % PMC
  BY DEF SlotOf
<1>3. i = PMC * (i \div PMC) + (i % PMC) /\ j = PMC * (j \div PMC) + (j % PMC)
  BY <1>1, Division, PMCAssumption
<1> QED
  BY <1>1, <1>2, <1>3

\* The reader's place is in the window, and if it is the last of its page then it is
\* the window's only place on that page.
LEMMA WindowHead ==
    ASSUME get_index \in Nat
    PROVE  /\ get_index \in Window
           /\ \A i \in Window :
                LastSlot(get_index) /\ PageOf(i) = PageOf(get_index) => i = get_index
<1> DEFINE q == get_index \div PMC
           r == get_index % PMC
<1>1. q \in Nat /\ r \in 0 .. PMC - 1 /\ get_index = PMC * q + r
  BY Division, PMCAssumption
<1>2. get_index \in Window
  <2>1. PMC * (q + PIC) = PMC * q + PMC * PIC /\ PMC * PIC >= PMC * 1
    BY <1>1, PMCAssumption, PICAssumption
  <2>2. (q + PIC) * PMC = PMC * (q + PIC) /\ (q + PIC) * PMC \in Int
    BY <1>1, PMCAssumption, PICAssumption
  <2>3. get_index <= (q + PIC) * PMC - 1
    BY <1>1, <2>1, <2>2, PMCAssumption, PICAssumption
  <2> QED
    BY <2>2, <2>3 DEF Window
<1>3. ASSUME NEW i \in Window, LastSlot(get_index), PageOf(i) = PageOf(get_index)
      PROVE  i = get_index
  <2>1. i \in Nat /\ i \div PMC = q
    BY <1>2, <1>3, WindowPages, WindowSamePage
  <2>2. i = PMC * q + (i % PMC) /\ i % PMC \in 0 .. PMC - 1
    BY <2>1, Division, PMCAssumption
  <2>3. r = PMC - 1
    BY <1>3 DEF LastSlot, SlotOf
  <2>4. i >= get_index
    BY <1>1, PMCAssumption, PICAssumption DEF Window
  <2>5. PMC * q \in Int /\ PMC \in Int
    BY <1>1, PMCAssumption
  <2>6. i <= get_index
    BY <1>1, <2>2, <2>3, <2>5
  <2> QED
    BY <2>1, <2>4, <2>6
<1> QED
  BY <1>2, <1>3

\* When the reader moves on, its window gains at most the places of the page it left.
LEMMA WindowMoves ==
    ASSUME get_index \in Nat, get_index' = get_index + 1, NEW i \in Window'
    PROVE  /\ i \in Nat /\ i > get_index
           /\ i \in Window \/ (LastSlot(get_index) /\ PageOf(i) = PageOf(get_index))
<1> DEFINE g == get_index
           q == g \div PMC
           r == g % PMC
           h == (g + 1) \div PMC
<1>1. q \in Nat /\ r \in 0 .. PMC - 1 /\ g = PMC * q + r /\ PMC * q \in Int
  <2>1. q \in Nat /\ r \in 0 .. PMC - 1 /\ g = PMC * q + r
    BY Division, PMCAssumption
  <2> QED
    BY <2>1, Distributes, PMCAssumption
<1>2. h \in Nat /\ g + 1 \in Nat
  BY Division, PMCAssumption
<1>3. i \in Nat /\ i > g /\ i < PMC * (h + PIC)
  <2>1. (h + PIC) * PMC = PMC * (h + PIC) /\ PMC * (h + PIC) \in Int
    BY <1>2, Distributes, PMCAssumption, PICAssumption
  <2>2. i \in g + 1 .. (h + PIC) * PMC - 1
    BY DEF Window
  <2> QED
    BY <1>2, <2>1, <2>2
<1>4. ASSUME i < PMC * (q + PIC) PROVE i \in Window
  <2>1. (q + PIC) * PMC = PMC * (q + PIC) /\ PMC * (q + PIC) \in Int
    BY <1>1, Distributes, PMCAssumption, PICAssumption
  <2> QED
    BY <1>3, <1>4, <2>1 DEF Window
<1>5. PMC * (q + 1) = PMC * q + PMC
  BY <1>1, Distributes, PMCAssumption
<1>6. CASE r # PMC - 1
  <2>1. PMC * q <= g + 1 /\ g + 1 < PMC * (q + 1)
    BY <1>1, <1>5, <1>6, PMCAssumption
  <2>2. h >= q /\ h < q + 1
    <3>1. q + 1 \in Nat
      BY <1>1
    <3> QED
      BY <1>1, <1>2, <2>1, <3>1, QuotientBetween, PMCAssumption
  <2>3. h = q
    BY <1>1, <1>2, <2>2
  <2> QED
    BY <1>3, <1>4, <2>3
<1>7. CASE r = PMC - 1
  <2>1. g + 1 = PMC * (q + 1) /\ q + 1 \in Nat /\ q + 2 \in Nat
    BY <1>1, <1>5, <1>7, PMCAssumption
  <2>2. PMC * ((q + 1) + 1) = PMC * (q + 1) + PMC
    BY <2>1, Distributes, PMCAssumption
  <2>3. PMC * (q + 1) <= g + 1 /\ g + 1 < PMC * (q + 2)
    BY <1>1, <2>1, <2>2, PMCAssumption
  <2>4. h >= q + 1 /\ h < q + 2
    BY <1>2, <2>1, <2>3, QuotientBetween, PMCAssumption
  <2>5. h = q + 1
    BY <1>1, <1>2, <2>4
  <2>6. CASE i >= PMC * (q + PIC)
    <3>1. i < PMC * (q + PIC + 1)
      BY <1>1, <1>3, <2>5, PICAssumption
    <3>2. q + PIC \in Nat /\ q + PIC + 1 \in Nat
      BY <1>1, PICAssumption
    <3>3. i \div PMC >= q + PIC /\ i \div PMC < q + PIC + 1
      BY <1>3, <2>6, <3>1, <3>2, QuotientBetween, PMCAssumption
    <3>4. i \div PMC \in Nat
      BY <1>3, Division, PMCAssumption
    <3>5. i \div PMC = q + PIC
      BY <3>2, <3>3, <3>4
    <3>6. (q + PIC) % PIC = q % PIC
      BY <1>1, Wraps, PICAssumption
    <3> QED
      BY <1>3, <1>7, <3>5, <3>6 DEF PageOf, LastSlot, SlotOf
  <2>7. CASE i < PMC * (q + PIC)
    BY <1>3, <1>4, <2>7
  <2>8. PMC * (q + PIC) \in Int
    BY <1>1, Distributes, PMCAssumption, PICAssumption
  <2> QED
    BY <1>3, <2>6, <2>7, <2>8
<1> QED
  BY <1>6, <1>7

\* The places of the window that the reader has not passed stay in it.
LEMMA WindowGrows ==
    ASSUME get_index \in Nat, get_index' = get_index + 1,
           NEW i \in Window, i >= get_index + 1
    PROVE  i \in Window'
<1> DEFINE g == get_index
           q == g \div PMC
           h == (g + 1) \div PMC
<1>1. q \in Nat /\ PMC * q <= g /\ g + 1 \in Nat /\ h \in Nat /\ PMC * q \in Int
  <2>1. q \in Nat /\ g % PMC \in 0 .. PMC - 1 /\ g = PMC * q + (g % PMC)
    BY Division, PMCAssumption
  <2>2. g + 1 \in Nat /\ h \in Nat
    <3>1. g + 1 \in Nat
      OBVIOUS
    <3> QED
      BY <3>1, Division, PMCAssumption
  <2>3. PMC * q \in Int
    BY <2>1, Distributes, PMCAssumption
  <2> QED
    BY <2>1, <2>2, <2>3, PMCAssumption
<1>2. g + 1 = PMC * h + ((g + 1) % PMC) /\ (g + 1) % PMC \in 0 .. PMC - 1
  BY <1>1, Division, PMCAssumption
<1>3. PMC * (h + 1) = PMC * h + PMC /\ PMC * h \in Int
  BY <1>1, Distributes, PMCAssumption
<1>4. h >= q
  <2>1. CASE h < q
    <3>1. PMC * (h + 1) <= PMC * q
      BY <1>1, <2>1, PMCAssumption
    <3> QED
      BY <1>1, <1>2, <1>3, <3>1, PMCAssumption
  <2> QED
    BY <1>1, <2>1
<1>5. (h + PIC) * PMC >= (q + PIC) * PMC
  BY <1>1, <1>4, PMCAssumption, PICAssumption
<1>6. (h + PIC) * PMC \in Int /\ (q + PIC) * PMC \in Int
  BY <1>1, PMCAssumption, PICAssumption
<1> QED
  BY <1>1, <1>5, <1>6 DEF Window

\* With two producers no place outside the window is ever claimed.
LEMMA ClaimedInWindow ==
    ASSUME TypeOK, CountInv, Cardinality(Producers) <= 2,
           NEW i \in get_index .. post_index - 1
    PROVE  i \in Window
<1> DEFINE q == get_index \div PMC
           r == get_index % PMC
           y == get_index + Capacity
<1>1. post_index \in Nat /\ get_index \in Nat /\ y \in Nat
  BY CapacityType DEF TypeOK
<1>2. post_index <= y + 1
  <2>1. CASE y <= post_index
    <3>1. post_index - y + 1 + Cardinality(Stale(y)) <= Cardinality(Producers)
      BY <1>1, <2>1 DEF CountInv
    <3>2. Cardinality(Stale(y)) \in Nat /\ Cardinality(Producers) \in Nat
      BY StaleFinite
    <3> QED
      BY <1>1, <3>1, <3>2
  <2> QED
    BY <1>1, <2>1
<1>3. q \in Nat /\ r \in 0 .. PMC - 1 /\ get_index = PMC * q + r /\ PMC * q \in Int
  <2>1. q \in Nat /\ r \in 0 .. PMC - 1 /\ get_index = PMC * q + r
    BY <1>1, Division, PMCAssumption
  <2> QED
    BY <2>1, Distributes, PMCAssumption
<1>4. (q + PIC) * PMC = PMC * q + Capacity + PMC
  <2>1. (q + PIC) * PMC = PMC * (q + PIC)
    BY <1>3, Distributes, PMCAssumption, PICAssumption
  <2>2. PMC * (q + PIC) = PMC * q + PMC * PIC
    BY <1>3, Distributes, PMCAssumption, PICAssumption
  <2>3. (PIC - 1) * PMC = PMC * (PIC - 1)
    BY Distributes, PMCAssumption, PICAssumption
  <2>4. PMC * (PIC - 1) = PMC * PIC - PMC * 1
    BY Distributes, PMCAssumption, PICAssumption
  <2>5. PMC * PIC \in Int /\ PMC * 1 = PMC
    BY Distributes, PMCAssumption, PICAssumption
  <2> QED
    BY <1>3, <2>1, <2>2, <2>3, <2>4, <2>5, PMCAssumption DEF Capacity
<1>5. i <= get_index + Capacity /\ i >= get_index /\ i \in Int
  BY <1>1, <1>2, CapacityType
<1> QED
  BY <1>1, <1>3, <1>4, <1>5, CapacityType, PMCAssumption DEF Window
-----------------------------------------------------------------------------
(***************************************************************************)
(* The layout of the window, with PageOf, SlotOf and Window opaque from    *)
(* here on.                                                                *)
(***************************************************************************)
Layout ==
    /\ get_index \in Nat /\ post_index \in Nat /\ get_index <= post_index
    /\ \A i \in get_index .. post_index - 1 : i \in Window
    /\ get_index \in Window
    /\ \A i \in Window : i \in Nat /\ PageOf(i) \in Pages /\ SlotOf(i) \in Slots
    /\ \A i, j \in Window : PageOf(i) = PageOf(j) /\ SlotOf(i) = SlotOf(j) => i = j
    /\ \A i \in Window :
          LastSlot(get_index) /\ PageOf(i) = PageOf(get_index) => i = get_index

LEMMA LayoutHolds ==
    TypeOK /\ CountInv /\ ClaimedInv => Layout
<1> SUFFICES ASSUME TypeOK, CountInv, ClaimedInv
             PROVE  Layout
  OBVIOUS
<1>1. get_index \in Nat /\ post_index \in Nat /\ get_index <= post_index
  BY DEF TypeOK, CountInv
<1>2. \A i \in get_index .. post_index - 1 : i \in Window
  BY DEF ClaimedInv
<1>3. \A i \in Window : i \in Nat /\ PageOf(i) \in Pages /\ SlotOf(i) \in Slots
  BY <1>1, WindowPages, AddressInside
<1>4. \A i, j \in Window : PageOf(i) = PageOf(j) /\ SlotOf(i) = SlotOf(j) => i = j
  BY <1>1, WindowDistinct
<1> QED
  BY <1>1, <1>2, <1>3, <1>4, WindowHead DEF Layout

\* A store reaches its slot and no other.
LEMMA StoreReaches ==
    ASSUME slots \in [Pages -> [Slots -> Slot]],
           NEW pi \in Pages, NEW s \in Slots, NEW slot,
           slots' = [slots EXCEPT ![pi][s] = slot]
    PROVE  /\ slots'[pi][s] = slot
           /\ \A pj \in Pages, t \in Slots :
                pj # pi \/ t # s => slots'[pj][t] = slots[pj][t]
OBVIOUS

\* get_msg_page touches no page but a missing one, and that one it leaves clear.
LEMMA AllocEffect ==
    ASSUME TypeOK, NEW pi \in Pages, AllocPage(pi)
    PROVE  /\ \A pj \in Pages : page[pj] = "live" =>
                page'[pj] = "live" /\ gen'[pj] = gen[pj] /\ slots'[pj] = slots[pj]
           /\ \A pj \in Pages : page'[pj] = "live" /\ page[pj] # "live" =>
                \A s \in Slots : slots'[pj][s].flag = 0
           /\ \A pj \in Pages : page'[pj] = "freed" => page[pj] = "freed"
           /\ page[pi] # "freed" => page'[pi] = "live"
           /\ \A pj \in Pages : pj # pi => page'[pj] = page[pj]
BY DEF TypeOK, AllocPage, EmptyPage

-----------------------------------------------------------------------------
(***************************************************************************)
(* push keeps the invariant.                                               *)
(***************************************************************************)
\* A step that writes to no memory and publishes or claims nothing.
LEMMA QuietPush ==
    ASSUME IInv, heap' = heap, consumer' = consumer, UNCHANGED <<post_index, claimed>>,
           \A i : Pending(i)' <=> Pending(i)
    PROVE  SlotInv' /\ PopInv'
<1> USE DEF heap, consumer
<1>1. Window' = Window /\ FirstUnread' = FirstUnread
  BY DEF Window, FirstUnread
<1>2. \A i : InPlace(i)' <=> InPlace(i)
  BY DEF InPlace
<1>3. SlotInv'
  BY <1>1, <1>2 DEF IInv, MemoryInv, SlotInv, AcceptedIsKept
<1>4. PopInv'
  BY DEF IInv, MemoryInv, PopInv, Usable
<1> QED
  BY <1>3, <1>4

LEMMA MemoryPushStart ==
    ASSUME IInv, NEW p \in Producers, NEW m \in Msg, PushStart(p, m)
    PROVE  MemoryInv'
<1> USE DEF heap, consumer, Goto
<1>1. pc[p] = "idle" /\ pc' = [pc EXCEPT ![p] = "check"] /\ mine' = mine /\ ptr' = ptr
  BY DEF PushStart
<1>2. \A q \in Producers : pc'[q] \in Inside => pc[q] = pc'[q] /\ arg'[q] = arg[q]
  BY <1>1 DEF PushStart, IInv, TypeOK, Inside
<1>3. \A i : Pending(i)' <=> Pending(i)
  BY <1>1 DEF Pending, IInv, TypeOK, Inside
<1>4. PushInv'
  BY <1>1, <1>2 DEF PushStart, IInv, MemoryInv, PushInv, SlotAt, Usable
<1> QED
  BY <1>3, <1>4, QuietPush DEF PushStart, MemoryInv

LEMMA MemoryPushRefuse ==
    ASSUME IInv, NEW p \in Producers, PushRefuse(p)
    PROVE  MemoryInv'
<1> USE DEF heap, consumer, Goto, Return
<1>1. pc[p] = "check" /\ pc' = [pc EXCEPT ![p] = "idle"]
  BY DEF PushRefuse
<1>2. \A q \in Producers : pc'[q] \in Inside =>
         q # p /\ pc[q] = pc'[q] /\ arg'[q] = arg[q] /\ mine'[q] = mine[q] /\ ptr'[q] = ptr[q]
  BY <1>1 DEF PushRefuse, IInv, TypeOK, Inside
<1>3. \A i : Pending(i)' <=> Pending(i)
  BY <1>1 DEF PushRefuse, Pending, IInv, TypeOK, Inside
<1>4. PushInv'
  BY <1>1, <1>2 DEF PushRefuse, IInv, MemoryInv, PushInv, SlotAt, Usable
<1> QED
  BY <1>3, <1>4, QuietPush DEF PushRefuse, MemoryInv

LEMMA MemoryPushAdmit ==
    ASSUME IInv, NEW p \in Producers, PushAdmit(p)
    PROVE  MemoryInv'
<1> USE DEF heap, consumer, Goto
<1>1. pc[p] = "check" /\ pc' = [pc EXCEPT ![p] = "claim"]
  BY DEF PushAdmit
<1>2. \A q \in Producers : pc'[q] \in Inside => pc[q] = pc'[q]
  BY <1>1 DEF IInv, TypeOK, Inside
<1>3. \A i : Pending(i)' <=> Pending(i)
  BY <1>1 DEF PushAdmit, Pending, IInv, TypeOK, Inside
<1>4. PushInv'
  BY <1>1, <1>2 DEF PushAdmit, IInv, MemoryInv, PushInv, SlotAt, Usable
<1> QED
  BY <1>3, <1>4, QuietPush DEF PushAdmit, MemoryInv

\* The entry of a place that is being pushed to is never a deleted page: the reader
\* deletes a page once its last place is read, and that was the last place on it.
LEMMA NotFreedUnderPush ==
    ASSUME IInv, Layout, NEW p \in Producers, pc[p] \in Inside
    PROVE  /\ mine[p] \in Window
           /\ PageOf(mine[p]) \in Pages /\ SlotOf(mine[p]) \in Slots
           /\ page[PageOf(mine[p])] # "freed"
           /\ cpc \in {"delete", "null"} => PageOf(mine[p]) # PageOf(get_index)
           /\ cpc = "advance" /\ LastSlot(get_index) => PageOf(mine[p]) # PageOf(get_index)
<1>1. mine[p] \in Window
  BY DEF Layout, IInv, MemoryInv, PushInv
<1>2. cpc \in {"delete", "null", "advance"} => mine[p] # get_index
  BY DEF IInv, MemoryInv, PopInv, Pending
<1>3. LastSlot(get_index) /\ PageOf(mine[p]) = PageOf(get_index) => mine[p] = get_index
  BY <1>1 DEF Layout
<1>4. cpc \in {"delete", "null"} => LastSlot(get_index)
  BY DEF IInv, MemoryInv, PopInv
<1>5. page[PageOf(mine[p])] = "freed" => cpc = "null" /\ PageOf(mine[p]) = PageOf(get_index)
  BY <1>1 DEF Layout, IInv, MemoryInv, PopInv
<1> QED
  BY <1>1, <1>2, <1>3, <1>4, <1>5 DEF Layout

LEMMA MemoryPushLook ==
    ASSUME IInv, Layout, NEW p \in Producers, PushLook(p)
    PROVE  MemoryInv'
<1> USE DEF heap, consumer, Goto
<1>1. /\ pc[p] = "look"
      /\ pc' = [pc EXCEPT ![p] = IF page[PageOf(mine[p])] = "null" THEN "alloc" ELSE "load"]
      /\ UNCHANGED <<post_index, arg, mine, ptr, claimed, heap, consumer>>
  BY DEF PushLook
<1>2. \A q \in Producers : pc'[q] \in Inside => pc[q] \in Inside /\ (q # p => pc[q] = pc'[q])
  BY <1>1 DEF IInv, TypeOK, Inside
<1>3. \A i : Pending(i)' <=> Pending(i)
  BY <1>1 DEF Pending, IInv, TypeOK, Inside
<1>4. pc'[p] \in {"alloc", "load"} /\ (pc'[p] = "load" => page[PageOf(mine[p])] = "live")
  BY <1>1, NotFreedUnderPush DEF IInv, TypeOK, Inside
<1>5. PushInv'
  BY <1>1, <1>2, <1>4 DEF IInv, MemoryInv, PushInv, SlotAt, Usable
<1> QED
  BY <1>1, <1>3, <1>5, QuietPush DEF MemoryInv

LEMMA MemoryPushLoad ==
    ASSUME IInv, Layout, NEW p \in Producers, PushLoad(p)
    PROVE  MemoryInv'
<1> USE DEF heap, consumer, Goto
<1>1. /\ pc[p] = "load" /\ pc' = [pc EXCEPT ![p] = "write"]
      /\ ptr' = [ptr EXCEPT ![p] = Load(PageOf(mine[p]))]
      /\ UNCHANGED <<post_index, arg, mine, claimed, heap, consumer>>
  BY DEF PushLoad
<1>2. \A q \in Producers : pc'[q] \in Inside =>
         pc[q] \in Inside /\ (q # p => pc[q] = pc'[q] /\ ptr'[q] = ptr[q])
  BY <1>1 DEF IInv, TypeOK, Inside
<1>3. \A i : Pending(i)' <=> Pending(i)
  BY <1>1 DEF Pending, IInv, TypeOK, Inside
<1>4. pc'[p] = "write" /\ Usable(PageOf(mine[p]), ptr'[p])
  BY <1>1 DEF IInv, MemoryInv, TypeOK, PushInv, Usable, Load, Inside
<1>5. PushInv'
  BY <1>1, <1>2, <1>4 DEF IInv, MemoryInv, PushInv, SlotAt, Usable
<1> QED
  BY <1>1, <1>3, <1>5, QuietPush DEF MemoryInv

\* line 99: the new place is inside the window, so its slot is nobody's.
LEMMA MemoryPushClaim ==
    ASSUME IInv, Layout, TypeOK', NEW p \in Producers, PushClaim(p)
    PROVE  MemoryInv'
<1> USE DEF heap, consumer, Goto
<1>1. /\ pc[p] = "claim" /\ pc' = [pc EXCEPT ![p] = "look"]
      /\ mine' = [mine EXCEPT ![p] = post_index]
      /\ post_index' = post_index + 1
      /\ claimed' = Append(claimed, arg[p])
      /\ UNCHANGED <<arg, ptr, heap, consumer>>
  BY DEF PushClaim
<1>2. /\ pc \in [Producers -> {"idle", "check", "claim"} \cup Inside]
      /\ mine \in [Producers -> Nat] /\ arg \in [Producers -> Msg]
      /\ claimed \in Seq(Msg) /\ Len(claimed) = post_index
      /\ post_index \in Nat /\ get_index \in Nat /\ get_index <= post_index
  BY DEF IInv, MemoryInv, TypeOK, PushInv, CountInv
<1>3. /\ Len(claimed') = post_index'
      /\ claimed'[post_index + 1] = arg[p]
      /\ \A i \in 1 .. post_index : claimed'[i] = claimed[i]
  BY <1>1, <1>2
<1>4. Window' = Window /\ FirstUnread' = FirstUnread /\ FirstUnread \in Nat
  BY <1>1, <1>2 DEF Window, FirstUnread
<1>5. \A i : Pending(i)' <=> Pending(i) \/ i = post_index
  <2>1. \A q \in Producers :
           q # p => (pc'[q] \in Inside <=> pc[q] \in Inside) /\ mine'[q] = mine[q]
    BY <1>1, <1>2
  <2>2. pc[p] \notin Inside /\ pc'[p] \in Inside /\ mine'[p] = post_index
    BY <1>1, <1>2 DEF Inside
  <2> QED
    BY <2>1, <2>2 DEF Pending
<1>6. PushInv'
  <2>1. ASSUME NEW q \in Producers, q # p, pc'[q] \in Inside
        PROVE  /\ pc[q] = pc'[q] /\ mine'[q] = mine[q]
               /\ mine[q] \in get_index .. post_index - 1
               /\ claimed'[mine[q] + 1] = arg[q]
    <3>1. pc[q] = pc'[q] /\ mine'[q] = mine[q]
      BY <1>1, <1>2, <2>1
    <3>2. mine[q] \in get_index .. post_index - 1 /\ claimed[mine[q] + 1] = arg[q]
      BY <2>1, <3>1 DEF IInv, MemoryInv, PushInv
    <3> QED
      BY <1>2, <1>3, <3>1, <3>2
  <2>2. pc'[p] = "look" /\ mine'[p] = post_index
    BY <1>1, <1>2
  <2>3. post_index \in get_index .. post_index' - 1
    BY <1>1, <1>2
  <2>4. \A q \in Producers \ {p} : pc'[q] \in Inside => mine'[q] # post_index
    BY <1>2, <2>1
  <2>5. ASSUME NEW q \in Producers, pc'[q] \in Inside
        PROVE  /\ mine'[q] \in get_index' .. post_index' - 1
               /\ claimed'[mine'[q] + 1] = arg'[q]
    BY <1>1, <1>2, <1>3, <2>1, <2>2, <2>3, <2>5
  <2>6. ASSUME NEW q \in Producers, NEW r \in Producers \ {q},
               pc'[q] \in Inside, pc'[r] \in Inside
        PROVE  mine'[q] # mine'[r]
    BY <2>1, <2>2, <2>4, <2>6 DEF IInv, MemoryInv, PushInv
  <2>7. ASSUME NEW q \in Producers, pc'[q] \in Inside
        PROVE  /\ pc'[q] = "load" => (page[PageOf(mine[q])] = "live")'
               /\ pc'[q] \in {"write", "flag"} => Usable(PageOf(mine[q]), ptr[q])'
               /\ pc'[q] = "flag" => SlotAt(q)'.msg = arg'[q]
    <3>1. CASE q = p
      BY <2>2, <3>1
    <3>2. CASE q # p
      BY <1>1, <2>1, <2>7, <3>2 DEF IInv, MemoryInv, PushInv, Usable, SlotAt
    <3> QED
      BY <3>1, <3>2
  <2> QED
    BY <1>3, <2>5, <2>6, <2>7 DEF PushInv
<1>7. SlotInv'
  <2>1. ASSUME NEW i \in Window, i >= post_index' \/ Pending(i)', page[PageOf(i)] = "live"
        PROVE  slots[PageOf(i)][SlotOf(i)].flag = 0
    <3>1. i \in Nat
      BY DEF Layout
    <3>2. i >= post_index \/ Pending(i)
      BY <1>1, <1>2, <1>5, <2>1, <3>1
    <3> QED
      BY <2>1, <3>2 DEF IInv, MemoryInv, SlotInv
  <2>2. ASSUME NEW i \in FirstUnread .. post_index' - 1, ~ Pending(i)'
        PROVE  InPlace(i)'
    <3>1. i \in FirstUnread .. post_index - 1 /\ ~ Pending(i)
      BY <1>1, <1>2, <1>4, <1>5, <2>2
    <3>2. InPlace(i)
      BY <3>1 DEF IInv, MemoryInv, SlotInv, AcceptedIsKept
    <3>3. i + 1 \in 1 .. post_index
      BY <1>2, <1>4, <3>1
    <3> QED
      BY <1>1, <1>3, <3>2, <3>3 DEF InPlace
  <2> QED
    BY <1>1, <1>4, <2>1, <2>2 DEF SlotInv, AcceptedIsKept
<1>8. PopInv'
  <2>1. cpc \in {"delete", "null", "advance"} =>
           get_index # post_index /\ claimed'[get_index + 1] = claimed[get_index + 1]
    BY <1>2, <1>3 DEF IInv, CountInv
  <2>2. \A i \in 1 .. get_index : claimed'[i] = claimed[i]
    BY <1>2, <1>3
  <2> QED
    BY <1>1, <1>5, <2>1, <2>2 DEF IInv, MemoryInv, PopInv, Usable
<1> QED
  BY <1>6, <1>7, <1>8 DEF MemoryInv

\* lines 163-168: nobody but the reader holds an entry without a live page.
LEMMA MemoryPushAlloc ==
    ASSUME IInv, Layout, NEW p \in Producers, PushAlloc(p)
    PROVE  MemoryInv'
<1> USE DEF consumer, Goto
<1> DEFINE pi == PageOf(mine[p])
<1>1. /\ pc[p] = "alloc" /\ pc' = [pc EXCEPT ![p] = "load"]
      /\ AllocPage(pi)
      /\ UNCHANGED <<post_index, arg, mine, ptr, claimed, consumer>>
  BY DEF PushAlloc
<1>2. pc[p] \in Inside /\ pi \in Pages /\ page[pi] # "freed"
  BY <1>1, NotFreedUnderPush DEF Inside
<1>3. \A q \in Producers : pc'[q] \in Inside => pc[q] \in Inside /\ (q # p => pc[q] = pc'[q])
  BY <1>1, <1>2 DEF IInv, TypeOK
<1>4. \A i : Pending(i)' <=> Pending(i)
  BY <1>1, <1>2 DEF Pending, IInv, TypeOK, Inside
<1>5. Window' = Window /\ FirstUnread' = FirstUnread
  BY <1>1 DEF Window, FirstUnread
<1>6. /\ page \in [Pages -> {"null", "live", "freed"}]
      /\ \A pj \in Pages : page[pj] = "live" =>
              page'[pj] = "live" /\ gen'[pj] = gen[pj] /\ slots'[pj] = slots[pj]
      /\ \A pj \in Pages : page'[pj] = "live" /\ page[pj] # "live" =>
              \A s \in Slots : slots'[pj][s].flag = 0
      /\ \A pj \in Pages : page'[pj] = "freed" => page[pj] = "freed"
      /\ page'[pi] = "live"
      /\ \A pj \in Pages : pj # pi => page'[pj] = page[pj]
  BY <1>1, <1>2, AllocEffect DEF IInv, TypeOK
<1>7. PushInv'
  <2>1. pc'[p] = "load"
    BY <1>1 DEF IInv, TypeOK
  <2>2. \A q \in Producers : pc'[q] \in Inside => PageOf(mine[q]) \in Pages
    BY <1>3, NotFreedUnderPush
  <2> QED
    BY <1>1, <1>3, <1>6, <2>1, <2>2 DEF IInv, MemoryInv, PushInv, Usable, SlotAt
<1>8. SlotInv'
  <2>1. ASSUME NEW i \in Window, i >= post_index \/ Pending(i), page'[PageOf(i)] = "live"
        PROVE  slots'[PageOf(i)][SlotOf(i)].flag = 0
    BY <1>6, <2>1 DEF Layout, IInv, MemoryInv, SlotInv
  <2>2. ASSUME NEW i \in FirstUnread .. post_index - 1, ~ Pending(i)
        PROVE  InPlace(i)'
    <3>1. InPlace(i)
      BY <2>2 DEF IInv, MemoryInv, SlotInv, AcceptedIsKept
    <3>2. i \in Window
      BY DEF Layout, FirstUnread
    <3> QED
      BY <1>1, <1>6, <3>1, <3>2 DEF Layout, InPlace
  <2> QED
    BY <1>1, <1>4, <1>5, <2>1, <2>2 DEF SlotInv, AcceptedIsKept
<1>9. PopInv'
  <2>1. PageOf(get_index) \in Pages
    BY DEF Layout
  <2>2. cpc = "advance" => page'[PageOf(get_index)] = page[PageOf(get_index)]
    <3>1. cpc = "advance" /\ LastSlot(get_index) => PageOf(get_index) # pi
      BY <1>2, NotFreedUnderPush
    <3>2. cpc = "advance" /\ ~ LastSlot(get_index) => page[PageOf(get_index)] = "live"
      BY DEF IInv, MemoryInv, PopInv
    <3> QED
      BY <1>6, <2>1, <3>1, <3>2
  <2> QED
    BY <1>1, <1>4, <1>6, <2>1, <2>2 DEF IInv, MemoryInv, PopInv, Usable
<1> QED
  BY <1>7, <1>8, <1>9 DEF MemoryInv
\* A store through the pointer of a thread between the two stores of push.
LEMMA PushStores ==
    ASSUME IInv, Layout, NEW p \in Producers, pc[p] \in {"write", "flag"},
           NEW slot, Store(p, slot)
    PROVE  /\ slots'[PageOf(mine[p])][SlotOf(mine[p])] = slot
           /\ \A i \in Window : i # mine[p] =>
                slots'[PageOf(i)][SlotOf(i)] = slots[PageOf(i)][SlotOf(i)]
<1> DEFINE pi == PageOf(mine[p])
           s == SlotOf(mine[p])
<1>1. pi \in Pages /\ s \in Slots /\ mine[p] \in Window
  BY NotFreedUnderPush DEF Inside
<1>2. slots' = [slots EXCEPT ![pi][s] = slot]
  BY DEF Store, IInv, MemoryInv, PushInv, Inside
<1>3. slots \in [Pages -> [Slots -> Slot]]
  BY DEF IInv, TypeOK
<1>4. /\ slots'[pi][s] = slot
      /\ \A pj \in Pages, t \in Slots :
            pj # pi \/ t # s => slots'[pj][t] = slots[pj][t]
  BY <1>1, <1>2, <1>3, StoreReaches
<1>5. ASSUME NEW i \in Window, i # mine[p]
      PROVE  slots'[PageOf(i)][SlotOf(i)] = slots[PageOf(i)][SlotOf(i)]
  <2>1. PageOf(i) # pi \/ SlotOf(i) # s
    BY <1>1, <1>5 DEF Layout
  <2>2. PageOf(i) \in Pages /\ SlotOf(i) \in Slots
    BY DEF Layout
  <2> QED
    BY <1>4, <2>1, <2>2
<1> QED
  BY <1>4, <1>5

\* line 101: the message goes into a slot that is clear and stays so.
LEMMA MemoryPushWrite ==
    ASSUME IInv, Layout, NEW p \in Producers, PushWrite(p)
    PROVE  MemoryInv'
<1> USE DEF consumer, Goto
<1>1. /\ pc[p] = "write" /\ pc' = [pc EXCEPT ![p] = "flag"]
      /\ Store(p, [SlotAt(p) EXCEPT !.msg = arg[p]])
      /\ UNCHANGED <<post_index, arg, mine, ptr, claimed, page, gen, consumer>>
  BY DEF PushWrite
<1>2. /\ slots'[PageOf(mine[p])][SlotOf(mine[p])] = [SlotAt(p) EXCEPT !.msg = arg[p]]
      /\ \A i \in Window : i # mine[p] =>
           slots'[PageOf(i)][SlotOf(i)] = slots[PageOf(i)][SlotOf(i)]
  BY <1>1, PushStores
<1>3. \A q \in Producers : pc'[q] \in Inside => pc[q] \in Inside /\ (q # p => pc[q] = pc'[q])
  BY <1>1 DEF IInv, TypeOK, Inside
<1>4. \A i : Pending(i)' <=> Pending(i)
  BY <1>1 DEF Pending, IInv, TypeOK, Inside
<1>5. Window' = Window /\ FirstUnread' = FirstUnread
  BY <1>1 DEF Window, FirstUnread
<1>6. PageOf(mine[p]) \in Pages /\ SlotOf(mine[p]) \in Slots /\ SlotAt(p) \in Slot
  BY <1>1, NotFreedUnderPush DEF Inside, SlotAt, IInv, TypeOK
<1>7. /\ slots'[PageOf(mine[p])][SlotOf(mine[p])].msg = arg[p]
      /\ slots'[PageOf(mine[p])][SlotOf(mine[p])].flag = SlotAt(p).flag
  BY <1>2, <1>6 DEF Slot
<1>8. PushInv'
  <2>1. \A q \in Producers : pc'[q] \in Inside => mine[q] \in Window
    BY <1>3, NotFreedUnderPush
  <2>2. \A q \in Producers : pc'[q] = "flag" =>
           slots'[PageOf(mine[q])][SlotOf(mine[q])].msg = arg[q]
    <3>1. ASSUME NEW q \in Producers, q # p, pc'[q] = "flag"
          PROVE  slots'[PageOf(mine[q])][SlotOf(mine[q])].msg = arg[q]
      <4>1. pc[q] = "flag" /\ pc[p] \in Inside /\ pc[q] \in Inside
        BY <1>1, <1>3, <3>1 DEF Inside
      <4>2. SlotAt(q).msg = arg[q] /\ mine[q] # mine[p]
        BY <3>1, <4>1 DEF IInv, MemoryInv, PushInv
      <4>3. mine[q] \in Window
        BY <4>1, NotFreedUnderPush
      <4> QED
        BY <1>2, <4>2, <4>3 DEF SlotAt
    <3> QED
      BY <1>7, <3>1
  <2>3. pc'[p] = "flag" /\ Usable(PageOf(mine[p]), ptr[p])
    BY <1>1 DEF IInv, MemoryInv, TypeOK, PushInv, Inside
  <2> QED
    BY <1>1, <1>3, <2>2, <2>3 DEF IInv, MemoryInv, PushInv, Usable, SlotAt
<1>9. SlotInv'
  <2>1. \A i \in Window :
           slots'[PageOf(i)][SlotOf(i)].flag = slots[PageOf(i)][SlotOf(i)].flag
    BY <1>2, <1>7 DEF SlotAt
  <2>2. ASSUME NEW i \in FirstUnread .. post_index - 1, ~ Pending(i)
        PROVE  InPlace(i)'
    <3>1. InPlace(i) /\ i # mine[p]
      BY <1>1, <2>2 DEF IInv, MemoryInv, SlotInv, AcceptedIsKept, Pending, Inside
    <3>2. i \in Window
      BY DEF Layout, FirstUnread
    <3> QED
      BY <1>1, <1>2, <3>1, <3>2 DEF InPlace
  <2> QED
    BY <1>1, <1>4, <1>5, <2>1, <2>2 DEF IInv, MemoryInv, SlotInv, AcceptedIsKept
<1>10. PopInv'
  BY <1>1, <1>4 DEF IInv, MemoryInv, PopInv, Usable
<1> QED
  BY <1>8, <1>9, <1>10 DEF MemoryInv

\* lines 102-105: the message is published, and the thread is done with the place.
LEMMA MemoryPushFlag ==
    ASSUME IInv, Layout, NEW p \in Producers, PushFlag(p)
    PROVE  MemoryInv'
<1> USE DEF consumer, Goto
<1>0. PICK n : n = mine[p]
  OBVIOUS
<1>1. /\ pc[p] = "flag" /\ pc' = [pc EXCEPT ![p] = "idle"]
      /\ Store(p, [SlotAt(p) EXCEPT !.flag = 1])
      /\ UNCHANGED <<post_index, claimed, page, gen, consumer>>
  BY DEF PushFlag
<1>2. /\ slots'[PageOf(n)][SlotOf(n)] = [SlotAt(p) EXCEPT !.flag = 1]
      /\ \A i \in Window : i # n =>
           slots'[PageOf(i)][SlotOf(i)] = slots[PageOf(i)][SlotOf(i)]
  BY <1>0, <1>1, PushStores
<1>3. \A q \in Producers : q # p =>
         /\ pc'[q] = pc[q] /\ arg'[q] = arg[q] /\ mine'[q] = mine[q] /\ ptr'[q] = ptr[q]
  BY <1>1 DEF PushFlag, Return, IInv, TypeOK
<1>4. pc'[p] \notin Inside /\ pc[p] \in Inside
  BY <1>1 DEF IInv, TypeOK, Inside
<1>5. \A i : Pending(i)' <=> Pending(i) /\ i # n
  BY <1>0, <1>3, <1>4 DEF Pending, IInv, MemoryInv, PushInv
<1>6. Window' = Window /\ FirstUnread' = FirstUnread
  BY <1>1 DEF Window, FirstUnread
<1>7. PushInv'
  <2>1. \A q \in Producers : pc'[q] \in Inside => q # p /\ mine[q] \in Window /\ mine[q] # n
    BY <1>0, <1>3, <1>4, NotFreedUnderPush DEF IInv, MemoryInv, PushInv
  <2> QED
    BY <1>1, <1>2, <1>3, <2>1 DEF IInv, MemoryInv, PushInv, Usable, SlotAt
<1>8. SlotInv'
  <2>1. n \in get_index .. post_index - 1 /\ claimed[n + 1] = arg[p]
        /\ page[PageOf(n)] = "live" /\ SlotAt(p).msg = arg[p]
    BY <1>0, <1>1, <1>4 DEF IInv, MemoryInv, PushInv, Usable
  <2>2. SlotAt(p) \in Slot
    BY <1>4, NotFreedUnderPush DEF SlotAt, IInv, TypeOK
  <2>3. InPlace(n)'
    BY <1>1, <1>2, <2>1, <2>2 DEF InPlace, Slot
  <2>4. ASSUME NEW i \in Window, i >= post_index \/ Pending(i)', page[PageOf(i)] = "live"
        PROVE  slots'[PageOf(i)][SlotOf(i)].flag = 0
    <3>1. i # n
      <4>1. i \in Nat /\ get_index \in Nat /\ post_index \in Nat
        BY DEF Layout
      <4>2. n \in Int /\ n < post_index
        BY <2>1, <4>1
      <4>3. post_index' = post_index
        BY <1>1
      <4> QED
        BY <1>5, <2>4, <4>1, <4>2, <4>3
    <3> QED
      BY <1>2, <1>5, <2>4, <3>1 DEF IInv, MemoryInv, SlotInv
  <2>5. ASSUME NEW i \in FirstUnread .. post_index - 1, ~ Pending(i)', i # n
        PROVE  InPlace(i)'
    <3>1. InPlace(i)
      BY <1>5, <2>5 DEF IInv, MemoryInv, SlotInv, AcceptedIsKept
    <3>2. i \in Window
      BY DEF Layout, FirstUnread
    <3> QED
      BY <1>1, <1>2, <2>5, <3>1, <3>2 DEF InPlace
  <2> QED
    BY <1>1, <1>6, <2>3, <2>4, <2>5 DEF SlotInv, AcceptedIsKept
<1>9. PopInv'
  BY <1>1, <1>5 DEF IInv, MemoryInv, PopInv, Usable
<1> QED
  BY <1>7, <1>8, <1>9 DEF MemoryInv

\* Every step of push keeps the invariant.
LEMMA MemoryProduce ==
    ASSUME IInv, Layout, TypeOK', NEW p \in Producers, Produce(p)
    PROVE  MemoryInv'
BY MemoryPushStart, MemoryPushRefuse, MemoryPushAdmit, MemoryPushClaim, MemoryPushLook,
   MemoryPushAlloc, MemoryPushLoad, MemoryPushWrite, MemoryPushFlag DEF Produce
-----------------------------------------------------------------------------
(***************************************************************************)
(* pop keeps the invariant.                                                *)
(***************************************************************************)
\* A step of pop that writes to no memory and stays at its place.
LEMMA QuietPop ==
    ASSUME IInv, heap' = heap, producer' = producer, UNCHANGED <<get_index, popped>>,
           FirstUnread' \in {FirstUnread, FirstUnread + 1}, FirstUnread \in Nat
    PROVE  PushInv' /\ SlotInv'
<1> USE DEF heap, producer
<1>1. \A i : (Pending(i)' <=> Pending(i)) /\ (InPlace(i)' <=> InPlace(i))
  BY DEF Pending, InPlace
<1>2. PushInv'
  BY DEF IInv, MemoryInv, PushInv, Usable, SlotAt
<1>3. Window' = Window
  BY DEF Window
<1>4. post_index \in Nat /\ post_index' = post_index
  BY DEF IInv, TypeOK
<1>5. \A i \in FirstUnread' .. post_index - 1 : i \in FirstUnread .. post_index - 1
  BY <1>4
<1> QED
  BY <1>1, <1>2, <1>3, <1>4, <1>5 DEF IInv, MemoryInv, SlotInv, AcceptedIsKept

LEMMA FirstUnreadType ==
    ASSUME get_index \in Nat
    PROVE  FirstUnread \in Nat /\ FirstUnread \in {get_index, get_index + 1}
BY DEF FirstUnread

\* lines 115, 120 and 132: pop looks around.
LEMMA MemoryPopQuiet ==
    ASSUME IInv, Layout, PopStart \/ PopEmpty \/ PopLook \/ PopLoad \/ PopUnready
    PROVE  MemoryInv'
<1> USE DEF heap, producer, CGoto
<1>1. /\ heap' = heap /\ producer' = producer /\ UNCHANGED <<get_index, popped, got>>
      /\ cpc \notin {"null", "advance"} /\ cpc' \notin {"null", "advance"}
      /\ cpc' \notin {"delete", "null", "advance"} /\ cpc # "null"
  BY DEF PopStart, PopEmpty, PopLook, PopLoad, PopUnready
<1>2. FirstUnread' = FirstUnread /\ FirstUnread \in Nat
  BY <1>1 DEF FirstUnread, Layout
<1>3. PushInv' /\ SlotInv'
  BY <1>1, <1>2, QuietPop
<1>4. PageOf(get_index) \in Pages
  BY DEF Layout
<1>5. \A pi \in Pages : page[pi] # "freed"
  BY <1>1 DEF IInv, MemoryInv, PopInv
<1>6. cpc' = "load" => page'[PageOf(get_index)] = "live"
  BY <1>1, <1>4, <1>5 DEF PopStart, PopEmpty, PopLook, PopLoad, PopUnready, IInv, TypeOK
<1>7. cpc' = "read" => Usable(PageOf(get_index), cptr)'
  BY <1>1 DEF PopStart, PopEmpty, PopLook, PopLoad, PopUnready, Load, Usable, IInv, MemoryInv, PopInv
<1>8. PopInv'
  BY <1>1, <1>5, <1>6, <1>7 DEF IInv, MemoryInv, PopInv
<1> QED
  BY <1>3, <1>8 DEF MemoryInv

\* lines 120, 163-168: the reader allocates a page as push does.
LEMMA MemoryPopAlloc ==
    ASSUME IInv, Layout, PopAlloc
    PROVE  MemoryInv'
<1> USE DEF producer, CGoto
<1> DEFINE pi == PageOf(get_index)
<1>1. /\ cpc = "alloc" /\ cpc' = "load" /\ AllocPage(pi)
      /\ UNCHANGED <<get_index, popped, got, cptr>> /\ producer' = producer
  BY DEF PopAlloc
<1>2. pi \in Pages /\ \A pj \in Pages : page[pj] # "freed"
  BY <1>1 DEF Layout, IInv, MemoryInv, PopInv
<1>3. /\ \A pj \in Pages : page[pj] = "live" =>
              page'[pj] = "live" /\ gen'[pj] = gen[pj] /\ slots'[pj] = slots[pj]
      /\ \A pj \in Pages : page'[pj] = "live" /\ page[pj] # "live" =>
              \A s \in Slots : slots'[pj][s].flag = 0
      /\ \A pj \in Pages : page'[pj] # "freed"
      /\ page'[pi] = "live"
  BY <1>1, <1>2, AllocEffect DEF IInv
<1>4. Window' = Window /\ FirstUnread' = FirstUnread
      /\ \A i : Pending(i)' <=> Pending(i)
  BY <1>1 DEF Window, FirstUnread, Pending
<1>5. PushInv'
  <2>1. \A q \in Producers : pc[q] \in Inside => PageOf(mine[q]) \in Pages
    BY NotFreedUnderPush
  <2> QED
    BY <1>1, <1>3, <2>1 DEF IInv, MemoryInv, PushInv, Usable, SlotAt, Inside
<1>6. SlotInv'
  <2>1. ASSUME NEW i \in Window, i >= post_index \/ Pending(i), page'[PageOf(i)] = "live"
        PROVE  slots'[PageOf(i)][SlotOf(i)].flag = 0
    BY <1>3, <2>1 DEF Layout, IInv, MemoryInv, SlotInv
  <2>2. ASSUME NEW i \in FirstUnread .. post_index - 1, ~ Pending(i)
        PROVE  InPlace(i)'
    <3>1. InPlace(i)
      BY <2>2 DEF IInv, MemoryInv, SlotInv, AcceptedIsKept
    <3>2. i \in Window
      BY DEF Layout, FirstUnread
    <3> QED
      BY <1>1, <1>3, <3>1, <3>2 DEF Layout, InPlace
  <2> QED
    BY <1>1, <1>4, <2>1, <2>2 DEF SlotInv, AcceptedIsKept
<1>7. PopInv'
  BY <1>1, <1>3 DEF IInv, MemoryInv, PopInv
<1> QED
  BY <1>5, <1>6, <1>7 DEF MemoryInv

\* lines 122-124: a set flag belongs to the message at the head, and is no push's.
LEMMA MemoryPopRead ==
    ASSUME IInv, Layout, PopRead
    PROVE  MemoryInv'
<1> USE DEF heap, producer, CGoto
<1>1. /\ FlagRead = 1 /\ cpc = "read"
      /\ cpc' = IF LastSlot(get_index) THEN "delete" ELSE "advance"
      /\ got' = slots[PageOf(get_index)][SlotOf(get_index)].msg
      /\ heap' = heap /\ producer' = producer /\ UNCHANGED <<get_index, popped, cptr>>
  BY DEF PopRead
<1>2. /\ get_index \in Window /\ get_index \in Nat /\ post_index \in Nat
      /\ get_index < post_index
  BY <1>1 DEF Layout, IInv, CountInv
<1>3. Usable(PageOf(get_index), cptr)
  BY <1>1 DEF IInv, MemoryInv, PopInv
<1>4. ~ Pending(get_index)
  BY <1>1, <1>2, <1>3 DEF IInv, MemoryInv, SlotInv, FlagRead, Usable
<1>5. InPlace(get_index)
  BY <1>1, <1>2, <1>4 DEF IInv, MemoryInv, SlotInv, AcceptedIsKept, FirstUnread
<1>6. got' = claimed[get_index + 1]
  BY <1>1, <1>5 DEF InPlace
<1>7. FirstUnread' \in {FirstUnread, FirstUnread + 1} /\ FirstUnread \in Nat
  BY <1>1, <1>2 DEF FirstUnread
<1>8. PushInv' /\ SlotInv'
  BY <1>1, <1>7, QuietPop
<1>9. \A pi \in Pages : page[pi] # "freed"
  BY <1>1 DEF IInv, MemoryInv, PopInv
<1>10. PopInv'
  BY <1>1, <1>3, <1>4, <1>6, <1>9 DEF IInv, MemoryInv, PopInv, Usable, Pending
<1> QED
  BY <1>8, <1>10 DEF MemoryInv

\* lines 125-126: nobody else uses the page of a last slot that was read.
LEMMA MemoryPopFree ==
    ASSUME IInv, Layout, PopDelete \/ PopNull
    PROVE  MemoryInv'
<1> USE DEF producer, CGoto
<1> DEFINE pi == PageOf(get_index)
<1>1. /\ \/ cpc = "delete" /\ cpc' = "null" /\ page' = [page EXCEPT ![pi] = "freed"]
         \/ cpc = "null" /\ cpc' = "advance" /\ page' = [page EXCEPT ![pi] = "null"]
      /\ UNCHANGED <<gen, slots, cptr, got, popped, get_index>> /\ producer' = producer
  BY DEF PopDelete, PopNull
<1>2. /\ pi \in Pages /\ LastSlot(get_index) /\ get_index \in Nat /\ post_index \in Nat
      /\ page \in [Pages -> {"null", "live", "freed"}]
  BY <1>1 DEF Layout, IInv, MemoryInv, TypeOK, PopInv
<1>3. /\ \A pj \in Pages : pj # pi => page'[pj] = page[pj]
      /\ page'[pi] = IF cpc' = "null" THEN "freed" ELSE "null"
  BY <1>1, <1>2
<1>4. \A i \in Window : PageOf(i) = pi => i = get_index
  BY <1>2 DEF Layout
<1>5. /\ Window' = Window
      /\ \A i : Pending(i)' <=> Pending(i)
      /\ FirstUnread' = get_index + 1 /\ FirstUnread \in {get_index, get_index + 1}
  BY <1>1 DEF Window, FirstUnread, Pending
<1>6. PushInv'
  <2>1. \A q \in Producers : pc[q] \in Inside =>
           PageOf(mine[q]) \in Pages /\ PageOf(mine[q]) # pi
    BY <1>1, NotFreedUnderPush
  <2> QED
    BY <1>1, <1>3, <2>1 DEF IInv, MemoryInv, PushInv, Usable, SlotAt, Inside
<1>7. SlotInv'
  <2>1. ASSUME NEW i \in Window, i >= post_index \/ Pending(i), page'[PageOf(i)] = "live"
        PROVE  slots[PageOf(i)][SlotOf(i)].flag = 0
    <3>1. PageOf(i) \in Pages /\ PageOf(i) # pi
      BY <1>3, <2>1 DEF Layout
    <3> QED
      BY <1>3, <2>1, <3>1 DEF IInv, MemoryInv, SlotInv
  <2>2. ASSUME NEW i \in get_index + 1 .. post_index - 1, ~ Pending(i)
        PROVE  InPlace(i)'
    <3>1. i \in FirstUnread .. post_index - 1 /\ i \in get_index .. post_index - 1
          /\ i # get_index
      BY <1>2, <1>5
    <3>2. InPlace(i)
      BY <2>2, <3>1 DEF IInv, MemoryInv, SlotInv, AcceptedIsKept
    <3>3. i \in Window /\ PageOf(i) \in Pages
      BY <3>1 DEF Layout
    <3> QED
      BY <1>1, <1>3, <1>4, <3>1, <3>2, <3>3 DEF InPlace
  <2> QED
    BY <1>1, <1>5, <2>1, <2>2 DEF SlotInv, AcceptedIsKept
<1>8. PopInv'
  <2>1. \A pj \in Pages : page'[pj] = "freed" => cpc' = "null" /\ pj = pi
    BY <1>1, <1>3 DEF IInv, MemoryInv, PopInv
  <2> QED
    BY <1>1, <1>2, <1>3, <1>5, <2>1 DEF IInv, MemoryInv, PopInv
<1> QED
  BY <1>6, <1>7, <1>8 DEF MemoryInv

\* lines 128-129: the window moves on; the places it gains are on no live page.
LEMMA MemoryPopAdvance ==
    ASSUME IInv, Layout, TypeOK', PopAdvance
    PROVE  MemoryInv'
<1> USE DEF heap, producer, CGoto
<1>1. /\ cpc = "advance" /\ cpc' = "idle" /\ get_index' = get_index + 1
      /\ popped' = Append(popped, got)
      /\ heap' = heap /\ producer' = producer
  BY DEF PopAdvance
<1>2. /\ get_index \in Nat /\ post_index \in Nat /\ get_index < post_index
      /\ popped \in Seq(Msg) /\ Len(popped) = get_index
      /\ ~ Pending(get_index) /\ got = claimed[get_index + 1]
  BY <1>1 DEF IInv, MemoryInv, TypeOK, CountInv, PopInv
<1>3. FirstUnread = get_index + 1 /\ FirstUnread' = get_index + 1
  BY <1>1 DEF FirstUnread
<1>4. \A i : (Pending(i)' <=> Pending(i)) /\ (InPlace(i)' <=> InPlace(i))
  BY <1>1 DEF Pending, InPlace
<1>5. PushInv'
  <2>1. \A q \in Producers : pc[q] \in Inside => mine[q] \in get_index + 1 .. post_index - 1
    BY <1>2 DEF Pending, IInv, MemoryInv, PushInv
  <2> QED
    BY <1>1, <2>1 DEF IInv, MemoryInv, PushInv, Usable, SlotAt
<1>6. SlotInv'
  <2>1. ASSUME NEW i \in Window', i >= post_index \/ Pending(i), page[PageOf(i)] = "live"
        PROVE  slots[PageOf(i)][SlotOf(i)].flag = 0
    <3>1. i \in Window \/ (LastSlot(get_index) /\ PageOf(i) = PageOf(get_index))
      BY <1>1, <1>2, WindowMoves
    <3>2. LastSlot(get_index) => page[PageOf(get_index)] = "null"
      BY <1>1 DEF IInv, MemoryInv, PopInv
    <3> QED
      BY <2>1, <3>1, <3>2 DEF IInv, MemoryInv, SlotInv
  <2> QED
    BY <1>1, <1>3, <1>4, <2>1 DEF IInv, MemoryInv, SlotInv, AcceptedIsKept
<1>7. PopInv'
  <2>1. \A pi \in Pages : page[pi] # "freed"
    BY <1>1 DEF IInv, MemoryInv, PopInv
  <2>2. Len(popped') = get_index'
    BY <1>1, <1>2
  <2>3. ASSUME NEW i \in 1 .. get_index + 1
        PROVE  popped'[i] = claimed[i]
    <3>1. got \in Msg
      BY DEF IInv, TypeOK
    <3>2. CASE i = get_index + 1
      BY <1>1, <1>2, <3>1, <3>2
    <3>3. CASE i \in 1 .. get_index
      BY <1>1, <1>2, <3>1, <3>3 DEF IInv, MemoryInv, PopInv
    <3> QED
      BY <1>2, <3>2, <3>3
  <2> QED
    BY <1>1, <2>1, <2>2, <2>3 DEF PopInv
<1> QED
  BY <1>5, <1>6, <1>7 DEF MemoryInv

\* Every step of pop keeps the invariant.
LEMMA MemoryConsume ==
    ASSUME IInv, Layout, TypeOK', Consume
    PROVE  MemoryInv'
BY MemoryPopQuiet, MemoryPopAlloc, MemoryPopRead, MemoryPopFree, MemoryPopAdvance
   DEF Consume

-----------------------------------------------------------------------------
(***************************************************************************)
(* The theorems.                                                           *)
(***************************************************************************)
\* Until a place beyond the window is handed out, those handed out are inside it; when
\* the reader moves on the window's end does not come nearer.
LEMMA ClaimedNext ==
    ASSUME IInv, Layout, [Next]_vars, ~ overrun'
    PROVE  ClaimedInv'
<1>1. get_index \in Nat /\ post_index \in Nat
  BY DEF Layout
<1>2. CASE UNCHANGED <<get_index, post_index>>
  BY <1>2 DEF IInv, ClaimedInv, Window
<1>3. ASSUME NEW p \in Producers, PushClaim(p)
      PROVE  ClaimedInv'
  <2>1. post_index' = post_index + 1 /\ get_index' = get_index /\ post_index \in Window
    BY <1>3 DEF PushClaim, consumer
  <2>2. Window' = Window
    BY <2>1 DEF Window
  <2>3. \A i \in get_index .. post_index : i = post_index \/ i \in get_index .. post_index - 1
    BY <1>1
  <2>4. post_index' - 1 = post_index
    BY <1>1, <2>1
  <2> QED
    BY <2>1, <2>2, <2>3, <2>4 DEF IInv, ClaimedInv
<1>4. CASE PopAdvance
  <2>1. get_index' = get_index + 1 /\ post_index' = post_index
    BY <1>4 DEF PopAdvance, producer
  <2>2. ASSUME NEW i \in get_index + 1 .. post_index - 1
        PROVE  i \in Window'
    <3>1. i \in get_index .. post_index - 1 /\ i \in Int /\ i >= get_index + 1
      BY <1>1
    <3>2. i \in Window
      BY <3>1 DEF IInv, ClaimedInv
    <3> QED
      BY <1>1, <2>1, <3>1, <3>2, WindowGrows
  <2> QED
    BY <2>1, <2>2 DEF ClaimedInv
<1>5. \/ UNCHANGED <<get_index, post_index>>
      \/ PopAdvance
      \/ \E p \in Producers : PushClaim(p)
  BY ZenonT(30)
     DEF Next, Consume, Produce, PopStart, PopEmpty, PopLook, PopAlloc, PopLoad, PopRead,
         PopUnready, PopDelete, PopNull, PushStart, PushRefuse, PushAdmit, PushLook,
         PushAlloc, PushLoad, PushWrite, PushFlag, vars, producer, consumer
<1> QED
  BY <1>2, <1>3, <1>4, <1>5

LEMMA MemoryInit == Init => MemoryInv /\ ClaimedInv
<1> SUFFICES ASSUME Init
             PROVE  MemoryInv /\ ClaimedInv
  OBVIOUS
<1>1. \A p \in Producers : pc[p] \notin Inside
  BY DEF Init, Inside
<1>2. PushInv
  BY <1>1 DEF Init, PushInv
<1>3. ASSUME NEW i \in Window, page[PageOf(i)] = "live"
      PROVE  slots[PageOf(i)][SlotOf(i)].flag = 0
  <2>1. PageOf(i) \in Pages /\ SlotOf(i) \in Slots
    BY WindowPages, AddressInside DEF Init
  <2> QED
    BY <2>1 DEF Init, EmptyPage
<1>4. FirstUnread .. post_index - 1 = {}
  BY DEF Init, FirstUnread
<1>5. SlotInv
  BY <1>3, <1>4 DEF SlotInv, AcceptedIsKept
<1>6. PopInv
  BY DEF Init, PopInv
<1>7. ClaimedInv
  BY DEF Init, ClaimedInv
<1> QED
  BY <1>2, <1>5, <1>6, <1>7 DEF MemoryInv

LEMMA MemoryStutter == MemoryInv /\ UNCHANGED vars => MemoryInv'
BY DEF MemoryInv, PushInv, SlotInv, PopInv, AcceptedIsKept, InPlace, FirstUnread, Pending,
       Window, Usable, SlotAt, vars

\* Once overrun, a queue is for ever counted as such.
LEMMA OverrunStays ==
    ASSUME [Next]_vars, overrun
    PROVE  overrun'
BY ZenonT(30)
   DEF Next, Consume, Produce, PopStart, PopEmpty, PopLook, PopAlloc, PopLoad, PopRead,
       PopUnready, PopDelete, PopNull, PopAdvance, PushStart, PushRefuse, PushAdmit, PushClaim,
       PushLook, PushAlloc, PushLoad, PushWrite, PushFlag, vars, producer

\* Whatever the number of pushing threads, the memory of the queue is as its users expect
\* until a place beyond the window is handed out.
THEOREM MemoryCorrect == Spec => [](~ overrun => IInv)
<1>1. Init => IInv
  BY MemoryInit, TypeInit, CountInit DEF IInv
<1>2. ASSUME IInv, TypeOK', CountInv', [Next]_vars, ~ overrun'
      PROVE  IInv'
  <2>1. Layout
    BY <1>2, LayoutHolds DEF IInv
  <2>2. MemoryInv'
    BY <1>2, <2>1, MemoryProduce, MemoryConsume, MemoryStutter DEF Next, IInv
  <2>3. ClaimedInv'
    BY <1>2, <2>1, ClaimedNext
  <2> QED
    BY <1>2, <2>2, <2>3 DEF IInv
<1>3. (~ overrun => IInv) /\ TypeOK' /\ CountInv' /\ [Next]_vars => (~ overrun => IInv)'
  BY <1>2, OverrunStays
<1> QED
  BY <1>1, <1>3, TypeCorrect, CountCorrect, PTL DEF Spec

\* With at most two pushing threads that never happens.
THEOREM TwoNeverOverrun ==
    ASSUME Cardinality(Producers) <= 2
    PROVE  Spec => []~ overrun
<1>1. TypeOK /\ CountInv => ClaimedInv
  BY ClaimedInWindow DEF ClaimedInv
<1>2. ASSUME ~ overrun, TypeOK, CountInv, ClaimedInv', [Next]_vars
      PROVE  ~ overrun'
  <2>1. ASSUME NEW p \in Producers, PushClaim(p)
        PROVE  ~ overrun'
    <3>1. /\ post_index' = post_index + 1 /\ get_index' = get_index
          /\ overrun' = (overrun \/ post_index \notin Window)
      BY <2>1 DEF PushClaim, consumer
    <3>2. post_index \in get_index' .. post_index' - 1
      BY <1>2, <3>1 DEF TypeOK, CountInv
    <3>3. Window' = Window
      BY <3>1 DEF Window
    <3> QED
      BY <1>2, <3>1, <3>2, <3>3 DEF ClaimedInv
  <2>2. overrun' = overrun \/ \E p \in Producers : PushClaim(p)
    BY <1>2, ZenonT(30)
       DEF Next, Consume, Produce, PopStart, PopEmpty, PopLook, PopAlloc, PopLoad, PopRead,
           PopUnready, PopDelete, PopNull, PopAdvance, PushStart, PushRefuse, PushAdmit,
           PushLook, PushAlloc, PushLoad, PushWrite, PushFlag, vars, producer
  <2> QED
    BY <1>2, <2>1, <2>2
<1>3. Init => ~ overrun
  BY DEF Init
<1> QED
  BY <1>1, <1>2, <1>3, TypeCorrect, CountCorrect, PTL DEF Spec

\* However many threads push, a push that returned true has its message in its slot
\* until the reader has taken it (lines 99-105 against 122-128), unless the queue has
\* been overrun.
THEOREM AcceptedTheorem == Spec => []KeptUnlessOverrun
<1>1. (~ overrun => IInv) => KeptUnlessOverrun
  BY DEF IInv, MemoryInv, SlotInv, KeptUnlessOverrun
<1> QED
  BY <1>1, MemoryCorrect, PTL

\* However many threads push, pop returns the accepted messages, each once, in the
\* order in which line 99 handed out their places, unless the queue has been overrun.
THEOREM OrderTheorem == Spec => []HandedOverInOrder
<1>1. (~ overrun => IInv) => HandedOverInOrder
  <2> SUFFICES ASSUME IInv
               PROVE  HandedOverInOrder
    BY DEF HandedOverInOrder
  <2>1. /\ popped \in Seq(Msg) /\ claimed \in Seq(Msg)
        /\ Len(popped) = get_index /\ Len(claimed) = post_index
        /\ get_index \in Nat /\ post_index \in Nat /\ get_index <= post_index
        /\ \A i \in 1 .. get_index : popped[i] = claimed[i]
    BY DEF IInv, MemoryInv, TypeOK, CountInv, PushInv, PopInv
  <2>2. popped = SubSeq(claimed, 1, get_index)
    BY <2>1
  <2> QED
    BY <2>1, <2>2 DEF HandedOverInOrder
<1> QED
  BY <1>1, MemoryCorrect, PTL

\* However many threads push, a page pointer in use is never one that delete[] of line
\* 125 has invalidated, unless the queue has been overrun.
THEOREM PointersTheorem == Spec => []HeldPagesAreLive
<1>1. (~ overrun => IInv) => HeldPagesAreLive
  BY DEF IInv, MemoryInv, PushInv, PopInv, HeldPagesAreLive, Inside
<1> QED
  BY <1>1, MemoryCorrect, PTL

-----------------------------------------------------------------------------
(***************************************************************************)
(* Memory is given back.                                                   *)
(***************************************************************************)
\* A step that allocates only the page of a place in use, or deletes one.
LEMMA PagesKept ==
    ASSUME IInv, ~ overrun, PagesAreReturned, get_index' = get_index, post_index' \in Nat,
           post_index <= post_index',
           \A pi \in Pages : page'[pi] # "null" =>
              page[pi] # "null" \/ \E i \in get_index .. post_index : PageOf(i) = pi
    PROVE  PagesAreReturned'
<1>1. get_index \in Nat /\ post_index \in Nat
  BY DEF IInv, TypeOK
<1>2. \A i \in get_index .. post_index : i \in get_index .. post_index'
  BY <1>1
<1> QED
  BY <1>2 DEF PagesAreReturned

LEMMA PagesNext ==
    ASSUME IInv, ~ overrun, Layout, PagesAreReturned, [Next]_vars
    PROVE  PagesAreReturned'
<1>0. get_index \in Nat /\ post_index \in Nat /\ get_index <= post_index
      /\ page \in [Pages -> {"null", "live", "freed"}]
  BY DEF Layout, IInv, TypeOK
<1>1. ASSUME NEW p \in Producers, PushClaim(p)
      PROVE  PagesAreReturned'
  BY <1>0, <1>1, PagesKept DEF PushClaim, heap, consumer
<1>2. ASSUME NEW i \in get_index .. post_index, AllocPage(PageOf(i)),
             get_index' = get_index, post_index' = post_index
      PROVE  PagesAreReturned'
  <2>1. \A pi \in Pages : page'[pi] # page[pi] => pi = PageOf(i)
    BY <1>0, <1>2 DEF AllocPage
  <2> QED
    BY <1>0, <1>2, <2>1, PagesKept
<1>3. ASSUME NEW p \in Producers, PushAlloc(p)
      PROVE  PagesAreReturned'
  <2>1. mine[p] \in get_index .. post_index - 1
    BY <1>3 DEF PushAlloc, Goto, Inside, IInv, MemoryInv, PushInv
  <2>2. mine[p] \in get_index .. post_index
    BY <1>0, <2>1
  <2> QED
    BY <1>2, <1>3, <2>2 DEF PushAlloc, consumer
<1>4. CASE PopAlloc
  <2>1. get_index \in get_index .. post_index
    BY <1>0
  <2> QED
    BY <1>2, <1>4, <2>1 DEF PopAlloc, producer
<1>5. CASE PopDelete \/ PopNull
  <2>1. PageOf(get_index) \in Pages /\ get_index \in get_index .. post_index
    BY <1>0, AddressInside
  <2> QED
    BY <1>0, <1>5, <2>1, PagesKept DEF PopDelete, PopNull, producer
<1>6. CASE PopAdvance
  <2>1. /\ get_index' = get_index + 1 /\ UNCHANGED <<page, post_index>>
        /\ cpc = "advance"
    BY <1>6 DEF PopAdvance, CGoto, heap, producer
  <2>2. get_index + 1 <= post_index
    BY <1>0, <2>1 DEF IInv, CountInv
  <2>3. ASSUME NEW pi \in Pages, page[pi] # "null"
        PROVE  \E i \in get_index + 1 .. post_index : PageOf(i) = pi
    <3>1. PICK i \in get_index .. post_index : PageOf(i) = pi
      BY <2>3 DEF PagesAreReturned
    <3>2. CASE i = get_index
      <4>1. ~ LastSlot(get_index)
        BY <2>1, <2>3, <3>1, <3>2 DEF IInv, MemoryInv, PopInv
      <4>2. PageOf(get_index + 1) = PageOf(get_index)
        BY <1>0, <4>1, NextOnPage
      <4>3. get_index + 1 \in get_index + 1 .. post_index
        BY <1>0, <2>2
      <4> QED
        BY <3>1, <3>2, <4>2, <4>3
    <3>3. CASE i # get_index
      <4>1. i \in get_index + 1 .. post_index
        BY <1>0, <3>3
      <4> QED
        BY <3>1, <4>1
    <3> QED
      BY <3>2, <3>3
  <2> QED
    BY <2>1, <2>3 DEF PagesAreReturned
<1>7. CASE UNCHANGED <<page, get_index, post_index>>
  BY <1>7 DEF PagesAreReturned
<1>8. \/ UNCHANGED <<page, get_index, post_index>>
      \/ PopAlloc \/ PopDelete \/ PopNull \/ PopAdvance
      \/ \E p \in Producers : PushClaim(p) \/ PushAlloc(p)
  BY ZenonT(30)
     DEF Next, Consume, Produce, PopStart, PopEmpty, PopLook, PopLoad, PopRead, PopUnready,
         PushStart, PushRefuse, PushAdmit, PushLook, PushLoad, PushWrite, PushFlag,
         vars, heap, producer, consumer
<1> QED
  BY <1>1, <1>3, <1>4, <1>5, <1>6, <1>7, <1>8

\* However many threads push, an entry of page_indexes_ has a page only while a place
\* between the reader and the next push is on it: line 125 deletes every page that was
\* read, and nobody allocates one again (162-168) for a place already read, unless the
\* queue has been overrun.
THEOREM PagesTheorem == Spec => []PagesAreReturned
<1>1. Init => PagesAreReturned
  <2> SUFFICES ASSUME Init
               PROVE  PagesAreReturned
    OBVIOUS
  <2>1. PageOf(0) = 0
    BY PMCAssumption, PICAssumption DEF PageOf
  <2>2. 0 \in get_index .. post_index
    BY DEF Init
  <2> QED
    BY <2>1, <2>2 DEF Init, PagesAreReturned
<1>2. IInv => Layout
  BY LayoutHolds DEF IInv
<1>3. (~ overrun => IInv) /\ PagesAreReturned /\ [Next]_vars => PagesAreReturned'
  <2>1. ASSUME overrun, [Next]_vars
        PROVE  PagesAreReturned'
    BY <2>1, OverrunStays DEF PagesAreReturned
  <2> QED
    BY <1>2, <2>1, PagesNext
<1> QED
  BY <1>1, <1>2, <1>3, MemoryCorrect, PTL DEF Spec

-----------------------------------------------------------------------------
(***************************************************************************)
(* The queue implements TaskQueue.                                         *)
(***************************************************************************)
\* The abstract queue and the abstract reader's last message.
BarQueue == [i \in 1 .. post_index - get_index |->
               [task |-> claimed[get_index + i],
                writing |-> {p \in Producers :
                               pc[p] \in Inside /\ mine[p] = get_index + i - 1}]]
BarGot == IF popped = << >> THEN NoMsg ELSE popped[Len(popped)]
BarBound == Capacity + Cardinality(Producers) - 1

\* The actions of TaskQueue in these terms.
LEMMA BarReserve ==
    ASSUME NEW p \in Producers, NEW m \in Msg, Len(BarQueue) < BarBound,
           BarQueue' = Append(BarQueue, [task |-> m, writing |-> {p}]), BarGot' = BarGot
    PROVE  Abstract!Next
<1>1. Abstract!Reserve(p, m)
  BY DEF Abstract!Reserve, BarQueue, BarGot, BarBound
<1> QED
  BY <1>1 DEF Abstract!Next

LEMMA BarPublish ==
    ASSUME NEW p \in Producers, NEW i \in DOMAIN BarQueue, p \in BarQueue[i].writing,
           BarQueue' = [j \in DOMAIN BarQueue |->
                          [BarQueue[j] EXCEPT !.writing = BarQueue[j].writing \ {p}]],
           BarGot' = BarGot
    PROVE  Abstract!Next
<1>1. Abstract!Publish(p)
  BY DEF Abstract!Publish, BarQueue, BarGot
<1> QED
  BY <1>1 DEF Abstract!Next

LEMMA BarTake ==
    ASSUME BarQueue # << >>, Head(BarQueue).writing = {},
           BarQueue' = Tail(BarQueue), BarGot' = Head(BarQueue).task
    PROVE  Abstract!Next
<1>1. Abstract!Take
  BY DEF Abstract!Take, Abstract!HeadReady, BarQueue, BarGot
<1> QED
  BY <1>1 DEF Abstract!Next

LEMMA BarStutter ==
    ASSUME BarQueue' = BarQueue, BarGot' = BarGot
    PROVE  UNCHANGED Abstract!vars
BY DEF Abstract!vars, BarQueue, BarGot

LEMMA BarInit == Init => Abstract!Init
<1> SUFFICES ASSUME Init
             PROVE  Abstract!Init
  OBVIOUS
<1>1. BarQueue = << >>
  BY DEF Init, BarQueue
<1>2. BarGot \in Msg
  BY NoMsgType DEF Init, BarGot
<1> QED
  BY <1>1, <1>2 DEF Abstract!Init, BarQueue, BarGot

LEMMA IsSeq ==
    ASSUME NEW S, NEW n \in Nat, NEW f, f = [i \in 1 .. n |-> f[i]], \A i \in 1 .. n : f[i] \in S
    PROVE  f \in Seq(S) /\ Len(f) = n
OBVIOUS

\* What Append(q, e) is.
LEMMA AppendIs ==
    ASSUME NEW S, NEW q \in Seq(S), NEW e \in S, NEW r \in Seq(S), Len(r) = Len(q) + 1,
           \A i \in 1 .. Len(r) : r[i] = IF i <= Len(q) THEN q[i] ELSE e
    PROVE  r = Append(q, e)
<1>1. /\ Append(q, e) \in Seq(S) /\ Len(Append(q, e)) = Len(q) + 1
      /\ \A i \in 1 .. Len(q) : Append(q, e)[i] = q[i]
      /\ Append(q, e)[Len(q) + 1] = e
  BY AppendProperties
<1>2. \A i \in 1 .. Len(r) : r[i] = Append(q, e)[i]
  BY <1>1
<1> QED
  BY <1>1, <1>2, SeqEqual

\* What the abstract queue is made of.
Entries == [task : Msg, writing : SUBSET Producers]

BarFacts ==
    /\ BarQueue \in Seq(Entries) /\ Len(BarQueue) = post_index - get_index
    /\ post_index - get_index \in Nat
    /\ \A i \in 1 .. post_index - get_index :
          /\ BarQueue[i].task = claimed[get_index + i]
          /\ \A p \in Producers : p \in BarQueue[i].writing
                                <=> pc[p] \in Inside /\ mine[p] = get_index + i - 1

LEMMA BarShape == IInv => BarFacts
<1> SUFFICES ASSUME IInv
             PROVE  BarFacts
  OBVIOUS
<1>0. /\ post_index \in Nat /\ get_index \in Nat /\ get_index <= post_index
      /\ claimed \in Seq(Msg) /\ Len(claimed) = post_index
  BY DEF IInv, MemoryInv, TypeOK, CountInv, PushInv
<1> DEFINE n == post_index - get_index
           W(i) == {p \in Producers : pc[p] \in Inside /\ mine[p] = get_index + i - 1}
<1>1. n \in Nat
  BY <1>0
<1>2. \A i : W(i) \in SUBSET Producers
  OBVIOUS
<1>3. \A i, p : p \in W(i) <=> p \in Producers /\ pc[p] \in Inside /\ mine[p] = get_index + i - 1
  OBVIOUS
<1>4. BarQueue = [i \in 1 .. n |-> [task |-> claimed[get_index + i], writing |-> W(i)]]
  BY DEF BarQueue
<1>5. \A i \in 1 .. n : claimed[get_index + i] \in Msg
  <2>1. \A i \in 1 .. n : get_index + i \in 1 .. Len(claimed)
    BY <1>0
  <2> QED
    BY <1>0, <2>1
<1> HIDE DEF n, W
<1>6. \A i \in 1 .. n : /\ BarQueue[i].task = claimed[get_index + i]
                       /\ BarQueue[i].writing = W(i)
                       /\ BarQueue[i] \in Entries
  BY <1>2, <1>4, <1>5 DEF Entries
<1>7. BarQueue = [i \in 1 .. n |-> BarQueue[i]]
  BY <1>4
<1>8. BarQueue \in Seq(Entries) /\ Len(BarQueue) = n
  BY <1>1, <1>6, <1>7, IsSeq, Zenon
<1> QED
  BY <1>1, <1>3, <1>6, <1>8 DEF n, BarFacts

\* Two entries with the same task and the same writers are the same.
LEMMA EntryEqual ==
    ASSUME NEW x \in Entries, NEW y \in Entries, x.task = y.task,
           \A p \in Producers : p \in x.writing <=> p \in y.writing
    PROVE  x = y
<1>1. x.writing \in SUBSET Producers /\ y.writing \in SUBSET Producers
  BY DEF Entries
<1>2. x.writing = y.writing
  BY <1>1
<1>3. x = [task |-> x.task, writing |-> x.writing] /\ y = [task |-> y.task, writing |-> y.writing]
  BY DEF Entries
<1> QED
  BY <1>2, <1>3

\* An entry without one of its writers.
LEMMA EntryWithout ==
    ASSUME NEW x \in Entries, NEW p, NEW y, y = [x EXCEPT !.writing = x.writing \ {p}]
    PROVE  y \in Entries /\ y.task = x.task /\ y.writing = x.writing \ {p}
BY DEF Entries

\* A message more: line 99 is Reserve.
LEMMA ClaimReserves ==
    ASSUME IInv, NEW p \in Producers, PushClaim(p), OvershootBounded', BarFacts, BarFacts'
    PROVE  Abstract!Next
<1> DEFINE n == post_index - get_index
           e == [task |-> arg[p], writing |-> {p}]
<1>1. /\ pc[p] = "claim" /\ pc' = [pc EXCEPT ![p] = "look"]
      /\ mine' = [mine EXCEPT ![p] = post_index]
      /\ post_index' = post_index + 1 /\ claimed' = Append(claimed, arg[p])
      /\ UNCHANGED <<get_index, popped>>
  BY DEF PushClaim, Goto, consumer
<1>2. /\ post_index \in Nat /\ get_index \in Nat /\ get_index <= post_index /\ n \in Nat
      /\ claimed \in Seq(Msg) /\ Len(claimed) = post_index /\ arg[p] \in Msg
      /\ pc \in [Producers -> {"idle", "check", "claim"} \cup Inside]
      /\ mine \in [Producers -> Nat]
      /\ Capacity \in Nat /\ Cardinality(Producers) \in Nat
  BY CapacityType, ProducersAssumption, FS_CardinalityType DEF IInv, MemoryInv, TypeOK, CountInv, PushInv
<1>3. Len(BarQueue) = n /\ n < BarBound
  <2>1. post_index + 1 - get_index <= BarBound
    BY <1>1, <1>2 DEF OvershootBounded, BarBound
  <2> QED
    BY <1>2, <2>1 DEF BarFacts, BarBound
<1>4. e \in Entries /\ e.task = arg[p] /\ \A q \in Producers : q \in e.writing <=> q = p
  BY <1>2 DEF Entries
<1> HIDE DEF e
<1>5. BarQueue \in Seq(Entries) /\ BarQueue' \in Seq(Entries) /\ Len(BarQueue') = n + 1
  BY <1>1, <1>2 DEF BarFacts
<1>6. ASSUME NEW i \in 1 .. n + 1
      PROVE  BarQueue'[i] = IF i <= n THEN BarQueue[i] ELSE e
  <2>1. /\ BarQueue'[i] \in Entries
        /\ BarQueue'[i].task = claimed'[get_index + i]
        /\ \A q \in Producers : q \in BarQueue'[i].writing
                               <=> pc'[q] \in Inside /\ mine'[q] = get_index + i - 1
    <3>1. i \in 1 .. post_index' - get_index' /\ i \in 1 .. Len(BarQueue')
      BY <1>1, <1>2, <1>5
    <3>2. BarQueue'[i] \in Entries
      BY <1>5, <3>1, ElementOfSeq
    <3>3. /\ BarQueue'[i].task = claimed'[get_index' + i]
          /\ \A q \in Producers : q \in BarQueue'[i].writing
                                 <=> pc'[q] \in Inside /\ mine'[q] = get_index' + i - 1
      BY <3>1 DEF BarFacts
    <3> QED
      BY <1>1, <3>2, <3>3
  <2>2. CASE i <= n
    <3>1. get_index + i \in 1 .. post_index /\ get_index + i - 1 # post_index /\ i \in 1 .. n
      BY <1>2, <2>2
    <3>2. claimed'[get_index + i] = claimed[get_index + i]
      BY <1>1, <1>2, <3>1
    <3>3. \A q \in Producers : pc'[q] \in Inside /\ mine'[q] = get_index + i - 1
             <=> pc[q] \in Inside /\ mine[q] = get_index + i - 1
      BY <1>1, <1>2, <3>1 DEF Inside
    <3>4. /\ BarQueue[i] \in Entries
          /\ BarQueue[i].task = claimed[get_index + i]
          /\ \A q \in Producers : q \in BarQueue[i].writing
                                 <=> pc[q] \in Inside /\ mine[q] = get_index + i - 1
      BY <1>3, <1>5, <3>1, ElementOfSeq DEF BarFacts
    <3>5. BarQueue'[i] = BarQueue[i]
      BY <2>1, <3>2, <3>3, <3>4, EntryEqual
    <3> QED
      BY <2>2, <3>5
  <2>3. CASE i = n + 1
    <3>1. get_index + i = post_index + 1 /\ get_index + i - 1 = post_index
      BY <1>2, <2>3
    <3>2. claimed'[post_index + 1] = arg[p]
      BY <1>1, <1>2
    <3>3. \A q \in Producers \ {p} : pc[q] \in Inside => mine[q] # post_index
      BY <1>2 DEF IInv, MemoryInv, PushInv
    <3>4. \A q \in Producers : pc'[q] \in Inside /\ mine'[q] = post_index <=> q = p
      BY <1>1, <1>2, <3>3 DEF Inside
    <3>5. BarQueue'[i] = e
      BY <1>4, <2>1, <3>1, <3>2, <3>4, EntryEqual
    <3>6. ~ (i <= n)
      BY <1>2, <2>3
    <3> QED
      BY <3>5, <3>6
  <2> QED
    BY <1>2, <2>2, <2>3
<1>7. BarQueue' = Append(BarQueue, e)
  BY <1>3, <1>4, <1>5, <1>6, AppendIs
<1>8. BarGot' = BarGot
  BY <1>1 DEF BarGot
<1> QED
  BY <1>2, <1>3, <1>7, <1>8, BarReserve DEF e

\* A message is published: line 103 is Publish.
LEMMA FlagPublishes ==
    ASSUME IInv, NEW p \in Producers, PushFlag(p), BarFacts, BarFacts'
    PROVE  Abstract!Next
<1> DEFINE n == post_index - get_index
           k == mine[p] - get_index + 1
           r == [j \in DOMAIN BarQueue |->
                   [BarQueue[j] EXCEPT !.writing = BarQueue[j].writing \ {p}]]
<1>1. /\ pc[p] = "flag" /\ pc' = [pc EXCEPT ![p] = "idle"]
      /\ mine' = [mine EXCEPT ![p] = 0]
      /\ UNCHANGED <<get_index, post_index, claimed, popped>>
  BY DEF PushFlag, Goto, Return, consumer
<1>2. /\ post_index \in Nat /\ get_index \in Nat /\ n \in Nat
      /\ pc \in [Producers -> {"idle", "check", "claim"} \cup Inside]
      /\ mine \in [Producers -> Nat]
  BY DEF IInv, TypeOK, BarFacts
<1>3. pc[p] \in Inside /\ mine[p] \in get_index .. post_index - 1
  BY <1>1 DEF IInv, MemoryInv, PushInv, Inside
<1>4. k \in 1 .. n /\ get_index + k - 1 = mine[p]
  BY <1>2, <1>3
<1>5. BarQueue \in Seq(Entries) /\ Len(BarQueue) = n
      /\ BarQueue' \in Seq(Entries) /\ Len(BarQueue') = n
  BY <1>1 DEF BarFacts
<1>6. DOMAIN BarQueue = 1 .. n
  BY <1>5
<1> HIDE DEF n, k
<1>7. k \in DOMAIN BarQueue /\ p \in BarQueue[k].writing
  BY <1>3, <1>4, <1>6 DEF BarFacts, n
<1>8. \A i \in 1 .. n : r[i] = [BarQueue[i] EXCEPT !.writing = BarQueue[i].writing \ {p}]
  BY <1>6
<1>9. r = [i \in 1 .. n |-> r[i]]
  BY <1>6
<1> HIDE DEF r
<1>10. ASSUME NEW i \in 1 .. n
       PROVE  r[i] \in Entries /\ BarQueue'[i] = r[i]
  <2>1. /\ BarQueue[i] \in Entries /\ BarQueue'[i] \in Entries
    BY <1>5, ElementOfSeq
  <2>2. /\ r[i] \in Entries /\ r[i].task = BarQueue[i].task
        /\ r[i].writing = BarQueue[i].writing \ {p}
    <3>1. PICK x \in Entries : x = BarQueue[i]
      BY <2>1
    <3>2. r[i] = [x EXCEPT !.writing = x.writing \ {p}]
      BY <1>8, <3>1
    <3>3. r[i] \in Entries /\ r[i].task = x.task /\ r[i].writing = x.writing \ {p}
      BY <3>2, EntryWithout
    <3> QED
      BY <3>1, <3>3
  <2>3. /\ BarQueue[i].task = claimed[get_index + i]
        /\ \A q \in Producers : q \in BarQueue[i].writing
                               <=> pc[q] \in Inside /\ mine[q] = get_index + i - 1
    BY DEF BarFacts, n
  <2>4. /\ BarQueue'[i].task = claimed'[get_index' + i]
        /\ \A q \in Producers : q \in BarQueue'[i].writing
                               <=> pc'[q] \in Inside /\ mine'[q] = get_index' + i - 1
    <3>1. i \in 1 .. post_index' - get_index'
      BY <1>1 DEF n
    <3> QED
      BY <3>1 DEF BarFacts
  <2>5. \A q \in Producers : pc'[q] \in Inside /\ mine'[q] = get_index + i - 1
           <=> q # p /\ pc[q] \in Inside /\ mine[q] = get_index + i - 1
    BY <1>1, <1>2 DEF Inside
  <2>6. \A q \in Producers : q \in BarQueue'[i].writing <=> q \in r[i].writing
    BY <1>1, <2>2, <2>3, <2>4, <2>5
  <2> QED
    BY <1>1, <2>1, <2>2, <2>3, <2>4, <2>6, EntryEqual
<1>11. r \in Seq(Entries) /\ Len(r) = n
  BY <1>2, <1>9, <1>10, IsSeq, Zenon DEF n
<1>12. BarQueue' = r
  BY <1>5, <1>10, <1>11, SeqEqual
<1>13. BarGot' = BarGot
  BY <1>1 DEF BarGot
<1> QED
  BY <1>7, <1>12, <1>13, BarPublish DEF r

\* A message is popped: lines 128-129 are Take.
LEMMA AdvanceTakes ==
    ASSUME IInv, PopAdvance, BarFacts, BarFacts'
    PROVE  Abstract!Next
<1> DEFINE n == post_index - get_index
<1>1. /\ cpc = "advance" /\ get_index' = get_index + 1 /\ popped' = Append(popped, got)
      /\ UNCHANGED <<post_index, claimed, pc, mine>>
  BY DEF PopAdvance, CGoto, producer
<1>2. /\ post_index \in Nat /\ get_index \in Nat /\ get_index < post_index
      /\ popped \in Seq(Msg) /\ got \in Msg /\ got = claimed[get_index + 1]
      /\ ~ Pending(get_index)
  BY <1>1 DEF IInv, MemoryInv, TypeOK, CountInv, PopInv
<1>3. n \in Nat /\ n >= 1 /\ 1 \in 1 .. n
  BY <1>2
<1>4. BarQueue \in Seq(Entries) /\ Len(BarQueue) = n
      /\ BarQueue' \in Seq(Entries) /\ Len(BarQueue') = n - 1
  BY <1>1, <1>2 DEF BarFacts
<1>5. BarQueue # << >>
  BY <1>3, <1>4
<1>6. /\ Head(BarQueue) = BarQueue[1]
      /\ Tail(BarQueue) \in Seq(Entries) /\ Len(Tail(BarQueue)) = n - 1
      /\ \A i \in 1 .. n - 1 : Tail(BarQueue)[i] = BarQueue[i + 1]
  BY <1>4, <1>5, HeadTailProperties
<1>7. /\ BarQueue[1].task = claimed[get_index + 1]
      /\ BarQueue[1] \in Entries
      /\ \A q \in Producers : q \in BarQueue[1].writing
                            <=> pc[q] \in Inside /\ mine[q] = get_index + 1 - 1
  BY <1>3, <1>4, ElementOfSeq DEF BarFacts
<1>8. Head(BarQueue).writing = {}
  <2>1. \A q \in Producers : q \notin BarQueue[1].writing
    BY <1>2, <1>7 DEF Pending
  <2>2. BarQueue[1].writing \in SUBSET Producers
    BY <1>7 DEF Entries
  <2> QED
    BY <1>6, <2>1, <2>2
<1>9. BarGot' = Head(BarQueue).task
  <2>1. popped' # << >> /\ popped'[Len(popped')] = got
    BY <1>1, <1>2, AppendProperties
  <2> QED
    BY <1>2, <1>6, <1>7, <2>1 DEF BarGot
<1>10. ASSUME NEW i \in 1 .. n - 1
       PROVE  BarQueue'[i] = Tail(BarQueue)[i]
  <2>1. i + 1 \in 1 .. n /\ i \in 1 .. post_index' - get_index'
    BY <1>1, <1>2, <1>3
  <2>2. BarQueue[i + 1] \in Entries /\ BarQueue'[i] \in Entries
    BY <1>4, <2>1, ElementOfSeq
  <2>3. /\ BarQueue[i + 1].task = claimed[get_index + (i + 1)]
        /\ \A q \in Producers : q \in BarQueue[i + 1].writing
                               <=> pc[q] \in Inside /\ mine[q] = get_index + (i + 1) - 1
    BY <2>1 DEF BarFacts
  <2>4. /\ BarQueue'[i].task = claimed'[get_index' + i]
        /\ \A q \in Producers : q \in BarQueue'[i].writing
                               <=> pc'[q] \in Inside /\ mine'[q] = get_index' + i - 1
    BY <2>1 DEF BarFacts
  <2>5. get_index' + i = get_index + (i + 1) /\ get_index' + i - 1 = get_index + (i + 1) - 1
    BY <1>1, <1>2
  <2>6. BarQueue'[i].task = BarQueue[i + 1].task
    BY <1>1, <2>3, <2>4, <2>5
  <2>7. \A q \in Producers : q \in BarQueue'[i].writing <=> q \in BarQueue[i + 1].writing
    BY <1>1, <2>3, <2>4, <2>5
  <2>8. BarQueue'[i] = BarQueue[i + 1]
    BY <2>2, <2>6, <2>7, EntryEqual
  <2> QED
    BY <1>6, <2>8
<1>11. BarQueue' = Tail(BarQueue)
  BY <1>4, <1>6, <1>10, SeqEqual
<1> QED
  BY <1>5, <1>8, <1>9, <1>11, BarTake

\* Every other step changes nothing that TaskQueue shows.
LEMMA StepsImplement ==
    ASSUME IInv, BarFacts, BarFacts', OvershootBounded' \/ Producers = {}, [Next]_vars
    PROVE  [Abstract!Next]_(Abstract!vars)
<1>1. ASSUME NEW p \in Producers, PushClaim(p)
      PROVE  Abstract!Next
  BY <1>1, ClaimReserves
<1>2. ASSUME NEW p \in Producers, PushFlag(p)
      PROVE  Abstract!Next
  BY <1>2, FlagPublishes
<1>3. CASE PopAdvance
  BY <1>3, AdvanceTakes
<1>4. ASSUME UNCHANGED <<post_index, get_index, claimed, popped>>,
             \A q \in Producers : pc'[q] \in Inside <=> pc[q] \in Inside,
             \A q \in Producers : pc[q] \in Inside => mine'[q] = mine[q]
      PROVE  UNCHANGED Abstract!vars
  <2>1. BarGot' = BarGot
    BY <1>4 DEF BarGot
  <2>2. BarQueue \in Seq(Entries) /\ BarQueue' \in Seq(Entries) /\ Len(BarQueue') = Len(BarQueue)
        /\ Len(BarQueue) = post_index - get_index
    BY <1>4 DEF BarFacts
  <2>3. ASSUME NEW i \in 1 .. post_index - get_index
        PROVE  BarQueue'[i] = BarQueue[i]
    <3>1. BarQueue'[i] \in Entries /\ BarQueue[i] \in Entries
      BY <2>2, ElementOfSeq
    <3>2. /\ BarQueue[i].task = claimed[get_index + i]
          /\ \A q \in Producers : q \in BarQueue[i].writing
                                 <=> pc[q] \in Inside /\ mine[q] = get_index + i - 1
      BY DEF BarFacts
    <3>3. /\ BarQueue'[i].task = claimed[get_index + i]
          /\ \A q \in Producers : q \in BarQueue'[i].writing
                                 <=> pc'[q] \in Inside /\ mine'[q] = get_index + i - 1
      BY <1>4 DEF BarFacts
    <3> QED
      BY <1>4, <3>1, <3>2, <3>3, EntryEqual
  <2>4. BarQueue' = BarQueue
    BY <2>2, <2>3, SeqEqual
  <2> QED
    BY <2>1, <2>4, BarStutter
<1>5. ASSUME NEW p \in Producers, Produce(p), ~ PushClaim(p), ~ PushFlag(p)
      PROVE  UNCHANGED Abstract!vars
  <2>1. UNCHANGED <<post_index, get_index, claimed, popped>>
    BY <1>5 DEF Produce, PushStart, PushRefuse, PushAdmit, PushLook, PushAlloc, PushLoad,
                PushWrite, consumer
  <2>2. pc \in [Producers -> {"idle", "check", "claim"} \cup Inside] /\ mine \in [Producers -> Nat]
    BY DEF IInv, TypeOK
  <2>3. \A q \in Producers : /\ pc'[q] \in Inside <=> pc[q] \in Inside
                             /\ pc[q] \in Inside => mine'[q] = mine[q]
    BY <1>5, <2>2 DEF Produce, PushStart, PushRefuse, PushAdmit, PushLook, PushAlloc, PushLoad,
                      PushWrite, Goto, Return, Inside
  <2> QED
    BY <1>4, <2>1, <2>3
<1>6. CASE Consume /\ ~ PopAdvance
  BY <1>4, <1>6 DEF Consume, PopStart, PopEmpty, PopLook, PopAlloc, PopLoad, PopRead, PopUnready,
                    PopDelete, PopNull, producer
<1>7. CASE UNCHANGED vars
  BY <1>4, <1>7 DEF vars
<1> QED
  BY <1>1, <1>2, <1>3, <1>5, <1>6, <1>7 DEF Next

\* However many threads push, srt_queue is the queue CellManager relies on: every push
\* and pop looks from outside as Reserve (line 99), Publish (103) and Take (128-129) of
\* TaskQueue, in some order, up to the step that hands out a place beyond the window.
THEOREM QueueImplemented == Spec => ImplementsTaskQueue
<1> DEFINE Facts == BarFacts /\ (OvershootBounded \/ Producers = {})
<1>1. IInv => Facts
  BY BarShape, Overshoot DEF IInv
<1>2. ASSUME ~ overrun => IInv, ~ overrun => Facts, (~ overrun => Facts)', [Next]_vars
      PROVE  overrun' \/ [Abstract!Next]_(Abstract!vars)
  BY <1>2, OverrunStays, StepsImplement
<1>3. /\ ~ overrun => IInv
      /\ ~ overrun => Facts
      /\ (~ overrun => Facts)'
      /\ [Next]_vars
      => [overrun' \/ [Abstract!Next]_(Abstract!vars)]_vars
  BY <1>2
<1> HIDE DEF Facts
<1> QED
  BY <1>1, <1>3, BarInit, MemoryCorrect, PTL DEF Spec, ImplementsTaskQueue
=============================================================================
