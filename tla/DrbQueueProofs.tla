--------------------------- MODULE DrbQueueProofs ---------------------------
(***************************************************************************)
(* What drb_queue's callers may trust, for any number of threads and any   *)
(* table sizes: what get returns is what was pushed, nobody leaves the     *)
(* table as long as pushes do not overlap, and the queue is the log that   *)
(* DurableLog describes.                                                   *)
(***************************************************************************)
EXTENDS DrbQueue, SequenceTheorems, FiniteSetTheorems, TLAPS

Inside == {"grow", "publish", "make"}
Holding == {"cell", "flag", "written"}

PosInv ==
    /\ Len(pushed) = post_index
    /\ \A t \in Producers : pc[t] # "idle" => pos[t] < post_index

LockInv == \A t \in Threads : pc[t] \in Inside <=> mutex = t

(***************************************************************************)
(* The table is as long as its size says, except between the two stores of *)
(* a thread that replaces it.                                              *)
(***************************************************************************)
Copy == [i \in 0 .. page_index_count - 1 |->
           IF i \in DOMAIN page_indexes THEN page_indexes[i] ELSE Null]
TableInv ==
    /\ (\A t \in Threads : pc[t] # "publish") =>
           DOMAIN page_indexes = 0 .. page_index_count - 1
    /\ \A t \in Threads : pc[t] = "publish" => next = Copy

(***************************************************************************)
(* A page has one entry, which stays; a thread with a page has the one its *)
(* position is on.                                                         *)
(***************************************************************************)
PageInv ==
    /\ \A i, j \in DOMAIN page_indexes :
          page_indexes[i] = page_indexes[j] /\ page_indexes[i] # Null => i = j
    /\ \A t \in Threads : pc[t] = "again" => Reached(pos[t])
    /\ \A t \in Threads : pc[t] \in Holding => Reached(pos[t]) /\ page[t] = page_indexes[Wanted(t)]

(* What a flag says is there is there. *)
CellInv ==
    /\ \A p \in Nat : Reached(p) /\ CellOf(p).flag = 1 =>
          p < post_index /\ CellOf(p).msg = pushed[p + 1]
    /\ \A t \in Producers : pc[t] = "flag" => CellOf(pos[t]).msg = pushed[pos[t] + 1]
    /\ \A t \in Producers : pc[t] = "written" => CellOf(pos[t]).flag = 1

GotInv ==
    \A g \in Getters : got[g].pos >= 0 =>
        \/ got[g].pos < post_index /\ got[g].msg = pushed[got[g].pos + 1]
        \/ got[g].msg = NoValue /\ together

(***************************************************************************)
(* While pushes are done one after the other, every position size() counts *)
(* has its page and its message, so that a getter never takes the mutex,   *)
(* and the one that pushes is at most one page behind the table's end.     *)
(***************************************************************************)
OneInv ==
    /\ \A t, u \in Producers : pc[t] # "idle" /\ pc[u] # "idle" => t = u
    /\ \A t \in Producers : pc[t] # "idle" => pos[t] = write_index /\ post_index = write_index + 1
    /\ (\A t \in Producers : pc[t] = "idle") => post_index = write_index
WithinInv ==
    \A t \in Producers : pc[t] \in {"slot", "publish", "make"} => Wanted(t) < page_index_count
GetInv ==
    \A g \in Getters : /\ pc[g] \in {"idle", "count", "slot", "cell"}
                       /\ pc[g] # "idle" => pos[g] < write_index
CountedInv == \A k \in Nat : k < write_index => Reached(k) /\ CellOf(k).flag = 1
OrderedInv == ~ together => wild = "no" /\ OneInv /\ WithinInv /\ GetInv /\ CountedInv

IInv == TypeOK /\ PosInv /\ LockInv /\ TableInv /\ PageInv /\ CellInv /\ GotInv /\ OrderedInv

-----------------------------------------------------------------------------
(* Arithmetic of positions. *)

\* Quotient and remainder, the only facts about \div and % used below.
LEMMA Division ==
    ASSUME NEW d \in Nat \ {0}, NEW i \in Nat
    PROVE  /\ i \div d \in Nat
           /\ i % d \in 0 .. d - 1
           /\ i = d * (i \div d) + (i % d)
OBVIOUS

\* The quotient of the next number is at most one more.
LEMMA NextQuotient ==
    ASSUME NEW d \in Nat \ {0}, NEW i \in Nat
    PROVE  (i + 1) \div d <= (i \div d) + 1
<1> SUFFICES ASSUME NEW j \in Nat, j = i + 1
             PROVE  j \div d <= (i \div d) + 1
  OBVIOUS
<1> DEFINE q == i \div d
           e == j \div d
<1>1. q \in Nat /\ i % d \in 0 .. d - 1 /\ i = d * q + (i % d)
  BY Division
<1>2. e \in Nat /\ j % d \in 0 .. d - 1 /\ j = d * e + (j % d)
  BY Division
<1>3. CASE e >= q + 2
  <2>1. d * e >= d * (q + 2)
    BY <1>1, <1>2, <1>3
  <2>2. d * (q + 2) = d * q + d + d
    BY <1>1
  <2> QED
    BY <1>1, <1>2, <2>1, <2>2
<1> QED
  BY <1>1, <1>2, <1>3

\* Where a position is: on a page, at a place; and no two positions at the same.
LEMMA Address ==
    ASSUME NEW p \in Nat
    PROVE  /\ PageOf(p) \in Nat /\ OffsetOf(p) \in Offsets
           /\ PageOf(0) = 0
           /\ PageOf(p + 1) <= PageOf(p) + 1
           /\ \A q \in Nat : PageOf(q) = PageOf(p) /\ OffsetOf(q) = OffsetOf(p) => q = p
<1>1. PageOf(p) \in Nat /\ OffsetOf(p) \in Offsets
  BY PagesAssumption, Division DEF PageOf, OffsetOf, Offsets
<1>2. PageOf(0) = 0
  <2>1. \A d \in Nat \ {0} : 0 \div d = 0
    OBVIOUS
  <2> QED
    BY <2>1, PagesAssumption DEF PageOf
<1>3. PageOf(p + 1) <= PageOf(p) + 1
  BY PagesAssumption, NextQuotient DEF PageOf
<1>4. ASSUME NEW q \in Nat, PageOf(q) = PageOf(p), OffsetOf(q) = OffsetOf(p)
      PROVE  q = p
  <2>1. /\ q = PageMsgs * PageOf(q) + OffsetOf(q)
        /\ p = PageMsgs * PageOf(p) + OffsetOf(p)
    BY PagesAssumption, Division DEF PageOf, OffsetOf
  <2> QED
    BY <1>4, <2>1
<1> QED
  BY <1>1, <1>2, <1>3, <1>4

-----------------------------------------------------------------------------
(* Threads, pages and the table. *)

Labels == {"idle", "count", "slot", "lock", "grow", "publish", "make",
           "again", "cell", "flag", "written"}

\* One thread moves.
LEMMA Moves ==
    ASSUME TypeOK, NEW t \in Threads, NEW label \in Labels, Goto(t, label)
    PROVE  /\ pc'[t] = label
           /\ \A u \in Threads : u # t => pc'[u] = pc[u]
           /\ pc' \in [Threads -> Labels]
BY DEF TypeOK, Goto, Labels

\* What the types say of the table and the pages.
LEMMA TableFacts ==
    ASSUME TypeOK
    PROVE  /\ Len(heap) \in Nat
           /\ page_index_count \in Nat \ {0}
           /\ DOMAIN page_indexes \subseteq 0 .. page_index_count - 1
           /\ \A i \in DOMAIN page_indexes : page_indexes[i] \in 0 .. Len(heap)
           /\ \A k \in 1 .. Len(heap) : heap[k] \in [Offsets -> Cell]
           /\ \A t \in Threads : pos[t] \in Nat /\ page[t] \in 0 .. Len(heap)
<1>1. heap \in Seq([Offsets -> Cell])
  BY DEF TypeOK
<1>2. Len(heap) \in Nat /\ \A k \in 1 .. Len(heap) : heap[k] \in [Offsets -> Cell]
  BY <1>1
<1>3. PICK n \in 1 .. page_index_count : page_indexes \in [0 .. n - 1 -> 0 .. Len(heap)]
  BY DEF TypeOK
<1>4. page_index_count \in Nat \ {0}
  BY DEF TypeOK
<1>5. /\ DOMAIN page_indexes \subseteq 0 .. page_index_count - 1
      /\ \A i \in DOMAIN page_indexes : page_indexes[i] \in 0 .. Len(heap)
  BY <1>3, <1>4
<1>6. \A t \in Threads : pos[t] \in Nat /\ page[t] \in 0 .. Len(heap)
  BY DEF TypeOK
<1> QED
  BY <1>2, <1>4, <1>5, <1>6

\* A position that is reached has a page and a cell.
LEMMA ReachedFacts ==
    ASSUME TypeOK, NEW p \in Nat, Reached(p)
    PROVE  /\ PageOf(p) \in DOMAIN page_indexes
           /\ page_indexes[PageOf(p)] \in 1 .. Len(heap)
           /\ CellOf(p) \in Cell
           /\ PageOf(p) < page_index_count
<1>1. PageOf(p) \in DOMAIN page_indexes /\ page_indexes[PageOf(p)] # 0
  BY DEF Reached, Null
<1>2. page_indexes[PageOf(p)] \in 1 .. Len(heap)
  BY <1>1, TableFacts
<1>3. heap[page_indexes[PageOf(p)]] \in [Offsets -> Cell] /\ OffsetOf(p) \in Offsets
  BY <1>2, TableFacts, Address
<1>4. CellOf(p) \in Cell
  BY <1>3 DEF CellOf
<1>5. PageOf(p) < page_index_count
  BY <1>1, TableFacts
<1> QED
  BY <1>1, <1>2, <1>4, <1>5

\* Steps that leave the table and the pages alone leave the cells alone.
LEMMA SameCells ==
    ASSUME UNCHANGED <<page_indexes, heap>>, NEW p
    PROVE  (Reached(p))' = Reached(p) /\ (CellOf(p))' = CellOf(p)
BY DEF Reached, CellOf

-----------------------------------------------------------------------------
(* The steps that change the table or a page. *)

\* The new table has every entry of the old one, and no page besides.
LEMMA PublishCells ==
    ASSUME IInv, NEW t \in Threads, PublishTable(t)
    PROVE  /\ page_indexes' = Copy
           /\ DOMAIN page_indexes' = 0 .. page_index_count - 1
           /\ \A i \in DOMAIN page_indexes : page_indexes'[i] = page_indexes[i]
           /\ \A p \in Nat : (Reached(p))' = Reached(p)
           /\ \A p \in Nat : Reached(p) => (CellOf(p))' = CellOf(p)
<1>0. TypeOK /\ TableInv
  BY DEF IInv
<1>1. page_indexes' = Copy /\ heap' = heap
  BY <1>0 DEF PublishTable, TableInv
<1>2. DOMAIN page_indexes' = 0 .. page_index_count - 1
  BY <1>1 DEF Copy
<1>3. \A i \in DOMAIN page_indexes : page_indexes'[i] = page_indexes[i]
  BY <1>0, <1>1, TableFacts DEF Copy
<1>4. \A i \in DOMAIN page_indexes' : i \notin DOMAIN page_indexes => page_indexes'[i] = Null
  BY <1>1 DEF Copy
<1>5. DOMAIN page_indexes \subseteq DOMAIN page_indexes'
  BY <1>0, <1>2, TableFacts
<1>6. \A p \in Nat : (Reached(p))' = Reached(p)
  BY <1>3, <1>4, <1>5 DEF Reached
<1>7. \A p \in Nat : Reached(p) => (CellOf(p))' = CellOf(p)
  BY <1>1, <1>3 DEF Reached, CellOf
<1> QED
  BY <1>1, <1>2, <1>3, <1>6, <1>7

\* A page that is made is empty and belongs to the entry that had none.
LEMMA MakeCells ==
    ASSUME TypeOK, NEW t \in Threads, MakePage(t), Wanted(t) \in DOMAIN page_indexes
    PROVE  /\ wild' = wild /\ mutex' = None /\ Goto(t, "again")
           /\ DOMAIN page_indexes' = DOMAIN page_indexes
           /\ page_indexes'[Wanted(t)] # Null
           /\ heap' \in Seq([Offsets -> Cell]) /\ Len(heap') >= Len(heap)
           /\ \A i \in DOMAIN page_indexes :
                 \/ page_indexes'[i] = page_indexes[i]
                 \/ i = Wanted(t) /\ page_indexes[i] = Null /\ page_indexes'[i] = Len(heap) + 1
           /\ page_indexes' \in [DOMAIN page_indexes -> 0 .. Len(heap')]
           /\ \A p \in Nat : Reached(p) => (Reached(p))' /\ (CellOf(p))' = CellOf(p)
           /\ \A p \in Nat : (Reached(p))' /\ ~ Reached(p) => (CellOf(p))'.flag = 0
<1> DEFINE w == Wanted(t)
<1>1. /\ wild' = wild /\ mutex' = None /\ Goto(t, "again")
      /\ IF page_indexes[w] = Null
         THEN /\ heap' = Append(heap, EmptyPage)
              /\ page_indexes' = [page_indexes EXCEPT ![w] = Len(heap) + 1]
         ELSE UNCHANGED <<heap, page_indexes>>
  BY DEF MakePage
<1> HIDE DEF w
<1>2. CASE page_indexes[w] # Null
  <2>1. UNCHANGED <<heap, page_indexes>>
    BY <1>1, <1>2
  <2>2. heap \in Seq([Offsets -> Cell]) /\ page_indexes \in [DOMAIN page_indexes -> 0 .. Len(heap)]
    BY TableFacts DEF TypeOK
  <2> QED
    BY <1>1, <1>2, <2>1, <2>2, SameCells, TableFacts DEF w
<1>3. CASE page_indexes[w] = Null
  <2>1. heap' = Append(heap, EmptyPage) /\ page_indexes' = [page_indexes EXCEPT ![w] = Len(heap) + 1]
    BY <1>1, <1>3
  <2>2. EmptyPage \in [Offsets -> Cell] /\ \A o \in Offsets : EmptyPage[o].flag = 0
    BY DEF EmptyPage, Cell
  <2>3. heap \in Seq([Offsets -> Cell])
    BY DEF TypeOK
  <2>4. /\ heap' \in Seq([Offsets -> Cell]) /\ Len(heap') = Len(heap) + 1 /\ Len(heap) \in Nat
        /\ \A k \in 1 .. Len(heap) : heap'[k] = heap[k]
        /\ heap'[Len(heap) + 1] = EmptyPage
    BY <2>1, <2>2, <2>3
  <2>5. page_indexes \in [DOMAIN page_indexes -> 0 .. Len(heap)]
    <3>1. PICK n \in 1 .. page_index_count : page_indexes \in [0 .. n - 1 -> 0 .. Len(heap)]
      BY DEF TypeOK
    <3> QED
      BY <3>1
  <2>6. DOMAIN page_indexes' = DOMAIN page_indexes
    BY <2>1, <2>5
  <2>7. /\ page_indexes'[w] = Len(heap) + 1
        /\ \A i \in DOMAIN page_indexes : i # w => page_indexes'[i] = page_indexes[i]
    BY <2>1, <2>5 DEF w
  <2>8. page_indexes' \in [DOMAIN page_indexes -> 0 .. Len(heap')]
    <3>1. \A i \in DOMAIN page_indexes : page_indexes'[i] \in 0 .. Len(heap')
      BY <2>4, <2>5, <2>7
    <3>2. page_indexes' = [i \in DOMAIN page_indexes |-> page_indexes'[i]]
      BY <2>1, <2>5
    <3> QED
      BY <3>1, <3>2
  <2>9. ASSUME NEW p \in Nat, Reached(p)
        PROVE  (Reached(p))' /\ (CellOf(p))' = CellOf(p)
    <3>1. page_indexes'[PageOf(p)] = page_indexes[PageOf(p)]
      BY <1>3, <2>7, <2>9 DEF Reached
    <3>2. page_indexes[PageOf(p)] \in 1 .. Len(heap) /\ PageOf(p) \in DOMAIN page_indexes
      BY <2>9, ReachedFacts
    <3> QED
      BY <2>4, <2>6, <2>9, <3>1, <3>2 DEF Reached, CellOf
  <2>10. ASSUME NEW p \in Nat, (Reached(p))', ~ Reached(p)
         PROVE  (CellOf(p))'.flag = 0
    <3>1. PageOf(p) = w
      BY <2>6, <2>7, <2>10 DEF Reached
    <3>2. (CellOf(p))' = EmptyPage[OffsetOf(p)]
      BY <2>4, <2>7, <3>1 DEF CellOf
    <3> QED
      BY <2>2, <3>2, Address
  <2>11. page_indexes'[w] # Null
    BY <2>4, <2>7 DEF Null
  <2> QED
    BY <1>1, <1>3, <2>4, <2>6, <2>7, <2>8, <2>9, <2>10, <2>11 DEF w
<1> QED
  BY <1>2, <1>3

\* An element of a sequence is replaced.
LEMMA Edited ==
    ASSUME NEW S, NEW k, NEW e, heap \in Seq(S), k \in 1 .. Len(heap), e \in S,
           heap' = [heap EXCEPT ![k] = e]
    PROVE  heap' \in Seq(S) /\ Len(heap') = Len(heap)
OBVIOUS

\* A store into the cell of a position changes no other position's cell.
LEMMA StoreCells ==
    ASSUME TypeOK, PageInv, NEW t \in Threads, NEW q \in Nat, q = pos[t],
           Reached(q), page[t] = page_indexes[PageOf(q)],
           page_indexes' = page_indexes, NEW c \in Cell,
           heap' = [heap EXCEPT ![page[t]] = [heap[page[t]] EXCEPT ![OffsetOf(q)] = c]]
    PROVE  /\ heap' \in Seq([Offsets -> Cell]) /\ Len(heap') = Len(heap)
           /\ \A p \in Nat : (Reached(p))' = Reached(p)
           /\ (CellOf(q))' = c
           /\ \A p \in Nat : Reached(p) /\ p # q => (CellOf(p))' = CellOf(p)
<1> DEFINE k == page[t]
           o == OffsetOf(q)
<1>0. q \in Nat /\ k \in 1 .. Len(heap) /\ o \in Offsets /\ k = page_indexes[PageOf(q)]
  BY ReachedFacts, Address
<1>1. heap \in Seq([Offsets -> Cell]) /\ heap[k] \in [Offsets -> Cell]
  BY <1>0, TableFacts DEF TypeOK
<1>2. heap' = [heap EXCEPT ![k] = [heap[k] EXCEPT ![o] = c]]
  OBVIOUS
<1>3. PageOf(q) \in DOMAIN page_indexes /\ page_indexes[PageOf(q)] # Null
  BY DEF Reached
<1> HIDE DEF k, o
<1>4. [heap[k] EXCEPT ![o] = c] \in [Offsets -> Cell]
  BY <1>0, <1>1
<1>5. heap' \in Seq([Offsets -> Cell]) /\ Len(heap') = Len(heap)
  BY <1>0, <1>1, <1>2, <1>4, Edited
<1>6. /\ heap'[k] = [heap[k] EXCEPT ![o] = c]
      /\ \A j \in 1 .. Len(heap) : j # k => heap'[j] = heap[j]
  BY <1>0, <1>1, <1>2
<1>7. \A p \in Nat : (Reached(p))' = Reached(p)
  BY DEF Reached
<1>8. (CellOf(q))' = c
  <2>1. heap'[k][o] = c
    BY <1>0, <1>1, <1>6
  <2> QED
    BY <1>0, <2>1 DEF CellOf, o
<1>9. ASSUME NEW p \in Nat, Reached(p), p # q
      PROVE  (CellOf(p))' = CellOf(p)
  <2>1. PageOf(p) \in DOMAIN page_indexes /\ page_indexes[PageOf(p)] \in 1 .. Len(heap)
    BY <1>9, ReachedFacts
  <2>2. CASE page_indexes[PageOf(p)] # k
    BY <1>6, <2>1, <2>2 DEF CellOf
  <2>3. CASE page_indexes[PageOf(p)] = k
    <3>1. PageOf(p) = PageOf(q)
      BY <1>0, <1>3, <2>1, <2>3 DEF PageInv
    <3>2. OffsetOf(p) # o /\ OffsetOf(p) \in Offsets
      BY <1>0, <1>9, <3>1, Address DEF o
    <3>3. heap'[k][OffsetOf(p)] = heap[k][OffsetOf(p)]
      BY <1>0, <1>1, <1>6, <3>2
    <3> QED
      BY <2>3, <3>3 DEF CellOf
  <2> QED
    BY <2>2, <2>3
<1> QED
  BY <1>5, <1>7, <1>8, <1>9

-----------------------------------------------------------------------------
(* Steps. *)

\* The steps, by who takes them.
LEMMA NextCases ==
    ASSUME Next
    PROVE  /\ wild = "no"
           /\ \/ \E t \in Producers : Push(t) \/ WriteMsg(t) \/ SetFlag(t) \/ CountWrite(t)
              \/ \E t \in Getters : Get(t) \/ ReadCell(t)
              \/ \E t \in Threads : GetMsgPage(t)
BY DEF Next, Pushing, Getting, Threads

LEMMA ThreadFacts ==
    /\ Producers \subseteq Threads /\ Getters \subseteq Threads
    /\ \A t \in Producers : t \notin Getters
    /\ None \notin Threads
BY ThreadsAssumption DEF Threads

\* A thread that is not in one of two disjoint positions; the labels used below.
LEMMA InsideFacts ==
    ASSUME IInv, NEW t \in Threads, pc[t] \in Inside
    PROVE  mutex = t /\ \A u \in Threads : u # t => pc[u] \notin Inside
BY DEF IInv, LockInv

\* The stores of push, as replacements of a cell.
LEMMA StoreStep ==
    ASSUME IInv, NEW t \in Producers, WriteMsg(t) \/ SetFlag(t)
    PROVE  /\ pos[t] \in Nat /\ pos[t] < post_index /\ Reached(pos[t])
           /\ page_indexes' = page_indexes /\ pos' = pos /\ pushed' = pushed
           /\ heap' \in Seq([Offsets -> Cell]) /\ Len(heap') = Len(heap)
           /\ \A p \in Nat : (Reached(p))' = Reached(p)
           /\ \A p \in Nat : Reached(p) /\ p # pos[t] => (CellOf(p))' = CellOf(p)
           /\ \A p \in Nat : p = pos[t] =>
                 (CellOf(p))' = IF pc[t] = "cell" THEN [CellOf(p) EXCEPT !.msg = pushed[p + 1]]
                                                  ELSE [CellOf(p) EXCEPT !.flag = 1]
<1>0. t \in Threads /\ pos[t] \in Nat
  BY ThreadFacts, TableFacts DEF IInv
<1>1. PICK q \in Nat : q = pos[t]
  BY <1>0
<1> DEFINE c == IF pc[t] = "cell" THEN [CellOf(q) EXCEPT !.msg = pushed[q + 1]]
                                  ELSE [CellOf(q) EXCEPT !.flag = 1]
<1>2. pc[t] \in {"cell", "flag"} /\ page_indexes' = page_indexes /\ pos' = pos /\ pushed' = pushed
  BY DEF WriteMsg, SetFlag, table, history
<1>3. Reached(q) /\ page[t] = page_indexes[PageOf(q)]
  BY <1>0, <1>1, <1>2 DEF IInv, PageInv, Holding, Wanted
<1>4. q < post_index /\ pushed[q + 1] \in Values
  <2>1. pc[t] # "idle"
    BY <1>2
  <2>2. q < post_index /\ Len(pushed) = post_index
    BY <1>1, <2>1 DEF IInv, PosInv
  <2>3. pushed \in Seq(Values)
    BY DEF IInv, TypeOK
  <2> QED
    BY <1>1, <2>2, <2>3
<1>5. CellOf(q) \in Cell
  BY <1>1, <1>3, ReachedFacts DEF IInv
<1>6. c \in Cell
  BY <1>4, <1>5 DEF Cell
<1>7. /\ heap[page[t]] \in [Offsets -> Cell] /\ OffsetOf(q) \in Offsets
      /\ heap[page[t]][OffsetOf(q)] = CellOf(q)
  <2>1. page[t] \in 1 .. Len(heap)
    BY <1>0, <1>1, <1>3, ReachedFacts DEF IInv
  <2> QED
    BY <1>0, <1>1, <1>3, <2>1, Address, TableFacts DEF IInv, CellOf
<1>8. heap' = [heap EXCEPT ![page[t]] = [heap[page[t]] EXCEPT ![OffsetOf(q)] = c]]
  <2>1. CASE WriteMsg(t)
    BY <1>1, <1>4, <1>7, <2>1 DEF WriteMsg
  <2>2. CASE SetFlag(t)
    BY <1>1, <1>7, <2>2 DEF SetFlag
  <2> QED
    BY <2>1, <2>2
<1>9. TypeOK /\ PageInv
  BY DEF IInv
<1> HIDE DEF c
<1>10. /\ heap' \in Seq([Offsets -> Cell]) /\ Len(heap') = Len(heap)
       /\ \A p \in Nat : (Reached(p))' = Reached(p)
       /\ (CellOf(q))' = c
       /\ \A p \in Nat : Reached(p) /\ p # q => (CellOf(p))' = CellOf(p)
  BY <1>0, <1>1, <1>2, <1>3, <1>6, <1>8, <1>9, StoreCells
<1>11. c = IF pc[t] = "cell" THEN [CellOf(q) EXCEPT !.msg = pushed[q + 1]]
                                ELSE [CellOf(q) EXCEPT !.flag = 1]
  BY DEF c
<1> QED
  BY <1>1, <1>2, <1>3, <1>4, <1>10, <1>11

\* Every thread in get_msg_page keeps the counters, the positions and the history.
LEMMA PageStep ==
    ASSUME NEW t \in Threads, GetMsgPage(t)
    PROVE  /\ UNCHANGED <<post_index, write_index, pos, pushed, got, together>>
           /\ \E label \in Labels \ {"idle", "flag", "written"} : Goto(t, label) \/ pc' = pc
           /\ pc[t] \notin {"idle", "flag", "written", "cell"}
BY DEF GetMsgPage, ReadCount, ReadSlot, Lock, PublishCount, PublishTable, MakePage, ReadAgain,
       Labels, counters, table, history

-----------------------------------------------------------------------------
(* The parts of the invariant, one after the other. *)

LEMMA NextTypeOK == ASSUME IInv, Next PROVE TypeOK'
<1> USE DEF counters, table, history, Labels
<1>0. TypeOK /\ PosInv /\ PageInv /\ TableInv
  BY DEF IInv
<1>1. ASSUME NEW t \in Producers, Push(t)
      PROVE  TypeOK'
  <2>1. PICK v \in Values : pushed' = Append(pushed, v)
    BY <1>1 DEF Push
  <2>2. pushed' \in Seq(Values) /\ post_index' \in Nat /\ pos' \in [Threads -> Nat]
    <3>1. pushed' \in Seq(Values)
      <4>1. pushed \in Seq(Values)
        BY <1>0 DEF TypeOK
      <4> QED
        BY <2>1, <4>1
    <3>2. post_index' = post_index + 1 /\ pos' = [pos EXCEPT ![t] = post_index]
      BY <1>1 DEF Push
    <3>3. post_index \in Nat /\ pos \in [Threads -> Nat]
      BY <1>0 DEF TypeOK
    <3>4. pos' \in [Threads -> Nat]
      BY <3>2, <3>3
    <3> QED
      BY <3>1, <3>2, <3>3, <3>4
  <2>3. pc' \in [Threads -> Labels]
    BY <1>0, <1>1, Moves, ThreadFacts DEF Push
  <2>4. together' \in BOOLEAN
    BY <1>0, <1>1 DEF Push, TypeOK
  <2>5. UNCHANGED <<write_index, page_index_count, page_indexes, heap, mutex, page, got, wild>>
    BY <1>1 DEF Push
  <2> QED
    BY <1>0, <2>2, <2>3, <2>4, <2>5 DEF TypeOK
<1>2. ASSUME NEW t \in Producers, WriteMsg(t) \/ SetFlag(t)
      PROVE  TypeOK'
  <2>1. heap' \in Seq([Offsets -> Cell]) /\ Len(heap') = Len(heap)
    BY <1>2, StoreStep
  <2>2. pc' \in [Threads -> Labels]
    BY <1>0, <1>2, Moves, ThreadFacts DEF WriteMsg, SetFlag
  <2>3. UNCHANGED <<post_index, write_index, page_index_count, page_indexes, mutex, pos, page, pushed,
                    got, together, wild>>
    BY <1>2 DEF WriteMsg, SetFlag
  <2> QED
    BY <1>0, <2>1, <2>2, <2>3 DEF TypeOK
<1>3. ASSUME NEW t \in Threads, Return(t)
      PROVE  /\ pc' \in [Threads -> Labels] /\ pos' \in [Threads -> Nat]
             /\ page' \in [Threads -> 0 .. Len(heap)]
  <2>1. Goto(t, "idle")
    BY <1>3 DEF Return
  <2>2. pc' \in [Threads -> Labels]
    BY <1>0, <2>1, Moves
  <2>3. 0 \in 0 .. Len(heap)
    BY <1>0, TableFacts
  <2> QED
    BY <1>0, <1>3, <2>2, <2>3 DEF Return, TypeOK, Null
<1>4. ASSUME NEW t \in Producers, CountWrite(t)
      PROVE  TypeOK'
  <2>1. /\ UNCHANGED <<post_index, page_index_count, page_indexes, heap, mutex, pushed, got, together, wild>>
        /\ write_index' \in Nat /\ Return(t)
    BY <1>0, <1>4 DEF CountWrite, TypeOK
  <2> QED
    BY <1>0, <1>3, <2>1, ThreadFacts DEF TypeOK
<1>5. ASSUME NEW t \in Getters, Get(t)
      PROVE  TypeOK'
  <2>1. pos' \in [Threads -> Nat]
    <3>1. PICK p \in 0 .. write_index - 1 : pos' = [pos EXCEPT ![t] = p]
      BY <1>5 DEF Get
    <3>2. p \in Nat
      BY <1>0 DEF TypeOK
    <3> QED
      BY <1>0, <3>1, <3>2 DEF TypeOK
  <2>2. pc' \in [Threads -> Labels]
    BY <1>0, <1>5, Moves, ThreadFacts DEF Get
  <2>3. UNCHANGED <<post_index, write_index, page_index_count, page_indexes, heap, mutex, page, pushed,
                    got, together, wild>>
    BY <1>5 DEF Get
  <2> QED
    BY <1>0, <2>1, <2>2, <2>3 DEF TypeOK
<1>6. ASSUME NEW t \in Getters, ReadCell(t)
      PROVE  TypeOK'
  <2>1. t \in Threads /\ pos[t] \in Nat
    BY ThreadFacts, <1>0, TableFacts
  <2>2. page[t] \in 1 .. Len(heap) /\ OffsetOf(pos[t]) \in Offsets
    <3>1. Reached(pos[t]) /\ page[t] = page_indexes[Wanted(t)]
      BY <1>0, <1>6, <2>1 DEF ReadCell, PageInv, Holding
    <3> QED
      BY <1>0, <2>1, <3>1, ReachedFacts, Address DEF Wanted
  <2>3. heap[page[t]][OffsetOf(pos[t])] \in Cell
    BY <1>0, <2>2, TableFacts
  <2>4. got' \in [Getters -> [pos : Nat \cup {-1}, msg : Values \cup {NoValue}]]
    <3>1. PICK m \in Values \cup {NoValue} : got' = [got EXCEPT ![t] = [pos |-> pos[t], msg |-> m]]
      BY <1>6, <2>3 DEF ReadCell, Cell
    <3> QED
      BY <1>0, <2>1, <3>1 DEF TypeOK
  <2>5. /\ UNCHANGED <<post_index, write_index, page_index_count, page_indexes, heap, mutex, pushed,
                       together, wild>>
        /\ Return(t)
    BY <1>6 DEF ReadCell
  <2> QED
    BY <1>0, <1>3, <2>1, <2>4, <2>5 DEF TypeOK
<1>7. ASSUME NEW t \in Threads, GetMsgPage(t)
      PROVE  TypeOK'
  <2>1. pc' \in [Threads -> Labels]
    <3>1. CASE pc' = pc
      BY <1>0, <3>1 DEF TypeOK
    <3>2. CASE \E label \in Labels : Goto(t, label)
      BY <1>0, <3>2, Moves
    <3> QED
      BY <1>7, <3>1, <3>2, PageStep
  <2>2. UNCHANGED <<post_index, write_index, pos, pushed, got, together>>
    BY <1>7, PageStep
  <2>3. CASE ReadCount(t) \/ ReadSlot(t) \/ Lock(t) \/ ReadAgain(t)
    <3>1. UNCHANGED <<page_index_count, page_indexes, heap>>
      BY <2>3 DEF ReadCount, ReadSlot, Lock, ReadAgain
    <3>2. page' \in [Threads -> 0 .. Len(heap)]
      <4>1. CASE ReadSlot(t)
        BY <1>0, <4>1, TableFacts DEF ReadSlot, TypeOK
      <4>2. CASE ReadAgain(t)
        <5>1. Reached(pos[t])
          BY <1>0, <4>2 DEF ReadAgain, PageInv
        <5>2. page_indexes[Wanted(t)] \in 0 .. Len(heap)
          BY <1>0, <5>1, TableFacts DEF Reached, Wanted
        <5> QED
          BY <1>0, <4>2, <5>2 DEF ReadAgain, TypeOK
      <4>3. CASE ReadCount(t) \/ Lock(t)
        BY <1>0, <4>3 DEF ReadCount, Lock, TypeOK
      <4> QED
        BY <2>3, <4>1, <4>2, <4>3
    <3>3. mutex' \in Threads \cup {None} /\ wild' \in {"no", "stale", "short"}
      BY <1>0, <2>3 DEF ReadCount, ReadSlot, Lock, ReadAgain, TypeOK
    <3> QED
      BY <1>0, <2>1, <2>2, <3>1, <3>2, <3>3 DEF TypeOK
  <2>4. CASE PublishCount(t)
    <3>1. PICK e \in Doublings(Wanted(t)) : page_index_count' = e
      BY <2>4 DEF PublishCount
    <3>2. /\ page_index_count \in Nat \ {0} /\ pos[t] \in Nat
      BY <1>0, TableFacts
    <3>3. PageOf(pos[t]) \in Nat
      BY <3>2, Address
    <3>4. page_index_count' \in Nat \ {0} /\ page_index_count' >= page_index_count
      BY <3>1, <3>2, <3>3 DEF Doublings, Wanted
    <3>5. UNCHANGED <<page_indexes, heap, mutex, page, wild>>
      BY <2>4 DEF PublishCount
    <3>6. PICK n \in 1 .. page_index_count : page_indexes \in [0 .. n - 1 -> 0 .. Len(heap)]
      BY <1>0 DEF TypeOK
    <3>7. n \in 1 .. page_index_count'
      BY <3>2, <3>4
    <3> QED
      BY <1>0, <2>1, <2>2, <3>4, <3>5, <3>6, <3>7 DEF TypeOK
  <2>5. CASE PublishTable(t)
    <3>1. /\ page_indexes' = Copy
      BY <1>0, <2>5 DEF PublishTable, TableInv
    <3>2. Copy \in [0 .. page_index_count - 1 -> 0 .. Len(heap)]
      BY <1>0, TableFacts DEF Copy, Null
    <3>3. page_index_count \in 1 .. page_index_count
      BY <1>0 DEF TypeOK
    <3>4. UNCHANGED <<page_index_count, heap, mutex, page, wild>>
      BY <2>5 DEF PublishTable
    <3> QED
      BY <1>0, <2>1, <2>2, <3>1, <3>2, <3>3, <3>4 DEF TypeOK
  <2>6. CASE MakePage(t) /\ Wanted(t) \in DOMAIN page_indexes
    <3>1. /\ heap' \in Seq([Offsets -> Cell]) /\ Len(heap') >= Len(heap)
          /\ page_indexes' \in [DOMAIN page_indexes -> 0 .. Len(heap')]
          /\ wild' = wild /\ mutex' = None
      BY <1>0, <2>6, MakeCells
    <3>2. PICK n \in 1 .. page_index_count : page_indexes \in [0 .. n - 1 -> 0 .. Len(heap)]
      BY <1>0 DEF TypeOK
    <3>3. page_indexes' \in [0 .. n - 1 -> 0 .. Len(heap')]
      BY <3>1, <3>2
    <3>4. page' \in [Threads -> 0 .. Len(heap')]
      <4>1. Len(heap) \in Nat /\ Len(heap') \in Nat
        BY <1>0, <3>1, TableFacts
      <4>2. page' = page
        BY <2>6 DEF MakePage
      <4>3. \A u \in Threads : page[u] \in 0 .. Len(heap')
        BY <1>0, <3>1, <4>1, TableFacts
      <4> QED
        BY <1>0, <4>2, <4>3 DEF TypeOK
    <3>5. page_index_count' = page_index_count
      BY <2>6 DEF MakePage
    <3> QED
      BY <1>0, <2>1, <2>2, <3>1, <3>2, <3>3, <3>4, <3>5 DEF TypeOK
  <2>7. CASE MakePage(t) /\ Wanted(t) \notin DOMAIN page_indexes
    <3>1. UNCHANGED <<page_indexes, heap, mutex, page_index_count, page>> /\ wild' = "short"
      BY <2>7 DEF MakePage
    <3> QED
      BY <1>0, <2>1, <2>2, <3>1 DEF TypeOK
  <2> QED
    BY <1>7, <2>3, <2>4, <2>5, <2>6, <2>7 DEF GetMsgPage
<1> QED
  BY <1>1, <1>2, <1>4, <1>5, <1>6, <1>7, NextCases

LEMMA NextPosInv == ASSUME IInv, Next PROVE PosInv'
<1> USE DEF counters, history
<1>0. TypeOK /\ PosInv
  BY DEF IInv
<1>1. ASSUME NEW t \in Producers, Push(t)
      PROVE  PosInv'
  <2>1. PICK v \in Values : pushed' = Append(pushed, v)
    BY <1>1 DEF Push
  <2>2. Len(pushed') = post_index' /\ post_index' = post_index + 1 /\ post_index \in Nat
    <3>1. pushed \in Seq(Values) /\ post_index \in Nat /\ Len(pushed) = post_index
      BY <1>0 DEF PosInv, TypeOK
    <3>2. Len(pushed') = Len(pushed) + 1
      BY <2>1, <3>1
    <3> QED
      BY <1>1, <3>1, <3>2 DEF Push
  <2>3. ASSUME NEW u \in Producers, pc'[u] # "idle"
        PROVE  pos'[u] < post_index'
    <3>1. CASE u = t
      BY <1>0, <1>1, <2>2, <3>1, ThreadFacts DEF Push, TypeOK
    <3>2. CASE u # t
      <4>1. pc'[u] = pc[u] /\ pos'[u] = pos[u]
        BY <1>1, <3>2, <1>0, ThreadFacts DEF Push, Goto, TypeOK
      <4>2. pos[u] < post_index /\ pos[u] \in Nat
        BY <1>0, <2>3, <4>1, ThreadFacts, TableFacts DEF PosInv
      <4> QED
        BY <2>2, <4>1, <4>2
    <3> QED
      BY <3>1, <3>2
  <2> QED
    BY <2>2, <2>3 DEF PosInv
<1>2. ASSUME UNCHANGED <<pushed, post_index>>,
             \A u \in Producers : pc'[u] # "idle" => pc[u] # "idle" /\ pos'[u] = pos[u]
      PROVE  PosInv'
  BY <1>0, <1>2 DEF PosInv
<1>3. ASSUME NEW t \in Producers, WriteMsg(t) \/ SetFlag(t)
      PROVE  PosInv'
  <2>1. pc[t] # "idle" /\ UNCHANGED <<pushed, post_index, pos>>
        /\ \E label \in Labels : Goto(t, label)
    BY <1>3 DEF WriteMsg, SetFlag, Labels
  <2>2. \A u \in Producers : pc'[u] # "idle" => pc[u] # "idle"
    BY <1>0, <2>1, Moves, ThreadFacts
  <2> QED
    BY <1>2, <2>1, <2>2
<1>4. ASSUME NEW t \in Producers, CountWrite(t)
      PROVE  PosInv'
  BY <1>0, <1>2, <1>4 DEF CountWrite, Return, Goto, TypeOK
<1>5. ASSUME NEW t \in Getters, Get(t) \/ ReadCell(t)
      PROVE  PosInv'
  BY <1>0, <1>2, <1>5, ThreadFacts DEF Get, ReadCell, Return, Goto, TypeOK
<1>6. ASSUME NEW t \in Threads, GetMsgPage(t)
      PROVE  PosInv'
  <2>1. \A u \in Producers : pc'[u] # "idle" => pc[u] # "idle"
    <3>1. pc[t] # "idle"
      BY <1>6, PageStep
    <3>2. CASE pc' = pc
      BY <3>2
    <3>3. CASE \E label \in Labels : Goto(t, label)
      BY <1>0, <3>1, <3>3, Moves, ThreadFacts
    <3> QED
      BY <1>6, <3>2, <3>3, PageStep
  <2> QED
    BY <1>2, <1>6, <2>1, PageStep
<1> QED
  BY <1>1, <1>3, <1>4, <1>5, <1>6, NextCases

LEMMA NextLockInv == ASSUME IInv, Next PROVE LockInv'
<1>0. TypeOK /\ LockInv
  BY DEF IInv
<1>1. ASSUME NEW t \in Threads, NEW label \in Labels \ Inside, Goto(t, label),
             pc[t] \notin Inside, mutex' = mutex
      PROVE  LockInv'
  BY <1>0, <1>1, Moves DEF LockInv
<1>2. ASSUME NEW t \in Producers, Push(t) \/ WriteMsg(t) \/ SetFlag(t) \/ CountWrite(t)
      PROVE  LockInv'
  <2>1. PICK label \in Labels \ Inside : Goto(t, label)
    BY <1>2 DEF Push, WriteMsg, SetFlag, CountWrite, Return, Labels, Inside
  <2>2. pc[t] \notin Inside /\ mutex' = mutex
    BY <1>2 DEF Push, WriteMsg, SetFlag, CountWrite, Inside
  <2> QED
    BY <1>1, <2>1, <2>2, ThreadFacts
<1>3. ASSUME NEW t \in Getters, Get(t) \/ ReadCell(t)
      PROVE  LockInv'
  <2>1. PICK label \in Labels \ Inside : Goto(t, label)
    BY <1>3 DEF Get, ReadCell, Return, Labels, Inside
  <2>2. pc[t] \notin Inside /\ mutex' = mutex
    BY <1>3 DEF Get, ReadCell, Inside
  <2> QED
    BY <1>1, <2>1, <2>2, ThreadFacts
<1>4. ASSUME NEW t \in Threads, GetMsgPage(t)
      PROVE  LockInv'
  <2>1. CASE ReadCount(t) \/ ReadSlot(t) \/ ReadAgain(t)
    <3>1. (\E label \in Labels \ Inside : Goto(t, label)) \/ pc' = pc
      BY <2>1 DEF ReadCount, ReadSlot, ReadAgain, Labels, Inside
    <3>2. pc[t] \notin Inside /\ mutex' = mutex
      BY <2>1 DEF ReadCount, ReadSlot, ReadAgain, Inside
    <3> QED
      BY <1>0, <1>1, <3>1, <3>2 DEF LockInv
  <2>2. CASE Lock(t)
    <3>1. mutex = None /\ mutex' = t /\ \E label \in Inside : Goto(t, label)
      BY <2>2 DEF Lock, Inside
    <3>2. \A u \in Threads : pc[u] \notin Inside
      BY <1>0, <3>1, ThreadFacts DEF LockInv
    <3> QED
      BY <1>0, <3>1, <3>2, Moves DEF LockInv, Inside, Labels
  <2>3. CASE PublishCount(t) \/ PublishTable(t)
    <3>1. mutex' = mutex /\ pc[t] \in Inside /\ \E label \in Inside : Goto(t, label)
      BY <2>3 DEF PublishCount, PublishTable, Inside
    <3> QED
      BY <1>0, <3>1, Moves DEF LockInv, Inside, Labels
  <2>4. CASE MakePage(t)
    <3>1. pc[t] \in Inside
      BY <2>4 DEF MakePage, Inside
    <3>2. (mutex' = mutex /\ pc' = pc) \/ (mutex' = None /\ Goto(t, "again"))
      BY <2>4 DEF MakePage
    <3>3. CASE mutex' = mutex /\ pc' = pc
      BY <1>0, <3>3 DEF LockInv
    <3>4. CASE mutex' = None /\ Goto(t, "again")
      BY <1>0, <3>1, <3>4, Moves, ThreadFacts, InsideFacts DEF LockInv, Inside, Labels
    <3> QED
      BY <3>2, <3>3, <3>4
  <2> QED
    BY <1>4, <2>1, <2>2, <2>3, <2>4 DEF GetMsgPage
<1> QED
  BY <1>2, <1>3, <1>4, NextCases

-----------------------------------------------------------------------------
(* What a step does to a thread that does not take it, and to a cell. *)

Own(u) ==
    \/ u \in Producers /\ (Push(u) \/ WriteMsg(u) \/ SetFlag(u) \/ CountWrite(u))
    \/ u \in Getters /\ (Get(u) \/ ReadCell(u))
    \/ GetMsgPage(u)

LEMMA Bystander ==
    ASSUME TypeOK, Next, NEW u \in Threads
    PROVE  Own(u) \/ (pc'[u] = pc[u] /\ pos'[u] = pos[u] /\ page'[u] = page[u])
<1>1. ASSUME NEW t \in Threads, t # u, Own(t)
      PROVE  pc'[u] = pc[u] /\ pos'[u] = pos[u] /\ page'[u] = page[u]
  <2>1. pc'[u] = pc[u]
    BY <1>1 DEF Own, Push, WriteMsg, SetFlag, CountWrite, Get, ReadCell, GetMsgPage, ReadCount,
                ReadSlot, Lock, PublishCount, PublishTable, MakePage, ReadAgain, Goto, Return, TypeOK
  <2>2. pos'[u] = pos[u]
    BY <1>1 DEF Own, Push, WriteMsg, SetFlag, CountWrite, Get, ReadCell, GetMsgPage, ReadCount,
                ReadSlot, Lock, PublishCount, PublishTable, MakePage, ReadAgain, Return, TypeOK
  <2>3. page'[u] = page[u]
    BY <1>1 DEF Own, Push, WriteMsg, SetFlag, CountWrite, Get, ReadCell, GetMsgPage, ReadCount,
                ReadSlot, Lock, PublishCount, PublishTable, MakePage, ReadAgain, Return, TypeOK
  <2> QED
    BY <2>1, <2>2, <2>3
<1>2. \E t \in Threads : Own(t)
  BY NextCases, ThreadFacts DEF Own
<1> QED
  BY <1>1, <1>2

\* What was pushed stays, and overlapping pushes are remembered.
LEMMA HistoryStep ==
    ASSUME IInv, Next
    PROVE  /\ post_index \in Nat /\ post_index' \in Nat /\ post_index' >= post_index
           /\ \A p \in Nat : p < post_index => pushed'[p + 1] = pushed[p + 1]
           /\ together => together'
           /\ UNCHANGED got \/ \E g \in Getters : ReadCell(g)
<1> USE DEF counters, history
<1>1. /\ pushed \in Seq(Values) /\ post_index \in Nat /\ Len(pushed) = post_index
  BY DEF IInv, TypeOK, PosInv
<1>2. ASSUME NEW t \in Producers, Push(t)
      PROVE  /\ post_index' = post_index + 1 /\ (together => together') /\ UNCHANGED got
             /\ \E v \in Values : pushed' = Append(pushed, v)
  BY <1>2 DEF Push
<1>3. ASSUME NEW v \in Values, pushed' = Append(pushed, v)
      PROVE  \A p \in Nat : p < post_index => pushed'[p + 1] = pushed[p + 1]
  BY <1>1, <1>3
<1>4. ASSUME NEW t \in Threads, WriteMsg(t) \/ SetFlag(t) \/ CountWrite(t) \/ Get(t) \/ GetMsgPage(t)
      PROVE  UNCHANGED <<post_index, pushed, together, got>>
  BY <1>4, PageStep DEF WriteMsg, SetFlag, CountWrite, Get
<1>5. ASSUME NEW t \in Getters, ReadCell(t)
      PROVE  UNCHANGED <<post_index, pushed, together>>
  BY <1>5 DEF ReadCell
<1>6. CASE \E t \in Producers : Push(t)
  BY <1>1, <1>2, <1>3, <1>6
<1>7. CASE \E t \in Threads : WriteMsg(t) \/ SetFlag(t) \/ CountWrite(t) \/ Get(t) \/ GetMsgPage(t)
  BY <1>1, <1>4, <1>7
<1>8. CASE \E t \in Getters : ReadCell(t)
  BY <1>1, <1>5, <1>8
<1> QED
  BY <1>6, <1>7, <1>8, NextCases, ThreadFacts

LEMMA CellsStep ==
    ASSUME IInv, Next, NEW p \in Nat
    PROVE  /\ Reached(p) => /\ (Reached(p))' /\ page_indexes'[PageOf(p)] = page_indexes[PageOf(p)]
                            /\ CellOf(p).flag = 1 => (CellOf(p))'.flag = 1
           /\ (Reached(p))' =>
                \/ ~ Reached(p) /\ (CellOf(p))'.flag = 0
                \/ Reached(p) /\ (CellOf(p))' = CellOf(p)
                \/ /\ Reached(p) /\ p < post_index
                   /\ (CellOf(p))' = [CellOf(p) EXCEPT !.msg = pushed[p + 1]]
                \/ /\ Reached(p) /\ (CellOf(p))' = [CellOf(p) EXCEPT !.flag = 1]
                   /\ \E t \in Producers : pc[t] = "flag" /\ pos[t] = p
<1>0. TypeOK
  BY DEF IInv
<1>1. CASE UNCHANGED <<page_indexes, heap>>
  BY <1>1, SameCells
<1>2. ASSUME NEW t \in Producers, WriteMsg(t) \/ SetFlag(t)
      PROVE  /\ Reached(p) => /\ (Reached(p))' /\ page_indexes'[PageOf(p)] = page_indexes[PageOf(p)]
                              /\ CellOf(p).flag = 1 => (CellOf(p))'.flag = 1
             /\ (Reached(p))' =>
                \/ Reached(p) /\ (CellOf(p))' = CellOf(p)
                \/ /\ Reached(p) /\ p < post_index
                   /\ (CellOf(p))' = [CellOf(p) EXCEPT !.msg = pushed[p + 1]]
                \/ /\ Reached(p) /\ (CellOf(p))' = [CellOf(p) EXCEPT !.flag = 1]
                   /\ \E u \in Producers : pc[u] = "flag" /\ pos[u] = p
  <2>1. (Reached(p))' = Reached(p) /\ page_indexes' = page_indexes
    BY <1>2, StoreStep
  <2>2. CASE p # pos[t]
    BY <1>2, <2>1, <2>2, StoreStep
  <2>3. CASE p = pos[t]
    <3>1. pc[t] \in {"cell", "flag"}
      BY <1>2 DEF WriteMsg, SetFlag
    <3>2. Reached(p) /\ p < post_index
      BY <1>2, <2>3, StoreStep
    <3>3. CellOf(p) \in Cell
      BY <1>0, <3>2, ReachedFacts
    <3>4. CASE pc[t] = "cell"
      <4>1. (CellOf(p))' = [CellOf(p) EXCEPT !.msg = pushed[p + 1]]
        BY <1>2, <2>3, <3>4, StoreStep
      <4>2. (CellOf(p))'.flag = CellOf(p).flag
        BY <3>3, <4>1 DEF Cell
      <4> QED
        BY <2>1, <3>2, <4>1, <4>2
    <3>5. CASE pc[t] = "flag"
      <4>1. (CellOf(p))' = [CellOf(p) EXCEPT !.flag = 1]
        BY <1>2, <2>3, <3>5, StoreStep
      <4>2. (CellOf(p))'.flag = 1
        BY <3>3, <4>1 DEF Cell
      <4> QED
        BY <2>1, <2>3, <3>2, <3>5, <4>1, <4>2
    <3> QED
      BY <3>1, <3>4, <3>5
  <2> QED
    BY <2>2, <2>3
<1>3. ASSUME NEW t \in Threads, PublishTable(t)
      PROVE  /\ (Reached(p))' = Reached(p)
             /\ Reached(p) => page_indexes'[PageOf(p)] = page_indexes[PageOf(p)]
             /\ Reached(p) => (CellOf(p))' = CellOf(p)
  BY <1>3, PublishCells DEF Reached
<1>4. ASSUME NEW t \in Threads, MakePage(t), Wanted(t) \in DOMAIN page_indexes
      PROVE  /\ Reached(p) => /\ (Reached(p))' /\ page_indexes'[PageOf(p)] = page_indexes[PageOf(p)]
                              /\ (CellOf(p))' = CellOf(p)
             /\ (Reached(p))' /\ ~ Reached(p) => (CellOf(p))'.flag = 0
  BY <1>0, <1>4, MakeCells DEF Reached
<1>5. ASSUME NEW t \in Threads, MakePage(t), Wanted(t) \notin DOMAIN page_indexes
      PROVE  UNCHANGED <<page_indexes, heap>>
  BY <1>5 DEF MakePage
<1>6. ASSUME NEW t \in Threads,
             Push(t) \/ CountWrite(t) \/ Get(t) \/ ReadCell(t) \/ ReadCount(t) \/ ReadSlot(t) \/ Lock(t)
                     \/ PublishCount(t) \/ ReadAgain(t)
      PROVE  UNCHANGED <<page_indexes, heap>>
  BY <1>6 DEF Push, CountWrite, Get, ReadCell, ReadCount, ReadSlot, Lock, PublishCount, ReadAgain, table
<1>7. \/ UNCHANGED <<page_indexes, heap>>
      \/ \E t \in Producers : WriteMsg(t) \/ SetFlag(t)
      \/ \E t \in Threads : PublishTable(t) \/ (MakePage(t) /\ Wanted(t) \in DOMAIN page_indexes)
  BY <1>5, <1>6, NextCases, ThreadFacts DEF GetMsgPage
<1> QED
  BY <1>1, <1>2, <1>3, <1>4, <1>7

-----------------------------------------------------------------------------
LEMMA NextTableInv == ASSUME IInv, Next PROVE TableInv'
<1>0. TypeOK /\ TableInv
  BY DEF IInv
<1>1. ASSUME UNCHANGED <<page_indexes, page_index_count, next>>,
             \A u \in Threads : pc'[u] = "publish" <=> pc[u] = "publish"
      PROVE  TableInv'
  BY <1>0, <1>1 DEF TableInv, Copy
<1>2. ASSUME NEW t \in Threads, pc[t] # "publish",
             NEW label \in Labels \ {"publish"}, Goto(t, label) \/ pc' = pc
      PROVE  \A u \in Threads : pc'[u] = "publish" <=> pc[u] = "publish"
  BY <1>0, <1>2, Moves
<1>3. ASSUME NEW t \in Producers, Push(t) \/ WriteMsg(t) \/ SetFlag(t) \/ CountWrite(t)
      PROVE  TableInv'
  <2>1. pc[t] # "publish" /\ UNCHANGED <<page_indexes, page_index_count, next>>
    BY <1>3 DEF Push, WriteMsg, SetFlag, CountWrite, table
  <2>2. \E label \in Labels \ {"publish"} : Goto(t, label)
    BY <1>3 DEF Push, WriteMsg, SetFlag, CountWrite, Return, Labels
  <2> QED
    BY <1>1, <1>2, <2>1, <2>2, ThreadFacts
<1>4. ASSUME NEW t \in Getters, Get(t) \/ ReadCell(t)
      PROVE  TableInv'
  <2>1. pc[t] # "publish" /\ UNCHANGED <<page_indexes, page_index_count, next>>
    BY <1>4 DEF Get, ReadCell, table
  <2>2. \E label \in Labels \ {"publish"} : Goto(t, label)
    BY <1>4 DEF Get, ReadCell, Return, Labels
  <2> QED
    BY <1>1, <1>2, <2>1, <2>2, ThreadFacts
<1>5. ASSUME NEW t \in Threads, ReadCount(t) \/ ReadSlot(t) \/ Lock(t) \/ ReadAgain(t)
      PROVE  TableInv'
  <2>1. pc[t] # "publish" /\ UNCHANGED <<page_indexes, page_index_count, next>>
    BY <1>5 DEF ReadCount, ReadSlot, Lock, ReadAgain, table
  <2>2. \E label \in Labels \ {"publish"} : Goto(t, label) \/ pc' = pc
    BY <1>5 DEF ReadCount, ReadSlot, Lock, ReadAgain, Labels
  <2> QED
    BY <1>1, <1>2, <2>1, <2>2
<1>6. ASSUME NEW t \in Threads, PublishCount(t)
      PROVE  TableInv'
  <2>1. pc[t] \in Inside /\ pc[t] # "publish"
    BY <1>6 DEF PublishCount, Inside
  <2>2. \A u \in Threads : pc[u] # "publish"
    BY <2>1, InsideFacts DEF Inside
  <2>3. DOMAIN page_indexes = 0 .. page_index_count - 1
    BY <1>0, <2>2 DEF TableInv
  <2>4. /\ page_indexes' = page_indexes
        /\ next' = [i \in 0 .. page_index_count' - 1 |->
                      IF i < page_index_count THEN page_indexes[i] ELSE Null]
    BY <1>6 DEF PublishCount
  <2>5. page_index_count \in Nat
    BY <1>0, TableFacts
  <2>6. page_index_count' \in Int
    BY NextTypeOK DEF TypeOK
  <2>7. \A i \in 0 .. page_index_count' - 1 : i < page_index_count <=> i \in DOMAIN page_indexes
    BY <2>3, <2>5, <2>6
  <2>8. next' = Copy'
    BY <2>4, <2>7 DEF Copy
  <2>9. Goto(t, "publish")
    BY <1>6 DEF PublishCount
  <2>10. pc'[t] = "publish"
    BY <1>0, <2>9, Moves DEF Labels
  <2> QED
    BY <2>8, <2>10 DEF TableInv
<1>7. ASSUME NEW t \in Threads, PublishTable(t)
      PROVE  TableInv'
  <2>1. pc[t] \in Inside /\ Goto(t, "make") /\ page_index_count' = page_index_count
    BY <1>7 DEF PublishTable, Inside
  <2>2. \A u \in Threads : pc'[u] # "publish"
    BY <1>0, <2>1, InsideFacts, Moves DEF Inside, Labels
  <2>3. DOMAIN page_indexes' = 0 .. page_index_count' - 1
    BY <1>7, <2>1, PublishCells
  <2> QED
    BY <2>2, <2>3 DEF TableInv
<1>8. ASSUME NEW t \in Threads, MakePage(t)
      PROVE  TableInv'
  <2>1. pc[t] = "make" /\ UNCHANGED <<page_index_count, next>>
        /\ (pc' = pc \/ Goto(t, "again"))
    BY <1>8 DEF MakePage
  <2>2. DOMAIN page_indexes' = DOMAIN page_indexes
    <3>1. CASE Wanted(t) \in DOMAIN page_indexes
      BY <1>0, <1>8, <3>1, MakeCells
    <3>2. CASE Wanted(t) \notin DOMAIN page_indexes
      BY <1>8, <3>2 DEF MakePage
    <3> QED
      BY <3>1, <3>2
  <2>3. \A u \in Threads : pc[u] # "publish"
    BY <2>1, InsideFacts DEF Inside
  <2>4. \A u \in Threads : pc'[u] # "publish"
    BY <1>0, <2>1, <2>3, Moves DEF Labels
  <2> QED
    BY <1>0, <2>1, <2>2, <2>3, <2>4 DEF TableInv
<1> QED
  BY <1>3, <1>4, <1>5, <1>6, <1>7, <1>8, NextCases DEF GetMsgPage

LEMMA NextPageInv == ASSUME IInv, Next PROVE PageInv'
<1>0. TypeOK /\ PageInv /\ TypeOK'
  BY NextTypeOK DEF IInv
<1>1. ASSUME NEW i \in DOMAIN page_indexes', NEW j \in DOMAIN page_indexes',
             page_indexes'[i] = page_indexes'[j], page_indexes'[i] # Null
      PROVE  i = j
  <2>1. CASE page_indexes' = page_indexes
    BY <1>0, <1>1, <2>1 DEF PageInv
  <2>2. ASSUME NEW t \in Threads, PublishTable(t)
        PROVE  i = j
    <3>1. page_indexes' = Copy
      BY <2>2, PublishCells
    <3>2. /\ i \in DOMAIN page_indexes /\ page_indexes'[i] = page_indexes[i]
          /\ j \in DOMAIN page_indexes /\ page_indexes'[j] = page_indexes[j]
      BY <1>1, <3>1 DEF Copy
    <3> QED
      BY <1>0, <1>1, <3>2 DEF PageInv
  <2>3. ASSUME NEW t \in Threads, MakePage(t), Wanted(t) \in DOMAIN page_indexes
        PROVE  i = j
    <3>1. /\ DOMAIN page_indexes' = DOMAIN page_indexes
          /\ \A k \in DOMAIN page_indexes :
                \/ page_indexes'[k] = page_indexes[k]
                \/ k = Wanted(t) /\ page_indexes[k] = Null /\ page_indexes'[k] = Len(heap) + 1
      BY <1>0, <2>3, MakeCells
    <3>2. \A k \in DOMAIN page_indexes : page_indexes[k] # Len(heap) + 1
      BY <1>0, TableFacts
    <3> QED
      BY <1>0, <1>1, <3>1, <3>2 DEF PageInv
  <2>4. ASSUME NEW t \in Threads, MakePage(t), Wanted(t) \notin DOMAIN page_indexes
        PROVE  page_indexes' = page_indexes
    BY <2>4 DEF MakePage
  <2>5. ASSUME NEW t \in Threads,
               Push(t) \/ CountWrite(t) \/ Get(t) \/ ReadCell(t) \/ ReadCount(t) \/ ReadSlot(t)
                       \/ Lock(t) \/ PublishCount(t) \/ ReadAgain(t) \/ WriteMsg(t) \/ SetFlag(t)
        PROVE  page_indexes' = page_indexes
    BY <2>5 DEF Push, CountWrite, Get, ReadCell, ReadCount, ReadSlot, Lock, PublishCount, ReadAgain,
                WriteMsg, SetFlag, table
  <2> QED
    BY <2>1, <2>2, <2>3, <2>4, <2>5, NextCases, ThreadFacts DEF GetMsgPage
<1>2. ASSUME NEW u \in Threads, NEW p \in Nat, pos'[u] = p, pc[u] \in Holding \cup {"again"},
             pos'[u] = pos[u]
      PROVE  /\ (Reached(pos[u]))'
             /\ page_indexes'[PageOf(p)] = page_indexes[PageOf(p)]
             /\ pc[u] \in Holding => page[u] = page_indexes[PageOf(p)]
  <2>1. Reached(p)
    BY <1>0, <1>2 DEF PageInv
  <2>2. (Reached(p))' /\ page_indexes'[PageOf(p)] = page_indexes[PageOf(p)]
    BY <2>1, CellsStep
  <2> QED
    BY <1>0, <1>2, <2>2 DEF PageInv, Reached, Wanted
<1>3. ASSUME NEW u \in Threads, pc'[u] = "again"
      PROVE  (Reached(pos[u]))'
  <2>0. PICK p \in Nat : p = pos'[u]
    BY <1>0 DEF TypeOK
  <2>1. CASE pc[u] = "again" /\ pos'[u] = pos[u]
    BY <1>2, <2>0, <2>1
  <2>2. CASE Own(u)
    <3>1. MakePage(u) /\ Wanted(u) \in DOMAIN page_indexes
      <4>1. ASSUME Push(u) \/ WriteMsg(u) \/ SetFlag(u) \/ CountWrite(u) \/ Get(u) \/ ReadCell(u)
            PROVE  \E label \in Labels \ {"again"} : Goto(u, label)
        BY <4>1 DEF Push, WriteMsg, SetFlag, CountWrite, Get, ReadCell, Return, Labels
      <4>2. ASSUME ReadCount(u) \/ ReadSlot(u) \/ Lock(u) \/ PublishCount(u) \/ PublishTable(u)
                   \/ ReadAgain(u) \/ (MakePage(u) /\ Wanted(u) \notin DOMAIN page_indexes)
            PROVE  (\E label \in Labels \ {"again"} : Goto(u, label)) \/ (pc[u] # "again" /\ pc' = pc)
        BY <4>2 DEF ReadCount, ReadSlot, Lock, PublishCount, PublishTable, ReadAgain, MakePage, Labels
      <4>3. \A label \in Labels \ {"again"} : ~ Goto(u, label)
        BY <1>0, <1>3, Moves
      <4> QED
        BY <1>3, <2>2, <4>1, <4>2, <4>3 DEF Own, GetMsgPage
    <3>2. /\ DOMAIN page_indexes' = DOMAIN page_indexes
          /\ page_indexes'[Wanted(u)] # Null
      BY <1>0, <3>1, MakeCells
    <3>3. pos' = pos
      BY <3>1 DEF MakePage
    <3> QED
      BY <3>1, <3>2, <3>3 DEF Reached, Wanted
  <2> QED
    BY <1>0, <1>3, <2>1, <2>2, Bystander
<1>4. ASSUME NEW u \in Threads, pc'[u] \in Holding
      PROVE  (Reached(pos[u]))' /\ page'[u] = (page_indexes[Wanted(u)])'
  <2>0. PICK p \in Nat : p = pos'[u]
    BY <1>0 DEF TypeOK
  <2>1. CASE pc[u] \in Holding /\ pos'[u] = pos[u] /\ page'[u] = page[u]
    BY <1>2, <2>0, <2>1 DEF Wanted
  <2>2. CASE Own(u)
    <3>1. \/ WriteMsg(u) /\ u \in Producers
          \/ SetFlag(u) /\ u \in Producers
          \/ ReadSlot(u)
          \/ ReadAgain(u)
      <4>1. ASSUME Push(u) \/ CountWrite(u) \/ Get(u) \/ ReadCell(u)
            PROVE  \E label \in Labels \ Holding : Goto(u, label)
        BY <4>1 DEF Push, CountWrite, Get, ReadCell, Return, Labels, Holding
      <4>2. ASSUME ReadCount(u) \/ Lock(u) \/ PublishCount(u) \/ PublishTable(u) \/ MakePage(u)
            PROVE  (\E label \in Labels \ Holding : Goto(u, label)) \/ (pc[u] \notin Holding /\ pc' = pc)
        BY <4>2 DEF ReadCount, Lock, PublishCount, PublishTable, MakePage, Labels, Holding
      <4>3. \A label \in Labels \ Holding : ~ Goto(u, label)
        BY <1>0, <1>4, Moves
      <4> QED
        BY <1>4, <2>2, <4>1, <4>2, <4>3 DEF Own, GetMsgPage
    <3>2. CASE WriteMsg(u) \/ SetFlag(u)
      <4>1. pc[u] \in Holding /\ pos' = pos /\ page' = page
        BY <3>2 DEF WriteMsg, SetFlag, Holding
      <4> QED
        BY <2>1, <4>1
    <3>3. CASE ReadSlot(u)
      <4>1. pos' = pos /\ UNCHANGED page_indexes
        BY <3>3 DEF ReadSlot, table
      <4>2. pc[u] = "slot"
        BY <3>3 DEF ReadSlot
      <4>3. Goto(u, "lock") => pc'[u] = "lock"
        BY <1>0, Moves DEF Labels
      <4>4. Wanted(u) \in DOMAIN page_indexes /\ page_indexes[Wanted(u)] # Null
            /\ page' = [page EXCEPT ![u] = page_indexes[Wanted(u)]]
        BY <1>4, <3>3, <4>2, <4>3 DEF ReadSlot, Holding
      <4>5. page'[u] = page_indexes[Wanted(u)]
        BY <1>0, <4>4 DEF TypeOK
      <4> QED
        BY <4>1, <4>4, <4>5 DEF Reached, Wanted
    <3>4. CASE ReadAgain(u)
      <4>1. pos' = pos /\ UNCHANGED page_indexes /\ pc[u] = "again"
        BY <3>4 DEF ReadAgain, table
      <4>2. page'[u] = page_indexes[Wanted(u)]
        BY <1>0, <3>4 DEF ReadAgain, TypeOK
      <4>3. Reached(pos[u])
        BY <1>0, <4>1 DEF PageInv
      <4> QED
        BY <4>1, <4>2, <4>3 DEF Reached, Wanted
    <3> QED
      BY <3>1, <3>2, <3>3, <3>4
  <2> QED
    BY <1>0, <1>4, <2>1, <2>2, Bystander
<1> QED
  BY <1>1, <1>3, <1>4 DEF PageInv

LEMMA NextCellInv == ASSUME IInv, Next PROVE CellInv'
<1>0. TypeOK /\ PageInv /\ CellInv /\ PosInv /\ TypeOK'
  BY NextTypeOK DEF IInv
<1>1. ASSUME NEW p \in Nat, (Reached(p))', (CellOf(p))'.flag = 1
      PROVE  p < post_index' /\ (CellOf(p))'.msg = pushed'[p + 1]
  <2>1. ASSUME p < post_index, (CellOf(p))'.msg = pushed[p + 1]
        PROVE  p < post_index' /\ (CellOf(p))'.msg = pushed'[p + 1]
    BY <2>1, HistoryStep
  <2>2. CASE Reached(p) /\ (CellOf(p))' = CellOf(p)
    BY <1>0, <1>1, <2>1, <2>2 DEF CellInv
  <2>3. CASE Reached(p) /\ p < post_index /\ (CellOf(p))' = [CellOf(p) EXCEPT !.msg = pushed[p + 1]]
    <3>1. CellOf(p) \in Cell
      BY <1>0, <2>3, ReachedFacts
    <3> QED
      BY <2>1, <2>3, <3>1 DEF Cell
  <2>4. ASSUME NEW t \in Producers, pc[t] = "flag", pos[t] = p, Reached(p),
               (CellOf(p))' = [CellOf(p) EXCEPT !.flag = 1]
        PROVE  p < post_index' /\ (CellOf(p))'.msg = pushed'[p + 1]
    <3>1. CellOf(p) \in Cell
      BY <1>0, <2>4, ReachedFacts
    <3>2. p < post_index /\ CellOf(p).msg = pushed[p + 1]
      BY <1>0, <2>4 DEF CellInv, PosInv
    <3>3. (CellOf(p))'.msg = CellOf(p).msg
      BY <2>4, <3>1 DEF Cell
    <3> QED
      BY <2>1, <3>2, <3>3
  <2> QED
    BY <1>1, <2>2, <2>3, <2>4, CellsStep
<1>2. ASSUME NEW u \in Producers, NEW label \in {"flag", "written"}, pc'[u] = label, Own(u)
      PROVE  (label = "flag" /\ WriteMsg(u)) \/ (label = "written" /\ SetFlag(u))
  <2>1. ASSUME Push(u) \/ CountWrite(u)
        PROVE  \E l \in Labels \ {"flag", "written"} : Goto(u, l)
    BY <2>1 DEF Push, CountWrite, Return, Labels
  <2>2. \A l \in Labels : Goto(u, l) => l = label
    BY <1>0, <1>2, Moves, ThreadFacts
  <2>3. CASE GetMsgPage(u)
    <3>1. pc[u] \notin {"flag", "written"}
      BY <2>3, PageStep, ThreadFacts
    <3>2. pc' = pc \/ \E l \in Labels \ {"flag", "written"} : Goto(u, l)
      BY <2>3, PageStep, ThreadFacts
    <3> QED
      BY <1>2, <2>2, <3>1, <3>2
  <2>4. CASE Push(u) \/ CountWrite(u)
    BY <1>2, <2>1, <2>2, <2>4
  <2>5. CASE WriteMsg(u) \/ SetFlag(u)
    BY <1>2, <2>2, <2>5 DEF WriteMsg, SetFlag, Labels
  <2> QED
    BY <1>2, <2>3, <2>4, <2>5, ThreadFacts DEF Own
<1>3. ASSUME NEW u \in Producers, pc'[u] = "flag"
      PROVE  (CellOf(pos[u]).msg)' = (pushed[pos[u] + 1])'
  <2>0. PICK p \in Nat : p = pos[u]
    BY <1>0, TableFacts, ThreadFacts
  <2>1. CASE pc[u] = "flag" /\ pos'[u] = pos[u]
    <3>1. Reached(p) /\ CellOf(p).msg = pushed[p + 1] /\ p < post_index
      BY <1>0, <2>0, <2>1, ThreadFacts DEF PageInv, CellInv, PosInv, Holding
    <3>2. CellOf(p) \in Cell
      BY <1>0, <3>1, ReachedFacts
    <3>3. (CellOf(p))'.msg = pushed[p + 1]
      <4>1. \/ (CellOf(p))' = CellOf(p)
            \/ (CellOf(p))' = [CellOf(p) EXCEPT !.msg = pushed[p + 1]]
            \/ (CellOf(p))' = [CellOf(p) EXCEPT !.flag = 1]
        BY <3>1, CellsStep
      <4> QED
        BY <3>1, <3>2, <4>1 DEF Cell
    <3>4. pushed'[p + 1] = pushed[p + 1]
      BY <3>1, HistoryStep
    <3> QED
      BY <2>0, <2>1, <3>3, <3>4 DEF CellOf
  <2>2. CASE WriteMsg(u)
    <3>1. pc[u] = "cell" /\ pos' = pos /\ pushed' = pushed /\ Reached(p)
      BY <2>0, <2>2, StoreStep DEF WriteMsg
    <3>2. CellOf(p) \in Cell
      BY <1>0, <3>1, ReachedFacts
    <3>3. (CellOf(p))' = [CellOf(p) EXCEPT !.msg = pushed[p + 1]]
      BY <2>0, <2>2, <3>1, StoreStep
    <3>4. (CellOf(p))'.msg = pushed[p + 1]
      BY <3>2, <3>3 DEF Cell
    <3> QED
      BY <2>0, <3>1, <3>4 DEF CellOf
  <2> QED
    BY <1>0, <1>2, <1>3, <2>1, <2>2, Bystander, ThreadFacts
<1>4. ASSUME NEW u \in Producers, pc'[u] = "written"
      PROVE  (CellOf(pos[u]).flag)' = 1
  <2>0. PICK p \in Nat : p = pos[u]
    BY <1>0, TableFacts, ThreadFacts
  <2>1. CASE pc[u] = "written" /\ pos'[u] = pos[u]
    <3>1. Reached(p) /\ CellOf(p).flag = 1
      BY <1>0, <2>0, <2>1, ThreadFacts DEF PageInv, CellInv, Holding
    <3>2. (CellOf(p))'.flag = 1
      BY <3>1, CellsStep
    <3> QED
      BY <2>0, <2>1, <3>2 DEF CellOf
  <2>2. CASE SetFlag(u)
    <3>1. pc[u] = "flag" /\ pos' = pos /\ Reached(p)
      BY <2>0, <2>2, StoreStep DEF SetFlag
    <3>2. CellOf(p) \in Cell
      BY <1>0, <3>1, ReachedFacts
    <3>3. (CellOf(p))' = [CellOf(p) EXCEPT !.flag = 1]
      BY <2>0, <2>2, <3>1, StoreStep
    <3>4. (CellOf(p))'.flag = 1
      BY <3>2, <3>3 DEF Cell
    <3> QED
      BY <2>0, <3>1, <3>4 DEF CellOf
  <2> QED
    BY <1>0, <1>2, <1>4, <2>1, <2>2, Bystander, ThreadFacts
<1> QED
  BY <1>1, <1>3, <1>4 DEF CellInv

LEMMA NextGotInv == ASSUME IInv, Next PROVE GotInv'
<1>0. TypeOK /\ PageInv /\ CellInv /\ GotInv /\ OrderedInv
  BY DEF IInv
<1>1. ASSUME NEW g \in Getters, got'[g] = got[g]
      PROVE  (got[g].pos >= 0)' =>
                \/ (got[g].pos < post_index /\ got[g].msg = pushed[got[g].pos + 1])'
                \/ (got[g].msg = NoValue /\ together)'
  <2>1. got[g].pos \in Nat \cup {-1}
    BY <1>0 DEF TypeOK
  <2> QED
    BY <1>0, <1>1, <2>1, HistoryStep DEF GotInv
<1>2. ASSUME NEW g \in Getters, ReadCell(g)
      PROVE  GotInv'
  <2>1. PICK p \in Nat : p = pos[g]
    BY <1>0, TableFacts, ThreadFacts
  <2>2. pc[g] = "cell" /\ UNCHANGED <<post_index, pushed, together>>
    BY <1>2 DEF ReadCell, counters
  <2>3. Reached(p) /\ page[g] = page_indexes[PageOf(p)]
    BY <1>0, <2>1, <2>2, ThreadFacts DEF PageInv, Holding, Wanted
  <2>4. got' = [got EXCEPT ![g] = [pos |-> p, msg |-> IF CellOf(p).flag = 1 THEN CellOf(p).msg
                                                                          ELSE NoValue]]
    BY <1>2, <2>1, <2>3 DEF ReadCell, CellOf
  <2>5. CellOf(p).flag = 1 => p < post_index /\ CellOf(p).msg = pushed[p + 1]
    BY <1>0, <2>3 DEF CellInv
  <2>6. CellOf(p).flag # 1 => together
    BY <1>0, <2>1, <2>2 DEF OrderedInv, GetInv, CountedInv
  <2>7. got'[g] = [pos |-> p, msg |-> IF CellOf(p).flag = 1 THEN CellOf(p).msg ELSE NoValue]
        /\ \A h \in Getters : h # g => got'[h] = got[h]
    BY <1>0, <2>4 DEF TypeOK
  <2>8. /\ got'[g].pos = p
        /\ got'[g].msg = IF CellOf(p).flag = 1 THEN CellOf(p).msg ELSE NoValue
    BY <2>7
  <2>9. \/ got'[g].pos < post_index /\ got'[g].msg = pushed[got'[g].pos + 1]
        \/ got'[g].msg = NoValue /\ together
    BY <2>5, <2>6, <2>8
  <2> QED
    BY <1>1, <2>2, <2>7, <2>9 DEF GotInv
<1>3. CASE UNCHANGED got
  BY <1>1, <1>3 DEF GotInv
<1> QED
  BY <1>2, <1>3, HistoryStep

-----------------------------------------------------------------------------
(* Pushes done one after the other. *)

\* The thread that grows the table pushes the first position of the next page.
LEMMA NextPage ==
    ASSUME IInv, ~ together, NEW t \in Producers, pc[t] # "idle"
    PROVE  Wanted(t) \in Nat /\ Wanted(t) <= page_index_count
<1>0. TypeOK /\ OneInv /\ CountedInv
  BY DEF IInv, OrderedInv
<1>1. PICK p \in Nat : p = pos[t] /\ p = write_index
  BY <1>0, TableFacts, ThreadFacts DEF OneInv
<1>2. page_index_count \in Nat \ {0}
  BY <1>0, TableFacts
<1>3. CASE p = 0
  BY <1>1, <1>2, <1>3, Address DEF Wanted
<1>4. CASE p # 0
  <2>1. PICK k \in Nat : p = k + 1
    <3>1. p - 1 \in Nat /\ p = (p - 1) + 1
      BY <1>4
    <3> QED
      BY <3>1
  <2>2. Reached(k)
    BY <1>0, <1>1, <2>1 DEF CountedInv
  <2>3. PageOf(k) < page_index_count /\ PageOf(k) \in Nat
    BY <1>0, <2>2, ReachedFacts, Address
  <2>4. PageOf(p) <= PageOf(k) + 1 /\ PageOf(p) \in Nat
    BY <2>1, Address
  <2> QED
    BY <1>1, <1>2, <2>3, <2>4 DEF Wanted
<1> QED
  BY <1>3, <1>4

\* Nobody looks past the end of the table.
LEMMA StaysInTable ==
    ASSUME IInv, ~ together, NEW t \in Threads, pc[t] \in {"slot", "make"}
    PROVE  Wanted(t) \in DOMAIN page_indexes
<1>0. TypeOK /\ TableInv /\ OneInv /\ WithinInv /\ GetInv /\ CountedInv /\ pos[t] \in Nat
  BY TableFacts DEF IInv, OrderedInv
<1>1. CASE t \in Getters
  <2>1. Reached(pos[t])
    BY <1>0, <1>1 DEF GetInv, CountedInv
  <2> QED
    BY <1>0, <2>1, ReachedFacts DEF Wanted
<1>2. CASE t \in Producers
  <2>1. \A u \in Threads : pc[u] # "publish"
    BY <1>0, <1>2 DEF GetInv, OneInv, Threads
  <2>2. DOMAIN page_indexes = 0 .. page_index_count - 1
    BY <1>0, <2>1 DEF TableInv
  <2>3. Wanted(t) < page_index_count /\ Wanted(t) \in Nat /\ page_index_count \in Nat
    BY <1>0, <1>2, TableFacts, Address DEF WithinInv, Wanted
  <2> QED
    BY <2>2, <2>3
<1> QED
  BY <1>1, <1>2 DEF Threads

\* A getter finds its page without the mutex.
LEMMA GetterStep ==
    ASSUME IInv, ~ together, NEW g \in Getters, GetMsgPage(g)
    PROVE  /\ (pc[g] = "count" /\ Goto(g, "slot")) \/ (pc[g] = "slot" /\ Goto(g, "cell"))
           /\ UNCHANGED <<page_index_count, wild>>
<1>0. TypeOK /\ GetInv /\ CountedInv /\ g \in Threads
  BY ThreadFacts DEF IInv, OrderedInv
<1>1. PICK p \in Nat : p = pos[g]
  BY <1>0, TableFacts
<1>2. pc[g] \in {"count", "slot"}
  BY <1>0, PageStep DEF GetInv
<1>3. Reached(p)
  BY <1>0, <1>1, <1>2 DEF GetInv, CountedInv
<1>4. PageOf(p) < page_index_count /\ PageOf(p) \in Nat /\ page_index_count \in Nat
  BY <1>0, <1>3, ReachedFacts, TableFacts, Address
<1>5. CASE pc[g] = "count"
  <2>1. ReadCount(g)
    BY <1>5 DEF GetMsgPage, ReadSlot, Lock, PublishCount, PublishTable, MakePage, ReadAgain
  <2> QED
    BY <1>1, <1>4, <2>1 DEF ReadCount, Wanted, table
<1>6. CASE pc[g] = "slot"
  <2>1. ReadSlot(g)
    BY <1>6 DEF GetMsgPage, ReadCount, Lock, PublishCount, PublishTable, MakePage, ReadAgain
  <2> QED
    BY <1>1, <1>3, <2>1 DEF ReadSlot, Reached, Wanted, table
<1> QED
  BY <1>2, <1>5, <1>6

LEMMA NextOrderedInv == ASSUME IInv, Next PROVE OrderedInv'
<1> SUFFICES ASSUME ~ together' PROVE wild' = "no" /\ (OneInv /\ WithinInv /\ GetInv /\ CountedInv)'
  BY DEF OrderedInv
<1>0. ~ together /\ wild = "no"
  BY HistoryStep, NextCases
<1>1. TypeOK /\ OneInv /\ WithinInv /\ GetInv /\ CountedInv /\ CellInv /\ PageInv /\ LockInv
  BY <1>0 DEF IInv, OrderedInv
<1>2. wild' = "no"
  <2>1. ASSUME NEW t \in Threads, ReadSlot(t) \/ MakePage(t)
        PROVE  wild' = wild
    <3>1. Wanted(t) \in DOMAIN page_indexes
      BY <1>0, <2>1, StaysInTable DEF ReadSlot, MakePage
    <3> QED
      BY <2>1, <3>1 DEF ReadSlot, MakePage
  <2>2. ASSUME NEW t \in Threads,
               Push(t) \/ WriteMsg(t) \/ SetFlag(t) \/ CountWrite(t) \/ Get(t) \/ ReadCell(t)
                 \/ ReadCount(t) \/ Lock(t) \/ PublishCount(t) \/ PublishTable(t) \/ ReadAgain(t)
        PROVE  wild' = wild
    BY <2>2 DEF Push, WriteMsg, SetFlag, CountWrite, Get, ReadCell, ReadCount, Lock, PublishCount,
                PublishTable, ReadAgain, history
  <2> QED
    BY <1>0, <2>1, <2>2, NextCases, ThreadFacts DEF GetMsgPage
<1>3. OneInv' /\ write_index' \in Nat /\ write_index' >= write_index
  <2>0. write_index \in Nat /\ post_index \in Nat /\ pc \in [Threads -> Labels] /\ pos \in [Threads -> Nat]
    BY <1>1 DEF TypeOK, Labels
  <2>1. ASSUME NEW t \in Producers, Push(t)
        PROVE  OneInv' /\ write_index' = write_index
    <3>1. \A u \in Producers : pc[u] = "idle"
      BY <2>1 DEF Push
    <3>2. /\ post_index = write_index /\ post_index' = post_index + 1 /\ write_index' = write_index
          /\ Goto(t, "count") /\ pos' = [pos EXCEPT ![t] = post_index]
      BY <1>1, <2>1, <3>1 DEF Push, OneInv
    <3>3. \A u \in Producers : u # t => pc'[u] = "idle"
      BY <1>1, <3>1, <3>2, Moves, ThreadFacts DEF Labels
    <3>4. pc'[t] = "count" /\ pos'[t] = write_index
      BY <1>1, <2>0, <3>2, Moves, ThreadFacts DEF Labels
    <3> QED
      BY <3>2, <3>3, <3>4 DEF OneInv
  <2>2. ASSUME NEW t \in Producers, CountWrite(t)
        PROVE  OneInv' /\ write_index' = write_index + 1
    <3>1. /\ pc[t] = "written" /\ post_index' = post_index /\ write_index' = write_index + 1
          /\ Goto(t, "idle")
      BY <2>2 DEF CountWrite, Return
    <3>2. post_index = write_index + 1 /\ \A u \in Producers : u # t => pc[u] = "idle"
      BY <1>1, <3>1 DEF OneInv
    <3>3. \A u \in Producers : pc'[u] = "idle"
      BY <1>1, <3>1, <3>2, Moves, ThreadFacts DEF Labels
    <3> QED
      BY <3>1, <3>2, <3>3 DEF OneInv
  <2>3. ASSUME UNCHANGED <<post_index, write_index>>,
               \A u \in Producers : /\ pc'[u] = "idle" <=> pc[u] = "idle"
                                    /\ pc[u] # "idle" => pos'[u] = pos[u]
        PROVE  OneInv'
    BY <1>1, <2>3 DEF OneInv
  <2>4. ASSUME NEW t \in Producers, WriteMsg(t) \/ SetFlag(t)
        PROVE  OneInv' /\ write_index' = write_index
    <3>1. /\ pc[t] # "idle" /\ UNCHANGED <<post_index, write_index, pos>>
          /\ \E label \in Labels \ {"idle"} : Goto(t, label)
      BY <2>4 DEF WriteMsg, SetFlag, counters, Labels
    <3> QED
      BY <1>1, <2>3, <3>1, Moves, ThreadFacts
  <2>5. ASSUME NEW t \in Getters, Get(t) \/ ReadCell(t)
        PROVE  OneInv' /\ write_index' = write_index
    <3>1. UNCHANGED <<post_index, write_index>> /\ \E label \in Labels : Goto(t, label)
      BY <2>5 DEF Get, ReadCell, Return, counters, Labels
    <3>2. \A u \in Producers : pc'[u] = pc[u]
      BY <1>1, <3>1, Moves, ThreadFacts
    <3>3. \A u \in Producers : pos'[u] = pos[u]
      BY <1>1, <2>0, <2>5, ThreadFacts DEF Get, ReadCell, Return
    <3> QED
      BY <2>3, <3>1, <3>2, <3>3
  <2>6. ASSUME NEW t \in Threads, GetMsgPage(t)
        PROVE  OneInv' /\ write_index' = write_index
    <3>1. UNCHANGED <<post_index, write_index, pos>> /\ pc[t] # "idle"
      BY <2>6, PageStep
    <3>2. pc' = pc \/ \E label \in Labels \ {"idle"} : Goto(t, label)
      BY <2>6, PageStep
    <3>3. \A u \in Producers : pc'[u] = "idle" <=> pc[u] = "idle"
      BY <1>1, <3>1, <3>2, Moves, ThreadFacts
    <3> QED
      BY <2>3, <3>1, <3>3
  <2> QED
    BY <2>0, <2>1, <2>2, <2>4, <2>5, <2>6, NextCases
<1>4. WithinInv'
  <2>0. page_index_count \in Nat \ {0}
    BY <1>1, TableFacts
  <2>1. ASSUME NEW u \in Producers, pc'[u] \in {"slot", "publish", "make"}
        PROVE  (Wanted(u))' < page_index_count'
    <3>1. CASE Own(u)
      <4>1. GetMsgPage(u) /\ pos' = pos
        <5>1. ASSUME Push(u) \/ WriteMsg(u) \/ SetFlag(u) \/ CountWrite(u)
              PROVE  \E label \in Labels \ {"slot", "publish", "make"} : Goto(u, label)
          BY <5>1 DEF Push, WriteMsg, SetFlag, CountWrite, Return, Labels
        <5>2. \A label \in Labels \ {"slot", "publish", "make"} : ~ Goto(u, label)
          BY <1>1, <2>1, Moves, ThreadFacts
        <5> QED
          BY <3>1, <5>1, <5>2, PageStep, ThreadFacts DEF Own
      <4>2. PICK w \in Nat : w = Wanted(u) /\ w = (Wanted(u))' /\ w <= page_index_count
        <5>1. pc[u] # "idle"
          BY <4>1, PageStep, ThreadFacts
        <5>2. Wanted(u) \in Nat /\ Wanted(u) <= page_index_count
          BY <1>0, <5>1, NextPage
        <5> QED
          BY <4>1, <5>2 DEF Wanted
      <4>3. CASE ReadCount(u) \/ Lock(u)
        <5>1. page_index_count' = page_index_count
          BY <4>3 DEF ReadCount, Lock, table
        <5>2. Goto(u, "lock") \/ Goto(u, "grow") \/ w < page_index_count
          BY <2>0, <4>2, <4>3 DEF ReadCount, Lock
        <5>3. ~ Goto(u, "lock") /\ ~ Goto(u, "grow")
          BY <1>1, <2>1, Moves, ThreadFacts DEF Labels
        <5> QED
          BY <4>2, <5>1, <5>2, <5>3
      <4>4. CASE PublishCount(u)
        <5>1. PICK e \in Doublings(w) : page_index_count' = e
          BY <4>2, <4>4 DEF PublishCount
        <5>2. e \in Int /\ e >= 2 * page_index_count
          BY <2>0, <4>2, <5>1 DEF Doublings
        <5> QED
          BY <2>0, <4>2, <5>1, <5>2
      <4>5. CASE PublishTable(u) \/ MakePage(u) \/ ReadSlot(u)
        <5>1. page_index_count' = page_index_count /\ pc[u] \in {"slot", "publish", "make"}
          BY <4>5 DEF PublishTable, MakePage, ReadSlot, table
        <5> QED
          BY <1>1, <4>2, <5>1 DEF WithinInv
      <4>6. CASE ReadAgain(u)
        BY <1>1, <2>1, <4>6, Moves, ThreadFacts DEF ReadAgain, Labels
      <4> QED
        BY <4>1, <4>3, <4>4, <4>5, <4>6 DEF GetMsgPage
    <3>2. CASE ~ Own(u)
      <4>1. pc'[u] = pc[u] /\ pos'[u] = pos[u]
        BY <1>1, <3>2, Bystander, ThreadFacts
      <4>2. page_index_count' = page_index_count
        <5>1. ASSUME NEW t \in Producers, GetMsgPage(t)
              PROVE  FALSE
          <6>1. t # u
            BY <3>2, <5>1 DEF Own
          <6>2. pc[t] # "idle" /\ pc[u] # "idle"
            BY <2>1, <4>1, <5>1, PageStep, ThreadFacts
          <6> QED
            BY <1>1, <6>1, <6>2 DEF OneInv
        <5>2. ASSUME NEW t \in Getters, GetMsgPage(t)
              PROVE  page_index_count' = page_index_count
          BY <1>0, <5>2, GetterStep
        <5>3. ASSUME NEW t \in Threads,
                     Push(t) \/ WriteMsg(t) \/ SetFlag(t) \/ CountWrite(t) \/ Get(t) \/ ReadCell(t)
              PROVE  page_index_count' = page_index_count
          BY <5>3 DEF Push, WriteMsg, SetFlag, CountWrite, Get, ReadCell, table
        <5> QED
          BY <5>1, <5>2, <5>3, NextCases, ThreadFacts DEF Threads
      <4> QED
        BY <1>1, <2>1, <4>1, <4>2 DEF WithinInv, Wanted
    <3> QED
      BY <3>1, <3>2
  <2> QED
    BY <2>1 DEF WithinInv
<1>5. GetInv'
  <2>1. ASSUME NEW g \in Getters
        PROVE  /\ pc'[g] \in {"idle", "count", "slot", "cell"}
               /\ pc'[g] # "idle" => pos'[g] < write_index'
    <3>0. g \in Threads /\ write_index \in Nat /\ pos[g] \in Nat /\ pos \in [Threads -> Nat]
      BY <1>1, ThreadFacts DEF TypeOK
    <3>1. CASE ~ Own(g)
      <4>1. pc'[g] = pc[g] /\ pos'[g] = pos[g]
        BY <1>1, <3>0, <3>1, Bystander
      <4> QED
        BY <1>1, <1>3, <3>0, <4>1 DEF GetInv
    <3>2. CASE Get(g)
      <4>1. PICK p \in 0 .. write_index - 1 : pos' = [pos EXCEPT ![g] = p]
        BY <3>2 DEF Get
      <4>2. pos'[g] = p /\ Goto(g, "count")
        BY <3>0, <3>2, <4>1 DEF Get
      <4>3. pc'[g] = "count"
        BY <1>1, <3>0, <4>2, Moves DEF Labels
      <4>4. p < write_index
        BY <3>0, <4>1
      <4> QED
        BY <1>3, <3>0, <4>1, <4>2, <4>3, <4>4
    <3>3. CASE ReadCell(g)
      <4>1. pc'[g] = "idle"
        BY <1>1, <3>0, <3>3, Moves DEF ReadCell, Return, Labels
      <4> QED
        BY <4>1
    <3>4. CASE GetMsgPage(g)
      <4>1. pos' = pos /\ pc[g] # "idle"
        BY <3>0, <3>4, PageStep
      <4>2. pc'[g] \in {"slot", "cell"}
        BY <1>0, <1>1, <3>0, <3>4, GetterStep, Moves DEF Labels
      <4> QED
        BY <1>1, <1>3, <3>0, <4>1, <4>2 DEF GetInv
    <3> QED
      BY <3>1, <3>2, <3>3, <3>4, ThreadFacts DEF Own
  <2> QED
    BY <2>1 DEF GetInv
<1>6. CountedInv'
  <2>1. ASSUME NEW k \in Nat, k < write_index'
        PROVE  (Reached(k))' /\ (CellOf(k))'.flag = 1
    <3>1. CASE k < write_index
      BY <1>1, <3>1, CellsStep DEF CountedInv
    <3>2. CASE ~ (k < write_index)
      <4>0. write_index \in Nat
        BY <1>1 DEF TypeOK
      <4>1. ASSUME NEW t \in Threads,
                   Push(t) \/ WriteMsg(t) \/ SetFlag(t) \/ Get(t) \/ ReadCell(t) \/ GetMsgPage(t)
            PROVE  write_index' = write_index
        BY <4>1, PageStep DEF Push, WriteMsg, SetFlag, Get, ReadCell, counters
      <4>2. PICK t \in Producers : CountWrite(t)
        BY <2>1, <3>2, <4>1, NextCases, ThreadFacts
      <4>3. pc[t] = "written" /\ write_index' = write_index + 1
        BY <4>2 DEF CountWrite
      <4>4. k = pos[t]
        BY <1>1, <2>1, <3>2, <4>0, <4>3 DEF OneInv
      <4>5. Reached(k) /\ CellOf(k).flag = 1
        BY <1>1, <4>3, <4>4, ThreadFacts DEF PageInv, CellInv, Holding
      <4> QED
        BY <4>5, CellsStep
    <3> QED
      BY <3>1, <3>2
  <2> QED
    BY <2>1 DEF CountedInv
<1> QED
  BY <1>2, <1>3, <1>4, <1>5, <1>6

-----------------------------------------------------------------------------
LEMMA InitIInv == Init => IInv
<1> SUFFICES ASSUME Init PROVE IInv
  OBVIOUS
<1>0. /\ post_index = 0 /\ write_index = 0 /\ page_index_count = InitPages
      /\ page_indexes = [i \in 0 .. InitPages - 1 |-> IF i = 0 THEN 1 ELSE Null]
      /\ heap = <<EmptyPage>> /\ mutex = None /\ pushed = <<>>
      /\ got = [g \in Getters |-> [pos |-> -1, msg |-> NoValue]]
      /\ together = FALSE /\ wild = "no"
  BY DEF Init
<1>1. /\ \A t \in Threads : pc[t] = "idle" /\ pos[t] = 0 /\ page[t] = Null
      /\ pc \in [Threads -> Labels] /\ pos \in [Threads -> Nat] /\ page \in [Threads -> {Null}]
  BY DEF Init, Labels
<1>2. InitPages \in Nat \ {0}
  BY PagesAssumption
<1>3. EmptyPage \in [Offsets -> Cell] /\ \A o \in Offsets : EmptyPage[o].flag = 0
  BY DEF EmptyPage, Cell
<1>4. heap \in Seq([Offsets -> Cell]) /\ Len(heap) = 1 /\ heap[1] = EmptyPage
  BY <1>0, <1>3
<1>5. page_indexes \in [0 .. InitPages - 1 -> 0 .. 1]
  BY <1>0, <1>2 DEF Null
<1>6. TypeOK
  <2>1. \E n \in 1 .. page_index_count : page_indexes \in [0 .. n - 1 -> 0 .. Len(heap)]
    BY <1>0, <1>2, <1>4, <1>5
  <2>2. pushed \in Seq(Values) /\ got \in [Getters -> [pos : Nat \cup {-1}, msg : Values \cup {NoValue}]]
    BY <1>0
  <2>3. page \in [Threads -> 0 .. Len(heap)]
    BY <1>1, <1>4 DEF Null
  <2> QED
    BY <1>0, <1>1, <1>2, <1>4, <2>1, <2>2, <2>3 DEF TypeOK, Labels
<1>7. \A i \in DOMAIN page_indexes : page_indexes[i] # Null => i = 0 /\ page_indexes[i] = 1
  BY <1>0 DEF Null
<1>8. ASSUME NEW p \in Nat, Reached(p)
      PROVE  CellOf(p).flag = 0
  BY <1>3, <1>4, <1>7, <1>8, Address DEF Reached, CellOf
<1>9. PosInv /\ LockInv
  BY <1>0, <1>1, ThreadFacts DEF PosInv, LockInv, Inside
<1>10. TableInv
  BY <1>0, <1>1, <1>5 DEF TableInv
<1>11. PageInv
  BY <1>1, <1>7 DEF PageInv, Holding
<1>12. CellInv
  BY <1>1, <1>8, ThreadFacts DEF CellInv
<1>13. GotInv
  BY <1>0 DEF GotInv
<1>14. OrderedInv
  BY <1>0, <1>1, ThreadFacts DEF OrderedInv, OneInv, WithinInv, GetInv, CountedInv
<1> QED
  BY <1>6, <1>9, <1>10, <1>11, <1>12, <1>13, <1>14 DEF IInv

LEMMA NextIInv == IInv /\ [Next]_vars => IInv'
<1> SUFFICES ASSUME IInv, [Next]_vars PROVE IInv'
  OBVIOUS
<1>1. CASE Next
  BY <1>1, NextTypeOK, NextPosInv, NextLockInv, NextTableInv, NextPageInv, NextCellInv, NextGotInv,
     NextOrderedInv DEF IInv
<1>2. CASE UNCHANGED vars
  <2> USE <1>2 DEF vars, counters, table, history
  <2>1. TypeOK'
    BY DEF IInv, TypeOK
  <2>2. PosInv' /\ LockInv' /\ TableInv'
    BY DEF IInv, PosInv, LockInv, TableInv, Copy
  <2>3. PageInv'
    BY DEF IInv, PageInv, Reached, Wanted
  <2>4. CellInv'
    BY DEF IInv, CellInv, Reached, CellOf
  <2>5. GotInv'
    BY DEF IInv, GotInv
  <2>6. OrderedInv'
    BY DEF IInv, OrderedInv, OneInv, WithinInv, GetInv, CountedInv, Reached, CellOf, Wanted
  <2> QED
    BY <2>1, <2>2, <2>3, <2>4, <2>5, <2>6 DEF IInv
<1> QED
  BY <1>1, <1>2

LEMMA InvariantHolds == Spec => []IInv
BY InitIInv, NextIInv, PTL DEF Spec

\* Nobody looks past the end of the table while pushes are done one after the other (lines
\* 322 to 331 publish the size of a new table before the table).
THEOREM TableTheorem == Spec => []InTable
<1>1. IInv => InTable
  BY DEF IInv, OrderedInv, InTable
<1> QED
  BY <1>1, InvariantHolds, PTL

\* What get returns was pushed at the position it was asked for; it returns nothing only if
\* pushes overlapped (lines 257 to 270).
THEOREM GetTheorem == Spec => []GetFinds
<1>1. IInv => GetFinds
  BY DEF IInv, GotInv, GetFinds
<1> QED
  BY <1>1, InvariantHolds, PTL

-----------------------------------------------------------------------------
(***************************************************************************)
(* The queue implements the log.  Two pushes under way have different      *)
(* positions; the flag of a position is set once, by the push that has it; *)
(* and write_index counts the positions that are flagged and whose push is *)
(* not just before its count.                                              *)
(***************************************************************************)
Flagged(p) == Reached(p) /\ CellOf(p).flag = 1
Counted == {i \in 1 .. post_index :
              /\ Flagged(i - 1)
              /\ \A t \in Producers : pc[t] = "written" => pos[t] # i - 1}

PushInv ==
    /\ \A t, u \in Producers :
          pc[t] # "idle" /\ pc[u] # "idle" /\ pos[t] = pos[u] => t = u
    /\ \A t \in Producers : pc[t] \notin {"idle", "written"} => ~ Flagged(pos[t])
    /\ Cardinality(Counted) = write_index

\* What a place holds is what was pushed there, from the moment its flag is set.
LEMMA HeldIs ==
    ASSUME IInv, NEW p \in Nat
    PROVE  /\ Held(p) = IF Flagged(p) THEN pushed[p + 1] ELSE NoValue
           /\ Flagged(p) => p < post_index /\ pushed[p + 1] \in Values
           /\ Held(p) # NoValue <=> Flagged(p)
<1>1. Held(p) = IF Flagged(p) THEN pushed[p + 1] ELSE NoValue
  BY DEF IInv, CellInv, Held, Flagged
<1>2. ASSUME Flagged(p)
      PROVE  p < post_index /\ pushed[p + 1] \in Values
  <2>1. p < post_index
    BY <1>2 DEF IInv, CellInv, Flagged
  <2>2. pushed \in Seq(Values) /\ Len(pushed) = post_index /\ post_index \in Nat
    BY DEF IInv, TypeOK, PosInv
  <2> QED
    BY <2>1, <2>2, ElementOfSeq
<1> QED
  BY <1>1, <1>2, ValuesAssumption

\* The steps that set no flag: a page that is made has none, and message and flag are
\* stored apart.
LEMMA FlagsStay ==
    ASSUME IInv, Next, \A t \in Producers : ~ SetFlag(t), NEW p \in Nat
    PROVE  (Flagged(p))' = Flagged(p)
<1>0. TypeOK
  BY DEF IInv
<1>1. ASSUME (Reached(p))' = Reached(p), Reached(p) => (CellOf(p))'.flag = CellOf(p).flag
      PROVE  (Flagged(p))' = Flagged(p)
  BY <1>1 DEF Flagged
<1>2. ASSUME UNCHANGED <<page_indexes, heap>>
      PROVE  (Flagged(p))' = Flagged(p)
  BY <1>1, <1>2, SameCells
<1>3. ASSUME NEW t \in Producers, WriteMsg(t)
      PROVE  (Flagged(p))' = Flagged(p)
  <2>1. (Reached(p))' = Reached(p)
    BY <1>3, StoreStep
  <2>2. CASE p # pos[t]
    BY <1>1, <1>3, <2>1, <2>2, StoreStep
  <2>3. CASE p = pos[t]
    <3>1. Reached(p) /\ pc[t] = "cell"
      BY <1>3, <2>3, StoreStep DEF WriteMsg
    <3>2. (CellOf(p))' = [CellOf(p) EXCEPT !.msg = pushed[p + 1]]
      BY <1>3, <2>3, <3>1, StoreStep
    <3>3. CellOf(p) \in Cell
      BY <1>0, <3>1, ReachedFacts
    <3>4. (CellOf(p))'.flag = CellOf(p).flag
      BY <3>2, <3>3 DEF Cell
    <3> QED
      BY <1>1, <2>1, <3>4
  <2> QED
    BY <2>2, <2>3
<1>4. ASSUME NEW t \in Threads, PublishTable(t)
      PROVE  (Flagged(p))' = Flagged(p)
  BY <1>1, <1>4, PublishCells
<1>5. ASSUME NEW t \in Threads, MakePage(t), Wanted(t) \in DOMAIN page_indexes
      PROVE  (Flagged(p))' = Flagged(p)
  <2>1. /\ Reached(p) => (Reached(p))' /\ (CellOf(p))' = CellOf(p)
        /\ (Reached(p))' /\ ~ Reached(p) => (CellOf(p))'.flag = 0
    BY <1>0, <1>5, MakeCells
  <2> QED
    BY <2>1 DEF Flagged
<1>6. ASSUME NEW t \in Threads, MakePage(t), Wanted(t) \notin DOMAIN page_indexes
      PROVE  UNCHANGED <<page_indexes, heap>>
  BY <1>6 DEF MakePage
<1>7. ASSUME NEW t \in Threads,
             Push(t) \/ CountWrite(t) \/ Get(t) \/ ReadCell(t) \/ ReadCount(t) \/ ReadSlot(t) \/ Lock(t)
                     \/ PublishCount(t) \/ ReadAgain(t)
      PROVE  UNCHANGED <<page_indexes, heap>>
  BY <1>7 DEF Push, CountWrite, Get, ReadCell, ReadCount, ReadSlot, Lock, PublishCount, ReadAgain, table
<1> QED
  BY <1>2, <1>3, <1>4, <1>5, <1>6, <1>7, NextCases, ThreadFacts DEF GetMsgPage

\* The store of the flag flags the position of the push, and no other.
LEMMA FlagIsSet ==
    ASSUME IInv, NEW t \in Producers, SetFlag(t), NEW p \in Nat
    PROVE  (Flagged(p))' <=> Flagged(p) \/ p = pos[t]
<1>1. (Reached(p))' = Reached(p)
  BY StoreStep
<1>2. CASE p # pos[t]
  BY <1>1, <1>2, StoreStep DEF Flagged
<1>3. CASE p = pos[t]
  <2>1. Reached(p) /\ pc[t] = "flag"
    BY <1>3, StoreStep DEF SetFlag
  <2>2. (CellOf(p))' = [CellOf(p) EXCEPT !.flag = 1] /\ CellOf(p) \in Cell
    BY <1>3, <2>1, StoreStep, ReachedFacts DEF IInv
  <2>3. (CellOf(p))'.flag = 1
    BY <2>2 DEF Cell
  <2> QED
    BY <1>1, <1>3, <2>1, <2>3 DEF Flagged
<1> QED
  BY <1>2, <1>3

LEMMA InitPushInv == Init => PushInv
<1> SUFFICES ASSUME Init PROVE PushInv
  OBVIOUS
<1>1. \A t \in Producers : pc[t] = "idle"
  BY ThreadFacts DEF Init
<1>2. post_index = 0 /\ write_index = 0
  BY DEF Init
<1>3. Counted = {}
  BY <1>2 DEF Counted
<1> QED
  BY <1>1, <1>2, <1>3, FS_EmptySet DEF PushInv

\* The counted positions are finitely many.
LEMMA CountedFinite == ASSUME IInv PROVE IsFiniteSet(Counted)
<1>1. post_index \in Int /\ Counted \in SUBSET (1 .. post_index)
  BY DEF IInv, TypeOK, Counted
<1>2. IsFiniteSet(1 .. post_index)
  BY <1>1, 1 \in Int, FS_Interval
<1> QED
  BY <1>1, <1>2, FS_Subset

\* Steps after which every push is where it was, as far as its position and its count go.
LEMMA PushesStay ==
    ASSUME IInv, PushInv, UNCHANGED <<post_index, write_index>>,
           \A p \in Nat : (Flagged(p))' = Flagged(p),
           \A u \in Producers : /\ pos'[u] = pos[u]
                                /\ pc'[u] = "idle" <=> pc[u] = "idle"
                                /\ pc'[u] = "written" <=> pc[u] = "written"
    PROVE  PushInv' /\ Counted' = Counted
<1>1. \A u \in Producers : pos[u] \in Nat
  BY ThreadFacts, TableFacts DEF IInv
<1>2. \A i \in 1 .. post_index : i - 1 \in Nat
  BY DEF IInv, TypeOK
<1>3. Counted' = Counted
  BY <1>1, <1>2 DEF Counted
<1>4. ASSUME NEW u \in Producers, pc'[u] \notin {"idle", "written"}
      PROVE  ~ (Flagged(pos[u]))'
  <2>1. PICK p \in Nat : p = pos[u] /\ p = pos'[u]
    BY <1>1
  <2>2. ~ Flagged(p) /\ ~ (Flagged(p))'
    BY <1>4, <2>1 DEF PushInv
  <2> QED
    BY <2>1, <2>2 DEF Flagged, Reached, CellOf
<1> QED
  BY <1>3, <1>4 DEF PushInv

\* A push begins with a position that no other push has and that is not flagged.
LEMMA PushBegins ==
    ASSUME IInv, PushInv, Next, NEW t \in Producers, Push(t)
    PROVE  PushInv'
<1>1. /\ pc[t] = "idle" /\ pos' = [pos EXCEPT ![t] = post_index] /\ post_index' = post_index + 1
      /\ write_index' = write_index /\ Goto(t, "count")
  BY DEF Push
<1>2. TypeOK /\ PosInv /\ t \in Threads /\ post_index \in Nat
  BY ThreadFacts DEF IInv, TypeOK
<1>3. pc'[t] = "count" /\ pos'[t] = post_index
  BY <1>1, <1>2, Moves DEF TypeOK, Labels
<1>4. \A u \in Producers : u # t => pc'[u] = pc[u] /\ pos'[u] = pos[u]
  BY <1>1, <1>2, Moves, ThreadFacts DEF TypeOK, Labels
<1>5. \A u \in Producers : pos[u] \in Nat /\ (pc[u] # "idle" => pos[u] < post_index)
  BY <1>2, ThreadFacts, TableFacts DEF PosInv
<1>6. \A u \in Producers : ~ SetFlag(u)
  <2>1. ASSUME NEW u \in Producers, SetFlag(u)
        PROVE  FALSE
    BY <1>1, <1>2, <2>1 DEF SetFlag, counters
  <2> QED
    BY <2>1
<1>7. \A p \in Nat : (Flagged(p))' = Flagged(p)
  BY <1>6, FlagsStay
<1>8. ~ Flagged(post_index)
  BY <1>2, HeldIs
<1>9. \A u, w \in Producers : pc'[u] # "idle" /\ pc'[w] # "idle" /\ pos'[u] = pos'[w] => u = w
  BY <1>2, <1>3, <1>4, <1>5 DEF PushInv
<1>10. ASSUME NEW u \in Producers, pc'[u] \notin {"idle", "written"}
       PROVE  ~ (Flagged(pos[u]))'
  <2>1. PICK p \in Nat : p = pos'[u]
    BY <1>2, <1>3, <1>4, <1>5
  <2>2. ~ Flagged(p)
    BY <1>3, <1>4, <1>8, <1>10, <2>1 DEF PushInv
  <2>3. ~ (Flagged(p))'
    BY <1>7, <2>2
  <2> QED
    BY <2>1, <2>3 DEF Flagged, Reached, CellOf
<1>11. Counted' = Counted
  <2>1. ASSUME NEW i \in 1 .. post_index + 1
        PROVE  i \in Counted' <=> i \in Counted
    <3>1. i - 1 \in Nat
      BY <1>2
    <3>2. PICK p \in Nat : p = i - 1
      BY <3>1
    <3>3. Flagged(p) => p < post_index
      BY HeldIs
    <3>4. (Flagged(p))' = Flagged(p)
      BY <1>7
    <3>5. (\A u \in Producers : pc'[u] = "written" => pos'[u] # p)
            <=> (\A u \in Producers : pc[u] = "written" => pos[u] # p)
      BY <1>1, <1>3, <1>4
    <3>6. p < post_index => i \in 1 .. post_index
      BY <1>2, <3>2
    <3>7. i \in Counted' <=> (Flagged(p))' /\ \A u \in Producers : pc'[u] = "written" => pos'[u] # p
      BY <1>1, <3>2 DEF Counted
    <3>8. i \in Counted <=> i \in 1 .. post_index /\ Flagged(p)
                            /\ \A u \in Producers : pc[u] = "written" => pos[u] # p
      BY <3>2 DEF Counted
    <3> QED
      BY <3>3, <3>4, <3>5, <3>6, <3>7, <3>8
  <2>2. Counted \subseteq 1 .. post_index + 1 /\ Counted' \subseteq 1 .. post_index + 1
    BY <1>1, <1>2 DEF Counted
  <2> QED
    BY <2>1, <2>2
<1> QED
  BY <1>1, <1>9, <1>10, <1>11 DEF PushInv

\* The push that sets its flag is not counted before, and not yet counted after.
LEMMA PushFlags ==
    ASSUME IInv, PushInv, NEW t \in Producers, SetFlag(t)
    PROVE  PushInv'
<1>1. /\ pc[t] = "flag" /\ pos' = pos /\ UNCHANGED <<post_index, write_index>> /\ Goto(t, "written")
  BY DEF SetFlag, counters
<1>2. TypeOK /\ t \in Threads /\ post_index \in Nat /\ \A u \in Producers : pos[u] \in Nat
  BY ThreadFacts, TableFacts DEF IInv, TypeOK
<1>3. pc'[t] = "written" /\ \A u \in Producers : u # t => pc'[u] = pc[u]
  BY <1>1, <1>2, Moves, ThreadFacts DEF Labels
<1>4. \A p \in Nat : (Flagged(p))' <=> Flagged(p) \/ p = pos[t]
  BY FlagIsSet
<1>5. ~ Flagged(pos[t])
  BY <1>1 DEF PushInv
<1>6. \A u, w \in Producers : pc'[u] # "idle" /\ pc'[w] # "idle" /\ pos'[u] = pos'[w] => u = w
  BY <1>1, <1>3 DEF PushInv
<1>7. ASSUME NEW u \in Producers, pc'[u] \notin {"idle", "written"}
      PROVE  ~ (Flagged(pos[u]))'
  <2>1. PICK p \in Nat : p = pos[u] /\ p = pos'[u]
    BY <1>1, <1>2
  <2>2. u # t /\ pc[u] \notin {"idle", "written"}
    BY <1>3, <1>7
  <2>3. p # pos[t] /\ ~ Flagged(p)
    BY <1>1, <2>1, <2>2 DEF PushInv
  <2>4. ~ (Flagged(p))'
    BY <1>4, <2>3
  <2> QED
    BY <2>1, <2>4 DEF Flagged, Reached, CellOf
<1>8. Counted' = Counted
  <2>1. ASSUME NEW i \in 1 .. post_index
        PROVE  i \in Counted' <=> i \in Counted
    <3>1. PICK p \in Nat : p = i - 1
      BY <1>2
    <3>2. i \in Counted' <=> (Flagged(p))' /\ \A u \in Producers : pc'[u] = "written" => pos'[u] # p
      BY <1>1, <3>1 DEF Counted
    <3>3. i \in Counted <=> Flagged(p) /\ \A u \in Producers : pc[u] = "written" => pos[u] # p
      BY <3>1 DEF Counted
    <3>4. CASE p = pos[t]
      BY <1>1, <1>3, <1>5, <3>2, <3>3, <3>4
    <3>5. CASE p # pos[t]
      <4>1. (Flagged(p))' <=> Flagged(p)
        BY <1>4, <3>5
      <4> QED
        BY <1>1, <1>3, <3>2, <3>3, <3>5, <4>1
    <3> QED
      BY <3>4, <3>5
  <2> QED
    BY <1>1, <2>1 DEF Counted
<1> QED
  BY <1>1, <1>6, <1>7, <1>8 DEF PushInv

\* The count makes the flagged position a counted one.
LEMMA PushCounts ==
    ASSUME IInv, PushInv, Next, NEW t \in Producers, CountWrite(t)
    PROVE  PushInv' /\ pos[t] + 1 \notin Counted /\ pos[t] + 1 \in 1 .. post_index /\ Flagged(pos[t])
<1>1. /\ pc[t] = "written" /\ post_index' = post_index /\ write_index' = write_index + 1
      /\ Goto(t, "idle") /\ pos' = [pos EXCEPT ![t] = 0]
  BY DEF CountWrite, Return
<1>2. TypeOK /\ t \in Threads /\ post_index \in Nat /\ \A u \in Producers : pos[u] \in Nat
  BY ThreadFacts, TableFacts DEF IInv, TypeOK
<1>3. pc'[t] = "idle" /\ \A u \in Producers : u # t => pc'[u] = pc[u] /\ pos'[u] = pos[u]
  BY <1>1, <1>2, Moves, ThreadFacts DEF TypeOK, Labels
<1>4. \A u \in Producers : ~ SetFlag(u)
  <2>1. ASSUME NEW u \in Producers, SetFlag(u)
        PROVE  FALSE
    <3>1. write_index \in Nat /\ write_index' = write_index
      BY <1>2, <2>1 DEF SetFlag, counters, TypeOK
    <3> QED
      BY <1>1, <3>1
  <2> QED
    BY <2>1
<1>5. \A p \in Nat : (Flagged(p))' = Flagged(p)
  BY <1>4, FlagsStay
<1>6. Flagged(pos[t]) /\ pos[t] + 1 \in 1 .. post_index
  <2>1. Flagged(pos[t])
    BY <1>1, <1>2 DEF IInv, PageInv, CellInv, Holding, Flagged
  <2>2. pos[t] < post_index
    BY <1>1 DEF IInv, PosInv
  <2> QED
    BY <1>2, <2>1, <2>2
<1>7. pos[t] + 1 \notin Counted
  <2>1. (pos[t] + 1) - 1 = pos[t]
    BY <1>2
  <2> QED
    BY <1>1, <2>1 DEF Counted
<1>8. Counted' = Counted \cup {pos[t] + 1}
  <2>1. ASSUME NEW i \in 1 .. post_index
        PROVE  i \in Counted' <=> i \in Counted \/ i = pos[t] + 1
    <3>1. PICK p \in Nat : p = i - 1 /\ (p = pos[t] <=> i = pos[t] + 1)
      BY <1>2
    <3>2. i \in Counted' <=> Flagged(p) /\ \A u \in Producers : pc'[u] = "written" => pos'[u] # p
      BY <1>1, <1>5, <3>1 DEF Counted
    <3>3. i \in Counted <=> Flagged(p) /\ \A u \in Producers : pc[u] = "written" => pos[u] # p
      BY <3>1 DEF Counted
    <3>4. CASE p = pos[t]
      <4>1. \A u \in Producers : pc'[u] = "written" => pos'[u] # p
        BY <1>1, <1>3, <3>4 DEF PushInv
      <4> QED
        BY <1>6, <3>1, <3>2, <3>4, <4>1
    <3>5. CASE p # pos[t]
      <4>1. (\A u \in Producers : pc'[u] = "written" => pos'[u] # p)
              <=> (\A u \in Producers : pc[u] = "written" => pos[u] # p)
        BY <1>3, <3>5
      <4> QED
        BY <3>1, <3>2, <3>3, <3>5, <4>1
    <3> QED
      BY <3>4, <3>5
  <2>2. Counted \subseteq 1 .. post_index /\ Counted' \subseteq 1 .. post_index
    BY <1>1 DEF Counted
  <2> QED
    BY <1>6, <2>1, <2>2
<1>9. Cardinality(Counted') = write_index'
  <2>1. IsFiniteSet(Counted) /\ Cardinality(Counted) = write_index
    BY CountedFinite DEF PushInv
  <2> QED
    BY <1>1, <1>7, <1>8, <2>1, FS_AddElement
<1>10. \A u, w \in Producers : pc'[u] # "idle" /\ pc'[w] # "idle" /\ pos'[u] = pos'[w] => u = w
  BY <1>3 DEF PushInv
<1>11. ASSUME NEW u \in Producers, pc'[u] \notin {"idle", "written"}
       PROVE  ~ (Flagged(pos[u]))'
  <2>1. u # t /\ pc[u] \notin {"idle", "written"} /\ pos'[u] = pos[u]
    BY <1>3, <1>11
  <2>2. PICK p \in Nat : p = pos[u] /\ p = pos'[u]
    BY <1>2, <2>1
  <2>3. ~ (Flagged(p))'
    BY <1>5, <2>1, <2>2 DEF PushInv
  <2> QED
    BY <2>2, <2>3 DEF Flagged, Reached, CellOf
<1> QED
  BY <1>6, <1>7, <1>9, <1>10, <1>11 DEF PushInv

\* A step other than the three above changes no push and no flag; a store of a message alone
\* flags nothing.
LEMMA OthersStay ==
    ASSUME IInv, PushInv, [Next]_vars,
           \A t \in Producers : ~ Push(t) /\ ~ SetFlag(t) /\ ~ CountWrite(t)
    PROVE  /\ UNCHANGED <<post_index, write_index, pushed>>
           /\ \A p \in Nat : (Flagged(p))' = Flagged(p)
           /\ PushInv'
<1>0. TypeOK /\ pos \in [Threads -> Nat]
  BY DEF IInv, TypeOK
<1>1. CASE UNCHANGED vars
  <2>1. UNCHANGED <<post_index, write_index, pushed, page_indexes, heap, pos, pc>>
    BY <1>1 DEF vars, counters, table, history
  <2>2. \A p \in Nat : (Flagged(p))' = Flagged(p)
    BY <2>1, SameCells DEF Flagged
  <2> QED
    BY <2>1, <2>2, PushesStay
<1>2. CASE Next
  <2>1. \A p \in Nat : (Flagged(p))' = Flagged(p)
    BY <1>2, FlagsStay
  <2>2. ASSUME UNCHANGED <<post_index, write_index, pushed>>,
               \A u \in Producers : /\ pos'[u] = pos[u]
                                    /\ pc'[u] = "idle" <=> pc[u] = "idle"
                                    /\ pc'[u] = "written" <=> pc[u] = "written"
        PROVE  /\ UNCHANGED <<post_index, write_index, pushed>>
               /\ PushInv'
    BY <2>1, <2>2, PushesStay
  <2>3. ASSUME NEW t \in Producers, WriteMsg(t)
        PROVE  UNCHANGED <<post_index, write_index, pushed>> /\ PushInv'
    <3>1. /\ UNCHANGED <<post_index, write_index, pushed, pos>> /\ pc[t] = "cell" /\ Goto(t, "flag")
      BY <2>3 DEF WriteMsg, counters, history
    <3> QED
      BY <1>0, <2>2, <3>1, Moves, ThreadFacts DEF Labels
  <2>4. ASSUME NEW t \in Getters, Get(t) \/ ReadCell(t)
        PROVE  UNCHANGED <<post_index, write_index, pushed>> /\ PushInv'
    <3>1. UNCHANGED <<post_index, write_index, pushed>> /\ \E label \in Labels : Goto(t, label)
      BY <2>4 DEF Get, ReadCell, Return, counters, history, Labels
    <3>2. \A u \in Producers : pc'[u] = pc[u]
      BY <1>0, <3>1, Moves, ThreadFacts
    <3>3. \A u \in Producers : pos'[u] = pos[u]
      BY <1>0, <2>4, ThreadFacts DEF Get, ReadCell, Return
    <3> QED
      BY <2>2, <3>1, <3>2, <3>3
  <2>5. ASSUME NEW t \in Threads, GetMsgPage(t)
        PROVE  UNCHANGED <<post_index, write_index, pushed>> /\ PushInv'
    <3>1. /\ UNCHANGED <<post_index, write_index, pushed, pos>> /\ pc[t] \notin {"idle", "written"}
          /\ \E label \in Labels \ {"idle", "written"} : Goto(t, label) \/ pc' = pc
      BY <2>5, PageStep
    <3>2. \A u \in Producers : /\ pc'[u] = "idle" <=> pc[u] = "idle"
                               /\ pc'[u] = "written" <=> pc[u] = "written"
      BY <1>0, <3>1, Moves, ThreadFacts
    <3> QED
      BY <2>2, <3>1, <3>2
  <2> QED
    BY <1>2, <2>1, <2>3, <2>4, <2>5, NextCases
<1> QED
  BY <1>1, <1>2

LEMMA NextPushInv == IInv /\ PushInv /\ [Next]_vars => PushInv'
<1> SUFFICES ASSUME IInv, PushInv, [Next]_vars PROVE PushInv'
  OBVIOUS
<1>1. ASSUME UNCHANGED vars, NEW t \in Producers, Push(t) \/ SetFlag(t) \/ CountWrite(t)
      PROVE  FALSE
  <2>1. pc' = pc /\ pc \in [Threads -> Labels] /\ t \in Threads
    BY <1>1, ThreadFacts DEF IInv, TypeOK, vars, Labels
  <2>2. \E label \in Labels : pc[t] # label /\ Goto(t, label)
    BY <1>1 DEF Push, SetFlag, CountWrite, Return, Labels
  <2> QED
    BY <2>1, <2>2, Moves DEF IInv
<1> QED
  BY <1>1, OthersStay, PushBegins, PushFlags, PushCounts

-----------------------------------------------------------------------------
(* What the log shows, and the steps that change it. *)

LogBar == [i \in 1 .. post_index |-> Held(i - 1)]

LEMMA BarReserve ==
    ASSUME LogBar' = Append(LogBar, NoValue), write_index' = write_index
    PROVE  Log!Next
BY DEF Log!Next, Log!Reserve, LogBar

LEMMA BarFill ==
    ASSUME NEW i \in DOMAIN LogBar, NEW v \in Values, LogBar[i] = NoValue,
           LogBar' = [LogBar EXCEPT ![i] = v], write_index' = write_index
    PROVE  Log!Next
<1>1. Log!Fill
  BY DEF Log!Fill, LogBar
<1> QED
  BY <1>1 DEF Log!Next

\* The instance counts as FiniteSets does.
LEMMA SameCardinality == \A S : Log!Cardinality(S) = Cardinality(S)
BY DEF Log!Cardinality, Cardinality

LEMMA BarCount ==
    ASSUME write_index < Cardinality({i \in DOMAIN LogBar : LogBar[i] # NoValue}),
           write_index' = write_index + 1, LogBar' = LogBar
    PROVE  Log!Next
<1>1. Log!Filled = {i \in DOMAIN LogBar : LogBar[i] # NoValue}
  BY DEF Log!Filled, LogBar
<1>2. write_index < Log!Cardinality(Log!Filled) /\ UNCHANGED LogBar
  BY <1>1, SameCardinality
<1>3. Log!Count
  BY <1>2 DEF Log!Count, LogBar
<1> QED
  BY <1>3 DEF Log!Next

LEMMA BarInit == Init => Log!Init
<1> SUFFICES ASSUME Init PROVE Log!Init
  OBVIOUS
<1>1. post_index = 0 /\ write_index = 0
  BY DEF Init
<1>2. LogBar = <<>>
  BY <1>1 DEF LogBar
<1> QED
  BY <1>1, <1>2 DEF Log!Init, LogBar

\* What the log holds at every place.
BarFacts ==
    /\ post_index \in Nat /\ LogBar \in Seq(Values \cup {NoValue}) /\ Len(LogBar) = post_index
    /\ \A p \in Nat : p < post_index =>
          LogBar[p + 1] = IF Flagged(p) THEN pushed[p + 1] ELSE NoValue

LEMMA BarShape == IInv => BarFacts
<1> SUFFICES ASSUME IInv PROVE BarFacts
  OBVIOUS
<1>1. post_index \in Nat
  BY DEF IInv, TypeOK
<1>2. ASSUME NEW i \in 1 .. post_index
      PROVE  Held(i - 1) \in Values \cup {NoValue}
  BY <1>1, HeldIs
<1>3. LogBar \in Seq(Values \cup {NoValue}) /\ Len(LogBar) = post_index
  BY <1>1, <1>2 DEF LogBar
<1>4. ASSUME NEW p \in Nat, p < post_index
      PROVE  LogBar[p + 1] = IF Flagged(p) THEN pushed[p + 1] ELSE NoValue
  <2>1. p + 1 \in 1 .. post_index /\ (p + 1) - 1 = p
    BY <1>1, <1>4
  <2>2. LogBar[p + 1] = Held(p)
    BY <2>1 DEF LogBar
  <2> QED
    BY <2>2, HeldIs
<1> QED
  BY <1>1, <1>3, <1>4 DEF BarFacts

\* Sequences that agree everywhere are equal.
LEMMA SameEntries ==
    ASSUME NEW S, NEW q \in Seq(S), NEW r \in Seq(S), Len(q) = Len(r),
           \A i \in 1 .. Len(q) : q[i] = r[i]
    PROVE  q = r
BY SeqEqual

\* A push takes the next place: line 255 is Reserve.
LEMMA PushReserves ==
    ASSUME IInv, Next, BarFacts, BarFacts', NEW t \in Producers, Push(t)
    PROVE  Log!Next
<1> DEFINE S == Values \cup {NoValue}
<1>1. /\ post_index' = post_index + 1 /\ write_index' = write_index
      /\ \E v \in Values : pushed' = Append(pushed, v)
  BY DEF Push
<1>2. post_index \in Nat /\ pushed \in Seq(Values) /\ Len(pushed) = post_index
  BY DEF IInv, TypeOK, PosInv
<1>3. \A u \in Producers : ~ SetFlag(u)
  <2>1. ASSUME NEW u \in Producers, SetFlag(u)
        PROVE  FALSE
    BY <1>1, <1>2, <2>1 DEF SetFlag, counters
  <2> QED
    BY <2>1
<1>4. \A p \in Nat : (Flagged(p))' = Flagged(p)
  BY <1>3, FlagsStay
<1>5. /\ LogBar \in Seq(S) /\ Len(LogBar) = post_index
      /\ LogBar' \in Seq(S) /\ Len(LogBar') = post_index + 1
  BY <1>1 DEF BarFacts
<1>6. /\ Append(LogBar, NoValue) \in Seq(S) /\ Len(Append(LogBar, NoValue)) = post_index + 1
      /\ \A i \in 1 .. post_index : Append(LogBar, NoValue)[i] = LogBar[i]
      /\ Append(LogBar, NoValue)[post_index + 1] = NoValue
  BY <1>2, <1>5, AppendProperties
<1>7. ASSUME NEW i \in 1 .. post_index + 1
      PROVE  LogBar'[i] = Append(LogBar, NoValue)[i]
  <2>1. PICK p \in Nat : i = p + 1 /\ p < post_index'
    BY <1>1, <1>2
  <2>2. LogBar'[i] = IF (Flagged(p))' THEN pushed'[p + 1] ELSE NoValue
    BY <2>1 DEF BarFacts, Flagged, Reached, CellOf
  <2>3. CASE p < post_index
    <3>1. pushed'[p + 1] = pushed[p + 1]
      BY <2>3, HistoryStep
    <3>2. LogBar[i] = IF Flagged(p) THEN pushed[p + 1] ELSE NoValue
      BY <2>1, <2>3 DEF BarFacts
    <3>3. i \in 1 .. post_index
      BY <1>2, <2>1, <2>3
    <3> QED
      BY <1>4, <1>6, <2>2, <3>1, <3>2, <3>3
  <2>4. CASE ~ (p < post_index)
    <3>1. ~ Flagged(p) /\ i = post_index + 1
      BY <1>1, <1>2, <2>1, <2>4, HeldIs
    <3> QED
      BY <1>4, <1>6, <2>2, <3>1
  <2> QED
    BY <2>3, <2>4
<1>8. LogBar' = Append(LogBar, NoValue)
  BY <1>2, <1>5, <1>6, <1>7, SameEntries
<1> QED
  BY <1>1, <1>8, BarReserve

\* The flag makes the message readable: line 259 is Fill.
LEMMA FlagFills ==
    ASSUME IInv, PushInv, BarFacts, BarFacts', NEW t \in Producers, SetFlag(t)
    PROVE  Log!Next
<1> DEFINE S == Values \cup {NoValue}
<1>1. PICK q \in Nat : q = pos[t]
  BY ThreadFacts, TableFacts DEF IInv
<1>2. pc[t] = "flag" /\ UNCHANGED <<post_index, write_index, pushed>>
  BY DEF SetFlag, counters, history
<1>3. /\ post_index \in Nat /\ pushed \in Seq(Values) /\ Len(pushed) = post_index
      /\ q < post_index
  BY <1>1, <1>2 DEF IInv, TypeOK, PosInv
<1>4. q + 1 \in 1 .. post_index /\ pushed[q + 1] \in Values
  BY <1>3, ElementOfSeq
<1>5. \A p \in Nat : (Flagged(p))' <=> Flagged(p) \/ p = q
  BY <1>1, FlagIsSet
<1>6. ~ Flagged(q)
  BY <1>1, <1>2 DEF PushInv
<1>7. /\ LogBar \in Seq(S) /\ Len(LogBar) = post_index
      /\ LogBar' \in Seq(S) /\ Len(LogBar') = post_index
  BY <1>2 DEF BarFacts
<1>8. q + 1 \in DOMAIN LogBar /\ LogBar[q + 1] = NoValue
  BY <1>3, <1>4, <1>6, <1>7 DEF BarFacts
<1> DEFINE v == pushed[q + 1]
           r == [LogBar EXCEPT ![q + 1] = v]
<1>9. /\ r \in Seq(S) /\ Len(r) = post_index
      /\ \A i \in 1 .. post_index : r[i] = IF i = q + 1 THEN v ELSE LogBar[i]
  BY <1>4, <1>7, <1>8, ExceptSeq
<1>10. ASSUME NEW i \in 1 .. post_index
       PROVE  LogBar'[i] = r[i]
  <2>1. PICK p \in Nat : i = p + 1 /\ p < post_index
    BY <1>3
  <2>2. LogBar'[i] = IF (Flagged(p))' THEN pushed[p + 1] ELSE NoValue
    BY <1>2, <2>1 DEF BarFacts, Flagged, Reached, CellOf
  <2>3. LogBar[i] = IF Flagged(p) THEN pushed[p + 1] ELSE NoValue
    BY <2>1 DEF BarFacts
  <2>4. CASE p = q
    BY <1>5, <1>9, <2>1, <2>2, <2>4
  <2>5. CASE p # q
    <3>1. i # q + 1
      BY <2>1, <2>5
    <3> QED
      BY <1>5, <1>9, <2>2, <2>3, <2>5, <3>1
  <2> QED
    BY <2>4, <2>5
<1> HIDE DEF r, v
<1>11. LogBar' = r
  BY <1>7, <1>9, <1>10, SameEntries
<1> QED
  BY <1>2, <1>4, <1>8, <1>11, BarFill DEF r, v

\* size() counts a message that is there and was not counted: line 261 is Count.
LEMMA CountCounts ==
    ASSUME IInv, PushInv, BarFacts, LogBar' = LogBar, Next, NEW t \in Producers, CountWrite(t)
    PROVE  Log!Next
<1> DEFINE F == {i \in DOMAIN LogBar : LogBar[i] # NoValue}
           k == pos[t] + 1
<1>1. k \notin Counted /\ k \in 1 .. post_index /\ Flagged(pos[t])
  BY PushCounts
<1>2. post_index \in Nat /\ DOMAIN LogBar = 1 .. post_index
  BY DEF BarFacts
<1>3. ASSUME NEW i \in 1 .. post_index, Flagged(i - 1)
      PROVE  i \in F
  <2>1. PICK p \in Nat : p = i - 1 /\ i = p + 1 /\ p < post_index
    BY <1>2
  <2>2. LogBar[p + 1] = pushed[p + 1] /\ pushed[p + 1] \in Values
    BY <1>3, <2>1, HeldIs DEF BarFacts
  <2> QED
    BY <1>2, <2>1, <2>2, ValuesAssumption
<1>4. k - 1 = pos[t]
  BY ThreadFacts, TableFacts DEF IInv
<1>5. Counted \cup {k} \in SUBSET F
  BY <1>1, <1>3, <1>4 DEF Counted
<1>6. IsFiniteSet(F)
  <2>1. IsFiniteSet(1 .. post_index)
    BY <1>2, 0 \in Int, 1 \in Int, FS_Interval
  <2>2. F \in SUBSET (1 .. post_index)
    BY <1>2
  <2> QED
    BY <2>1, <2>2, FS_Subset
<1>7. Cardinality(Counted \cup {k}) <= Cardinality(F)
  BY <1>5, <1>6, FS_Subset
<1>8. Cardinality(Counted \cup {k}) = write_index + 1
  BY <1>1, CountedFinite, FS_AddElement DEF PushInv
<1>9. write_index \in Nat /\ Cardinality(F) \in Nat
  BY <1>6, FS_CardinalityType DEF IInv, TypeOK
<1>10. write_index < Cardinality(F)
  BY <1>7, <1>8, <1>9
<1>11. write_index' = write_index + 1
  BY DEF CountWrite
<1> QED
  BY <1>10, <1>11, BarCount

\* Every other step, whatever it does to the table, the pages and the messages that are not
\* flagged yet, changes nothing the log shows.
LEMMA StepsImplement ==
    ASSUME IInv, PushInv, BarFacts, BarFacts', [Next]_vars
    PROVE  [Log!Next]_<<LogBar, write_index>>
<1> DEFINE S == Values \cup {NoValue}
<1>1. ASSUME UNCHANGED <<post_index, pushed>>, \A p \in Nat : (Flagged(p))' = Flagged(p)
      PROVE  LogBar' = LogBar
  <2>1. /\ LogBar \in Seq(S) /\ Len(LogBar) = post_index /\ post_index \in Nat
        /\ LogBar' \in Seq(S) /\ Len(LogBar') = post_index
    BY <1>1 DEF BarFacts
  <2>2. ASSUME NEW i \in 1 .. post_index
        PROVE  LogBar'[i] = LogBar[i]
    <3>1. PICK p \in Nat : i = p + 1 /\ p < post_index
      BY <2>1
    <3>2. LogBar[i] = IF Flagged(p) THEN pushed[p + 1] ELSE NoValue
      BY <3>1 DEF BarFacts
    <3>3. LogBar'[i] = IF (Flagged(p))' THEN pushed'[p + 1] ELSE NoValue
      BY <1>1, <3>1 DEF BarFacts, Flagged, Reached, CellOf
    <3> QED
      BY <1>1, <3>2, <3>3
  <2> QED
    BY <2>1, <2>2, SameEntries
<1>2. CASE UNCHANGED vars
  <2>1. UNCHANGED <<post_index, write_index, pushed, page_indexes, heap>>
    BY <1>2 DEF vars, counters, table, history
  <2> QED
    BY <1>1, <2>1, SameCells DEF Flagged
<1>3. ASSUME Next, NEW t \in Producers, Push(t)
      PROVE  Log!Next
  BY <1>3, PushReserves
<1>4. ASSUME NEW t \in Producers, SetFlag(t)
      PROVE  Log!Next
  BY <1>4, FlagFills
<1>5. ASSUME Next, NEW t \in Producers, CountWrite(t)
      PROVE  Log!Next
  <2>1. UNCHANGED <<post_index, pushed, page_indexes, heap>>
    BY <1>5 DEF CountWrite, table, history
  <2>2. LogBar' = LogBar
    BY <1>1, <2>1, SameCells DEF Flagged
  <2> QED
    BY <1>5, <2>2, CountCounts
<1>6. CASE \A t \in Producers : ~ Push(t) /\ ~ SetFlag(t) /\ ~ CountWrite(t)
  BY <1>1, <1>6, OthersStay
<1> QED
  BY <1>2, <1>3, <1>4, <1>5, <1>6

\* drb_queue is the log its comment promises ("it would never remove message from queue",
\* lines 190 to 193), for any number of threads that push and get: a message that is in stays
\* where it is while the table is replaced and pages are added, and size() never counts more
\* messages than are there. What is undefined in the code ends the model, so the theorem speaks
\* of the steps up to it.
THEOREM LogImplemented == Spec => IsLog
<1>1. Spec => []PushInv
  BY InvariantHolds, InitPushInv, NextPushInv, PTL DEF Spec
<1>2. IInv /\ PushInv /\ BarFacts /\ BarFacts' /\ [Next]_vars => [Log!Next]_<<LogBar, write_index>>
  BY StepsImplement
<1>3. [Log!Next]_<<LogBar, write_index>>
        => [Log!Next]_<<[i \in 1 .. post_index |-> Held(i - 1)], write_index>>
  BY DEF LogBar
<1> QED
  BY <1>1, <1>2, <1>3, BarInit, BarShape, InvariantHolds, PTL DEF Spec, IsLog, Log!Spec
=============================================================================
