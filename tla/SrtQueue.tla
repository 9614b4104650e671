------------------------------ MODULE SrtQueue ------------------------------
(***************************************************************************)
(* srt_queue of base/src/mqueue.h: the queue through which every thread    *)
(* hands work to a cellManager.  A message slot is found through two       *)
(* tables: page_indexes_ (page_index_count_ pointers to pages) and the     *)
(* page (page_msg_count_ slots of a message and a flag).  Pages are        *)
(* allocated on demand by whichever thread needs one first and deleted by  *)
(* the reader after it has read their last slot.                           *)
(*                                                                         *)
(* push runs in any thread, pop in one.  Every access to a variable two    *)
(* threads share is a step of its own; the section under mutex_ in         *)
(* get_msg_page (163-168) is one step, the unlocked test before it and the *)
(* unlocked read after it are two others.  `post_index_ - get_index_' on   *)
(* line 95 reads two volatile variables; the compiled order, left to       *)
(* right, is the modelled one.  The memory is sequentially consistent.     *)
(*                                                                         *)
(* A pointer to a page is modelled by the incarnation of the page the      *)
(* thread got hold of, so that using a page after delete[] is a state TLC  *)
(* and the proofs can speak of.                                            *)
(***************************************************************************)
EXTENDS Integers, Sequences, FiniteSets

CONSTANTS
    Producers,   \* the threads that call push
    Msg,         \* the messages
    PMC,         \* page_msg_count_, 1 << page_msg_bits_
    PIC,         \* page_index_count_, 1 << page_index_bits
    MaxPosts     \* BOUND: no push starts once this many have been accepted

ASSUME ProducersAssumption == IsFiniteSet(Producers)
ASSUME MsgAssumption == Msg # {}
ASSUME PMCAssumption == PMC \in Nat \ {0}
ASSUME PICAssumption == PIC \in Nat \ {0, 1}
ASSUME MaxPostsAssumption == MaxPosts \in Nat

VARIABLES
    post_index,  \* post_index_: the next place to hand out
    get_index,   \* get_index_: the place the reader reads next
    page,        \* what page_indexes_[pi] is: no page, a live one, a deleted one
    gen,         \* how many pages have been allocated for entry pi so far
    slots,       \* the slots of the youngest page of entry pi
    pc,          \* where each producer is in push
    arg,         \* the argument of push
    seen,        \* the value of post_index_ read on line 95
    mine,        \* the place line 99 returned
    ptr,         \* the page get_msg_page returned; 0 is an unusable pointer
    cpc,         \* where the reader is in pop
    cptr,        \* the page get_msg_page returned to the reader
    got,         \* the message pop copied out
    claimed,     \* history: the accepted messages, in the order of line 99
    overrun,     \* history: a place has been handed out beyond the window
    popped       \* history: the messages pop returned

vars == <<post_index, get_index, page, gen, slots, pc, arg, seen, mine, ptr,
          cpc, cptr, got, claimed, overrun, popped>>

-----------------------------------------------------------------------------
(***************************************************************************)
(* The address of a place.                                                 *)
(***************************************************************************)
PageOf(i) == (i \div PMC) % PIC
SlotOf(i) == i % PMC

Pages == 0 .. PIC - 1
Slots == 0 .. PMC - 1

\* srt_message, lines 38-41.
Slot == [msg : Msg, flag : {0, 1}]

\* The number of messages at which push begins to refuse (line 95).
Capacity == (PIC - 1) * PMC

\* The places from the reader's to the end of the last page before the table wraps around:
\* no two of them share a slot.  The next place after them is on the reader's own page.
Window == get_index .. (get_index \div PMC + PIC) * PMC - 1

\* A page after the memset of line 81 or 166; the message in a clear slot is of
\* no importance, nobody reads it.
NoMsg == CHOOSE m \in Msg : TRUE

EmptyPage == [s \in Slots |-> [msg |-> NoMsg, flag |-> 0]]

\* The pointer line 170 returns: usable if the entry holds a live page.
Load(pi) == IF page[pi] = "live" THEN gen[pi] ELSE 0

\* The pointer q to a page of entry pi still points to a live page.
Usable(pi, q) == page[pi] = "live" /\ gen[pi] = q

\* FAULT: one page too late.
LooksFullLate(post, get) == (post - get) \div PMC > PIC - 1
\* line 95: the queue looks full to a thread that read these two values.
LooksFull(post, get) == (post - get) \div PMC >= PIC - 1

\* line 124: place i is the last of its page.
LastSlotEarly(i) == SlotOf(i) = PMC - 2   \* FAULT: one slot too early
LastSlotNever(i) == SlotOf(i) = PMC       \* FAULT: one slot too late
LastSlot(i) == SlotOf(i) = PMC - 1

\* FAULT: no second test under the lock.
AllocUnchecked(pi) ==
    /\ page' = [page EXCEPT ![pi] = "live"]
    /\ gen' = [gen EXCEPT ![pi] = @ + 1]
    /\ slots' = [slots EXCEPT ![pi] = EmptyPage]
\* lines 163-168, under mutex_: allocate unless another thread has.
AllocPage(pi) ==
    IF page[pi] = "null"
    THEN /\ page' = [page EXCEPT ![pi] = "live"]
         /\ gen' = [gen EXCEPT ![pi] = @ + 1]
         /\ slots' = [slots EXCEPT ![pi] = EmptyPage]
    ELSE UNCHANGED <<page, gen, slots>>

heap == <<page, gen, slots>>
consumer == <<cpc, cptr, got, popped, get_index>>

Init ==
    /\ post_index = 0
    /\ get_index = 0
    /\ page = [pi \in Pages |-> IF pi = 0 THEN "live" ELSE "null"]
    /\ gen = [pi \in Pages |-> IF pi = 0 THEN 1 ELSE 0]
    /\ slots = [pi \in Pages |-> EmptyPage]
    /\ pc = [p \in Producers |-> "idle"]
    /\ arg = [p \in Producers |-> NoMsg]
    /\ seen = [p \in Producers |-> 0]
    /\ mine = [p \in Producers |-> 0]
    /\ ptr = [p \in Producers |-> 0]
    /\ cpc = "idle"
    /\ cptr = 0
    /\ got = NoMsg
    /\ claimed = << >>
    /\ overrun = FALSE
    /\ popped = << >>

-----------------------------------------------------------------------------
(***************************************************************************)
(* push.                                                                   *)
(***************************************************************************)
Goto(p, from, to) ==
    /\ pc[p] = from
    /\ pc' = [pc EXCEPT ![p] = to]

\* push returns: its locals are gone.
Return(p) ==
    /\ arg' = [arg EXCEPT ![p] = NoMsg]
    /\ seen' = [seen EXCEPT ![p] = 0]
    /\ mine' = [mine EXCEPT ![p] = 0]
    /\ ptr' = [ptr EXCEPT ![p] = 0]

\* line 95, first operand: read post_index_.
PushStart(p, m) ==
    /\ post_index < MaxPosts
    /\ Goto(p, "idle", "check")
    /\ arg' = [arg EXCEPT ![p] = m]
    /\ seen' = [seen EXCEPT ![p] = post_index]
    /\ UNCHANGED <<post_index, mine, ptr, claimed, overrun, heap, consumer>>

\* lines 95-97: read get_index_; the queue looks full, drop the message.
PushRefuse(p) ==
    /\ LooksFull(seen[p], get_index)
    /\ Goto(p, "check", "idle")
    /\ Return(p)
    /\ UNCHANGED <<post_index, claimed, overrun, heap, consumer>>

\* line 95: read get_index_; there is room.
PushAdmit(p) ==
    /\ ~ LooksFull(seen[p], get_index)
    /\ Goto(p, "check", "claim")
    /\ UNCHANGED <<post_index, arg, seen, mine, ptr, claimed, overrun, heap, consumer>>

\* line 99: base_fetch_and_inc.  Nothing keeps the new place inside the window: the test
\* of line 95 was made earlier, and other threads may have passed it too.
PushClaim(p) ==
    /\ Goto(p, "claim", "look")
    /\ mine' = [mine EXCEPT ![p] = post_index]
    /\ post_index' = post_index + 1
    /\ claimed' = Append(claimed, arg[p])
    /\ overrun' = (overrun \/ post_index \notin Window)
    /\ UNCHANGED <<arg, seen, ptr, heap, consumer>>

\* line 162: the unlocked test of the page pointer.
PushLook(p) ==
    /\ Goto(p, "look", IF page[PageOf(mine[p])] = "null" THEN "alloc" ELSE "load")
    /\ UNCHANGED <<post_index, arg, seen, mine, ptr, claimed, overrun, heap, consumer>>

\* lines 163-168: the locked test, and the allocation.
PushAlloc(p) ==
    /\ Goto(p, "alloc", "load")
    /\ AllocPage(PageOf(mine[p]))
    /\ UNCHANGED <<post_index, arg, seen, mine, ptr, claimed, overrun, consumer>>

\* line 170: the unlocked read of the page pointer.
PushLoad(p) ==
    /\ Goto(p, "load", "write")
    /\ ptr' = [ptr EXCEPT ![p] = Load(PageOf(mine[p]))]
    /\ UNCHANGED <<post_index, arg, seen, mine, claimed, overrun, heap, consumer>>

\* A store through p's pointer.  A store to a deleted page reaches no live one.
Store(p, slot) ==
    LET pi == PageOf(mine[p])
        s == SlotOf(mine[p])
    IN  slots' = IF Usable(pi, ptr[p])
                 THEN [slots EXCEPT ![pi][s] = slot]
                 ELSE slots

SlotAt(p) == slots[PageOf(mine[p])][SlotOf(mine[p])]

\* line 101: store the message.
PushWrite(p) ==
    /\ Goto(p, "write", "flag")
    /\ Store(p, [SlotAt(p) EXCEPT !.msg = arg[p]])
    /\ UNCHANGED <<post_index, arg, seen, mine, ptr, claimed, overrun, page, gen, consumer>>

\* FAULT: the flag is not set.
PushFlagNot(p) ==
    /\ Goto(p, "flag", "idle")
    /\ Return(p)
    /\ UNCHANGED <<post_index, claimed, overrun, page, gen, slots, consumer>>

\* lines 102-105: store the flag, return true.
PushFlag(p) ==
    /\ Goto(p, "flag", "idle")
    /\ Store(p, [SlotAt(p) EXCEPT !.flag = 1])
    /\ Return(p)
    /\ UNCHANGED <<post_index, claimed, overrun, page, gen, consumer>>

Produce(p) ==
    \/ \E m \in Msg : PushStart(p, m)
    \/ PushRefuse(p)
    \/ PushAdmit(p)
    \/ PushClaim(p)
    \/ PushLook(p)
    \/ PushAlloc(p)
    \/ PushLoad(p)
    \/ PushWrite(p)
    \/ PushFlag(p)

-----------------------------------------------------------------------------
(***************************************************************************)
(* pop.                                                                    *)
(***************************************************************************)
producer == <<post_index, pc, arg, seen, mine, ptr, claimed, overrun>>

CGoto(from, to) == cpc = from /\ cpc' = to

\* line 115: something was posted.
PopStart ==
    /\ get_index < post_index
    /\ CGoto("idle", "look")
    /\ UNCHANGED <<cptr, got, popped, get_index, heap, producer>>

\* lines 115-117: nothing was posted, return false.
PopEmpty ==
    /\ get_index >= post_index
    /\ CGoto("idle", "idle")
    /\ UNCHANGED <<cptr, got, popped, get_index, heap, producer>>

\* line 120, 162: the unlocked test of the page pointer.
PopLook ==
    /\ CGoto("look", IF page[PageOf(get_index)] = "null" THEN "alloc" ELSE "load")
    /\ UNCHANGED <<cptr, got, popped, get_index, heap, producer>>

\* line 120, 163-168: the reader itself may allocate the page.
PopAlloc ==
    /\ CGoto("alloc", "load")
    /\ AllocPage(PageOf(get_index))
    /\ UNCHANGED <<cptr, got, popped, get_index, producer>>

\* line 120, 170.
PopLoad ==
    /\ CGoto("load", "read")
    /\ cptr' = Load(PageOf(get_index))
    /\ UNCHANGED <<got, popped, get_index, heap, producer>>

FlagIgnored == 1   \* FAULT: the flag is not tested
\* line 122: the flag as read through cptr.
FlagRead == slots[PageOf(get_index)][SlotOf(get_index)].flag

\* lines 122-124: the flag is set; copy the message out.
PopRead ==
    /\ FlagRead = 1
    /\ CGoto("read", IF LastSlot(get_index) THEN "delete" ELSE "advance")
    /\ got' = slots[PageOf(get_index)][SlotOf(get_index)].msg
    /\ UNCHANGED <<cptr, popped, get_index, heap, producer>>

\* lines 122, 132: the head is claimed but not yet published, return false.
PopUnready ==
    /\ FlagRead # 1
    /\ CGoto("read", "idle")
    /\ cptr' = 0
    /\ UNCHANGED <<got, popped, get_index, heap, producer>>

\* line 125: the last slot of the page was read; delete the page.
PopDelete ==
    /\ CGoto("delete", "null")
    /\ page' = [page EXCEPT ![PageOf(get_index)] = "freed"]
    /\ UNCHANGED <<gen, slots, cptr, got, popped, get_index, producer>>

\* line 126.
PopNull ==
    /\ CGoto("null", "advance")
    /\ page' = [page EXCEPT ![PageOf(get_index)] = "null"]
    /\ UNCHANGED <<gen, slots, cptr, got, popped, get_index, producer>>

\* lines 128-129: advance and return true.
PopAdvance ==
    /\ CGoto("advance", "idle")
    /\ get_index' = get_index + 1
    /\ popped' = Append(popped, got)
    /\ cptr' = 0
    /\ UNCHANGED <<got, heap, producer>>

Consume ==
    \/ PopStart
    \/ PopEmpty
    \/ PopLook
    \/ PopAlloc
    \/ PopLoad
    \/ PopRead
    \/ PopUnready
    \/ PopDelete
    \/ PopNull
    \/ PopAdvance

Next == Consume \/ \E p \in Producers : Produce(p)

Spec == Init /\ [][Next]_vars

(***************************************************************************)
(* Fairness: a thread that entered push or pop goes on, and the reader     *)
(* calls pop again and again (run of cell_manager.cpp:280-300 does, with a *)
(* wait of 1 ms).  Nobody has to start a push.                             *)
(***************************************************************************)
GoOn(p) == Produce(p) /\ pc[p] # "idle"

FairSpec ==
    /\ Spec
    /\ \A p \in Producers : WF_vars(GoOn(p))
    /\ WF_vars(Consume)

-----------------------------------------------------------------------------
(***************************************************************************)
(* Properties.                                                             *)
(***************************************************************************)
\* Between the fetch-and-inc and the store of the flag.
Inside == {"look", "alloc", "load", "write", "flag"}

\* Some push still has to publish place i.
Pending(i) == \E p \in Producers : pc[p] \in Inside /\ mine[p] = i

\* The type of every variable of srt_queue, of push and of pop.
TypeOK ==
    /\ post_index \in Nat
    /\ get_index \in Nat
    /\ page \in [Pages -> {"null", "live", "freed"}]
    /\ gen \in [Pages -> Nat]
    /\ slots \in [Pages -> [Slots -> Slot]]
    /\ pc \in [Producers -> {"idle", "check", "claim"} \cup Inside]
    /\ arg \in [Producers -> Msg]
    /\ seen \in [Producers -> Nat]
    /\ mine \in [Producers -> Nat]
    /\ ptr \in [Producers -> Nat]
    /\ cpc \in {"idle", "look", "alloc", "load", "read", "delete", "null", "advance"}
    /\ cptr \in Nat
    /\ got \in Msg
    /\ claimed \in Seq(Msg)
    /\ overrun \in BOOLEAN
    /\ popped \in Seq(Msg)

\* The test of line 95 and the increment of line 99 are not one step, so threads
\* that passed the test together go beyond the capacity, but by no more than one
\* message for every thread but one, however often each of them pushes.
OvershootBounded ==
    post_index - get_index <= Capacity + Cardinality(Producers) - 1

(***************************************************************************)
(* The other promises hold for any number of producers as long as no place *)
(* has been handed out beyond the window.  Two producers never get there,  *)
(* three do: AcceptedIsKept, which line 87 promises to all, says it        *)
(* without the condition.                                                  *)
(***************************************************************************)
\* pop returns the accepted messages, each once, in the order of line 99: none is
\* lost, duplicated or overtaken.
HandedOverInOrder ==
    ~ overrun =>
        /\ Len(popped) = get_index
        /\ popped = SubSeq(claimed, 1, get_index)

\* A thread that uses the page get_msg_page returned to it (lines 101, 103, 122
\* to 125) uses a page that is not deleted, and is the page of that entry.
HeldPagesAreLive ==
    ~ overrun =>
        /\ \A p \in Producers :
              pc[p] \in {"write", "flag"} => Usable(PageOf(mine[p]), ptr[p])
        /\ cpc \in {"read", "delete"} => Usable(PageOf(get_index), cptr)

\* The message at place i, once published, waits for the reader in its slot.
InPlace(i) ==
    /\ page[PageOf(i)] = "live"
    /\ slots[PageOf(i)][SlotOf(i)] = [msg |-> claimed[i + 1], flag |-> 1]

\* The first place the reader has not done with.
FirstUnread ==
    IF cpc \in {"null", "advance"} THEN get_index + 1 ELSE get_index

\* mqueue.h:87, "push a message, multithread safe": a push that returned true (line 105)
\* has left its message where the reader will find it, whatever other pushes and pops do
\* before the reader comes to it.
AcceptedIsKept ==
    \A i \in FirstUnread .. post_index - 1 : ~ Pending(i) => InPlace(i)

\* The same, of the queue whose places have all been inside the window: a message is lost
\* only after the threads between line 95 and line 99 have filled more than the table.
KeptUnlessOverrun == ~ overrun => AcceptedIsKept

\* No message of the queue is held in memory longer than needed: an entry has a
\* page only for a place between the reader and the last push, or the reader's own.
PagesAreReturned ==
    ~ overrun =>
        \A pi \in Pages :
            page[pi] = "null"
            \/ \E i \in get_index .. post_index : PageOf(i) = pi

\* Every accepted message is popped: every push that took a place comes to publish
\* it, and the reader comes to it; again and again it moves on, or has come to the end.
EveryPlaceIsPopped ==
    \/ []<>(get_index = post_index \/ overrun)
    \/ []<><<get_index' > get_index>>_vars

(***************************************************************************)
(* The inductive invariant.  First the counters, for any number of         *)
(* producers.  A producer is stale for y if the value of post_index_ it    *)
(* read is below y and it has not claimed yet: only those can still claim  *)
(* when y places have been handed out and the reader stands Capacity       *)
(* behind y, and each of them only once.                                   *)
(***************************************************************************)
Stale(y) == {p \in Producers : pc[p] \in {"check", "claim"} /\ seen[p] < y}

CountInv ==
    /\ get_index <= post_index
    /\ cpc # "idle" => get_index < post_index
    /\ \A p \in Producers :
          /\ pc[p] \in {"check", "claim"} => seen[p] <= post_index
          /\ pc[p] = "claim" => seen[p] - get_index < Capacity
    /\ \A y \in get_index + Capacity .. post_index :
          post_index - y + 1 + Cardinality(Stale(y)) <= Cardinality(Producers)

(***************************************************************************)
(* Then the memory, as long as no place beyond the window is handed out.   *)
(***************************************************************************)
ClaimedInv == get_index .. post_index - 1 \subseteq Window

\* The places being pushed to are distinct, and the reader has passed none of them.
PushInv ==
    /\ Len(claimed) = post_index
    /\ \A p \in Producers : pc[p] \in Inside =>
          /\ mine[p] \in get_index .. post_index - 1
          /\ claimed[mine[p] + 1] = arg[p]
          /\ \A q \in Producers \ {p} : pc[q] \in Inside => mine[q] # mine[p]
          /\ pc[p] = "load" => page[PageOf(mine[p])] = "live"
          /\ pc[p] \in {"write", "flag"} => Usable(PageOf(mine[p]), ptr[p])
          /\ pc[p] = "flag" => SlotAt(p).msg = arg[p]

\* Free slots are clear and published messages in place.
SlotInv ==
    /\ \A i \in Window :
          (i >= post_index \/ Pending(i)) /\ page[PageOf(i)] = "live"
             => slots[PageOf(i)][SlotOf(i)].flag = 0
    /\ AcceptedIsKept

\* What the reader has found out about the head of the queue, and done to its page.
PopInv ==
    /\ \A pi \in Pages : page[pi] = "freed" => cpc = "null" /\ pi = PageOf(get_index)
    /\ cpc = "load" => page[PageOf(get_index)] = "live"
    /\ cpc \in {"read", "delete"} => Usable(PageOf(get_index), cptr)
    /\ cpc \in {"delete", "null", "advance"} =>
          ~ Pending(get_index) /\ got = claimed[get_index + 1]
    /\ cpc \in {"delete", "null"} => LastSlot(get_index)
    /\ cpc = "advance" =>
          page[PageOf(get_index)] = IF LastSlot(get_index) THEN "null" ELSE "live"
    /\ Len(popped) = get_index
    /\ \A i \in 1 .. get_index : popped[i] = claimed[i]

\* Everything the promises about the memory rest on.
MemoryInv == PushInv /\ SlotInv /\ PopInv
IInv == TypeOK /\ CountInv /\ ClaimedInv /\ MemoryInv

(***************************************************************************)
(* The queue implements TaskQueue.                                         *)
(***************************************************************************)
Abstract == INSTANCE TaskQueue WITH
    Writers <- Producers,
    Tasks <- Msg,
    Bound <- Capacity + Cardinality(Producers) - 1,
    queue <- [i \in 1 .. post_index - get_index |->
                [task |-> claimed[get_index + i],
                 writing |-> {p \in Producers :
                                pc[p] \in Inside /\ mine[p] = get_index + i - 1}]],
    got <- IF popped = << >> THEN NoMsg ELSE popped[Len(popped)]

\* push and pop are the Reserve, Publish and Take of TaskQueue, seen from outside, up to
\* the step that hands out a place beyond the window.
ImplementsTaskQueue ==
    Abstract!Init /\ [][overrun' \/ [Abstract!Next]_(Abstract!vars)]_vars
=============================================================================
