------------------------------ MODULE DrbQueue ------------------------------
(***************************************************************************)
(* drb_queue (base/src/mqueue.h, lines 190 to 354): a queue that keeps     *)
(* every message in pages reached through a table of pages, which doubles  *)
(* when a page number does not fit.  Any thread may push; push and get     *)
(* both go through get_msg_page, which looks at the table without the      *)
(* mutex first.                                                            *)
(*                                                                         *)
(* An access outside the table is undefined behaviour: the model records   *)
(* it in "wild" and stops there, since nothing can be said of what follows.*)
(***************************************************************************)
EXTENDS Integers, Sequences, FiniteSets

CONSTANTS
    Producers, Getters,     \* the threads that call push and get
    PageMsgs,               \* page_msg_count_, messages in a page: a power of two
    InitPages,              \* init_page_msg_count, entries of the first table
    Values, NoValue,        \* what is pushed
    MaxPush                 \* bound: how many pushes there are

Threads == Producers \cup Getters
None == "none"
Null == 0                   \* a page is its place in "heap"

ASSUME ThreadsAssumption == Producers \cap Getters = {} /\ None \notin Threads
ASSUME PagesAssumption == PageMsgs \in Nat \ {0} /\ InitPages \in Nat \ {0} /\ MaxPush \in Nat
ASSUME ValuesAssumption == NoValue \notin Values

Offsets == 0 .. PageMsgs - 1
Cell == [msg : Values \cup {NoValue}, flag : {0, 1}]
EmptyPage == [o \in Offsets |-> [msg |-> NoValue, flag |-> 0]]

VARIABLES
    post_index, write_index,
    page_index_count,
    page_indexes,           \* the table in use: entry number -> page
    heap,                   \* the pages allocated so far
    mutex,                  \* the thread inside the lock_guard, or None
    pc,                     \* where each thread is
    pos,                    \* the position each thread pushes to or reads
    page,                   \* the page get_msg_page returned to it
    next,                   \* new_page_indexes of the thread in the mutex
    pushed,                 \* history: the messages of the pushes, in order of position
    got,                    \* history: what each getter's last get returned
    together,               \* history: two pushes have been under way at once
    wild                    \* the access outside the table, if there was one

counters == <<post_index, write_index>>
table == <<page_index_count, page_indexes>>
history == <<pushed, got, together>>
vars == <<counters, table, heap, mutex, pc, pos, page, next, history, wild>>

PageOfWide(p) == p \div (2 * PageMsgs)   \* FAULT: shifted by one bit too many
PageOf(p) == p \div PageMsgs        \* post_index >> page_msg_bits_
OffsetOf(p) == p % PageMsgs         \* post_index & page_msg_mask_
Wanted(t) == PageOf(pos[t])

Goto(t, label) == pc' = [pc EXCEPT ![t] = label]

\* What a call has in its variables ends with it.
Return(t) ==
    /\ Goto(t, "idle")
    /\ pos' = [pos EXCEPT ![t] = 0] /\ page' = [page EXCEPT ![t] = Null]

\* init: the first table and the first page.
Init ==
    /\ post_index = 0 /\ write_index = 0
    /\ page_index_count = InitPages
    /\ page_indexes = [i \in 0 .. InitPages - 1 |-> IF i = 0 THEN 1 ELSE Null]
    /\ heap = <<EmptyPage>>
    /\ mutex = None
    /\ pc = [t \in Threads |-> "idle"] /\ pos = [t \in Threads |-> 0]
    /\ page = [t \in Threads |-> Null]
    /\ next = <<>>
    /\ pushed = <<>> /\ got = [g \in Getters |-> [pos |-> -1, msg |-> NoValue]]
    /\ together = FALSE /\ wild = "no"

-----------------------------------------------------------------------------
(* push and get up to get_msg_page. *)

Push(t) ==
    /\ pc[t] = "idle" /\ post_index < MaxPush
    /\ pos' = [pos EXCEPT ![t] = post_index]
    /\ post_index' = post_index + 1
    /\ \E v \in Values : pushed' = Append(pushed, v)
    /\ together' = (together \/ \E p \in Producers : pc[p] # "idle")
    /\ Goto(t, "count")
    /\ UNCHANGED <<write_index, table, heap, mutex, page, next, got, wild>>

\* A get of a position that write_index_ does not reach returns false and changes nothing.
Get(t) ==
    /\ pc[t] = "idle"
    /\ \E p \in 0 .. write_index - 1 : pos' = [pos EXCEPT ![t] = p]
    /\ Goto(t, "count")
    /\ UNCHANGED <<counters, table, heap, mutex, page, next, history, wild>>

-----------------------------------------------------------------------------
(* get_msg_page: the test without the mutex reads the size of the table, then the table. *)

\* FAULT: the page number that is one too large passes.
ReadCountOver(t) ==
    /\ pc[t] = "count"
    /\ Goto(t, IF Wanted(t) > page_index_count THEN "lock" ELSE "slot")
    /\ UNCHANGED <<counters, table, heap, mutex, pos, page, next, history, wild>>

ReadCount(t) ==
    /\ pc[t] = "count"
    /\ Goto(t, IF Wanted(t) >= page_index_count THEN "lock" ELSE "slot")
    /\ UNCHANGED <<counters, table, heap, mutex, pos, page, next, history, wild>>

ReadSlot(t) ==
    /\ pc[t] = "slot"
    /\ \/ /\ Wanted(t) \notin DOMAIN page_indexes
          /\ wild' = "stale"
          /\ UNCHANGED <<pc, page>>
       \/ /\ Wanted(t) \in DOMAIN page_indexes
          /\ page_indexes[Wanted(t)] = Null
          /\ Goto(t, "lock")
          /\ UNCHANGED <<page, wild>>
       \/ /\ Wanted(t) \in DOMAIN page_indexes
          /\ page_indexes[Wanted(t)] # Null
          /\ page' = [page EXCEPT ![t] = page_indexes[Wanted(t)]]
          /\ Goto(t, "cell")
          /\ UNCHANGED wild
    /\ UNCHANGED <<counters, table, heap, mutex, pos, next, history>>

Lock(t) ==
    /\ pc[t] = "lock" /\ mutex = None
    /\ mutex' = t
    /\ IF Wanted(t) >= page_index_count
       THEN Goto(t, "grow")
       ELSE Goto(t, "make")
    /\ UNCHANGED <<counters, table, heap, pos, page, next, history, wild>>

\* extend_size: the size is doubled, once and then until the page number is not above it.
Doublings(n) ==
    {e \in 2 * page_index_count .. 2 * (page_index_count + n) :
        \E k \in 1 .. n + 1 : e = page_index_count * 2 ^ k}
IsExtendSize(e, n) == n <= e /\ \A d \in Doublings(n) : n <= d => e <= d

\* FAULT: the old table is not copied.
PublishFresh(t) ==
    /\ pc[t] = "grow"
    /\ \E e \in Doublings(Wanted(t)) :
          /\ IsExtendSize(e, Wanted(t))
          /\ next' = [i \in 0 .. e - 1 |-> Null]
          /\ page_index_count' = e
    /\ Goto(t, "publish")
    /\ UNCHANGED <<counters, page_indexes, heap, mutex, pos, page, history, wild>>

\* The new table, a copy of the old one, is ready; its size is published first.
PublishCount(t) ==
    /\ pc[t] = "grow"
    /\ \E e \in Doublings(Wanted(t)) :
          /\ IsExtendSize(e, Wanted(t))
          /\ next' = [i \in 0 .. e - 1 |->
                        IF i < page_index_count THEN page_indexes[i] ELSE Null]
          /\ page_index_count' = e
    /\ Goto(t, "publish")
    /\ UNCHANGED <<counters, page_indexes, heap, mutex, pos, page, history, wild>>

PublishTable(t) ==
    /\ pc[t] = "publish"
    /\ page_indexes' = next /\ next' = <<>>
    /\ Goto(t, "make")
    /\ UNCHANGED <<counters, page_index_count, heap, mutex, pos, page, history, wild>>

\* The second look, the new page if there is none, and the end of the lock_guard.
MakePage(t) ==
    /\ pc[t] = "make"
    /\ \/ /\ Wanted(t) \notin DOMAIN page_indexes
          /\ wild' = "short"
          /\ UNCHANGED <<page_indexes, heap, mutex, pc>>
       \/ /\ Wanted(t) \in DOMAIN page_indexes
          /\ IF page_indexes[Wanted(t)] = Null
             THEN /\ heap' = Append(heap, EmptyPage)
                  /\ page_indexes' = [page_indexes EXCEPT ![Wanted(t)] = Len(heap) + 1]
             ELSE UNCHANGED <<heap, page_indexes>>
          /\ mutex' = None
          /\ Goto(t, "again")
          /\ UNCHANGED wild
    /\ UNCHANGED <<counters, page_index_count, pos, page, next, history>>

\* After the mutex is released the entry is read once more.
ReadAgain(t) ==
    /\ pc[t] = "again"
    /\ page' = [page EXCEPT ![t] = page_indexes[Wanted(t)]]
    /\ Goto(t, "cell")
    /\ UNCHANGED <<counters, table, heap, mutex, pos, next, history, wild>>

-----------------------------------------------------------------------------
(* push and get with the page. *)

\* FAULT: the flag is forgotten.
WriteOnly(t) ==
    /\ pc[t] = "cell"
    /\ heap' = [heap EXCEPT ![page[t]][OffsetOf(pos[t])].msg = pushed[pos[t] + 1]]
    /\ Goto(t, "written")
    /\ UNCHANGED <<counters, table, mutex, pos, page, next, history, wild>>

WriteMsg(t) ==
    /\ pc[t] = "cell"
    /\ heap' = [heap EXCEPT ![page[t]][OffsetOf(pos[t])].msg = pushed[pos[t] + 1]]
    /\ Goto(t, "flag")
    /\ UNCHANGED <<counters, table, mutex, pos, page, next, history, wild>>

SetFlag(t) ==
    /\ pc[t] = "flag"
    /\ heap' = [heap EXCEPT ![page[t]][OffsetOf(pos[t])].flag = 1]
    /\ Goto(t, "written")
    /\ UNCHANGED <<counters, table, mutex, pos, page, next, history, wild>>

CountWrite(t) ==
    /\ pc[t] = "written"
    /\ write_index' = write_index + 1
    /\ Return(t)
    /\ UNCHANGED <<post_index, table, heap, mutex, next, history, wild>>

\* get returns the message if its flag is set, and false otherwise.
ReadCell(t) ==
    /\ pc[t] = "cell"
    /\ LET cell == heap[page[t]][OffsetOf(pos[t])] IN
         got' = [got EXCEPT ![t] = [pos |-> pos[t],
                                    msg |-> IF cell.flag = 1 THEN cell.msg ELSE NoValue]]
    /\ Return(t)
    /\ UNCHANGED <<counters, table, heap, mutex, next, pushed, together, wild>>

-----------------------------------------------------------------------------
GetMsgPage(t) ==
    \/ ReadCount(t) \/ ReadSlot(t) \/ Lock(t) \/ PublishCount(t) \/ PublishTable(t)
    \/ MakePage(t) \/ ReadAgain(t)

Pushing(t) == GetMsgPage(t) \/ WriteMsg(t) \/ SetFlag(t) \/ CountWrite(t)
Getting(t) == GetMsgPage(t) \/ ReadCell(t)

Next ==
    /\ wild = "no"
    /\ \/ \E t \in Producers : Push(t) \/ Pushing(t)
       \/ \E t \in Getters : Get(t) \/ Getting(t)

\* A thread inside push or get goes on until it returns.
Fairness ==
    /\ \A t \in Producers : WF_vars(wild = "no" /\ Pushing(t)) /\ SF_vars(wild = "no" /\ Lock(t))
    /\ \A t \in Getters : WF_vars(wild = "no" /\ Getting(t)) /\ SF_vars(wild = "no" /\ Lock(t))

Spec == Init /\ [][Next]_vars
FairSpec == Spec /\ Fairness

-----------------------------------------------------------------------------
(* Properties. *)

TypeOK ==
    /\ post_index \in Nat /\ write_index \in Nat
    /\ page_index_count \in Nat \ {0}
    /\ \E n \in 1 .. page_index_count : page_indexes \in [0 .. n - 1 -> 0 .. Len(heap)]
    /\ heap \in Seq([Offsets -> Cell])
    /\ mutex \in Threads \cup {None}
    /\ pc \in [Threads -> {"idle", "count", "slot", "lock", "grow", "publish", "make",
                           "again", "cell", "flag", "written"}]
    /\ pos \in [Threads -> Nat] /\ page \in [Threads -> 0 .. Len(heap)]
    /\ pushed \in Seq(Values)
    /\ got \in [Getters -> [pos : Nat \cup {-1}, msg : Values \cup {NoValue}]]
    /\ together \in BOOLEAN /\ wild \in {"no", "stale", "short"}

\* What a get of position p would find in the table of the moment.
Reached(p) == PageOf(p) \in DOMAIN page_indexes /\ page_indexes[PageOf(p)] # Null
CellOf(p) == heap[page_indexes[PageOf(p)]][OffsetOf(p)]
Held(p) == IF Reached(p) /\ CellOf(p).flag = 1 THEN CellOf(p).msg ELSE NoValue

\* What get returns for a position below size() is the message pushed there, while the
\* table grows and other threads push; or nothing, but only if pushes have overlapped: as
\* long as one is done after the other, whoever does them, a position size() counts can be
\* read.
GetFinds ==
    \A g \in Getters : got[g].pos >= 0 =>
        \/ got[g].msg = pushed[got[g].pos + 1]
        \/ got[g].msg = NoValue /\ together

\* Every variable has its type; and as long as one push is done after the other no thread,
\* in push or in get, looks past the end of the table, though getters read its size and the
\* table itself while it grows.
InTable == TypeOK /\ (~ together => wild = "no")

\* Every push is done in the end, and can be read, unless a thread has left the table.
PushIsHeld == \A p \in 0 .. MaxPush - 1 : p < post_index ~> Held(p) # NoValue \/ wild # "no"

\* "it would never remove message from queue": the queue implements the log, in which what a
\* place holds stays there.
Log == INSTANCE DurableLog WITH
         Hole <- NoValue,
         log <- [i \in 1 .. post_index |-> Held(i - 1)],
         size <- write_index
IsLog == Log!Spec
=============================================================================
