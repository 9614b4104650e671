-------------------------- MODULE CellManagerProofs -------------------------
(***************************************************************************)
(* Theorems about CellManager, for any number of connections, descriptors, *)
(* senders and messages and for any sizes of queue and ring.               *)
(***************************************************************************)
EXTENDS CellManager, FiniteSetTheorems, SequenceTheorems, TLAPS

-----------------------------------------------------------------------------
(***************************************************************************)
(* The invariant, for whatever descriptors the kernel hands out.           *)
(***************************************************************************)
\* A connection has a cell and a descriptor from accept4 to close; two that are open
\* have different descriptors.
ConnInv ==
    /\ \A c \in Conns :
          /\ sock[c] = "open" => cell[c] = "live" /\ fd[c] \in Fds
          /\ sock[c] = "closed" => cell[c] = "deleted"
          /\ sock[c] \in {"none", "backlog"} => cell[c] = "none" /\ fd[c] = 0
    /\ \A c, d \in Open : fd[c] = fd[d] => c = d

\* The connection the acceptor is at work on; before it stores the cell, nobody knows it.
AcceptorInv ==
    /\ apc # "accept" => acell \in Conns /\ fd[acell] \in Fds
    /\ apc = "insert" => acell \in Open /\ \A f \in Fds : m_Cell[f] # acell

\* m_Cell leads to live cells, except to the one being deleted.
StoredInv ==
    \A f \in Fds : m_Cell[f] # 0 =>
        \/ cell[m_Cell[f]] = "live" /\ m_Cell[f] \in Behind(f)
        \/ cell[m_Cell[f]] = "deleted" /\ mpc = "erase" /\ got.clientid = f

\* Between delete and erase nothing watches the descriptor, though it may have been
\* given out again and its new cell been stored.
EraseInv ==
    mpc = "erase" =>
        /\ got.clientid \in Fds
        /\ \A c \in Conns : fd[c] = got.clientid => interest[c] = {}

\* What epoll watches is open, and only what it watches makes an event.
WatchInv ==
    /\ \A c \in Conns : interest[c] # {} => sock[c] = "open"
    /\ \A c \in listed : interest[c] # {}
    /\ mpc # "events" => batch = {}
    /\ WatchedAreStored

\* A task names a descriptor, and a message that was accepted.
TaskInv ==
    \A i \in DOMAIN queue :
        /\ queue[i].task.clientid \in Fds
        /\ queue[i].task.event = "S" => queue[i].task.msg \in 1 .. sent

\* Senders about to push leave room for their messages.
Pushing == {s \in Senders : spc[s] \in {"find", "push"}}

SenderInv ==
    /\ \A s \in Senders : spc[s] # "idle" => sarg[s] \in Fds
    /\ sent + Cardinality(Pushing) <= MaxSends

\* What c's peer gets if nothing more is put into c's ring.
Stream(c) == wire[c] \o sendBuf[c]

\* Messages are in the order of their numbers: first those of the streams, then those
\* in the queue; no two streams share one.
OrderInv ==
    /\ \A i, j \in DOMAIN queue :
          queue[i].task.event = "S" /\ queue[j].task.event = "S" /\ i < j
             => queue[i].task.msg < queue[j].task.msg
    /\ \A c \in Conns : \A i \in DOMAIN Stream(c) :
          /\ Stream(c)[i] <= sent
          /\ \A j \in DOMAIN Stream(c) : i < j => Stream(c)[i] < Stream(c)[j]
          /\ \A j \in DOMAIN queue :
                queue[j].task.event = "S" => Stream(c)[i] < queue[j].task.msg
          /\ \A d \in Conns \ {c} : \A j \in DOMAIN Stream(d) : Stream(c)[i] # Stream(d)[j]

IInv ==
    /\ TypeOK
    /\ ConnInv
    /\ AcceptorInv
    /\ StoredInv
    /\ EraseInv
    /\ WatchInv
    /\ TaskInv
    /\ SenderInv
    /\ OrderInv

(***************************************************************************)
(* What holds besides until two D tasks for one descriptor are queued.     *)
(***************************************************************************)
Queued(e, f) == \E i \in DOMAIN queue : queue[i].task.event = e /\ queue[i].task.clientid = f

\* A descriptor OnConnect is still to be called for.
Adding(f) == apc \in {"insert", "push"} /\ fd[acell] = f
Fresh(f) == Adding(f) \/ Queued("A", f)

Erasing(f) == mpc = "erase" /\ got.clientid = f

\* The application does not know descriptor f, or is about to be told it has gone.
Unknown(f) == session[f] = 0 \/ Erasing(f)

\* A descriptor has one A task and one D task at most, and never both; it has neither,
\* and the application does not know it, when the kernel may give it out; and a D task
\* finds a cell only if the application knows the descriptor.
OnceInv ==
    /\ \A i \in DOMAIN queue : queue[i].task.event = "D" =>
          queue[i].task = task("D", queue[i].task.clientid, 0)
    /\ \A i, j \in DOMAIN queue :
          /\ queue[i].task.event = queue[j].task.event /\ queue[i].task.event \in {"A", "D"}
          /\ queue[i].task.clientid = queue[j].task.clientid
          => i = j
    /\ \A f \in Fds : ~ (Adding(f) /\ Queued("A", f))
    /\ \A f \in Fds : Fresh(f) => ~ Queued("D", f) /\ Unknown(f) /\ f \notin FreeFds
    /\ \A f \in Fds : Queued("D", f) /\ m_Cell[f] # 0 => session[f] # 0
    /\ \A f \in Fds : Erasing(f) => session[f] # 0 /\ ~ Queued("D", f)
    /\ \A f \in FreeFds : ~ Queued("D", f) /\ Unknown(f)

-----------------------------------------------------------------------------
(***************************************************************************)
(* What the steps do to the queue.                                         *)
(***************************************************************************)
LEMMA QueueType ==
    ASSUME TypeOK
    PROVE  /\ queue \in Seq(TQ!Entry) /\ got \in Task
           /\ Len(queue) \in Nat /\ Len(queue) <= QueueCap
           /\ DOMAIN queue = 1 .. Len(queue)
           /\ \A i \in 1 .. Len(queue) : queue[i] \in TQ!Entry /\ queue[i].task \in Task
<1>1. queue \in Seq(TQ!Entry) /\ got \in Task /\ Len(queue) <= QueueCap
  BY DEF TypeOK, TQ!TypeOK
<1>2. Len(queue) \in Nat /\ DOMAIN queue = 1 .. Len(queue)
  BY <1>1
<1>3. \A i \in 1 .. Len(queue) : queue[i] \in TQ!Entry
  BY <1>1
<1> QED
  BY <1>1, <1>2, <1>3 DEF TQ!Entry

\* A task is put behind those of q.
LEMMA AppendEffect ==
    ASSUME NEW q \in Seq(TQ!Entry), NEW t \in Task, NEW W \in SUBSET Writers
    PROVE  LET r == Append(q, [task |-> t, writing |-> W])
           IN  /\ r \in Seq(TQ!Entry)
               /\ Len(r) = Len(q) + 1
               /\ \A i \in 1 .. Len(q) : r[i] = q[i]
               /\ r[Len(q) + 1].task = t
<1>1. [task |-> t, writing |-> W] \in TQ!Entry
  BY DEF TQ!Entry
<1> QED
  BY <1>1, AppendProperties

\* A push that takes a place.
LEMMA ReserveEffect ==
    ASSUME TypeOK, NEW w \in Writers, NEW t \in Task, TQ!Reserve(w, t)
    PROVE  /\ got' = got
           /\ queue' \in Seq(TQ!Entry)
           /\ Len(queue) < QueueCap
           /\ Len(queue') = Len(queue) + 1
           /\ \A i \in 1 .. Len(queue) : queue'[i] = queue[i]
           /\ queue'[Len(queue) + 1].task = t
BY QueueType, AppendEffect DEF TQ!Reserve

\* The end of a push.
LEMMA PublishEffect ==
    ASSUME TypeOK, NEW w \in Writers, TQ!Publish(w)
    PROVE  /\ got' = got
           /\ queue' \in Seq(TQ!Entry)
           /\ Len(queue') = Len(queue)
           /\ \A i \in 1 .. Len(queue) : queue'[i].task = queue[i].task
<1>1. queue' = [i \in 1 .. Len(queue) |-> [queue[i] EXCEPT !.writing = queue[i].writing \ {w}]]
  BY QueueType DEF TQ!Publish
<1>2. \A i \in 1 .. Len(queue) :
         /\ [queue[i] EXCEPT !.writing = queue[i].writing \ {w}] \in TQ!Entry
         /\ [queue[i] EXCEPT !.writing = queue[i].writing \ {w}].task = queue[i].task
  BY QueueType DEF TQ!Entry
<1>3. queue' \in [1 .. Len(queue) -> TQ!Entry]
  BY <1>1, <1>2
<1>4. queue' \in Seq(TQ!Entry) /\ Len(queue') = Len(queue)
  BY <1>3, QueueType, SeqDef
<1> QED
  BY <1>1, <1>2, <1>4 DEF TQ!Publish

\* The queue without its head.
LEMMA TailEffect ==
    ASSUME TypeOK, TQ!HeadReady
    PROVE  /\ 1 \in DOMAIN queue
           /\ Head(queue) = queue[1] /\ queue[1].task \in Task
           /\ Tail(queue) \in Seq(TQ!Entry)
           /\ Len(Tail(queue)) = Len(queue) - 1
           /\ Len(Tail(queue)) <= QueueCap
           /\ \A i \in 1 .. Len(queue) - 1 : Tail(queue)[i] = queue[i + 1]
<1>1. queue # << >>
  BY DEF TQ!HeadReady
<1>2. Len(queue) >= 1
  BY <1>1, QueueType, EmptySeq
<1>3. Head(queue) = queue[1]
  BY <1>1, QueueType, HeadTailProperties
<1>4. /\ Tail(queue) \in Seq(TQ!Entry)
      /\ Len(Tail(queue)) = Len(queue) - 1
      /\ \A i \in 1 .. Len(Tail(queue)) : Tail(queue)[i] = queue[i + 1]
  BY <1>1, QueueType, HeadTailProperties
<1> QED
  BY <1>2, <1>3, <1>4, QueueType, CapAssumption

\* pop returns true.
LEMMA TakeEffect ==
    ASSUME TypeOK, TQ!Take
    PROVE  /\ 1 \in DOMAIN queue
           /\ got' = queue[1].task /\ got' \in Task
           /\ queue' \in Seq(TQ!Entry)
           /\ Len(queue') = Len(queue) - 1
           /\ Len(queue') <= QueueCap
           /\ \A i \in 1 .. Len(queue') : queue'[i] = queue[i + 1]
BY TailEffect DEF TQ!Take

\* delTask leaves the queue q as it is, or puts a D task behind it.
LEMMA DeletingEffect ==
    ASSUME NEW q \in Seq(TQ!Entry), NEW f \in Fds, Len(q) <= QueueCap
    PROVE  /\ Deleting(q, f) \in Seq(TQ!Entry)
           /\ Len(Deleting(q, f)) <= QueueCap
           /\ \/ Deleting(q, f) = q
              \/ /\ Len(Deleting(q, f)) = Len(q) + 1
                 /\ \A i \in 1 .. Len(q) : Deleting(q, f)[i] = q[i]
                 /\ Deleting(q, f)[Len(q) + 1].task = task("D", f, 0)
<1>1. task("D", f, 0) \in Task
  BY FdsAssumption DEF task, Task
<1>2. Len(q) \in Nat /\ QueueCap \in Nat /\ {} \in SUBSET Writers
  BY CapAssumption
<1>3. CASE Len(q) >= QueueCap
  BY <1>2, <1>3 DEF Deleting
<1>4. CASE Len(q) < QueueCap
  <2>1. Deleting(q, f) = Append(q, [task |-> task("D", f, 0), writing |-> {}])
    BY <1>2, <1>4 DEF Deleting
  <2> QED
    BY <1>1, <1>2, <1>4, <2>1, AppendEffect
<1> QED
  BY <1>2, <1>3, <1>4

-----------------------------------------------------------------------------
(***************************************************************************)
(* Which steps change what.                                                *)
(***************************************************************************)
LEMMA WhoChangesSockets ==
    ASSUME [Next]_vars
    PROVE  /\ UNCHANGED <<sock, fd, cell>> \/ (\E c \in Conns : PeerConnect(c)) \/ Accept \/ HandleDelClose
           /\ UNCHANGED <<apc, acell>> \/ Acceptance
           /\ UNCHANGED m_Cell \/ AddInsert \/ HandleDelErase
BY ZenonT(60)
   DEF Next, Peer, PeerConnect, PeerSend, PeerClose, PeerReset, Acceptance, Accept, AddInsert,
       AddReserve, AddPublish, SendCall, SendGoOn, SendClosed, SendFound, SendReserve,
       SendPublish, Manage, HandleSend, HandleAdd, HandleAddClosed, HandleDelNone, HandleDelClose,
       HandleDelErase, TasksDone, CheckWrite, EpollWait, DoEvent, EventHup, EventSpin, EventIO,
       EventDeletes, EventsDone, vars, kernel, cells, tasks, manager, acceptor, app, history

LEMMA WhoWatches ==
    ASSUME [Next]_vars
    PROVE  /\ UNCHANGED interest \/ HandleAdd \/ HandleDelClose \/ CheckWrite
           /\ UNCHANGED session \/ HandleAdd \/ HandleDelErase
           /\ UNCHANGED mpc \/ HandleDelClose \/ HandleDelErase \/ TasksDone \/ CheckWrite
                            \/ EpollWait \/ EventsDone
           /\ UNCHANGED batch \/ EpollWait \/ DoEvent
           /\ UNCHANGED listed \/ Peer \/ HandleAdd \/ HandleDelClose \/ CheckWrite \/ EpollWait
BY ZenonT(60)
   DEF Next, Peer, PeerConnect, PeerSend, PeerClose, PeerReset, Acceptance, Accept, AddInsert,
       AddReserve, AddPublish, SendCall, SendGoOn, SendClosed, SendFound, SendReserve,
       SendPublish, Manage, HandleSend, HandleAdd, HandleAddClosed, HandleDelNone, HandleDelClose,
       HandleDelErase, TasksDone, CheckWrite, EpollWait, DoEvent, EventHup, EventSpin, EventIO,
       EventDeletes, EventsDone, vars, kernel, cells, tasks, manager, acceptor, app, history

LEMMA WhoSends ==
    ASSUME [Next]_vars
    PROVE  /\ UNCHANGED <<spc, sarg>> \/ \E s \in Senders : SendCall(s) \/ SendGoOn(s)
           /\ UNCHANGED sent \/ \E s \in Senders : SendReserve(s)
           /\ UNCHANGED <<wire, sendBuf>> \/ HandleSend \/ HandleDelClose \/ DoEvent
           /\ \/ UNCHANGED tasks
              \/ AddReserve \/ AddPublish
              \/ \E s \in Senders : SendReserve(s) \/ SendPublish(s)
              \/ HandleSend \/ HandleAdd \/ HandleAddClosed \/ HandleDelNone \/ HandleDelClose
              \/ DoEvent
BY ZenonT(60)
   DEF Next, Peer, PeerConnect, PeerSend, PeerClose, PeerReset, Acceptance, Accept, AddInsert,
       AddReserve, AddPublish, SendCall, SendGoOn, SendClosed, SendFound, SendReserve,
       SendPublish, Manage, HandleSend, HandleAdd, HandleAddClosed, HandleDelNone, HandleDelClose,
       HandleDelErase, TasksDone, CheckWrite, EpollWait, DoEvent, EventHup, EventSpin, EventIO,
       EventDeletes, EventsDone, vars, kernel, cells, tasks, manager, acceptor, app, history

-----------------------------------------------------------------------------
(***************************************************************************)
(* Connections, the acceptor, and m_Cell.                                  *)
(***************************************************************************)
\* The connection a D task closes, whatever its descriptor now stands for.
LEMMA CloseFacts ==
    ASSUME IInv, HandleDelClose
    PROVE  LET c == m_Cell[got'.clientid]
           IN  /\ c \in Open /\ cell[c] = "live" /\ fd[c] = got'.clientid
               /\ got'.clientid \in Fds
               /\ sock' = [sock EXCEPT ![c] = "closed"]
               /\ cell' = [cell EXCEPT ![c] = "deleted"]
               /\ interest' = [interest EXCEPT ![c] = {}]
               /\ listed' = listed \ {c}
               /\ sendBuf' = [sendBuf EXCEPT ![c] = << >>]
               /\ mpc = "task" /\ mpc' = "erase"
               /\ UNCHANGED <<fd, m_Cell, batch, apc, acell, session, wire>>
<1>1. /\ TQ!Take /\ m_Cell[got'.clientid] # 0 /\ mpc = "task"
      /\ UNCHANGED <<fd, m_Cell, batch, apc, acell, session, wire>>
  BY DEF HandleDelClose, acceptor, app
<1>2. got'.clientid \in Fds
  BY <1>1, TakeEffect DEF IInv, TaskInv
<1>3. cell[m_Cell[got'.clientid]] = "live" /\ m_Cell[got'.clientid] \in Behind(got'.clientid)
  BY <1>1, <1>2 DEF IInv, StoredInv
<1> QED
  BY <1>1, <1>2, <1>3 DEF HandleDelClose, Closed, Behind

\* The connection accept4 returns, and its descriptor.
LEMMA AcceptFacts ==
    ASSUME IInv, Accept
    PROVE  \E c \in Conns, f \in FreeFds :
              /\ f \in Fds
              /\ sock[c] = "backlog" /\ fd[c] = 0 /\ cell[c] = "none" /\ c \notin Open
              /\ sock' = [sock EXCEPT ![c] = "open"]
              /\ fd' = [fd EXCEPT ![c] = f]
              /\ cell' = [cell EXCEPT ![c] = "live"]
              /\ acell' = c /\ apc = "accept" /\ apc' = "insert"
              /\ UNCHANGED <<m_Cell, queue, got, mpc, batch, interest, listed, session, sendBuf, wire>>
BY DEF Accept, IInv, ConnInv, FreeFds, Open, tasks, manager, app

LEMMA ConnNext ==
    ASSUME IInv, [Next]_vars
    PROVE  ConnInv'
<1>0. TypeOK /\ ConnInv /\ sock \in [Conns -> {"none", "backlog", "open", "closed"}]
      /\ fd \in [Conns -> Fds \cup {0}] /\ cell \in [Conns -> {"none", "live", "deleted"}]
  BY DEF IInv, TypeOK
<1>1. CASE UNCHANGED <<sock, fd, cell>>
  BY <1>0, <1>1 DEF ConnInv, Open
<1>2. ASSUME NEW c \in Conns, PeerConnect(c)
      PROVE  ConnInv'
  <2>1. /\ sock' = [sock EXCEPT ![c] = "backlog"] /\ sock[c] = "none"
        /\ UNCHANGED <<fd, cell>>
    BY <1>2 DEF PeerConnect, cells
  <2> QED
    BY <1>0, <2>1 DEF ConnInv, Open
<1>3. CASE Accept
  <2>1. PICK c \in Conns, f \in FreeFds :
           /\ f \in Fds
           /\ sock[c] = "backlog" /\ c \notin Open
           /\ sock' = [sock EXCEPT ![c] = "open"]
           /\ fd' = [fd EXCEPT ![c] = f]
           /\ cell' = [cell EXCEPT ![c] = "live"]
    BY <1>3, AcceptFacts
  <2>2. \A d \in Open : fd[d] # f
    BY <2>1 DEF FreeFds, Open
  <2>3. Open' = Open \cup {c}
    BY <1>0, <2>1 DEF Open
  <2>4. \A d, e \in Open' : fd'[d] = fd'[e] => d = e
    BY <1>0, <2>1, <2>2, <2>3 DEF ConnInv, Open
  <2>5. \A d \in Conns :
          /\ sock'[d] = "open" => cell'[d] = "live" /\ fd'[d] \in Fds
          /\ sock'[d] = "closed" => cell'[d] = "deleted"
          /\ sock'[d] \in {"none", "backlog"} => cell'[d] = "none" /\ fd'[d] = 0
    BY <1>0, <2>1 DEF ConnInv
  <2> QED
    BY <2>4, <2>5 DEF ConnInv
<1>4. CASE HandleDelClose
  <2>1. PICK c \in Open : /\ sock' = [sock EXCEPT ![c] = "closed"]
                          /\ cell' = [cell EXCEPT ![c] = "deleted"]
                          /\ fd' = fd
    BY <1>4, CloseFacts
  <2> QED
    BY <1>0, <2>1 DEF ConnInv, Open
<1> QED
  BY <1>1, <1>2, <1>3, <1>4, WhoChangesSockets

LEMMA AcceptorNext ==
    ASSUME IInv, [Next]_vars
    PROVE  AcceptorInv'
<1>0. TypeOK /\ AcceptorInv /\ sock \in [Conns -> {"none", "backlog", "open", "closed"}]
      /\ fd \in [Conns -> Fds \cup {0}] /\ m_Cell \in [Fds -> Conns \cup {0}] /\ 0 \notin Conns
  BY DEF IInv, TypeOK, Conns
<1>1. CASE Accept
  <2>1. PICK c \in Conns, f \in FreeFds :
           /\ f \in Fds
           /\ cell[c] = "none"
           /\ sock' = [sock EXCEPT ![c] = "open"]
           /\ fd' = [fd EXCEPT ![c] = f]
           /\ acell' = c /\ m_Cell' = m_Cell
    BY <1>1, AcceptFacts
  <2>2. \A g \in Fds : m_Cell[g] # c
    BY <1>0, <2>1 DEF IInv, StoredInv
  <2> QED
    BY <1>0, <2>1, <2>2 DEF AcceptorInv, Open
<1>2. CASE AddInsert \/ AddReserve \/ AddPublish
  <2>1. apc # "accept" /\ apc' # "insert" /\ UNCHANGED <<fd, acell>>
    BY <1>2 DEF AddInsert, AddReserve, AddPublish, kernel
  <2> QED
    BY <1>0, <2>1 DEF AcceptorInv
<1>3. ASSUME UNCHANGED <<apc, acell>>, UNCHANGED m_Cell \/ HandleDelErase,
             ~ Accept
      PROVE  AcceptorInv'
  <2>1. apc = "insert" => \A f \in Fds : m_Cell'[f] # acell
    BY <1>0, <1>3 DEF AcceptorInv, HandleDelErase, Erased
  <2>2. apc = "insert" => sock'[acell] = "open"
    <3>1. CASE HandleDelClose
      BY <1>0, <3>1, CloseFacts DEF AcceptorInv, Open
    <3>2. ASSUME NEW c \in Conns, PeerConnect(c)
          PROVE  apc = "insert" => sock'[acell] = "open"
      BY <1>0, <3>2 DEF AcceptorInv, Open, PeerConnect
    <3> QED
      BY <1>0, <1>3, <3>1, <3>2, WhoChangesSockets DEF AcceptorInv, Open
  <2>3. fd' = fd
    BY <1>3, WhoChangesSockets, CloseFacts DEF PeerConnect
  <2> QED
    BY <1>0, <1>3, <2>1, <2>2, <2>3 DEF AcceptorInv, Open
<1>4. CASE ~ Acceptance
  BY <1>3, <1>4, WhoChangesSockets DEF Acceptance
<1> QED
  BY <1>1, <1>2, <1>4 DEF Acceptance

\* The cell a new connection is stored under, and the entry a deleted one leaves.
LEMMA StoredNext ==
    ASSUME IInv, [Next]_vars
    PROVE  StoredInv'
<1>0. /\ TypeOK /\ ConnInv /\ StoredInv /\ EraseInv /\ 0 \notin Conns
      /\ sock \in [Conns -> {"none", "backlog", "open", "closed"}]
      /\ fd \in [Conns -> Fds \cup {0}] /\ cell \in [Conns -> {"none", "live", "deleted"}]
      /\ m_Cell \in [Fds -> Conns \cup {0}]
  BY DEF IInv, TypeOK, Conns
<1>1. \A f \in Fds : m_Cell[f] # 0 =>
         /\ m_Cell[f] \in Conns
         /\ \/ cell[m_Cell[f]] = "live" /\ sock[m_Cell[f]] = "open" /\ fd[m_Cell[f]] = f
            \/ cell[m_Cell[f]] = "deleted" /\ mpc = "erase" /\ got.clientid = f
  BY <1>0 DEF StoredInv, Behind, Open
<1>2. ASSUME \A f \in Fds : m_Cell'[f] # 0 =>
                /\ m_Cell'[f] \in Conns
                /\ \/ cell'[m_Cell'[f]] = "live" /\ sock'[m_Cell'[f]] = "open" /\ fd'[m_Cell'[f]] = f
                   \/ cell'[m_Cell'[f]] = "deleted" /\ mpc' = "erase" /\ got'.clientid = f
      PROVE  StoredInv'
  BY <1>2 DEF StoredInv, Behind, Open
<1>3. CASE HandleDelClose
  <2> DEFINE c == m_Cell[got'.clientid]
  <2>1. /\ c \in Conns /\ fd[c] = got'.clientid /\ got'.clientid \in Fds
        /\ sock' = [sock EXCEPT ![c] = "closed"]
        /\ cell' = [cell EXCEPT ![c] = "deleted"]
        /\ mpc = "task" /\ mpc' = "erase" /\ UNCHANGED <<fd, m_Cell>>
    BY <1>3, CloseFacts DEF Open
  <2> HIDE DEF c
  <2>2. ASSUME NEW f \in Fds, m_Cell'[f] # 0
        PROVE  /\ m_Cell'[f] \in Conns
               /\ \/ cell'[m_Cell'[f]] = "live" /\ sock'[m_Cell'[f]] = "open" /\ fd'[m_Cell'[f]] = f
                  \/ cell'[m_Cell'[f]] = "deleted" /\ mpc' = "erase" /\ got'.clientid = f
    <3>1. m_Cell[f] \in Conns /\ cell[m_Cell[f]] = "live" /\ sock[m_Cell[f]] = "open" /\ fd[m_Cell[f]] = f
      BY <1>1, <2>1, <2>2
    <3>2. CASE m_Cell[f] = c
      BY <1>0, <2>1, <3>1, <3>2
    <3>3. CASE m_Cell[f] # c
      BY <1>0, <2>1, <3>1, <3>3
    <3> QED
      BY <3>2, <3>3
  <2> QED
    BY <1>2, <2>2
<1>4. CASE HandleDelErase
  <2>1. /\ m_Cell' = [m_Cell EXCEPT ![got.clientid] = 0] /\ UNCHANGED <<sock, fd, cell>>
    BY <1>4 DEF HandleDelErase, Erased, kernel
  <2> QED
    BY <1>0, <1>1, <1>2, <2>1
<1>5. CASE AddInsert
  <2>1. /\ m_Cell' = [m_Cell EXCEPT ![fd[acell]] = acell] /\ acell \in Open /\ cell[acell] = "live"
        /\ fd[acell] \in Fds /\ UNCHANGED <<sock, fd, cell, mpc, got>>
    BY <1>0, <1>5 DEF AddInsert, IInv, AcceptorInv, ConnInv, kernel, tasks, manager, Open
  <2> QED
    BY <1>0, <1>1, <1>2, <2>1 DEF Open
<1>6. ASSUME m_Cell' = m_Cell, mpc = "erase" => mpc' = "erase" /\ got' = got,
             \A c \in Conns : cell[c] = "live" =>
                cell'[c] = "live" /\ sock'[c] = sock[c] /\ fd'[c] = fd[c],
             \A c \in Conns : cell[c] = "deleted" => cell'[c] = "deleted"
      PROVE  StoredInv'
  BY <1>1, <1>2, <1>6
<1>7. CASE m_Cell' = m_Cell /\ ~ HandleDelClose /\ ~ HandleDelErase
  <2>1. mpc = "erase" => mpc' = "erase" /\ got' = got
    <3>1. mpc = "erase" => mpc' = mpc
      BY <1>7, WhoWatches DEF TasksDone, CheckWrite, EpollWait, EventsDone
    <3>2. mpc = "erase" => got' = got
      BY <1>0, <1>7, WhoSends, ReserveEffect, PublishEffect
         DEF AddReserve, AddPublish, SendReserve, SendPublish, HandleSend, HandleAdd,
             HandleAddClosed, HandleDelNone, DoEvent, TQ!Reserve, TQ!Publish, tasks
    <3> QED
      BY <3>1, <3>2
  <2>2. CASE UNCHANGED <<sock, fd, cell>>
    BY <1>6, <1>7, <2>1, <2>2
  <2>3. ASSUME NEW c \in Conns, PeerConnect(c)
        PROVE  StoredInv'
    <3>1. /\ sock' = [sock EXCEPT ![c] = "backlog"] /\ sock[c] = "none" /\ UNCHANGED <<fd, cell>>
      BY <2>3 DEF PeerConnect, cells
    <3>2. cell[c] # "live"
      BY <1>0, <3>1 DEF ConnInv
    <3> QED
      BY <1>0, <1>6, <1>7, <2>1, <3>1, <3>2
  <2>4. CASE Accept
    <3>1. PICK c \in Conns, f \in FreeFds :
             /\ cell[c] = "none"
             /\ sock' = [sock EXCEPT ![c] = "open"]
             /\ fd' = [fd EXCEPT ![c] = f]
             /\ cell' = [cell EXCEPT ![c] = "live"]
      BY <2>4, AcceptFacts
    <3> QED
      BY <1>0, <1>6, <1>7, <2>1, <3>1
  <2> QED
    BY <1>7, <2>2, <2>3, <2>4, WhoChangesSockets
<1> QED
  BY <1>3, <1>4, <1>5, <1>7, WhoChangesSockets

\* Nothing comes to watch a descriptor whose entry is being erased.
LEMMA EraseNext ==
    ASSUME IInv, [Next]_vars
    PROVE  EraseInv'
<1>a. /\ TypeOK /\ ConnInv /\ StoredInv /\ EraseInv /\ WatchInv
  BY DEF IInv
<1>b. 0 \notin Conns /\ 0 \notin Fds
  BY FdsAssumption DEF Conns
<1>c. /\ fd \in [Conns -> Fds \cup {0}] /\ interest \in [Conns -> SUBSET {"in", "out"}]
      /\ m_Cell \in [Fds -> Conns \cup {0}]
  BY <1>a DEF TypeOK
<1>0. /\ TypeOK /\ ConnInv /\ StoredInv /\ EraseInv /\ WatchInv /\ 0 \notin Conns /\ 0 \notin Fds
      /\ fd \in [Conns -> Fds \cup {0}] /\ interest \in [Conns -> SUBSET {"in", "out"}]
      /\ m_Cell \in [Fds -> Conns \cup {0}]
  BY <1>a, <1>b, <1>c
<1>1. CASE HandleDelClose
  <2> DEFINE c == m_Cell[got'.clientid]
  <2>1. /\ c \in Conns /\ fd[c] = got'.clientid /\ got'.clientid \in Fds
        /\ interest' = [interest EXCEPT ![c] = {}] /\ fd' = fd
    BY <1>1, CloseFacts DEF Open
  <2>2. ASSUME NEW d \in Conns, fd'[d] = got'.clientid
        PROVE  interest'[d] = {}
    <3>1. interest[d] # {} => m_Cell[fd[d]] = d
      BY <1>0 DEF WatchInv, WatchedAreStored
    <3> QED
      BY <1>0, <2>1, <2>2, <3>1
  <2> QED
    BY <2>1, <2>2 DEF EraseInv
<1>2. CASE mpc = "erase" /\ mpc' = "erase" /\ ~ HandleDelClose
  <2>1. got' = got
    BY <1>0, <1>2, WhoSends, ReserveEffect, PublishEffect
       DEF AddReserve, AddPublish, SendReserve, SendPublish, HandleSend, HandleAdd,
           HandleAddClosed, HandleDelNone, DoEvent, TQ!Reserve, TQ!Publish, tasks
  <2>2. interest' = interest
    BY <1>2, WhoWatches DEF HandleAdd, CheckWrite
  <2>3. got.clientid \in Fds /\ \A c \in Conns : fd[c] = got.clientid => interest[c] = {}
    BY <1>0, <1>2 DEF EraseInv
  <2>4. CASE fd' = fd
    BY <2>1, <2>2, <2>3, <2>4 DEF EraseInv
  <2>5. CASE Accept
    <3>1. PICK c \in Conns, f \in FreeFds :
             fd' = [fd EXCEPT ![c] = f] /\ sock[c] = "backlog"
      BY <2>5, AcceptFacts
    <3>2. interest[c] = {}
      BY <1>0, <3>1 DEF WatchInv
    <3> QED
      BY <1>0, <2>1, <2>2, <2>3, <3>1, <3>2 DEF EraseInv
  <2> QED
    BY <1>2, <2>4, <2>5, WhoChangesSockets DEF PeerConnect
<1>3. CASE mpc' = "erase" /\ mpc # "erase" /\ ~ HandleDelClose
  BY <1>3, WhoWatches DEF HandleDelErase, TasksDone, CheckWrite, EpollWait, EventsDone
<1> QED
  BY <1>1, <1>2, <1>3 DEF EraseInv

-----------------------------------------------------------------------------
(***************************************************************************)
(* What epoll watches.                                                     *)
(***************************************************************************)
\* The connection handleAdd announces.
LEMMA AddFacts ==
    ASSUME IInv, HandleAdd
    PROVE  LET f == got'.clientid
               c == m_Cell[f]
           IN  /\ f \in Fds /\ c \in Open /\ fd[c] = f
               /\ interest' = [interest EXCEPT ![c] = {"in"}]
               /\ listed' \subseteq listed \cup {c}
               /\ session' = [session EXCEPT ![f] = c]
               /\ mpc = "task"
               /\ UNCHANGED <<sock, fd, cell, m_Cell, mpc, batch, apc, acell, sendBuf, wire>>
<1>1. /\ TQ!Take /\ m_Cell[got'.clientid] # 0 /\ mpc = "task"
      /\ UNCHANGED <<sock, fd, cell, m_Cell, mpc, batch, apc, acell, sendBuf, wire>>
  BY DEF HandleAdd, acceptor, manager, cells
<1>2. got'.clientid \in Fds
  BY <1>1, TakeEffect DEF IInv, TaskInv
<1>3. cell[m_Cell[got'.clientid]] = "live" /\ m_Cell[got'.clientid] \in Behind(got'.clientid)
  BY <1>1, <1>2 DEF IInv, StoredInv
<1> QED
  BY <1>1, <1>2, <1>3 DEF HandleAdd, Behind

\* What checkWrite watches it has watched before.
LEMMA CheckFacts ==
    ASSUME TypeOK, CheckWrite
    PROVE  /\ interest' \in [Conns -> SUBSET {"in", "out"}]
           /\ \A c \in Conns : interest'[c] = {} <=> interest[c] = {}
           /\ \A c \in listed' : c \in listed \/ (c \in Conns /\ interest[c] # {})
           /\ mpc = "write" /\ mpc' = "wait"
           /\ UNCHANGED <<sock, fd, cell, m_Cell, session, batch, queue, got>>
<1> DEFINE waiting == {c \in Watched : sendBuf[c] # << >>}
           sated == {c \in Watched \ waiting : "out" \in interest[c]}
<1>1. /\ interest \in [Conns -> SUBSET {"in", "out"}]
      /\ \A c \in Watched : c \in Conns /\ interest[c] # {}
  BY DEF TypeOK, Watched, Stored
<1>2. /\ interest' = [c \in Conns |-> CASE c \in waiting -> {"in", "out"}
                                        [] c \in sated -> {"in"}
                                        [] OTHER -> interest[c]]
      /\ listed' = listed \cup waiting \cup {c \in sated : unread[c] \/ Gone(c)}
      /\ mpc = "write" /\ mpc' = "wait"
      /\ UNCHANGED <<sock, fd, cell, m_Cell, session, batch, queue, got>>
  BY DEF CheckWrite, cells, tasks, app
<1>3. ASSUME NEW c \in Conns
      PROVE  interest'[c] \in SUBSET {"in", "out"} /\ (interest'[c] = {} <=> interest[c] = {})
  BY <1>1, <1>2
<1>4. interest' \in [Conns -> SUBSET {"in", "out"}]
  BY <1>2, <1>3
<1>5. \A c \in listed' : c \in listed \/ (c \in Conns /\ interest[c] # {})
  BY <1>1, <1>2
<1> QED
  BY <1>2, <1>3, <1>4, <1>5

\* A change of a socket lists it only if epoll watches it.
LEMMA PeerFacts ==
    ASSUME Peer
    PROVE  /\ \A c \in listed' : c \in listed \/ (c \in Conns /\ interest[c] # {})
           /\ UNCHANGED <<fd, interest, cells, tasks, manager, acceptor, app>>
BY DEF Peer, PeerConnect, PeerSend, PeerClose, PeerReset, Edge

\* The types the lemmas about m_Cell and epoll need.
WatchTypes ==
    /\ sock \in [Conns -> {"none", "backlog", "open", "closed"}]
    /\ fd \in [Conns -> Fds \cup {0}]
    /\ interest \in [Conns -> SUBSET {"in", "out"}]
    /\ listed \subseteq Conns
    /\ m_Cell \in [Fds -> Conns \cup {0}]
    /\ session \in [Fds -> Conns \cup {0}]
    /\ 0 \notin Conns /\ 0 \notin Fds

LEMMA WatchTypesHold == TypeOK => WatchTypes
BY FdsAssumption DEF TypeOK, WatchTypes, Conns

\* A watched connection is stored, so it is open and its descriptor names it.
LEMMA WatchedFacts ==
    ASSUME IInv, NEW c \in Conns, interest[c] # {}
    PROVE  sock[c] = "open" /\ fd[c] \in Fds /\ m_Cell[fd[c]] = c /\ session[fd[c]] = c
BY DEF IInv, WatchInv, WatchedAreStored, ConnInv

\* A step that leaves every watched connection as it is.
LEMMA WatchKept ==
    ASSUME IInv,
           \A c \in Conns : interest'[c] # {} =>
              /\ interest[c] # {} /\ sock'[c] = sock[c] /\ fd'[c] = fd[c]
              /\ m_Cell'[fd[c]] = m_Cell[fd[c]] /\ session'[fd[c]] = session[fd[c]]
    PROVE  \A c \in Conns : interest'[c] # {} =>
              sock'[c] = "open" /\ m_Cell'[fd'[c]] = c /\ session'[fd'[c]] = c
BY WatchedFacts

LEMMA WatchedNext ==
    ASSUME IInv, [Next]_vars
    PROVE  \A c \in Conns : interest'[c] # {} =>
              sock'[c] = "open" /\ m_Cell'[fd'[c]] = c /\ session'[fd'[c]] = c
<1>0. WatchTypes /\ ConnInv /\ StoredInv /\ EraseInv /\ AcceptorInv
  BY WatchTypesHold DEF IInv
<1>1. CASE HandleAdd
  <2> DEFINE f == got'.clientid
             c == m_Cell[f]
  <2>1. /\ f \in Fds /\ c \in Conns /\ sock[c] = "open" /\ fd[c] = f
        /\ interest' = [interest EXCEPT ![c] = {"in"}]
        /\ session' = [session EXCEPT ![f] = c]
        /\ UNCHANGED <<sock, fd, m_Cell>>
    BY <1>1, AddFacts DEF Open
  <2> HIDE DEF f
  <2>2. ASSUME NEW d \in Conns, interest'[d] # {}
        PROVE  sock'[d] = "open" /\ m_Cell'[fd'[d]] = d /\ session'[fd'[d]] = d
    <3>1. CASE d = c
      BY <1>0, <2>1, <3>1 DEF WatchTypes
    <3>2. CASE d # c
      <4>1. interest[d] # {}
        BY <1>0, <2>1, <2>2, <3>2 DEF WatchTypes
      <4>2. sock[d] = "open" /\ fd[d] \in Fds /\ m_Cell[fd[d]] = d /\ session[fd[d]] = d
        BY <4>1, WatchedFacts
      <4>3. fd[d] # f
        BY <3>2, <4>2
      <4> QED
        BY <1>0, <2>1, <4>2, <4>3 DEF WatchTypes
    <3> QED
      BY <3>1, <3>2
  <2> QED
    BY <2>2
<1>2. CASE HandleDelClose
  <2>1. PICK c \in Conns : /\ sock' = [sock EXCEPT ![c] = "closed"]
                           /\ interest' = [interest EXCEPT ![c] = {}]
                           /\ UNCHANGED <<fd, m_Cell, session>>
    BY <1>2, CloseFacts DEF Open
  <2> QED
    BY <1>0, <2>1, WatchKept DEF WatchTypes
<1>3. CASE CheckWrite
  BY <1>3, CheckFacts, WatchKept DEF IInv
<1>4. CASE HandleDelErase
  <2>1. /\ m_Cell' = [m_Cell EXCEPT ![got.clientid] = 0]
        /\ session' = [session EXCEPT ![got.clientid] = 0]
        /\ mpc = "erase"
        /\ UNCHANGED <<sock, fd, interest>>
    BY <1>4 DEF HandleDelErase, Erased, kernel
  <2>2. \A c \in Conns : interest[c] # {} => fd[c] \in Fds /\ fd[c] # got.clientid
    BY <1>0, <2>1, WatchedFacts DEF EraseInv
  <2> QED
    BY <1>0, <2>1, <2>2, WatchKept DEF WatchTypes
<1>5. CASE AddInsert
  <2>1. /\ m_Cell' = [m_Cell EXCEPT ![fd[acell]] = acell] /\ apc = "insert"
        /\ UNCHANGED <<sock, fd, interest, session>>
    BY <1>5 DEF AddInsert, kernel, app
  <2>2. acell \in Open /\ \A f \in Fds : m_Cell[f] # acell
    BY <1>0, <2>1 DEF AcceptorInv
  <2>3. ASSUME NEW c \in Conns, interest[c] # {}
        PROVE  fd[c] \in Fds /\ fd[c] # fd[acell]
    BY <1>0, <2>2, <2>3, WatchedFacts DEF ConnInv, Open
  <2> QED
    BY <1>0, <2>1, <2>3, WatchKept DEF WatchTypes
<1>6. CASE UNCHANGED <<interest, session, m_Cell>>
  <2>1. CASE UNCHANGED <<sock, fd>>
    BY <1>6, <2>1, WatchKept
  <2>2. ASSUME NEW c \in Conns, NEW f,
               sock[c] \in {"none", "backlog"},
               \E s : sock' = [sock EXCEPT ![c] = s],
               fd' = fd \/ fd' = [fd EXCEPT ![c] = f]
        PROVE  \A d \in Conns : interest'[d] # {} =>
                 sock'[d] = "open" /\ m_Cell'[fd'[d]] = d /\ session'[fd'[d]] = d
    <3>1. \A d \in Conns : interest[d] # {} => d # c
      BY <2>2, WatchedFacts
    <3> QED
      BY <1>0, <1>6, <2>2, <3>1, WatchKept DEF WatchTypes
  <2>3. ASSUME NEW c \in Conns, PeerConnect(c)
        PROVE  \A d \in Conns : interest'[d] # {} =>
                 sock'[d] = "open" /\ m_Cell'[fd'[d]] = d /\ session'[fd'[d]] = d
    BY <2>2, <2>3 DEF PeerConnect
  <2>4. CASE Accept
    BY <2>2, <2>4, AcceptFacts
  <2>5. CASE HandleDelClose
    BY <1>2, <2>5
  <2> QED
    BY <2>1, <2>3, <2>4, <2>5, WhoChangesSockets
<1> QED
  BY <1>1, <1>2, <1>3, <1>4, <1>5, <1>6, WhoChangesSockets, WhoWatches

\* The ready list, and the events of one epoll_wait.
LEMMA WatchNext ==
    ASSUME IInv, [Next]_vars
    PROVE  WatchInv'
<1>0. WatchTypes /\ WatchInv
  BY WatchTypesHold DEF IInv
<1>1. \A c \in listed' : interest'[c] # {}
  <2>1. CASE HandleAdd
    <3>1. PICK c \in Conns : interest' = [interest EXCEPT ![c] = {"in"}] /\ listed' \subseteq listed \cup {c}
      BY <2>1, AddFacts DEF Open
    <3> QED
      BY <1>0, <3>1 DEF WatchInv, WatchTypes
  <2>2. CASE HandleDelClose
    <3>1. PICK c \in Conns : interest' = [interest EXCEPT ![c] = {}] /\ listed' = listed \ {c}
      BY <2>2, CloseFacts DEF Open
    <3> QED
      BY <1>0, <3>1 DEF WatchInv, WatchTypes
  <2>3. CASE CheckWrite
    BY <1>0, <2>3, CheckFacts DEF IInv, WatchInv, WatchTypes
  <2>4. CASE EpollWait
    BY <2>4 DEF EpollWait
  <2>5. CASE Peer
    BY <1>0, <2>5, PeerFacts DEF WatchInv
  <2>6. CASE UNCHANGED <<listed, interest>>
    BY <1>0, <2>6 DEF WatchInv
  <2> QED
    BY <2>1, <2>2, <2>3, <2>4, <2>5, <2>6, WhoWatches
<1>2. mpc' # "events" => batch' = {}
  <2>1. CASE EpollWait
    BY <2>1 DEF EpollWait
  <2>2. CASE DoEvent
    BY <1>0, <2>2 DEF DoEvent, WatchInv
  <2>3. CASE EventsDone
    BY <2>3 DEF EventsDone
  <2>4. CASE batch' = batch /\ ~ EventsDone
    <3>1. mpc = "events" => mpc' = "events"
      BY <2>4, WhoWatches DEF HandleDelClose, HandleDelErase, TasksDone, CheckWrite, EpollWait
    <3> QED
      BY <1>0, <2>4, <3>1 DEF WatchInv
  <2> QED
    BY <2>1, <2>2, <2>3, <2>4, WhoWatches
<1>3. \A e \in batch' : \E c \in Open' : fd'[c] = e.fd /\ interest'[c] # {}
  <2>1. CASE EpollWait
    <3>1. \A e \in batch' : \E c \in listed : fd[c] = e.fd
      BY <2>1 DEF EpollWait
    <3>2. UNCHANGED <<sock, fd, interest>>
      BY <2>1 DEF EpollWait
    <3> QED
      BY <1>0, <3>1, <3>2 DEF WatchInv, WatchTypes, Open
  <2>2. CASE ~ EpollWait /\ batch # {}
    <3>0. DoEvent => batch' \subseteq batch
      BY DEF DoEvent, EventHup, EventSpin, EventIO
    <3>1. batch' \subseteq batch /\ mpc = "events"
      BY <1>0, <2>2, <3>0, WhoWatches DEF WatchInv
    <3>2. interest' = interest
      BY <3>1, WhoWatches DEF HandleAdd, HandleDelClose, CheckWrite
    <3>3. ASSUME NEW c \in Open PROVE c \in Open' /\ fd'[c] = fd[c]
      <4>1. CASE Accept
        BY <1>0, <4>1, AcceptFacts DEF Open, WatchTypes
      <4>2. ASSUME NEW d \in Conns, PeerConnect(d)
            PROVE  c \in Open' /\ fd'[c] = fd[c]
        BY <1>0, <4>2 DEF PeerConnect, Open, WatchTypes
      <4> QED
        BY <3>1, <4>1, <4>2, WhoChangesSockets DEF HandleDelClose, Open
    <3> QED
      BY <1>0, <3>1, <3>2, <3>3 DEF WatchInv, WatchedAreStored
  <2>3. CASE ~ EpollWait /\ batch = {}
    BY <2>3, WhoWatches DEF DoEvent
  <2> QED
    BY <2>1, <2>2, <2>3
<1> QED
  BY <1>1, <1>2, <1>3, WatchedNext DEF WatchInv, WatchedAreStored

-----------------------------------------------------------------------------
(***************************************************************************)
(* The tasks in the queue.  A step takes k of them (none or the head),     *)
(* keeps the other n in order, and puts at most one behind them.           *)
(***************************************************************************)
Kept(k, n) ==
    /\ k \in {0, 1}
    /\ n \in Nat /\ n = Len(queue) - k
    /\ \A i \in 1 .. n : queue'[i].task = queue[i + k].task

\* The new task: of the acceptor, of a sender, or of the manager itself.
NewTask(t) ==
    \/ AddReserve /\ t = task("A", fd[acell], 0)
    \/ \E s \in Senders : SendReserve(s) /\ sent' = sent + 1 /\ t = task("S", sarg[s], sent + 1)
    \/ \E f \in Fds : t = task("D", f, 0) /\
          \/ HandleAddClosed /\ f = queue[1].task.clientid
          \/ DoEvent /\ \E e \in batch : f = e.fd

\* Where a kept task was.
LEMMA KeptPlaces ==
    ASSUME Len(queue) \in Nat, DOMAIN queue = 1 .. Len(queue), NEW k, NEW n, Kept(k, n)
    PROVE  /\ k \in Nat /\ n \in Nat /\ k + n = Len(queue)
           /\ \A i \in 1 .. n : queue'[i].task = queue[i + k].task /\ i + k \in DOMAIN queue
<1>1. k = 0 \/ k = 1
  BY DEF Kept
<1>2. CASE k = 0
  BY <1>2 DEF Kept
<1>3. CASE k = 1
  BY <1>3 DEF Kept
<1> QED
  BY <1>1, <1>2, <1>3

LEMMA TaskTypes ==
    ASSUME IInv
    PROVE  /\ apc = "push" => task("A", fd[acell], 0) \in Task
           /\ \A s \in Senders : spc[s] = "push" => task("S", sarg[s], sent + 1) \in Task
           /\ \A e \in batch : e.fd \in Fds
           /\ Acceptor \in Writers /\ Senders \subseteq Writers
<1>1. Fds \subseteq Nat /\ sent + 1 \in Nat
  BY FdsAssumption, CapAssumption DEF IInv, TypeOK
<1>2. apc = "push" => fd[acell] \in Fds
  BY DEF IInv, AcceptorInv
<1>3. \A s \in Senders : spc[s] = "push" => sarg[s] \in Fds
  BY DEF IInv, SenderInv
<1>4. \A e \in batch : e.fd \in Fds
  <2>1. batch \subseteq [fd : Fds, hup : BOOLEAN, in : BOOLEAN, out : BOOLEAN]
    BY DEF IInv, TypeOK
  <2> QED
    BY <2>1
<1>5. \A e \in {"A", "S"}, f \in Nat, m \in Nat : task(e, f, m) \in Task
  BY DEF task, Task
<1>6. Acceptor \in Writers /\ Senders \subseteq Writers
  BY DEF Writers
<1> QED
  BY <1>1, <1>2, <1>3, <1>4, <1>5, <1>6

LEMMA QueueStep ==
    ASSUME IInv, [Next]_vars
    PROVE  /\ queue' \in Seq(TQ!Entry) /\ Len(queue') <= QueueCap /\ got' \in Task
           /\ \E k, n : /\ Kept(k, n)
                        /\ \/ Len(queue') = n
                           \/ Len(queue') = n + 1 /\ NewTask(queue'[n + 1].task)
<1> DEFINE Goal == /\ queue' \in Seq(TQ!Entry) /\ Len(queue') <= QueueCap /\ got' \in Task
                   /\ \E k, n : /\ Kept(k, n)
                                /\ \/ Len(queue') = n
                                   \/ Len(queue') = n + 1 /\ NewTask(queue'[n + 1].task)
<1>0. /\ TypeOK /\ queue \in Seq(TQ!Entry) /\ got \in Task
      /\ Len(queue) \in Nat /\ Len(queue) <= QueueCap /\ QueueCap \in Nat
  BY QueueType, CapAssumption DEF IInv
<1>1. Len(queue') \in Nat => Len(queue') = Len(queue') - 0 /\ \A i \in 1 .. Len(queue') : i + 0 = i
  OBVIOUS
<1>2. ASSUME UNCHANGED tasks PROVE Goal
  <2>1. Kept(0, Len(queue))
    BY <1>0, <1>2 DEF Kept, tasks
  <2> QED
    BY <1>0, <1>2, <2>1 DEF tasks
<1>3. CASE AddReserve
  <2>1. CASE UNCHANGED tasks
    BY <1>2, <2>1
  <2>2. CASE TQ!Reserve(Acceptor, task("A", fd[acell], 0))
    <3>1. /\ got' = got /\ queue' \in Seq(TQ!Entry) /\ Len(queue) < QueueCap
          /\ Len(queue') = Len(queue) + 1
          /\ \A i \in 1 .. Len(queue) : queue'[i] = queue[i]
          /\ queue'[Len(queue) + 1].task = task("A", fd[acell], 0)
      BY <1>0, <1>3, <2>2, TaskTypes, ReserveEffect DEF AddReserve
    <3>2. Kept(0, Len(queue))
      BY <1>0, <3>1 DEF Kept
    <3>3. NewTask(queue'[Len(queue) + 1].task)
      BY <1>3, <3>1 DEF NewTask
    <3> QED
      BY <1>0, <3>1, <3>2, <3>3
  <2> QED
    BY <1>3, <2>1, <2>2 DEF AddReserve
<1>4. ASSUME NEW w \in Writers, TQ!Publish(w) PROVE Goal
  <2>1. /\ got' = got /\ queue' \in Seq(TQ!Entry) /\ Len(queue') = Len(queue)
        /\ \A i \in 1 .. Len(queue) : queue'[i].task = queue[i].task
    BY <1>0, <1>4, PublishEffect
  <2>2. Kept(0, Len(queue))
    BY <1>0, <2>1 DEF Kept
  <2> QED
    BY <1>0, <2>1, <2>2
<1>5. ASSUME NEW s \in Senders, SendReserve(s) PROVE Goal
  <2>1. CASE UNCHANGED tasks
    BY <1>2, <2>1
  <2>2. CASE TQ!Reserve(s, task("S", sarg[s], sent + 1)) /\ sent' = sent + 1
    <3>1. /\ got' = got /\ queue' \in Seq(TQ!Entry) /\ Len(queue) < QueueCap
          /\ Len(queue') = Len(queue) + 1
          /\ \A i \in 1 .. Len(queue) : queue'[i] = queue[i]
          /\ queue'[Len(queue) + 1].task = task("S", sarg[s], sent + 1)
      BY <1>0, <1>5, <2>2, TaskTypes, ReserveEffect DEF SendReserve
    <3>2. Kept(0, Len(queue))
      BY <1>0, <3>1 DEF Kept
    <3>3. NewTask(queue'[Len(queue) + 1].task)
      BY <1>5, <2>2, <3>1 DEF NewTask
    <3> QED
      BY <1>0, <3>1, <3>2, <3>3
  <2> QED
    BY <1>5, <2>1, <2>2 DEF SendReserve
<1>6. ASSUME TQ!Take PROVE Goal
  <2>1. /\ got' \in Task /\ queue' \in Seq(TQ!Entry) /\ Len(queue') = Len(queue) - 1
        /\ Len(queue') <= QueueCap
        /\ \A i \in 1 .. Len(queue') : queue'[i] = queue[i + 1]
    BY <1>0, <1>6, TakeEffect
  <2>2. Kept(1, Len(queue'))
    BY <1>0, <2>1 DEF Kept
  <2> QED
    BY <2>1, <2>2
<1>7. ASSUME NEW k \in {0, 1}, NEW q \in Seq(TQ!Entry), NEW f \in Fds,
             Len(q) <= QueueCap, Len(q) = Len(queue) - k,
             \A i \in 1 .. Len(q) : q[i].task = queue[i + k].task,
             queue' = Deleting(q, f), got' \in Task,
             NewTask(task("D", f, 0))
      PROVE  Goal
  <2>0. Len(q) \in Nat
    BY <1>7
  <2>1. CASE queue' = q
    <3>1. Kept(k, Len(q))
      BY <1>7, <2>0, <2>1 DEF Kept
    <3> QED
      BY <1>7, <2>1, <3>1
  <2>2. CASE /\ Len(queue') = Len(q) + 1
             /\ \A i \in 1 .. Len(q) : queue'[i] = q[i]
             /\ queue'[Len(q) + 1].task = task("D", f, 0)
    <3>1. Kept(k, Len(q))
      BY <1>7, <2>0, <2>2 DEF Kept
    <3>2. queue' \in Seq(TQ!Entry) /\ Len(queue') <= QueueCap
      BY <1>7, DeletingEffect
    <3>3. \E n : Kept(k, n) /\ Len(queue') = n + 1 /\ NewTask(queue'[n + 1].task)
      BY <1>7, <2>2, <3>1
    <3> QED
      BY ONLY <1>7, <3>2, <3>3
  <2> QED
    BY <1>7, <2>1, <2>2, DeletingEffect
<1>8. CASE HandleAddClosed
  <2>1. /\ TQ!HeadReady /\ queue' = Deleting(Tail(queue), Head(queue).task.clientid)
        /\ got' = Head(queue).task
    BY <1>8 DEF HandleAddClosed
  <2>2. Head(queue) = queue[1] /\ queue[1].task \in Task /\ queue[1].task.clientid \in Fds
    BY <1>0, <2>1, TailEffect DEF IInv, TaskInv
  <2>3. NewTask(task("D", queue[1].task.clientid, 0))
    BY <1>8, <2>2 DEF NewTask
  <2>4. /\ Tail(queue) \in Seq(TQ!Entry) /\ Len(Tail(queue)) = Len(queue) - 1
        /\ Len(Tail(queue)) <= QueueCap
        /\ \A i \in 1 .. Len(queue) - 1 : Tail(queue)[i] = queue[i + 1]
    BY <1>0, <2>1, TailEffect
  <2> QED
    BY <1>7, <2>1, <2>2, <2>3, <2>4
<1>9. CASE DoEvent
  <2>1. PICK e \in batch : EventHup(e) \/ EventSpin(e) \/ EventIO(e)
    BY <1>9 DEF DoEvent
  <2>2. e.fd \in Fds /\ NewTask(task("D", e.fd, 0))
    BY <1>9, TaskTypes DEF NewTask
  <2>3. got' = got /\ (queue' = queue \/ queue' = Deleting(queue, e.fd))
    BY <2>1 DEF EventHup, EventSpin, EventIO, EventDeletes, tasks
  <2>4. CASE queue' = queue
    BY <1>2, <2>3, <2>4 DEF tasks
  <2>5. CASE queue' = Deleting(queue, e.fd)
    <3>1. Len(queue) = Len(queue) - 0 /\ \A i \in 1 .. Len(queue) : queue[i].task = queue[i + 0].task
      BY <1>0
    <3> QED
      BY <1>0, <1>7, <2>2, <2>3, <2>5, <3>1
  <2> QED
    BY <2>3, <2>4, <2>5
<1>10. \/ UNCHANGED tasks
       \/ AddReserve \/ HandleAddClosed \/ DoEvent
       \/ \E s \in Senders : SendReserve(s)
       \/ \E w \in Writers : TQ!Publish(w)
       \/ TQ!Take
  BY WhoSends, TaskTypes
     DEF AddPublish, SendPublish, HandleSend, HandleAdd, HandleDelNone, HandleDelClose
<1> QED
  BY <1>2, <1>3, <1>4, <1>5, <1>6, <1>8, <1>9, <1>10

\* The messages accepted, and room for those of the senders about to push.
LEMMA SenderNext ==
    ASSUME IInv, [Next]_vars
    PROVE  SenderInv' /\ sent' \in Nat /\ sent' >= sent
<1>0. /\ SenderInv /\ sent \in 0 .. MaxSends /\ MaxSends \in Nat
      /\ spc \in [Senders -> {"idle", "find", "push", "publish"}] /\ sarg \in [Senders -> Fds \cup {0}]
  BY CapAssumption DEF IInv, TypeOK
<1>1. IsFiniteSet(Pushing) /\ Cardinality(Pushing) \in Nat
  BY SendersAssumption, FS_Subset, FS_CardinalityType DEF Pushing
<1>2. ASSUME NEW s \in Senders, SendCall(s)
      PROVE  SenderInv' /\ sent' \in Nat /\ sent' >= sent
  <2>1. /\ spc[s] = "idle" /\ spc' = [spc EXCEPT ![s] = "find"] /\ sent' = sent
        /\ sent + Cardinality(Pushing) < MaxSends
        /\ \E f \in Fds : sarg' = [sarg EXCEPT ![s] = f]
    BY <1>2 DEF SendCall, Pushing
  <2>2. Pushing' = Pushing \cup {s} /\ s \notin Pushing
    BY <1>0, <2>1 DEF Pushing
  <2>3. Cardinality(Pushing') = Cardinality(Pushing) + 1
    BY <1>1, <2>2, FS_AddElement
  <2>4. sent' + Cardinality(Pushing') <= MaxSends
    BY <1>0, <1>1, <2>1, <2>3
  <2>5. \A t \in Senders : spc'[t] # "idle" => sarg'[t] \in Fds
    BY <1>0, <2>1 DEF SenderInv
  <2> QED
    BY <1>0, <2>1, <2>4, <2>5 DEF SenderInv
<1>3. ASSUME NEW s \in Senders, NEW label, spc' = [spc EXCEPT ![s] = label], label # "find",
             spc[s] \in {"find", "push", "publish"}, sarg' = sarg,
             \/ sent' = sent /\ (label = "push" => spc[s] = "find")
             \/ sent' = sent + 1 /\ spc[s] = "push" /\ label # "push"
      PROVE  SenderInv' /\ sent' \in Nat /\ sent' >= sent
  <2>1. \A t \in Senders : spc'[t] # "idle" => sarg'[t] \in Fds
    BY <1>0, <1>3 DEF SenderInv
  <2>2. CASE sent' = sent /\ (label = "push" => spc[s] = "find")
    <3>1. Pushing' \subseteq Pushing
      BY <1>0, <1>3, <2>2 DEF Pushing
    <3>2. Cardinality(Pushing') \in Nat /\ Cardinality(Pushing') <= Cardinality(Pushing)
      BY <1>1, <3>1, FS_Subset, FS_CardinalityType
    <3> QED
      BY <1>0, <1>1, <2>1, <2>2, <3>2 DEF SenderInv
  <2>3. CASE sent' = sent + 1 /\ spc[s] = "push" /\ label # "push"
    <3>1. Pushing' = Pushing \ {s} /\ s \in Pushing
      BY <1>0, <1>3, <2>3 DEF Pushing
    <3>2. Cardinality(Pushing') = Cardinality(Pushing) - 1
      BY <1>1, <3>1, FS_RemoveElement
    <3> QED
      BY <1>0, <1>1, <2>1, <2>3, <3>2 DEF SenderInv
  <2> QED
    BY <1>3, <2>2, <2>3
<1>4. ASSUME NEW s \in Senders, SendGoOn(s)
      PROVE  SenderInv' /\ sent' \in Nat /\ sent' >= sent
  <2>1. CASE SendClosed(s)
    BY <1>3, <2>1 DEF SendClosed
  <2>2. CASE SendFound(s)
    BY <1>3, <2>2 DEF SendFound
  <2>3. CASE SendReserve(s)
    BY <1>3, <2>3 DEF SendReserve
  <2>4. CASE SendPublish(s)
    BY <1>3, <2>4 DEF SendPublish
  <2> QED
    BY <1>4, <2>1, <2>2, <2>3, <2>4 DEF SendGoOn
<1>5. CASE UNCHANGED <<spc, sarg, sent>>
  BY <1>0, <1>5 DEF SenderInv, Pushing
<1> QED
  BY <1>2, <1>4, <1>5, WhoSends DEF SendGoOn, SendCall

\* A new task names a descriptor, and a message that has just been accepted.
LEMMA TaskNext ==
    ASSUME IInv, [Next]_vars
    PROVE  TaskInv'
<1>0. /\ TaskInv /\ sent \in Nat /\ sent' \in Nat /\ sent' >= sent
      /\ Len(queue) \in Nat /\ DOMAIN queue = 1 .. Len(queue)
  BY SenderNext, QueueType, CapAssumption DEF IInv, TypeOK
<1>1. PICK k, n : /\ Kept(k, n) /\ queue' \in Seq(TQ!Entry)
                  /\ \/ Len(queue') = n
                     \/ Len(queue') = n + 1 /\ NewTask(queue'[n + 1].task)
  BY QueueStep
<1>2. DOMAIN queue' = 1 .. Len(queue')
  BY <1>1
<1>3. ASSUME NEW i \in 1 .. n
      PROVE  /\ queue'[i].task.clientid \in Fds
             /\ queue'[i].task.event = "S" => queue'[i].task.msg \in 1 .. sent'
  <2>1. queue'[i].task = queue[i + k].task /\ i + k \in DOMAIN queue
    BY <1>0, <1>1, KeptPlaces
  <2>2. /\ queue[i + k].task.clientid \in Fds
        /\ queue[i + k].task.event = "S" => queue[i + k].task.msg \in 1 .. sent
    BY <1>0, <2>1 DEF TaskInv
  <2> QED
    BY <1>0, <2>1, <2>2
<1>4. ASSUME NEW t, NewTask(t)
      PROVE  t.clientid \in Fds /\ (t.event = "S" => t.msg \in 1 .. sent')
  <2>1. AddReserve => fd[acell] \in Fds
    BY DEF AddReserve, IInv, AcceptorInv
  <2>2. \A s \in Senders : SendReserve(s) => sarg[s] \in Fds
    BY DEF SendReserve, IInv, SenderInv
  <2> QED
    BY <1>0, <1>4, <2>1, <2>2 DEF NewTask, task
<1> QED
  BY <1>1, <1>2, <1>3, <1>4 DEF TaskInv, Kept

-----------------------------------------------------------------------------
(***************************************************************************)
(* Type correctness.                                                       *)
(***************************************************************************)
LEMMA TypeInit == Init => TypeOK
<1> SUFFICES ASSUME Init PROVE TypeOK
  OBVIOUS
<1>1. TQ!TypeOK /\ Len(queue) <= QueueCap
  BY CapAssumption DEF Init, TQ!TypeOK, task, Task
<1>2. sendBuf \in [Conns -> Seq(1 .. MaxSends)] /\ wire \in [Conns -> Seq(1 .. MaxSends)]
      /\ \A c \in Conns : Len(sendBuf[c]) <= SendCap
  BY CapAssumption DEF Init
<1>3. /\ reading \in Fds \cup {0} /\ doubled \in BOOLEAN /\ lost \subseteq Conns
      /\ batch \subseteq [fd : Fds, hup : BOOLEAN, in : BOOLEAN, out : BOOLEAN]
  BY DEF Init
<1> QED
  BY <1>1, <1>2, <1>3, CapAssumption DEF Init, TypeOK

\* An event's descriptor leads to an open connection that is announced.
LEMMA EventFacts ==
    ASSUME IInv, NEW e \in batch
    PROVE  e.fd \in Fds /\ m_Cell[e.fd] \in Open
<1>1. PICK c \in Open : fd[c] = e.fd /\ interest[c] # {}
  BY DEF IInv, WatchInv, WatchedAreStored
<1> QED
  BY <1>1, WatchedFacts DEF Open

\* What a step of doEvent writes it takes from the front of the ring.
LEMMA EventIOFacts ==
    ASSUME IInv, NEW e \in batch, EventIO(e)
    PROVE  \E n \in Nat, c \in Conns :
              /\ n <= Len(sendBuf[c])
              /\ wire' = [wire EXCEPT ![c] = wire[c] \o SubSeq(sendBuf[c], 1, n)]
              /\ sendBuf' = [sendBuf EXCEPT ![c] = SubSeq(sendBuf[c], n + 1, Len(sendBuf[c]))]
              /\ unread' = unread \/ unread' = [unread EXCEPT ![c] = FALSE]
<1> DEFINE c == m_Cell[e.fd]
<1>1. c \in Conns
  BY EventFacts DEF Open
<1>2. Len(sendBuf[c]) \in Nat
  BY <1>1 DEF IInv, TypeOK
<1> HIDE DEF c
<1>3. Writable(c, e) \in Nat /\ Writable(c, e) <= Len(sendBuf[c])
  BY <1>2 DEF Writable
<1>4. PICK n \in 0 .. Writable(c, e) :
         /\ wire' = [wire EXCEPT ![c] = wire[c] \o SubSeq(sendBuf[c], 1, n)]
         /\ sendBuf' = [sendBuf EXCEPT ![c] = Unsent(c, n)]
  BY DEF EventIO, c
<1>5. unread' = unread \/ unread' = [unread EXCEPT ![c] = FALSE]
  BY DEF EventIO, c
<1>6. n \in Nat /\ n <= Len(sendBuf[c])
  BY <1>2, <1>3, <1>4
<1> QED
  BY <1>1, <1>4, <1>5, <1>6 DEF Unsent

LEMMA Pieces ==
    ASSUME NEW S, NEW s \in Seq(S), NEW n \in Nat, n <= Len(s)
    PROVE  /\ SubSeq(s, 1, n) \in Seq(S) /\ Len(SubSeq(s, 1, n)) = n
           /\ \A i \in 1 .. n : SubSeq(s, 1, n)[i] = s[i]
           /\ SubSeq(s, n + 1, Len(s)) \in Seq(S) /\ Len(SubSeq(s, n + 1, Len(s))) = Len(s) - n
           /\ \A i \in 1 .. Len(s) - n : SubSeq(s, n + 1, Len(s))[i] = s[n + i]
OBVIOUS

\* The steps of peers and kernel, and of the acceptor.
LEMMA TypeOutside ==
    ASSUME IInv, Peer \/ Acceptance, queue' \in Seq(TQ!Entry), Len(queue') <= QueueCap, got' \in Task
    PROVE  TypeOK'
<1> USE DEF TypeOK, TQ!TypeOK, kernel, cells, tasks, manager, acceptor, app, history
<1>0. TypeOK
  BY DEF IInv
<1>1. ASSUME NEW c \in Conns, PeerConnect(c) PROVE TypeOK'
  BY <1>0, <1>1 DEF PeerConnect
<1>2. ASSUME NEW c \in Conns, PeerSend(c) PROVE TypeOK'
  BY <1>0, <1>2 DEF PeerSend, Edge
<1>3. ASSUME NEW c \in Conns, PeerClose(c) PROVE TypeOK'
  BY <1>0, <1>3 DEF PeerClose, Edge
<1>4. ASSUME NEW c \in Conns, PeerReset(c) PROVE TypeOK'
  BY <1>0, <1>4 DEF PeerReset, Edge
<1>5. CASE Accept
  BY <1>0, <1>5 DEF Accept, FreeFds
<1>6. CASE AddInsert
  <2>1. acell \in Conns /\ fd[acell] \in Fds
    BY <1>6 DEF AddInsert, IInv, AcceptorInv
  <2> QED
    BY <1>0, <1>6, <2>1 DEF AddInsert
<1>7. CASE AddReserve
  <2>1. acell \in Conns
    BY <1>7 DEF AddReserve, IInv, AcceptorInv
  <2> QED
    BY <1>0, <1>7, <2>1 DEF AddReserve
<1>8. CASE AddPublish
  BY <1>0, <1>8 DEF AddPublish
<1> QED
  BY <1>1, <1>2, <1>3, <1>4, <1>5, <1>6, <1>7, <1>8 DEF Peer, Acceptance

\* The steps of the senders.
LEMMA TypeSend ==
    ASSUME IInv, NEW s \in Senders, SendCall(s) \/ SendGoOn(s), sent' \in 0 .. MaxSends,
           queue' \in Seq(TQ!Entry), Len(queue') <= QueueCap, got' \in Task
    PROVE  TypeOK'
<1> USE DEF TypeOK, TQ!TypeOK, kernel, cells, tasks, manager, acceptor, app, history
<1>0. TypeOK
  BY DEF IInv
<1>1. CASE SendCall(s)
  BY <1>0, <1>1 DEF SendCall
<1>2. CASE SendClosed(s) \/ SendFound(s)
  BY <1>0, <1>2 DEF SendClosed, SendFound
<1>3. CASE SendReserve(s)
  BY <1>0, <1>3 DEF SendReserve
<1>4. CASE SendPublish(s)
  BY <1>0, <1>4 DEF SendPublish
<1> QED
  BY <1>1, <1>2, <1>3, <1>4 DEF SendGoOn

\* The steps of the manager.
LEMMA TypeManage ==
    ASSUME IInv, Manage, queue' \in Seq(TQ!Entry), Len(queue') <= QueueCap, got' \in Task
    PROVE  TypeOK'
<1> USE DEF TypeOK, TQ!TypeOK, kernel, cells, tasks, manager, acceptor, app, history
<1>0. TypeOK
  BY DEF IInv
<1>1. CASE HandleSend
  <2> DEFINE c == m_Cell[got'.clientid]
  <2>1. /\ TQ!Take /\ got'.event = "S"
        /\ sendBuf' = IF c = 0 \/ (c # 0 /\ RingFull(c)) THEN sendBuf
                      ELSE [sendBuf EXCEPT ![c] = Append(sendBuf[c], got'.msg)]
        /\ UNCHANGED <<kernel, cell, m_Cell, manager, acceptor, app, history>>
    BY <1>1 DEF HandleSend
  <2>2. got'.clientid \in Fds /\ got'.msg \in 1 .. MaxSends
    <3>1. 1 \in DOMAIN queue /\ got' = queue[1].task
      BY <1>0, <2>1, TakeEffect
    <3>2. got'.clientid \in Fds /\ got'.msg \in 1 .. sent
      BY <2>1, <3>1 DEF IInv, TaskInv
    <3> QED
      BY <1>0, <3>2, CapAssumption
  <2>3. c \in Conns \cup {0}
    BY <1>0, <2>2
  <2> HIDE DEF c
  <2>4. CASE sendBuf' = sendBuf
    BY <1>0, <2>1, <2>4
  <2>5. CASE c \in Conns /\ ~ RingFull(c) /\ sendBuf' = [sendBuf EXCEPT ![c] = Append(sendBuf[c], got'.msg)]
    <3>1. Append(sendBuf[c], got'.msg) \in Seq(1 .. MaxSends)
          /\ Len(Append(sendBuf[c], got'.msg)) = Len(sendBuf[c]) + 1
      BY <1>0, <2>2, <2>5, AppendProperties
    <3>2. Len(sendBuf[c]) \in Nat /\ Len(sendBuf[c]) <= SendCap /\ SendCap \in Nat
      BY <1>0, <2>5, CapAssumption
    <3>3. Len(sendBuf[c]) + 1 <= SendCap
      BY <2>5, <3>2 DEF RingFull
    <3>4. sendBuf' \in [Conns -> Seq(1 .. MaxSends)]
      BY <1>0, <2>5, <3>1
    <3>5. \A d \in Conns : Len(sendBuf'[d]) <= SendCap
      BY <1>0, <2>5, <3>1, <3>3
    <3> QED
      BY <1>0, <2>1, <3>4, <3>5
  <2> QED
    BY <2>1, <2>3, <2>4, <2>5
<1>2. CASE HandleAdd
  <2>1. got'.clientid \in Fds /\ m_Cell[got'.clientid] \in Conns
    BY <1>2, AddFacts DEF Open
  <2> QED
    BY <1>0, <1>2, <2>1 DEF HandleAdd
<1>3. CASE HandleAddClosed
  <2>1. doubled' \in BOOLEAN
    BY <1>0, <1>3 DEF HandleAddClosed, TwoDeletions
  <2> QED
    BY <1>0, <1>3, <2>1 DEF HandleAddClosed
<1>4. CASE HandleDelNone
  BY <1>0, <1>4 DEF HandleDelNone
<1>5. CASE HandleDelClose
  <2>1. m_Cell[got'.clientid] \in Conns
    BY <1>5, CloseFacts DEF Open
  <2>2. << >> \in Seq(1 .. MaxSends) /\ Len(<< >>) <= SendCap
    BY CapAssumption
  <2>3. PICK c \in Conns : sendBuf' = [sendBuf EXCEPT ![c] = << >>]
    BY <2>1, <1>5 DEF HandleDelClose
  <2>4. sendBuf' \in [Conns -> Seq(1 .. MaxSends)] /\ \A d \in Conns : Len(sendBuf'[d]) <= SendCap
    BY <1>0, <2>2, <2>3
  <2> QED
    BY <1>0, <1>5, <2>1, <2>4 DEF HandleDelClose, Closed
<1>6. CASE HandleDelErase
  BY <1>0, <1>6 DEF HandleDelErase, Erased, Open
<1>7. CASE TasksDone \/ EventsDone
  BY <1>0, <1>7 DEF TasksDone, EventsDone
<1>8. CASE CheckWrite
  <2>1. interest' \in [Conns -> SUBSET {"in", "out"}] /\ listed' \subseteq Conns
    BY <1>0, <1>8, CheckFacts
  <2> QED
    BY <1>0, <1>8, <2>1 DEF CheckWrite
<1>9. CASE EpollWait
  <2>1. \A c \in listed : fd[c] \in Fds
    BY WatchedFacts DEF IInv, WatchInv
  <2>2. batch' \subseteq [fd : Fds, hup : BOOLEAN, in : BOOLEAN, out : BOOLEAN]
    <3>1. {fd[c] : c \in listed} \subseteq Fds
      BY <2>1
    <3>2. batch' \subseteq [fd : {fd[c] : c \in listed}, hup : BOOLEAN, in : BOOLEAN, out : BOOLEAN]
      BY <1>9 DEF EpollWait
    <3> QED
      BY <3>1, <3>2
  <2>3. listed' = {} /\ mpc' = "events"
        /\ UNCHANGED <<sock, peer, fd, unread, interest, wire, cells, tasks, reading, acceptor, app, history>>
    BY <1>9 DEF EpollWait
  <2> QED
    BY <1>0, <2>2, <2>3
<1>10. CASE DoEvent
  <2>1. PICK e \in batch : (EventHup(e) \/ EventSpin(e) \/ EventIO(e)) /\ UNCHANGED <<mpc, acceptor>>
    BY <1>10 DEF DoEvent
  <2>0. e.fd \in Fds
    BY <1>0
  <2>4. ASSUME EventDeletes(e.fd)
        PROVE  doubled' \in BOOLEAN /\ lost' \subseteq Conns
    BY <1>0, <2>0, <2>4 DEF EventDeletes, TwoDeletions, Refused
  <2>2. CASE EventHup(e)
    BY <1>0, <2>1, <2>2, <2>4 DEF EventHup
  <2>5. CASE EventSpin(e)
    <3>1. unread' \in [Conns -> BOOLEAN]
      BY <1>0, <2>5 DEF EventSpin
    <3> QED
      BY <1>0, <2>0, <2>1, <2>5, <3>1 DEF EventSpin
  <2>3. CASE EventIO(e)
    <3>1. PICK n \in Nat, c \in Conns :
              /\ n <= Len(sendBuf[c])
              /\ wire' = [wire EXCEPT ![c] = wire[c] \o SubSeq(sendBuf[c], 1, n)]
              /\ sendBuf' = [sendBuf EXCEPT ![c] = SubSeq(sendBuf[c], n + 1, Len(sendBuf[c]))]
              /\ unread' = unread \/ unread' = [unread EXCEPT ![c] = FALSE]
      BY <2>3, EventIOFacts
    <3>2. sendBuf[c] \in Seq(1 .. MaxSends) /\ wire[c] \in Seq(1 .. MaxSends) /\ Len(sendBuf[c]) \in Nat
          /\ Len(sendBuf[c]) <= SendCap /\ SendCap \in Nat
      BY <1>0, CapAssumption
    <3>3. /\ SubSeq(sendBuf[c], 1, n) \in Seq(1 .. MaxSends)
          /\ SubSeq(sendBuf[c], n + 1, Len(sendBuf[c])) \in Seq(1 .. MaxSends)
          /\ Len(SubSeq(sendBuf[c], n + 1, Len(sendBuf[c]))) = Len(sendBuf[c]) - n
      <4> DEFINE s == sendBuf[c]
      <4>1. n \in Nat /\ n <= Len(s) /\ s \in Seq(1 .. MaxSends)
        BY <3>1, <3>2
      <4> HIDE DEF s
      <4>2. /\ SubSeq(s, 1, n) \in Seq(1 .. MaxSends)
            /\ SubSeq(s, n + 1, Len(s)) \in Seq(1 .. MaxSends)
            /\ Len(SubSeq(s, n + 1, Len(s))) = Len(s) - n
        BY ONLY <4>1, Pieces
      <4> QED
        BY ONLY <4>2 DEF s
    <3>4. wire[c] \o SubSeq(sendBuf[c], 1, n) \in Seq(1 .. MaxSends)
      BY <3>2, <3>3, ConcatProperties
    <3>5. wire' \in [Conns -> Seq(1 .. MaxSends)] /\ sendBuf' \in [Conns -> Seq(1 .. MaxSends)]
      BY <1>0, <3>1, <3>3, <3>4
    <3>6. \A d \in Conns : Len(sendBuf'[d]) <= SendCap
      BY <1>0, <3>1, <3>2, <3>3
    <3>7. unread' \in [Conns -> BOOLEAN]
      BY <1>0, <3>1
    <3>8. doubled' \in BOOLEAN /\ lost' \subseteq Conns
      BY <1>0, <2>3, <2>4 DEF EventIO
    <3> QED
      BY <1>0, <2>1, <2>3, <3>5, <3>6, <3>7, <3>8 DEF EventIO
  <2> QED
    BY <2>1, <2>2, <2>3, <2>5
<1> QED
  BY <1>1, <1>2, <1>3, <1>4, <1>5, <1>6, <1>7, <1>8, <1>9, <1>10 DEF Manage

LEMMA TypeNext ==
    ASSUME IInv, [Next]_vars
    PROVE  TypeOK'
<1>1. queue' \in Seq(TQ!Entry) /\ Len(queue') <= QueueCap /\ got' \in Task
  BY QueueStep
<1>2. sent' \in 0 .. MaxSends
  <2>1. Pushing' \subseteq Senders
    BY DEF Pushing
  <2>2. Cardinality(Pushing') \in Nat
    BY <2>1, SendersAssumption, FS_Subset, FS_CardinalityType
  <2> QED
    BY <2>2, SenderNext, CapAssumption DEF SenderInv
<1>3. CASE UNCHANGED vars
  BY <1>3 DEF IInv, TypeOK, TQ!TypeOK, vars, kernel, cells, tasks, manager, acceptor, app,
              history
<1> QED
  BY <1>1, <1>2, <1>3, TypeOutside, TypeSend, TypeManage DEF Next

-----------------------------------------------------------------------------
(***************************************************************************)
(* The order of the messages.                                              *)
(***************************************************************************)
LEMMA Joined ==
    ASSUME NEW w \in Seq(1 .. MaxSends), NEW s \in Seq(1 .. MaxSends)
    PROVE  /\ w \o s \in Seq(1 .. MaxSends)
           /\ Len(w) \in Nat /\ Len(s) \in Nat
           /\ DOMAIN (w \o s) = 1 .. Len(w) + Len(s)
           /\ \A i \in 1 .. Len(w) : (w \o s)[i] = w[i]
           /\ \A i \in 1 .. Len(s) : (w \o s)[Len(w) + i] = s[i]
<1>1. /\ w \o s \in Seq(1 .. MaxSends) /\ Len(w \o s) = Len(w) + Len(s) /\ Len(w) \in Nat /\ Len(s) \in Nat
      /\ \A i \in 1 .. Len(w) + Len(s) : (w \o s)[i] = IF i <= Len(w) THEN w[i] ELSE s[i - Len(w)]
  BY ConcatProperties
<1>2. DOMAIN (w \o s) = 1 .. Len(w) + Len(s)
  BY <1>1
<1>3. \A i \in 1 .. Len(w) : (w \o s)[i] = w[i]
  BY <1>1
<1>4. ASSUME NEW i \in 1 .. Len(s) PROVE (w \o s)[Len(w) + i] = s[i]
  <2>1. Len(w) + i \in 1 .. Len(w) + Len(s) /\ ~ (Len(w) + i <= Len(w)) /\ Len(w) + i - Len(w) = i
    BY <1>1
  <2> QED
    BY <1>1, <2>1
<1> QED
  BY <1>1, <1>2, <1>3, <1>4

LEMMA StreamShape ==
    ASSUME TypeOK, NEW c \in Conns
    PROVE  /\ wire[c] \in Seq(1 .. MaxSends) /\ sendBuf[c] \in Seq(1 .. MaxSends)
           /\ Len(wire[c]) \in Nat /\ Len(sendBuf[c]) \in Nat
           /\ Stream(c) \in Seq(1 .. MaxSends)
           /\ Len(Stream(c)) = Len(wire[c]) + Len(sendBuf[c])
           /\ DOMAIN Stream(c) = 1 .. Len(wire[c]) + Len(sendBuf[c])
           /\ \A i \in 1 .. Len(wire[c]) : i \in DOMAIN Stream(c) /\ Stream(c)[i] = wire[c][i]
           /\ \A i \in 1 .. Len(sendBuf[c]) : Stream(c)[Len(wire[c]) + i] = sendBuf[c][i]
           /\ \A i \in DOMAIN Stream(c) : Stream(c)[i] \in Nat
<1>1. wire[c] \in Seq(1 .. MaxSends) /\ sendBuf[c] \in Seq(1 .. MaxSends)
  BY DEF TypeOK
<1> DEFINE w == wire[c]
           s == sendBuf[c]
<1>2. w \in Seq(1 .. MaxSends) /\ s \in Seq(1 .. MaxSends) /\ Stream(c) = w \o s
  BY <1>1 DEF Stream
<1> HIDE DEF w, s
<1>3. /\ Len(w) \in Nat /\ Len(s) \in Nat
      /\ w \o s \in Seq(1 .. MaxSends)
      /\ DOMAIN (w \o s) = 1 .. Len(w) + Len(s)
      /\ \A i \in 1 .. Len(w) : (w \o s)[i] = w[i]
      /\ \A i \in 1 .. Len(s) : (w \o s)[Len(w) + i] = s[i]
  BY <1>2, Joined
<1>4. Len(w \o s) = Len(w) + Len(s)
  BY <1>2, ConcatProperties
<1>5. \A i \in 1 .. Len(w) : i \in 1 .. Len(w) + Len(s)
  BY <1>3
<1>6. \A i \in DOMAIN (w \o s) : (w \o s)[i] \in Nat
  BY <1>3, <1>4, CapAssumption
<1>7. /\ Len(w) \in Nat /\ Len(s) \in Nat
      /\ Stream(c) \in Seq(1 .. MaxSends)
      /\ Len(Stream(c)) = Len(w) + Len(s)
      /\ DOMAIN Stream(c) = 1 .. Len(w) + Len(s)
      /\ \A i \in 1 .. Len(w) : i \in DOMAIN Stream(c) /\ Stream(c)[i] = w[i]
      /\ \A i \in 1 .. Len(s) : Stream(c)[Len(w) + i] = s[i]
      /\ \A i \in DOMAIN Stream(c) : Stream(c)[i] \in Nat
  BY <1>2, <1>3, <1>4, <1>5, <1>6
<1> QED
  BY <1>1, <1>7 DEF w, s

\* Moving the first n elements of s behind w changes nothing of w followed by s.
LEMMA Moved ==
    ASSUME NEW w \in Seq(1 .. MaxSends), NEW s \in Seq(1 .. MaxSends), NEW n \in Nat, n <= Len(s)
    PROVE  (w \o SubSeq(s, 1, n)) \o SubSeq(s, n + 1, Len(s)) = w \o s
<1> DEFINE a == SubSeq(s, 1, n)
           b == SubSeq(s, n + 1, Len(s))
<1>1. /\ a \in Seq(1 .. MaxSends) /\ Len(a) = n /\ \A i \in 1 .. n : a[i] = s[i]
      /\ b \in Seq(1 .. MaxSends) /\ Len(b) = Len(s) - n /\ \A i \in 1 .. Len(s) - n : b[i] = s[n + i]
  BY Pieces
<1> HIDE DEF a, b
<1>2. a \o b = s
  <2>1. a \o b \in Seq(1 .. MaxSends) /\ Len(a \o b) = Len(s) /\ Len(s) \in Nat
        /\ \A i \in 1 .. Len(s) : (a \o b)[i] = IF i <= n THEN a[i] ELSE b[i - n]
    BY <1>1, ConcatProperties
  <2>2. ASSUME NEW i \in 1 .. Len(s) PROVE (a \o b)[i] = s[i]
    <3>1. CASE i <= n
      BY <1>1, <2>1, <3>1
    <3>2. CASE ~ (i <= n)
      <4>1. i - n \in 1 .. Len(s) - n /\ n + (i - n) = i
        BY <2>1, <3>2
      <4> QED
        BY <1>1, <2>1, <3>2, <4>1
    <3> QED
      BY <3>1, <3>2
  <2> QED
    BY <2>1, <2>2, SeqEqual
<1>3. (w \o a) \o b = w \o (a \o b)
  BY <1>1, ConcatAssociative
<1> QED
  BY <1>2, <1>3 DEF a, b

\* What a step does to the streams: it shortens or keeps them, or HandleSend puts the
\* message of the queue's head behind one of them.
StreamsKept ==
    \A c \in Conns : \A i \in DOMAIN Stream(c)' :
        i \in DOMAIN Stream(c) /\ Stream(c)'[i] = Stream(c)[i]

StreamGrows(c) ==
    /\ TQ!Take /\ queue[1].task.event = "S" /\ sent' = sent
    /\ DOMAIN Stream(c) = 1 .. Len(Stream(c)) /\ Len(Stream(c)) \in Nat
    /\ \A d \in Conns : \A i \in DOMAIN Stream(d)' :
          \/ i \in DOMAIN Stream(d) /\ Stream(d)'[i] = Stream(d)[i]
          \/ d = c /\ i = Len(Stream(c)) + 1 /\ Stream(d)'[i] = queue[1].task.msg

LEMMA StreamStep ==
    ASSUME IInv, [Next]_vars
    PROVE  StreamsKept \/ \E c \in Conns : StreamGrows(c)
<1>0. /\ TypeOK /\ wire \in [Conns -> Seq(1 .. MaxSends)] /\ sendBuf \in [Conns -> Seq(1 .. MaxSends)]
      /\ m_Cell \in [Fds -> Conns \cup {0}]
  BY DEF IInv, TypeOK
<1>1. CASE UNCHANGED <<wire, sendBuf>>
  BY <1>1 DEF StreamsKept, Stream
<1>2. CASE HandleSend
  <2>1. /\ TQ!Take /\ got'.event = "S" /\ wire' = wire /\ sent' = sent
    BY <1>2 DEF HandleSend, kernel, app
  <2>2. 1 \in DOMAIN queue /\ got' = queue[1].task
    BY <1>0, <2>1, TakeEffect
  <2>3. got'.clientid \in Fds /\ got'.msg \in 1 .. MaxSends
    <3>1. got'.clientid \in Fds /\ got'.msg \in 1 .. sent /\ sent \in 0 .. MaxSends
      BY <2>1, <2>2 DEF IInv, TaskInv, TypeOK
    <3> QED
      BY <3>1, CapAssumption
  <2>4. PICK c \in Conns \cup {0}, m \in 1 .. MaxSends :
           /\ m = got'.msg
           /\ sendBuf' = IF c = 0 \/ (c # 0 /\ RingFull(c)) THEN sendBuf
                         ELSE [sendBuf EXCEPT ![c] = Append(sendBuf[c], m)]
    BY <1>0, <1>2, <2>3 DEF HandleSend
  <2>5. CASE sendBuf' = sendBuf
    BY <1>1, <2>1, <2>5
  <2>6. CASE c \in Conns /\ sendBuf' = [sendBuf EXCEPT ![c] = Append(sendBuf[c], m)]
    <3>1. \A d \in Conns \ {c} : Stream(d)' = Stream(d)
      BY <1>0, <2>1, <2>6 DEF Stream
    <3>2. Stream(c)' = wire[c] \o Append(sendBuf[c], m)
      BY <1>0, <2>1, <2>6 DEF Stream
    <3>3. /\ Append(sendBuf[c], m) \in Seq(1 .. MaxSends)
          /\ Len(Append(sendBuf[c], m)) = Len(sendBuf[c]) + 1
          /\ \A i \in 1 .. Len(sendBuf[c]) : Append(sendBuf[c], m)[i] = sendBuf[c][i]
          /\ Append(sendBuf[c], m)[Len(sendBuf[c]) + 1] = m
          /\ wire[c] \in Seq(1 .. MaxSends) /\ sendBuf[c] \in Seq(1 .. MaxSends)
      BY <1>0, <2>4, <2>6, AppendProperties
    <3> DEFINE w == wire[c]
               s == sendBuf[c]
               t == Append(sendBuf[c], m)
    <3>4. /\ Len(w) \in Nat /\ Len(s) \in Nat
          /\ DOMAIN Stream(c) = 1 .. Len(w) + Len(s) /\ Len(Stream(c)) = Len(w) + Len(s)
          /\ \A i \in 1 .. Len(w) : Stream(c)[i] = w[i]
          /\ \A i \in 1 .. Len(s) : Stream(c)[Len(w) + i] = s[i]
      BY <1>0, <2>6, StreamShape
    <3>5. /\ w \in Seq(1 .. MaxSends) /\ t \in Seq(1 .. MaxSends) /\ Stream(c)' = w \o t
          /\ Len(t) = Len(s) + 1 /\ t[Len(s) + 1] = m /\ \A i \in 1 .. Len(s) : t[i] = s[i]
      BY <3>2, <3>3
    <3> HIDE DEF w, s, t
    <3>6. /\ DOMAIN (Stream(c)') = 1 .. Len(w) + Len(s) + 1
          /\ \A i \in 1 .. Len(w) : Stream(c)'[i] = w[i]
          /\ \A i \in 1 .. Len(s) : Stream(c)'[Len(w) + i] = s[i]
          /\ Stream(c)'[Len(w) + Len(s) + 1] = m
      <4>1. /\ DOMAIN (w \o t) = 1 .. Len(w) + Len(t)
            /\ \A i \in 1 .. Len(w) : (w \o t)[i] = w[i]
            /\ \A i \in 1 .. Len(t) : (w \o t)[Len(w) + i] = t[i]
        BY <3>5, Joined
      <4>2. /\ \A i \in 1 .. Len(s) : i \in 1 .. Len(t)
            /\ Len(s) + 1 \in 1 .. Len(t) /\ Len(w) + (Len(s) + 1) = Len(w) + Len(s) + 1
            /\ Len(w) + Len(t) = Len(w) + Len(s) + 1
        BY <3>4, <3>5
      <4>3. (w \o t)[Len(w) + Len(s) + 1] = m
        BY <3>5, <4>1, <4>2
      <4> QED
        BY <3>5, <4>1, <4>2, <4>3
    <3>7. ASSUME NEW i \in DOMAIN (Stream(c)')
          PROVE  \/ i \in DOMAIN Stream(c) /\ Stream(c)'[i] = Stream(c)[i]
                 \/ i = Len(Stream(c)) + 1 /\ Stream(c)'[i] = m
      <4>0. i \in 1 .. Len(w) + Len(s) + 1
        BY <3>6
      <4>1. CASE i \in 1 .. Len(w)
        BY <3>4, <3>6, <4>1
      <4>2. CASE i - Len(w) \in 1 .. Len(s)
        <5>1. Len(w) + (i - Len(w)) = i
          BY <3>4, <4>0
        <5>2. Stream(c)'[i] = s[i - Len(w)] /\ Stream(c)[i] = s[i - Len(w)]
          BY <3>4, <3>6, <4>2, <5>1
        <5> QED
          BY <3>4, <4>0, <4>2, <5>2
      <4>3. CASE i = Len(w) + Len(s) + 1
        BY <3>4, <3>6, <4>3
      <4> QED
        BY <3>4, <4>0, <4>1, <4>2, <4>3
    <3>8. m = queue[1].task.msg /\ queue[1].task.event = "S"
      BY <2>1, <2>2, <2>4
    <3>9. ASSUME NEW d \in Conns, NEW i \in DOMAIN (Stream(d)')
          PROVE  \/ i \in DOMAIN Stream(d) /\ Stream(d)'[i] = Stream(d)[i]
                 \/ d = c /\ i = Len(Stream(c)) + 1 /\ Stream(d)'[i] = queue[1].task.msg
      BY <3>1, <3>7, <3>8, <3>9
    <3>10. StreamGrows(c)
      BY <2>1, <3>4, <3>8, <3>9 DEF StreamGrows
    <3> QED
      BY <2>6, <3>10
  <2> QED
    BY <2>4, <2>5, <2>6
<1>3. CASE HandleDelClose
  <2>1. PICK c \in Conns : sendBuf' = [sendBuf EXCEPT ![c] = << >>] /\ wire' = wire
    BY <1>3, CloseFacts DEF Open
  <2>2. \A d \in Conns \ {c} : Stream(d)' = Stream(d)
    BY <1>0, <2>1 DEF Stream
  <2>3. Stream(c)' = wire[c] \o << >> /\ wire[c] \in Seq(1 .. MaxSends) /\ sendBuf[c] \in Seq(1 .. MaxSends)
        /\ << >> \in Seq(1 .. MaxSends) /\ Len(<< >>) = 0
    BY <1>0, <2>1 DEF Stream
  <2>4. \A i \in DOMAIN (Stream(c)') : i \in DOMAIN Stream(c) /\ Stream(c)'[i] = Stream(c)[i]
    <3>1. DOMAIN (Stream(c)') = 1 .. Len(wire[c]) + 0 /\ \A i \in 1 .. Len(wire[c]) : Stream(c)'[i] = wire[c][i]
      BY <2>3, Joined
    <3>2. /\ DOMAIN Stream(c) = 1 .. Len(wire[c]) + Len(sendBuf[c]) /\ Len(wire[c]) \in Nat /\ Len(sendBuf[c]) \in Nat
          /\ \A i \in 1 .. Len(wire[c]) : i \in DOMAIN Stream(c) /\ Stream(c)[i] = wire[c][i]
      BY <1>0, StreamShape
    <3>3. DOMAIN (Stream(c)') = 1 .. Len(wire[c])
      BY <3>1, <3>2
    <3> QED
      BY <3>1, <3>2, <3>3
  <2> QED
    BY <2>2, <2>4 DEF StreamsKept
<1>4. CASE DoEvent
  <2>1. PICK e \in batch : EventHup(e) \/ EventSpin(e) \/ EventIO(e)
    BY <1>4 DEF DoEvent
  <2>2. CASE EventHup(e) \/ EventSpin(e)
    BY <1>1, <2>2 DEF EventHup, EventSpin, kernel, cells
  <2>3. CASE EventIO(e)
    <3>1. PICK n \in Nat, c \in Conns :
              /\ n <= Len(sendBuf[c])
              /\ wire' = [wire EXCEPT ![c] = wire[c] \o SubSeq(sendBuf[c], 1, n)]
              /\ sendBuf' = [sendBuf EXCEPT ![c] = SubSeq(sendBuf[c], n + 1, Len(sendBuf[c]))]
      BY <2>3, EventIOFacts
    <3>2. wire[c] \in Seq(1 .. MaxSends) /\ sendBuf[c] \in Seq(1 .. MaxSends)
      BY <1>0
    <3>3. Stream(c)' = (wire[c] \o SubSeq(sendBuf[c], 1, n)) \o SubSeq(sendBuf[c], n + 1, Len(sendBuf[c]))
      BY <1>0, <3>1 DEF Stream
    <3>4. Stream(c)' = Stream(c)
      BY <3>1, <3>2, <3>3, Moved DEF Stream
    <3>5. \A d \in Conns \ {c} : Stream(d)' = Stream(d)
      BY <1>0, <3>1 DEF Stream
    <3> QED
      BY <3>4, <3>5 DEF StreamsKept
  <2> QED
    BY <2>1, <2>2, <2>3
<1> QED
  BY <1>1, <1>2, <1>3, <1>4, WhoSends

\* A message put into the queue is later than any that is in the queue or the streams.
LEMMA NewMessage ==
    ASSUME IInv, NEW t, NewTask(t), t.event = "S"
    PROVE  /\ t.msg \in Nat
           /\ \A j \in DOMAIN queue : queue[j].task.event = "S" => queue[j].task.msg < t.msg
           /\ \A c \in Conns : \A i \in DOMAIN Stream(c) : Stream(c)[i] < t.msg
<1>1. t.msg = sent + 1
  BY DEF NewTask, task
<1>2. sent \in Nat
  BY CapAssumption DEF IInv, TypeOK
<1>3. \A j \in DOMAIN queue : queue[j].task.event = "S" => queue[j].task.msg \in 1 .. sent
  BY DEF IInv, TaskInv
<1>4. ASSUME NEW c \in Conns, NEW i \in DOMAIN Stream(c) PROVE Stream(c)[i] < t.msg
  <2>2. Stream(c)[i] \in Nat
    BY StreamShape DEF IInv
  <2>3. Stream(c)[i] <= sent
    BY DEF IInv, OrderInv
  <2> QED
    BY <1>1, <1>2, <2>2, <2>3
<1> QED
  BY <1>1, <1>2, <1>3, <1>4

LEMMA OrderNext ==
    ASSUME IInv, [Next]_vars
    PROVE  OrderInv'
<1>0. /\ OrderInv /\ TaskInv /\ sent \in Nat /\ sent' \in Nat /\ sent' >= sent
      /\ Len(queue) \in Nat /\ DOMAIN queue = 1 .. Len(queue)
  BY SenderNext, QueueType, CapAssumption DEF IInv, TypeOK
<1>1. PICK k, n : /\ Kept(k, n) /\ queue' \in Seq(TQ!Entry)
                  /\ \/ Len(queue') = n
                     \/ Len(queue') = n + 1 /\ NewTask(queue'[n + 1].task)
  BY QueueStep
<1>2. /\ k \in Nat /\ n \in Nat /\ k + n = Len(queue)
      /\ \A i \in 1 .. n : queue'[i].task = queue[i + k].task /\ i + k \in DOMAIN queue
  BY <1>0, <1>1, KeptPlaces
\* A task of the new queue was there before, or is new and the last.
<1>3. ASSUME NEW j \in DOMAIN queue'
      PROVE  \/ j \in 1 .. n /\ j + k \in DOMAIN queue /\ queue'[j].task = queue[j + k].task
             \/ j = n + 1 /\ NewTask(queue'[j].task)
  <2>1. j \in 1 .. Len(queue')
    BY <1>1
  <2> QED
    BY <1>1, <1>2, <2>1
<1>4. ASSUME NEW i \in DOMAIN queue', NEW j \in DOMAIN queue',
             queue'[i].task.event = "S", queue'[j].task.event = "S", i < j
      PROVE  queue'[i].task.msg < queue'[j].task.msg
  <2>1. i \in 1 .. n /\ i + k \in DOMAIN queue /\ queue'[i].task = queue[i + k].task
    <3>1. i \in 1 .. Len(queue') /\ j \in 1 .. Len(queue')
      BY <1>1
    <3> QED
      BY <1>1, <1>2, <1>3, <1>4, <3>1
  <2>2. CASE j \in 1 .. n /\ j + k \in DOMAIN queue /\ queue'[j].task = queue[j + k].task
    <3>1. i + k < j + k
      BY <1>2, <1>4, <2>1, <2>2
    <3> QED
      BY <1>0, <1>4, <2>1, <2>2, <3>1 DEF OrderInv
  <2>3. CASE NewTask(queue'[j].task)
    BY <1>4, <2>1, <2>3, NewMessage
  <2> QED
    BY <1>3, <2>2, <2>3
<1>5. CASE StreamsKept
  <2>1. ASSUME NEW c \in Conns, NEW i \in DOMAIN (Stream(c)')
        PROVE  /\ Stream(c)'[i] <= sent'
               /\ \A j \in DOMAIN (Stream(c)') : i < j => Stream(c)'[i] < Stream(c)'[j]
               /\ \A d \in Conns \ {c} : \A j \in DOMAIN (Stream(d)') : Stream(c)'[i] # Stream(d)'[j]
    <3>1. i \in DOMAIN Stream(c) /\ Stream(c)'[i] = Stream(c)[i]
      BY <1>5 DEF StreamsKept
    <3>2. Stream(c)[i] \in Nat
      BY <3>1, StreamShape DEF IInv
    <3>3. Stream(c)[i] <= sent
      BY <1>0, <3>1 DEF OrderInv
    <3>4. Stream(c)'[i] <= sent'
      BY <1>0, <3>1, <3>2, <3>3
    <3> QED
      BY <1>0, <1>5, <3>1, <3>4 DEF StreamsKept, OrderInv
  <2>2. ASSUME NEW c \in Conns, NEW i \in DOMAIN (Stream(c)'),
               NEW j \in DOMAIN queue', queue'[j].task.event = "S"
        PROVE  Stream(c)'[i] < queue'[j].task.msg
    <3>1. i \in DOMAIN Stream(c) /\ Stream(c)'[i] = Stream(c)[i]
      BY <1>5 DEF StreamsKept
    <3>2. CASE j + k \in DOMAIN queue /\ queue'[j].task = queue[j + k].task
      BY <1>0, <2>2, <3>1, <3>2 DEF OrderInv
    <3>3. CASE NewTask(queue'[j].task)
      BY <2>2, <3>1, <3>3, NewMessage
    <3> QED
      BY <1>3, <3>2, <3>3
  <2> QED
    BY <1>4, <2>1, <2>2 DEF OrderInv
<1>6. ASSUME NEW c \in Conns, StreamGrows(c)
      PROVE  OrderInv'
  <2> DEFINE m == queue[1].task.msg
             last == Len(Stream(c)) + 1
  <2>1. /\ 1 \in DOMAIN queue /\ queue[1].task.event = "S" /\ sent' = sent
        /\ DOMAIN Stream(c) = 1 .. Len(Stream(c)) /\ Len(Stream(c)) \in Nat
        /\ DOMAIN queue' = 1 .. Len(queue) - 1
        /\ \A j \in DOMAIN queue' : queue'[j] = queue[j + 1] /\ j + 1 \in DOMAIN queue /\ 1 < j + 1
    <3>1. /\ 1 \in DOMAIN queue /\ Len(queue') = Len(queue) - 1 /\ queue' \in Seq(TQ!Entry)
          /\ \A j \in 1 .. Len(queue') : queue'[j] = queue[j + 1]
      BY <1>6, TakeEffect DEF StreamGrows, IInv
    <3>2. DOMAIN queue' = 1 .. Len(queue) - 1
      BY <3>1
    <3> QED
      BY <1>0, <1>6, <3>1, <3>2 DEF StreamGrows
  <2>2. m \in 1 .. sent
    BY <1>0, <2>1 DEF TaskInv
  <2>3. \A d \in Conns : \A i \in DOMAIN Stream(d) : Stream(d)[i] < m /\ Stream(d)[i] \in Nat
    <3>1. ASSUME NEW d \in Conns, NEW i \in DOMAIN Stream(d) PROVE Stream(d)[i] \in Nat
      BY StreamShape DEF IInv
    <3> QED
      BY <1>0, <2>1, <3>1 DEF OrderInv
  <2>4. \A j \in DOMAIN queue' : queue'[j].task.event = "S" => m < queue'[j].task.msg
    BY <1>0, <2>1 DEF OrderInv
  <2>5. ASSUME NEW d \in Conns, NEW i \in DOMAIN (Stream(d)')
        PROVE  \/ i \in DOMAIN Stream(d) /\ Stream(d)'[i] = Stream(d)[i]
               \/ d = c /\ i = last /\ Stream(d)'[i] = m
    BY <1>6 DEF StreamGrows
  <2> HIDE DEF m, last
  <2>6. ASSUME NEW d \in Conns, NEW i \in DOMAIN (Stream(d)')
        PROVE  /\ Stream(d)'[i] <= sent'
               /\ \A j \in DOMAIN queue' :
                     queue'[j].task.event = "S" => Stream(d)'[i] < queue'[j].task.msg
    <3>1. CASE i \in DOMAIN Stream(d) /\ Stream(d)'[i] = Stream(d)[i]
      BY <1>0, <2>1, <3>1 DEF OrderInv
    <3>2. CASE Stream(d)'[i] = m
      BY <2>1, <2>2, <2>4, <3>2
    <3> QED
      BY <2>5, <3>1, <3>2
  <2>7. ASSUME NEW d \in Conns, NEW i \in DOMAIN (Stream(d)'), NEW j \in DOMAIN (Stream(d)'), i < j
        PROVE  Stream(d)'[i] < Stream(d)'[j]
    <3>1. i \in DOMAIN Stream(d) /\ Stream(d)'[i] = Stream(d)[i]
      <4>1. CASE d = c /\ i = last
        <5>1. j \in DOMAIN Stream(c) \/ j = last
          BY <2>5, <4>1
        <5> QED
          BY <2>1, <2>7, <4>1, <5>1 DEF last
      <4> QED
        BY <2>5, <4>1
    <3>2. CASE j \in DOMAIN Stream(d) /\ Stream(d)'[j] = Stream(d)[j]
      BY <1>0, <2>7, <3>1, <3>2 DEF OrderInv
    <3>3. CASE Stream(d)'[j] = m
      BY <2>3, <3>1, <3>3
    <3> QED
      BY <2>5, <3>2, <3>3
  <2>8. ASSUME NEW d \in Conns, NEW e \in Conns \ {d},
               NEW i \in DOMAIN (Stream(d)'), NEW j \in DOMAIN (Stream(e)')
        PROVE  Stream(d)'[i] # Stream(e)'[j]
    <3>1. CASE /\ i \in DOMAIN Stream(d) /\ Stream(d)'[i] = Stream(d)[i]
               /\ j \in DOMAIN Stream(e) /\ Stream(e)'[j] = Stream(e)[j]
      BY <1>0, <3>1 DEF OrderInv
    <3>2. CASE d = c /\ Stream(d)'[i] = m
      <4>1. j \in DOMAIN Stream(e) /\ Stream(e)'[j] = Stream(e)[j]
        BY <2>5, <3>2
      <4> QED
        BY <2>2, <2>3, <3>2, <4>1
    <3>3. CASE e = c /\ Stream(e)'[j] = m
      <4>1. i \in DOMAIN Stream(d) /\ Stream(d)'[i] = Stream(d)[i]
        BY <2>5, <3>3
      <4> QED
        BY <2>2, <2>3, <3>3, <4>1
    <3> QED
      BY <2>5, <3>1, <3>2, <3>3
  <2> QED
    BY <1>4, <2>6, <2>7, <2>8 DEF OrderInv
<1> QED
  BY <1>5, <1>6, StreamStep

-----------------------------------------------------------------------------
(***************************************************************************)
(* The theorems.                                                           *)
(***************************************************************************)
LEMMA IInit == Init => IInv
<1> SUFFICES ASSUME Init PROVE IInv
  OBVIOUS
<1>0. TypeOK /\ 0 \notin Conns
  BY TypeInit DEF Conns
<1>1. ConnInv /\ AcceptorInv /\ StoredInv /\ EraseInv
  BY DEF Init, ConnInv, AcceptorInv, StoredInv, EraseInv, Open
<1>2. WatchInv
  BY DEF Init, WatchInv, WatchedAreStored
<1>3. TaskInv
  BY DEF Init, TaskInv
<1>4. SenderInv
  <2>1. Pushing = {}
    BY DEF Init, Pushing
  <2>2. Cardinality(Pushing) = 0
    BY <2>1, FS_EmptySet
  <2> QED
    BY <2>2, CapAssumption DEF Init, SenderInv
<1>5. OrderInv
  <2>1. \A c \in Conns : DOMAIN Stream(c) = {}
    BY DEF Init, Stream
  <2> QED
    BY <2>1 DEF Init, OrderInv
<1> QED
  BY <1>0, <1>1, <1>2, <1>3, <1>4, <1>5 DEF IInv

LEMMA INext == IInv /\ [Next]_vars => IInv'
BY TypeNext, ConnNext, AcceptorNext, StoredNext, EraseNext, WatchNext, TaskNext, SenderNext, OrderNext
   DEF IInv

LEMMA Invariant == Spec => []IInv
<1>1. Init => IInv
  BY IInit
<1>2. IInv /\ [Next]_vars => IInv'
  BY INext
<1> QED
  BY <1>1, <1>2, PTL DEF Spec

\* Every variable has its type in every reachable state; in particular m_Cell, the
\* tasks, the events and the callbacks name descriptors the kernel gave out, no cell's
\* ring overflows, and no more than MaxSends messages are accepted.
THEOREM TypeCorrect == Spec => []TypeOK
<1>1. IInv => TypeOK
  BY DEF IInv
<1> QED
  BY <1>1, Invariant, PTL

\* m_Cell (cell_manager.cpp:87, 187-202) never leads to a deleted cell, nor to a closed
\* socket or one with another descriptor, except to the entry handleDel is about to
\* erase: even when the kernel gives that descriptor out again before it is erased.
THEOREM CellsTheorem == Spec => []CellsAreLive
<1>1. IInv => CellsAreLive
  BY DEF IInv, StoredInv, CellsAreLive
<1> QED
  BY <1>1, Invariant, PTL

\* Whatever epoll watches (handleAdd 142, checkWrite 233-265), and every event that
\* doEvent (302-314) handles, belongs to an open connection whose cell m_Cell leads to
\* and of which OnConnect told the application.
THEOREM WatchedTheorem == Spec => []WatchedAreStored
<1>1. IInv => WatchedAreStored
  BY DEF IInv, WatchInv
<1> QED
  BY <1>1, Invariant, PTL

\* SendData's messages (116-131) reach sockets at most once, on one connection only,
\* and on each in the order of their acceptance, through any number of queued tasks,
\* lost messages and partial writes (handleSend 154-181, doSend 388-437).
THEOREM WrittenTheorem == Spec => []WrittenOnceInOrder
<1>1. ASSUME IInv PROVE WrittenOnceInOrder
  <2>1. ASSUME NEW c \in Conns, NEW i \in DOMAIN wire[c]
        PROVE  i \in DOMAIN Stream(c) /\ Stream(c)[i] = wire[c][i]
    <3>1. wire[c] \in Seq(1 .. MaxSends)
      BY <1>1 DEF IInv, TypeOK
    <3>2. i \in 1 .. Len(wire[c])
      BY <3>1
    <3> QED
      BY <1>1, <3>2, StreamShape DEF IInv
  <2>2. ASSUME NEW c \in Conns, NEW i \in DOMAIN wire[c]
        PROVE  /\ \A j \in DOMAIN wire[c] : i < j => wire[c][i] < wire[c][j]
               /\ \A d \in Conns \ {c} : \A j \in DOMAIN wire[d] : wire[c][i] # wire[d][j]
    <3>1. /\ \A j \in DOMAIN Stream(c) : i < j => Stream(c)[i] < Stream(c)[j]
          /\ \A d \in Conns \ {c} : \A j \in DOMAIN Stream(d) : Stream(c)[i] # Stream(d)[j]
      BY <1>1, <2>1, <2>2 DEF IInv, OrderInv
    <3> QED
      BY <2>1, <2>2, <3>1
  <2> QED
    BY <2>2 DEF WrittenOnceInOrder
<1> QED
  BY <1>1, Invariant, PTL

-----------------------------------------------------------------------------
(***************************************************************************)
(* The callbacks, as long as no descriptor is given out twice.             *)
(***************************************************************************)
LEMMA TakenTask ==
    ASSUME IInv, TQ!Take, NEW e, NEW f, got'.event = e, got'.clientid = f
    PROVE  /\ 1 \in DOMAIN queue /\ queue[1].task.event = e /\ queue[1].task.clientid = f
           /\ Queued(e, f) /\ f \in Fds
<1>1. 1 \in DOMAIN queue /\ got' = queue[1].task
  BY TakeEffect DEF IInv
<1>2. queue[1].task.clientid \in Fds
  BY <1>1 DEF IInv, TaskInv
<1> QED
  BY <1>1, <1>2 DEF Queued

\* Where a task in the queue comes from.
LEMMA QueuedStep ==
    ASSUME IInv, [Next]_vars, NEW e, NEW f, Queued(e, f)'
    PROVE  \/ Queued(e, f)
           \/ e = "A" /\ AddReserve /\ apc = "push" /\ fd[acell] = f
           \/ e = "S"
           \/ e = "D" /\ HandleAddClosed /\ Queued("A", f) /\ m_Cell[f] = 0
           \/ e = "D" /\ DoEvent /\ \E c \in Open : fd[c] = f /\ interest[c] # {}
<1>1. PICK k, n : /\ Kept(k, n) /\ queue' \in Seq(TQ!Entry)
                  /\ \/ Len(queue') = n
                     \/ Len(queue') = n + 1 /\ NewTask(queue'[n + 1].task)
  BY QueueStep
<1>2. /\ Len(queue) \in Nat /\ DOMAIN queue = 1 .. Len(queue)
      /\ k \in Nat /\ n \in Nat
      /\ \A i \in 1 .. n : queue'[i].task = queue[i + k].task /\ i + k \in DOMAIN queue
  BY <1>1, QueueType, KeptPlaces DEF IInv
<1>3. PICK j \in DOMAIN queue' : queue'[j].task.event = e /\ queue'[j].task.clientid = f
  BY DEF Queued
<1>4. j \in 1 .. n \/ (j = n + 1 /\ NewTask(queue'[j].task))
  <2>1. j \in 1 .. Len(queue')
    BY <1>1
  <2> QED
    BY <1>1, <1>2, <2>1
<1>5. CASE j \in 1 .. n
  BY <1>2, <1>3, <1>5 DEF Queued
<1>6. CASE NewTask(queue'[j].task)
  <2>1. CASE AddReserve /\ queue'[j].task = task("A", fd[acell], 0)
    BY <1>3, <2>1 DEF AddReserve, task
  <2>2. CASE \E s \in Senders : queue'[j].task = task("S", sarg[s], sent + 1)
    BY <1>3, <2>2 DEF task
  <2>3. CASE queue'[j].task = task("D", f, 0) /\ HandleAddClosed /\ f = queue[1].task.clientid
    <3>1. /\ TQ!HeadReady /\ Head(queue).task.event = "A"
          /\ m_Cell[Head(queue).task.clientid] = 0
      BY <2>3 DEF HandleAddClosed
    <3>2. 1 \in DOMAIN queue /\ Head(queue) = queue[1]
      BY <3>1, TailEffect DEF IInv
    <3> QED
      BY <1>3, <2>3, <3>1, <3>2 DEF Queued, task
  <2>4. CASE queue'[j].task = task("D", f, 0) /\ DoEvent /\ \E ev \in batch : f = ev.fd
    <3>1. \E c \in Open : fd[c] = f /\ interest[c] # {}
      BY <2>4 DEF IInv, WatchInv, WatchedAreStored
    <3> QED
      BY <1>3, <2>4, <3>1 DEF task
  <2>5. ASSUME NEW g \in Fds, queue'[j].task = task("D", g, 0)
        PROVE  g = f
    BY <1>3, <2>5 DEF task
  <2> QED
    BY <1>6, <2>1, <2>2, <2>3, <2>4, <2>5 DEF NewTask
<1> QED
  BY <1>4, <1>5, <1>6

LEMMA ErasingStep ==
    ASSUME IInv, [Next]_vars, NEW f, Erasing(f)'
    PROVE  \/ Erasing(f)
           \/ HandleDelClose /\ Queued("D", f) /\ f \in Fds /\ m_Cell[f] # 0 /\ session' = session
<1>1. mpc' = "erase" /\ got'.clientid = f
  BY DEF Erasing
<1>2. CASE HandleDelClose
  <2>1. TQ!Take /\ got'.event = "D" /\ m_Cell[got'.clientid] # 0 /\ session' = session
    BY <1>2 DEF HandleDelClose, app
  <2> QED
    BY <1>1, <1>2, <2>1, TakenTask
<1>3. CASE ~ HandleDelClose
  <2>1. mpc = "erase"
    BY <1>1, <1>3, WhoWatches DEF HandleDelErase, TasksDone, CheckWrite, EpollWait, EventsDone
  <2>2. got' = got
    BY <1>3, <2>1, WhoSends, ReserveEffect, PublishEffect
       DEF AddReserve, AddPublish, SendReserve, SendPublish, HandleSend, HandleAdd,
           HandleAddClosed, HandleDelNone, DoEvent, TQ!Reserve, TQ!Publish, tasks
  <2> QED
    BY <1>1, <2>1, <2>2 DEF Erasing
<1> QED
  BY <1>2, <1>3

\* The application's knowledge of a descriptor changes when handleAdd announces the
\* connection stored there, and when handleDel withdraws it.
LEMMA SessionStep ==
    ASSUME IInv, [Next]_vars, NEW f \in Fds, session'[f] # session[f]
    PROVE  \/ /\ HandleAdd /\ TQ!Take /\ got'.event = "A" /\ got'.clientid = f
              /\ Queued("A", f) /\ m_Cell[f] # 0 /\ session'[f] # 0
              /\ UNCHANGED <<m_Cell, apc, acell, fd, mpc>>
           \/ /\ HandleDelErase /\ Erasing(f) /\ session'[f] = 0 /\ m_Cell'[f] = 0
<1>0. WatchTypes
  BY WatchTypesHold DEF IInv
<1>1. CASE HandleAdd
  <2>1. TQ!Take /\ got'.event = "A" /\ m_Cell[got'.clientid] # 0
    BY <1>1 DEF HandleAdd
  <2>2. /\ session' = [session EXCEPT ![got'.clientid] = m_Cell[got'.clientid]]
        /\ UNCHANGED <<m_Cell, apc, acell, fd, mpc>>
    BY <1>1 DEF HandleAdd, cells, acceptor, manager
  <2>3. got'.clientid = f /\ session'[f] = m_Cell[f]
    BY <1>0, <2>2 DEF WatchTypes
  <2> QED
    BY <1>1, <2>1, <2>2, <2>3, TakenTask
<1>2. CASE HandleDelErase
  BY <1>0, <1>2 DEF HandleDelErase, Erased, Erasing, WatchTypes
<1> QED
  BY <1>1, <1>2, WhoWatches

\* A cell is stored by the acceptor, and its entry erased by handleDel.
LEMMA CellStep ==
    ASSUME IInv, [Next]_vars, NEW f \in Fds, m_Cell'[f] # m_Cell[f]
    PROVE  \/ AddInsert /\ apc = "insert" /\ Adding(f) /\ m_Cell'[f] # 0
           \/ HandleDelErase /\ Erasing(f) /\ m_Cell'[f] = 0
<1>0. WatchTypes
  BY WatchTypesHold DEF IInv
<1>1. CASE AddInsert
  <2>1. acell # 0 /\ apc = "insert"
    BY <1>0, <1>1 DEF AddInsert, IInv, AcceptorInv, WatchTypes
  <2> QED
    BY <1>0, <1>1, <2>1 DEF AddInsert, Adding, WatchTypes
<1>2. CASE HandleDelErase
  BY <1>0, <1>2 DEF HandleDelErase, Erased, Erasing, WatchTypes
<1> QED
  BY <1>1, <1>2, WhoChangesSockets

\* Once two D tasks for one descriptor have been queued, that stays so.
LEMMA DoubledStep ==
    ASSUME [Next]_vars, ~ doubled'
    PROVE  /\ ~ doubled
           /\ HandleAddClosed => ~ TwoDeletions(queue')
           /\ DoEvent => queue' = queue \/ ~ TwoDeletions(queue')
<1>1. UNCHANGED doubled \/ HandleAddClosed \/ DoEvent
  BY ZenonT(60)
     DEF Next, Peer, PeerConnect, PeerSend, PeerClose, PeerReset, Acceptance, Accept, AddInsert,
         AddReserve, AddPublish, SendCall, SendGoOn, SendClosed, SendFound, SendReserve,
         SendPublish, Manage, HandleSend, HandleAdd, HandleDelNone, HandleDelClose,
         HandleDelErase, TasksDone, CheckWrite, EpollWait, EventsDone, vars, history
<1>2. HandleAddClosed => ~ doubled /\ ~ TwoDeletions(queue')
  BY DEF HandleAddClosed
<1>3. DoEvent => ~ doubled /\ (queue' = queue \/ ~ TwoDeletions(queue'))
  BY DEF DoEvent, EventHup, EventSpin, EventIO, EventDeletes, tasks, history
<1> QED
  BY <1>1, <1>2, <1>3

\* The task handleTask takes was the only one of its kind for its descriptor.
LEMMA TakenOnce ==
    ASSUME IInv, OnceInv, NEW e \in {"A", "D"}, NEW f \in Fds,
           TQ!Take, got'.event = e, got'.clientid = f
    PROVE  ~ Queued(e, f)'
<1>1. 1 \in DOMAIN queue /\ queue[1].task.event = e /\ queue[1].task.clientid = f
  BY TakenTask
<1>2. \A i \in DOMAIN queue' : queue'[i] = queue[i + 1] /\ i + 1 \in DOMAIN queue /\ i + 1 # 1
  <2>1. /\ queue' \in Seq(TQ!Entry) /\ Len(queue') = Len(queue) - 1
        /\ \A i \in 1 .. Len(queue') : queue'[i] = queue[i + 1]
    BY TakeEffect DEF IInv
  <2>2. DOMAIN queue' = 1 .. Len(queue') /\ DOMAIN queue = 1 .. Len(queue) /\ Len(queue) \in Nat
    BY <2>1, QueueType DEF IInv
  <2> QED
    BY <2>1, <2>2
<1> QED
  BY <1>1, <1>2 DEF OnceInv, Queued

\* A descriptor becomes free when handleDel closes it, and is given out by accept4.
LEMMA FreeStep ==
    ASSUME IInv, [Next]_vars, NEW f \in FreeFds'
    PROVE  /\ f \in Fds
           /\ \/ f \in FreeFds
              \/ HandleDelClose /\ TQ!Take /\ got'.event = "D" /\ got'.clientid = f /\ Erasing(f)'
<1>0. WatchTypes
  BY WatchTypesHold DEF IInv
<1>1. CASE UNCHANGED <<sock, fd>>
  BY <1>1 DEF FreeFds, Open
<1>2. ASSUME NEW c \in Conns, PeerConnect(c) PROVE f \in FreeFds
  BY <1>0, <1>2 DEF PeerConnect, FreeFds, Open, WatchTypes
<1>3. ASSUME Accept PROVE f \in FreeFds
  <2>1. PICK c \in Conns, g \in FreeFds :
           /\ sock' = [sock EXCEPT ![c] = "open"] /\ c \notin Open
           /\ fd' = [fd EXCEPT ![c] = g]
    BY <1>3, AcceptFacts
  <2> QED
    BY <1>0, <2>1 DEF FreeFds, Open, WatchTypes
<1>4. CASE HandleDelClose
  <2> DEFINE c == m_Cell[got'.clientid]
  <2>1. /\ c \in Open /\ fd[c] = got'.clientid /\ sock' = [sock EXCEPT ![c] = "closed"]
        /\ fd' = fd /\ mpc' = "erase"
    BY <1>4, CloseFacts
  <2>2. TQ!Take /\ got'.event = "D"
    BY <1>4 DEF HandleDelClose
  <2> HIDE DEF c
  <2>3. f \in FreeFds \/ f = fd[c]
    BY <1>0, <2>1 DEF FreeFds, Open, WatchTypes
  <2> QED
    BY <1>4, <2>1, <2>2, <2>3 DEF Erasing, FreeFds
<1> QED
  BY <1>1, <1>2, <1>3, <1>4, WhoChangesSockets DEF FreeFds

\* The acceptor comes to work on a descriptor by accept4, which takes a free one.
LEMMA AddingStep ==
    ASSUME IInv, [Next]_vars, NEW f \in Fds, Adding(f)'
    PROVE  \/ Adding(f)
           \/ Accept /\ f \in FreeFds /\ f \notin FreeFds' /\ UNCHANGED <<queue, got, mpc, session>>
<1>0. WatchTypes
  BY WatchTypesHold DEF IInv
<1>1. CASE Accept
  <2>1. PICK c \in Conns, g \in FreeFds :
           /\ fd' = [fd EXCEPT ![c] = g] /\ acell' = c
           /\ sock' = [sock EXCEPT ![c] = "open"]
           /\ UNCHANGED <<queue, got, mpc, session>>
    BY <1>1, AcceptFacts
  <2>2. g = f
    BY <1>0, <2>1 DEF Adding, WatchTypes, FreeFds
  <2>3. f \notin FreeFds'
    BY <1>0, <2>1, <2>2 DEF FreeFds, Open, WatchTypes
  <2> QED
    BY <1>1, <2>1, <2>2, <2>3
<1>2. CASE ~ Accept
  <2>1. fd' = fd
    BY <1>2, WhoChangesSockets, CloseFacts DEF PeerConnect
  <2>2. CASE UNCHANGED <<apc, acell>>
    BY <2>1, <2>2 DEF Adding
  <2>3. CASE AddInsert
    BY <2>1, <2>3 DEF AddInsert, Adding
  <2>4. CASE AddReserve \/ AddPublish
    BY <2>4 DEF AddReserve, AddPublish, Adding
  <2> QED
    BY <1>2, <2>2, <2>3, <2>4, WhoChangesSockets DEF Acceptance
<1> QED
  BY <1>1, <1>2

\* While handleDel is between delete and erase, only its own next step ends that.
LEMMA UnknownStep ==
    ASSUME IInv, [Next]_vars, NEW f \in Fds, Unknown(f)
    PROVE  \/ Unknown(f)'
           \/ HandleAdd /\ TQ!Take /\ got'.event = "A" /\ got'.clientid = f
<1>0. WatchTypes
  BY WatchTypesHold DEF IInv
<1>1. CASE session[f] = 0
  BY <1>1, SessionStep DEF Unknown
<1>2. CASE HandleDelErase
  <2>1. CASE Erasing(f)
    BY <1>0, <1>2, <2>1 DEF HandleDelErase, Erasing, Unknown, WatchTypes
  <2> QED
    BY <1>1, <2>1 DEF Unknown
<1>3. CASE Erasing(f) /\ ~ HandleDelErase
  <2>1. mpc = "erase" /\ got.clientid = f
    BY <1>3 DEF Erasing
  <2>2. mpc' = mpc
    BY <1>3, <2>1, WhoWatches DEF HandleDelClose, TasksDone, CheckWrite, EpollWait, EventsDone
  <2>3. got' = got
    BY <2>1, WhoSends, ReserveEffect, PublishEffect
       DEF AddReserve, AddPublish, SendReserve, SendPublish, HandleSend, HandleAdd,
           HandleAddClosed, HandleDelNone, HandleDelClose, DoEvent, TQ!Reserve, TQ!Publish, tasks
  <2> QED
    BY <2>1, <2>2, <2>3 DEF Erasing, Unknown
<1> QED
  BY <1>1, <1>2, <1>3 DEF Unknown

LEMMA FreshStep ==
    ASSUME IInv, [Next]_vars, NEW f \in Fds, Fresh(f)'
    PROVE  \/ Fresh(f)
           \/ Accept /\ f \in FreeFds /\ f \notin FreeFds' /\ UNCHANGED <<queue, got, mpc, session>>
<1>1. Queued("A", f)' => Fresh(f)
  BY QueuedStep DEF Fresh, Adding
<1> QED
  BY <1>1, AddingStep DEF Fresh

\* A D task is put into the queue for a descriptor that has no cell and is not to have
\* one, or that the application knows.
LEMMA DeletionStep ==
    ASSUME IInv, OnceInv, [Next]_vars, NEW f \in Fds, Queued("D", f)'
    PROVE  \/ Queued("D", f)
           \/ /\ ~ Fresh(f)' /\ f \notin FreeFds /\ f \notin FreeFds' /\ mpc' # "erase"
              /\ UNCHANGED <<m_Cell, session>>
              /\ m_Cell[f] = 0 \/ session[f] # 0
<1>1. ASSUME HandleAddClosed, Queued("A", f), m_Cell[f] = 0, ~ Queued("D", f)
      PROVE  ~ Fresh(f)' /\ f \notin FreeFds /\ f \notin FreeFds' /\ mpc' # "erase"
             /\ UNCHANGED <<m_Cell, session>>
  <2>1. /\ f \notin FreeFds /\ ~ Adding(f)
        /\ UNCHANGED <<sock, fd, m_Cell, session, apc, acell, mpc>> /\ mpc = "task"
    BY <1>1 DEF OnceInv, Fresh, HandleAddClosed, kernel, cells, acceptor, app, manager
  <2>2. FreeFds' = FreeFds /\ ~ Adding(f)'
    BY <2>1 DEF FreeFds, Open, Adding
  <2>3. /\ TQ!HeadReady /\ Head(queue).task.event = "A"
        /\ queue' = Deleting(Tail(queue), Head(queue).task.clientid)
    BY <1>1 DEF HandleAddClosed
  <2>4. /\ 1 \in DOMAIN queue /\ Head(queue) = queue[1] /\ queue[1].task.clientid \in Fds
        /\ Tail(queue) \in Seq(TQ!Entry) /\ Len(Tail(queue)) = Len(queue) - 1
        /\ Len(Tail(queue)) <= QueueCap
        /\ \A i \in 1 .. Len(queue) - 1 : Tail(queue)[i] = queue[i + 1]
    BY <2>3, TailEffect DEF IInv, TaskInv
  <2>5. DOMAIN queue = 1 .. Len(queue) /\ Len(queue) \in Nat
    BY QueueType DEF IInv
  <2> DEFINE g == queue[1].task.clientid
             q == Deleting(Tail(queue), g)
  <2>6. /\ q \in Seq(TQ!Entry)
        /\ \/ q = Tail(queue)
           \/ /\ Len(q) = Len(Tail(queue)) + 1
              /\ \A i \in 1 .. Len(Tail(queue)) : q[i] = Tail(queue)[i]
              /\ q[Len(Tail(queue)) + 1].task = task("D", g, 0)
    BY <2>4, DeletingEffect
  <2>7. queue' = q
    BY <2>3, <2>4
  <2> HIDE DEF q
  <2>8. DOMAIN q = 1 .. Len(q) /\ Len(q) \in Nat
    BY <2>6
  <2>9. ASSUME NEW i \in DOMAIN q
        PROVE  \/ i + 1 \in DOMAIN queue /\ i + 1 # 1 /\ q[i].task = queue[i + 1].task
               \/ q[i].task = task("D", g, 0)
    <3>1. CASE q = Tail(queue)
      BY <2>4, <2>5, <2>8, <3>1
    <3>2. CASE /\ Len(q) = Len(Tail(queue)) + 1
               /\ \A l \in 1 .. Len(Tail(queue)) : q[l] = Tail(queue)[l]
               /\ q[Len(Tail(queue)) + 1].task = task("D", g, 0)
      <4>1. i \in 1 .. Len(queue) - 1 \/ i = Len(queue)
        BY <2>4, <2>5, <2>8, <3>2
      <4>2. Len(Tail(queue)) + 1 = Len(queue)
        BY <2>4, <2>5
      <4> HIDE DEF g
      <4> QED
        BY <2>4, <2>5, <3>2, <4>1, <4>2
    <3> QED
      BY <2>6, <3>1, <3>2
  <2>10. g = f
    <3>1. PICK i \in DOMAIN q : q[i].task.event = "D" /\ q[i].task.clientid = f
      BY <2>7 DEF Queued
    <3>2. ~ (i + 1 \in DOMAIN queue /\ q[i].task = queue[i + 1].task)
      BY <1>1, <3>1 DEF Queued
    <3> QED
      BY <2>9, <3>1, <3>2 DEF task
  <2>11. ASSUME NEW i \in DOMAIN q, q[i].task.event = "A", q[i].task.clientid = f
         PROVE  FALSE
    <3>1. i + 1 \in DOMAIN queue /\ i + 1 # 1 /\ q[i].task = queue[i + 1].task
      BY <2>9, <2>11 DEF task
    <3> QED
      BY <2>3, <2>4, <2>10, <2>11, <3>1 DEF OnceInv
  <2> QED
    BY <2>1, <2>2, <2>7, <2>11 DEF Fresh, Queued
<1>2. ASSUME DoEvent, NEW c \in Open, fd[c] = f, interest[c] # {}
      PROVE  ~ Fresh(f)' /\ f \notin FreeFds /\ f \notin FreeFds' /\ mpc' # "erase"
             /\ UNCHANGED <<m_Cell, session>> /\ session[f] # 0
  <2>1. /\ UNCHANGED <<sock, fd, m_Cell, session, mpc, apc, acell>> /\ mpc = "events"
    BY <1>2 DEF DoEvent, EventHup, EventSpin, EventIO, kernel, cells, app, acceptor
  <2>2. f \notin FreeFds /\ FreeFds' = FreeFds
    BY <1>2, <2>1 DEF FreeFds, Open
  <2>3. session[f] = c /\ c # 0
    BY <1>2, WatchedFacts DEF Open, Conns
  <2>4. ~ Fresh(f)
    BY <2>1, <2>3 DEF OnceInv, Unknown, Erasing
  <2>5. ~ Accept
    BY <2>1 DEF Accept
  <2> QED
    BY <2>1, <2>2, <2>3, <2>4, <2>5, FreshStep
<1> QED
  BY <1>1, <1>2, QueuedStep

\* Who pushes an A task, and who a D task.
LEMMA NewTaskKind ==
    ASSUME NEW t, NewTask(t)
    PROVE  /\ t.event = "A" => AddReserve /\ t.clientid = fd[acell]
           /\ t.event = "D" => (HandleAddClosed \/ DoEvent) /\ t = task("D", t.clientid, 0)
<1>1. CASE AddReserve /\ t = task("A", fd[acell], 0)
  BY <1>1 DEF task
<1>2. ASSUME NEW s \in Senders, t = task("S", sarg[s], sent + 1)
      PROVE  t.event = "S"
  BY <1>2 DEF task
<1>3. ASSUME NEW f \in Fds, t = task("D", f, 0), HandleAddClosed \/ DoEvent
      PROVE  t.event = "D" /\ t = task("D", t.clientid, 0)
  BY <1>3 DEF task
<1> QED
  BY <1>1, <1>2, <1>3 DEF NewTask

\* At most one A task and one D task for a descriptor.
LEMMA UniqueNext ==
    ASSUME IInv, OnceInv, [Next]_vars, ~ doubled'
    PROVE  /\ \A i \in DOMAIN queue' : queue'[i].task.event = "D" =>
                queue'[i].task = task("D", queue'[i].task.clientid, 0)
           /\ \A i, j \in DOMAIN queue' :
                /\ queue'[i].task.event = queue'[j].task.event /\ queue'[i].task.event \in {"A", "D"}
                /\ queue'[i].task.clientid = queue'[j].task.clientid
                => i = j
<1>1. PICK k, n : /\ Kept(k, n) /\ queue' \in Seq(TQ!Entry)
                  /\ \/ Len(queue') = n
                     \/ Len(queue') = n + 1 /\ NewTask(queue'[n + 1].task)
  BY QueueStep
<1>2. /\ Len(queue) \in Nat /\ DOMAIN queue = 1 .. Len(queue)
      /\ k \in Nat /\ n \in Nat /\ k + n = Len(queue)
      /\ \A l \in 1 .. n : queue'[l].task = queue[l + k].task /\ l + k \in DOMAIN queue
  BY <1>1, QueueType, KeptPlaces DEF IInv
<1>3. ASSUME NEW l \in DOMAIN queue'
      PROVE  l \in 1 .. n \/ (l = n + 1 /\ NewTask(queue'[l].task))
  <2>1. l \in 1 .. Len(queue')
    BY <1>1
  <2> QED
    BY <1>1, <1>2, <2>1
<1>4. ASSUME NEW l \in DOMAIN queue', queue'[l].task.event = "D"
      PROVE  queue'[l].task = task("D", queue'[l].task.clientid, 0)
  <2>1. CASE l \in 1 .. n
    BY <1>2, <1>4, <2>1 DEF OnceInv
  <2>2. CASE NewTask(queue'[l].task)
    BY <1>4, <2>2, NewTaskKind
  <2> QED
    BY <1>3, <2>1, <2>2
<1>5. ASSUME NEW l \in 1 .. n, NEW m \in DOMAIN queue', m = n + 1, NewTask(queue'[m].task),
             queue'[l].task.event = queue'[m].task.event, queue'[m].task.event \in {"A", "D"},
             queue'[l].task.clientid = queue'[m].task.clientid
      PROVE  FALSE
  <2>1. CASE queue'[m].task.event = "A"
    <3>1. AddReserve /\ queue'[m].task.clientid = fd[acell]
      BY <1>5, <2>1, NewTaskKind
    <3>2. Adding(fd[acell]) /\ fd[acell] \in Fds
      BY <3>1 DEF AddReserve, Adding, IInv, AcceptorInv
    <3>3. Queued("A", fd[acell])
      BY <1>2, <1>5, <2>1, <3>1 DEF Queued
    <3> QED
      BY <3>2, <3>3 DEF OnceInv
  <2>2. CASE queue'[m].task.event = "D"
    <3>1. l \in DOMAIN queue' /\ l # m
      BY <1>1, <1>2, <1>5
    <3>2. queue'[l].task = queue'[m].task
      BY <1>4, <1>5, <2>2, <3>1
    <3>3. TwoDeletions(queue')
      BY <2>2, <3>1, <3>2 DEF TwoDeletions
    <3>4. HandleAddClosed \/ DoEvent
      BY <1>5, <2>2, NewTaskKind
    <3>5. queue' = queue
      BY <3>3, <3>4, DoubledStep
    <3>6. l \in DOMAIN queue /\ m \in DOMAIN queue /\ queue[l].task = queue[m].task
          /\ queue[l].task.event = "D"
      BY <2>2, <3>1, <3>2, <3>5
    <3> QED
      BY <3>1, <3>6 DEF OnceInv
  <2> QED
    BY <1>5, <2>1, <2>2
<1>6. ASSUME NEW i \in DOMAIN queue', NEW j \in DOMAIN queue',
             queue'[i].task.event = queue'[j].task.event, queue'[i].task.event \in {"A", "D"},
             queue'[i].task.clientid = queue'[j].task.clientid
      PROVE  i = j
  <2>1. CASE i \in 1 .. n /\ j \in 1 .. n
    <3>1. i + k = j + k
      BY <1>2, <1>6, <2>1 DEF OnceInv
    <3> QED
      BY <1>2, <2>1, <3>1
  <2> QED
    BY <1>3, <1>5, <1>6, <2>1
<1> QED
  BY <1>4, <1>6

LEMMA OnceNext ==
    ASSUME IInv, OnceInv, [Next]_vars, ~ doubled'
    PROVE  OnceInv'
<1>0. \A f \in FreeFds : f \in Fds
  BY DEF FreeFds
<1>1. ASSUME NEW f \in Fds, Adding(f)', Queued("A", f)'
      PROVE  FALSE
  <2>1. CASE Adding(f)
    <3>1. ~ Queued("A", f)
      BY <2>1 DEF OnceInv
    <3>2. AddReserve
      BY <1>1, <3>1, QueuedStep
    <3> QED
      BY <1>1, <3>2 DEF AddReserve, Adding
  <2>2. CASE f \in FreeFds /\ queue' = queue
    <3>1. Queued("A", f)
      BY <1>1, <2>2 DEF Queued
    <3> QED
      BY <2>2, <3>1 DEF OnceInv, Fresh
  <2> QED
    BY <1>1, <2>1, <2>2, AddingStep
<1>2. ASSUME NEW f \in Fds, Fresh(f)'
      PROVE  ~ Queued("D", f)' /\ Unknown(f)' /\ f \notin FreeFds'
  <2>1. CASE f \in FreeFds /\ f \notin FreeFds' /\ UNCHANGED <<queue, got, mpc, session>>
    BY <2>1 DEF OnceInv, Queued, Unknown, Erasing
  <2>2. CASE Fresh(f)
    <3>1. ~ Queued("D", f) /\ Unknown(f) /\ f \notin FreeFds
      BY <2>2 DEF OnceInv
    <3>2. ~ Queued("D", f)'
      BY <1>2, <3>1, DeletionStep
    <3>3. Unknown(f)'
      <4>1. ASSUME HandleAdd, TQ!Take, got'.event = "A", got'.clientid = f
            PROVE  FALSE
        <5>1. ~ Queued("A", f)' /\ Queued("A", f)
          BY <4>1, TakenOnce, TakenTask
        <5>2. ~ Adding(f) /\ UNCHANGED <<apc, acell, fd>>
          BY <4>1, <5>1 DEF OnceInv, HandleAdd, acceptor
        <5> QED
          BY <1>2, <5>1, <5>2 DEF Fresh, Adding
      <4> QED
        BY <3>1, <4>1, UnknownStep
    <3>4. f \notin FreeFds'
      BY <3>1, FreeStep, TakenTask
    <3> QED
      BY <3>2, <3>3, <3>4
  <2> QED
    BY <1>2, <2>1, <2>2, FreshStep
<1>3. ASSUME NEW f \in Fds, Queued("D", f)', m_Cell'[f] # 0
      PROVE  session'[f] # 0
  <2>1. CASE Queued("D", f)
    <3>1. ~ Adding(f)
      BY <2>1 DEF OnceInv, Fresh
    <3>2. m_Cell[f] # 0
      BY <1>3, <3>1, CellStep
    <3>3. session[f] # 0
      BY <2>1, <3>2 DEF OnceInv
    <3> QED
      BY <1>3, <3>3, SessionStep
  <2> QED
    BY <1>3, <2>1, DeletionStep
<1>4. ASSUME NEW f \in Fds, Erasing(f)'
      PROVE  session'[f] # 0 /\ ~ Queued("D", f)'
  <2>1. CASE Erasing(f)
    <3>1. session[f] # 0 /\ ~ Queued("D", f)
      BY <2>1 DEF OnceInv
    <3>2. ~ HandleDelErase
      BY <1>4 DEF HandleDelErase, Erasing
    <3>3. ~ Queued("D", f)'
      BY <1>4, <3>1, DeletionStep DEF Erasing
    <3> QED
      BY <3>1, <3>2, <3>3, SessionStep
  <2>2. CASE HandleDelClose /\ Queued("D", f) /\ m_Cell[f] # 0 /\ session' = session
    <3>1. TQ!Take /\ got'.event = "D" /\ got'.clientid = f
      BY <1>4, <2>2 DEF HandleDelClose, Erasing
    <3> QED
      BY <2>2, <3>1, TakenOnce DEF OnceInv
  <2> QED
    BY <1>4, <2>1, <2>2, ErasingStep
<1>5. ASSUME NEW f \in FreeFds'
      PROVE  ~ Queued("D", f)' /\ Unknown(f)'
  <2>1. CASE f \in FreeFds
    <3>1. ~ Queued("D", f) /\ Unknown(f) /\ f \in Fds
      BY <1>0, <2>1 DEF OnceInv
    <3>2. ~ Queued("D", f)'
      BY <1>5, <3>1, DeletionStep
    <3>3. ~ (HandleAdd /\ got'.clientid = f)
      BY <2>1, AddFacts DEF FreeFds
    <3> QED
      BY <3>1, <3>2, <3>3, UnknownStep
  <2>2. CASE f \in Fds /\ TQ!Take /\ got'.event = "D" /\ got'.clientid = f /\ Erasing(f)'
    BY <2>2, TakenOnce DEF Unknown
  <2> QED
    BY <2>1, <2>2, FreeStep
<1> QED
  BY <1>1, <1>2, <1>3, <1>4, <1>5, UniqueNext DEF OnceInv

LEMMA OnceInit == Init => OnceInv
BY DEF Init, OnceInv, Queued, Adding, Fresh, Erasing, Unknown, FreeFds

\* notify.h:29: until two D tasks for one descriptor are in the queue (cell_manager.cpp:306),
\* OnConnect is called only for a descriptor the application does not know, and
\* OnDisconnect only for one it was told of.  Descriptors may be given out again at once:
\* between close and erase (190-202), with tasks for them still queued, or after a push
\* of either task was refused.
THEOREM CallbackTheorem == Spec => OrderUnlessDoubled
<1>1. Init => (~ doubled => OnceInv)
  BY OnceInit
<1>2. IInv /\ (~ doubled => OnceInv) /\ [Next]_vars => (~ doubled => OnceInv)'
  BY OnceNext, DoubledStep
<1>3. IInv /\ (~ doubled => OnceInv) => [~ doubled => InOrder]_vars
  <2> SUFFICES ASSUME IInv, OnceInv PROVE InOrder
    OBVIOUS
  <2>1. ASSUME HandleAdd PROVE session[got'.clientid] = 0
    <3>1. TQ!Take /\ got'.event = "A" /\ mpc = "task"
      BY <2>1 DEF HandleAdd
    <3>2. Queued("A", got'.clientid) /\ got'.clientid \in Fds
      BY <3>1, TakenTask
    <3> QED
      BY <3>1, <3>2 DEF OnceInv, Fresh, Unknown, Erasing
  <2>2. ASSUME HandleDelErase PROVE session[got.clientid] # 0
    <3>1. mpc = "erase" /\ got.clientid \in Fds
      BY <2>2 DEF HandleDelErase, IInv, EraseInv
    <3> QED
      BY <3>1 DEF OnceInv, Erasing
  <2> QED
    BY <2>1, <2>2 DEF InOrder
<1> QED
  BY <1>1, <1>2, <1>3, Invariant, PTL DEF Spec, OrderUnlessDoubled

=============================================================================
