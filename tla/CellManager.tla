----------------------------- MODULE CellManager -----------------------------
(***************************************************************************)
(* A cellManager of base/src/tcp_server (cell_manager.cpp, cell_manager.h, *)
(* client_cell.h) among the threads and the kernel it works with:          *)
(*                                                                         *)
(*   - the acceptor, tcpServer::run and HandleAccept of server.cpp, which  *)
(*     makes a clientCell for a new connection, stores it in m_Cell and    *)
(*     pushes an 'A' task;                                                 *)
(*   - the application's threads, which call SendData and push 'S' tasks;  *)
(*   - the manager's own thread, which pops the tasks, keeps the epoll set *)
(*     up to date, waits for events, reads, writes, and pushes a 'D' task  *)
(*     to itself for every connection that ended;                          *)
(*   - the kernel: connections, descriptors, and the edge-triggered epoll  *)
(*     set; and the peers at the far end.                                  *)
(*                                                                         *)
(* Connections are numbered in the order they are made, which the code     *)
(* never sees: it knows a connection by its descriptor, and so do the      *)
(* tasks, m_Cell, the events and the callbacks.  The queue is TaskQueue,   *)
(* which SrtQueue implements: other threads push in two steps, and a task  *)
(* whose push is half done holds back everything behind it.                *)
(*                                                                         *)
(* Abstracted: bytes (a message is its number in the order of acceptance;  *)
(* a read takes all there is, which OnRecvData takes over, and either      *)
(* leaves room in the buffer or fills it exactly; a write takes whole      *)
(* messages), and the inside of m_Cell, whose operations are atomic.       *)
(***************************************************************************)
EXTENDS Naturals, Sequences, FiniteSets

CONSTANTS
    NConns,      \* BOUND: how many connections peers make
    Fds,         \* the descriptors the kernel has for them, a set of numbers > 0
    Senders,     \* the application's threads
    Acceptor,    \* the thread of tcpServer
    MaxSends,    \* BOUND: how many messages SendData accepts
    SendCap,     \* SYSSENDBUF - 1, the messages a cell's ring can hold
    QueueCap     \* the length at which push refuses

ASSUME NConnsAssumption == NConns \in Nat
ASSUME FdsAssumption == Fds \subseteq Nat \ {0} /\ IsFiniteSet(Fds)
ASSUME SendersAssumption == Acceptor \notin Senders /\ IsFiniteSet(Senders)
ASSUME CapAssumption == {MaxSends, SendCap, QueueCap} \subseteq Nat

VARIABLES
    \* the peers and the kernel
    sock,        \* each connection at the server's end
    peer,        \* each connection at the far end
    fd,          \* the descriptor of an accepted connection, 0 before
    unread,      \* whether the socket holds data nobody has read
    interest,    \* what epoll watches the socket for
    listed,      \* the connections on epoll's ready list (an edge since last time)
    wire,        \* the messages written to the socket, in order
    \* the process
    cell,        \* each connection's clientCell
    sendBuf,     \* each cell's ring of messages to send
    m_Cell,      \* descriptor -> connection of the cell stored there, 0 for none
    queue, got,  \* m_cellTask, and cT of handleTask
    mpc, batch,  \* where the manager is; the events of this epoll_wait still to do
    reading,     \* the descriptor doRecv goes round on, with nothing to read; or 0
    apc, acell,  \* where the acceptor is, and the connection it just accepted
    spc, sarg,   \* where each sender is in SendData, and its argument clientid
    sent,        \* how many messages were accepted
    session,     \* what the callbacks told the application: the connection behind
                 \* each descriptor it may use, 0 for none
    doubled,     \* history: two D tasks for one descriptor have been in the queue
    lost         \* history: the connections whose A or D task the queue refused, or
                 \* whose cell handleDel took out of m_Cell for an earlier owner's

Conns == 1 .. NConns
kernel == <<sock, peer, fd, unread, interest, listed, wire>>
cells == <<cell, sendBuf, m_Cell>>
tasks == <<queue, got>>
manager == <<mpc, batch, reading>>
acceptor == <<apc, acell>>
app == <<spc, sarg, sent, session>>
history == <<doubled, lost>>
vars == <<kernel, cells, tasks, manager, acceptor, app, history>>

\* cell_manager.h:38-42; the message of an 'S' task, 0 in the others.
Task == [event : {"A", "D", "S"}, clientid : Nat, msg : Nat]
Writers == Senders \cup {Acceptor}

TQ == INSTANCE TaskQueue WITH Tasks <- Task, Bound <- QueueCap

task(e, f, m) == [event |-> e, clientid |-> f, msg |-> m]

\* srt_queue::push refuses (mqueue.h:94-97).
QueueFull == Len(queue) >= QueueCap

Init ==
    /\ sock = [c \in Conns |-> "none"]
    /\ peer = [c \in Conns |-> "none"]
    /\ fd = [c \in Conns |-> 0]
    /\ unread = [c \in Conns |-> FALSE]
    /\ interest = [c \in Conns |-> {}]
    /\ listed = {}
    /\ wire = [c \in Conns |-> << >>]
    /\ cell = [c \in Conns |-> "none"]
    /\ sendBuf = [c \in Conns |-> << >>]
    /\ m_Cell = [f \in Fds |-> 0]
    /\ queue = << >>
    /\ got = task("D", 0, 0)
    /\ mpc = "task"
    /\ batch = {} /\ reading = 0
    /\ apc = "accept"
    /\ acell = 0
    /\ spc = [s \in Senders |-> "idle"]
    /\ sarg = [s \in Senders |-> 0]
    /\ sent = 0
    /\ session = [f \in Fds |-> 0]
    /\ doubled = FALSE /\ lost = {}

-----------------------------------------------------------------------------
(***************************************************************************)
(* The kernel.                                                             *)
(***************************************************************************)
Open == {c \in Conns : sock[c] = "open"}
Gone(c) == peer[c] \in {"closed", "reset"}

\* The connection descriptor f stands for now.
Behind(f) == {c \in Open : fd[c] = f}

\* accept4 takes the lowest descriptor that is not in use.
FreeFds == {f \in Fds : \A c \in Open : fd[c] # f}

\* A change of the socket's state puts it on the ready list, if epoll watches it.
Edge(c) == listed' = listed \cup {d \in {c} : interest[d] # {}}

\* A peer connects; the kernel completes the connection by itself.
PeerConnect(c) ==
    /\ sock[c] = "none" /\ \A d \in Conns : d < c => sock[d] # "none"
    /\ sock' = [sock EXCEPT ![c] = "backlog"]
    /\ peer' = [peer EXCEPT ![c] = "up"]
    /\ UNCHANGED <<fd, unread, interest, listed, wire, cells, tasks, manager, acceptor, app, history>>

PeerSend(c) ==
    /\ peer[c] = "up"
    /\ unread' = [unread EXCEPT ![c] = sock[c] # "closed"]
    /\ Edge(c)
    /\ UNCHANGED <<sock, peer, fd, interest, wire, cells, tasks, manager, acceptor, app, history>>

\* The peer closes (FIN), or resets, which also discards what was not read.
PeerClose(c) ==
    /\ peer[c] = "up"
    /\ peer' = [peer EXCEPT ![c] = "closed"]
    /\ Edge(c)
    /\ UNCHANGED <<sock, fd, unread, interest, wire, cells, tasks, manager, acceptor, app, history>>

PeerReset(c) ==
    /\ peer[c] \in {"up", "closed"}
    /\ peer' = [peer EXCEPT ![c] = "reset"]
    /\ unread' = [unread EXCEPT ![c] = FALSE]
    /\ Edge(c)
    /\ UNCHANGED <<sock, fd, interest, wire, cells, tasks, manager, acceptor, app, history>>

Peer == \E c \in Conns : PeerConnect(c) \/ PeerSend(c) \/ PeerClose(c) \/ PeerReset(c)

-----------------------------------------------------------------------------
(***************************************************************************)
(* The acceptor: HandleAccept (server.cpp:185-228) and addTask.            *)
(***************************************************************************)
\* server.cpp:189-225: accept4 and new clientCell.
Accept ==
    /\ apc = "accept"
    /\ \E c \in Conns, f \in FreeFds :
         /\ sock[c] = "backlog" /\ \A d \in Conns : d < c => sock[d] # "backlog"
         /\ \A g \in FreeFds : f <= g
         /\ sock' = [sock EXCEPT ![c] = "open"]
         /\ fd' = [fd EXCEPT ![c] = f]
         /\ cell' = [cell EXCEPT ![c] = "live"]
         /\ acell' = c
    /\ apc' = "insert"
    /\ UNCHANGED <<peer, unread, interest, listed, wire, sendBuf, m_Cell, tasks, manager, app, history>>

\* FAULT: the cell is not stored.
AddForgotten ==
    /\ apc = "insert"
    /\ apc' = "push"
    /\ UNCHANGED <<kernel, cells, tasks, manager, acell, app, history>>

\* FAULT: the task is pushed first, and the cell stored after it.
AddSwapped ==
    \/ /\ apc = "insert" /\ ~ QueueFull
       /\ queue' = Append(queue, [task |-> task("A", fd[acell], 0), writing |-> {}])
       /\ apc' = "late"
       /\ UNCHANGED <<kernel, cells, got, manager, acell, app, history>>
    \/ /\ apc = "late"
       /\ m_Cell' = [m_Cell EXCEPT ![fd[acell]] = acell]
       /\ apc' = "accept"
       /\ UNCHANGED <<kernel, cell, sendBuf, tasks, manager, acell, app, history>>

\* cell_manager.cpp:87.
AddInsert ==
    /\ apc = "insert"
    /\ m_Cell' = [m_Cell EXCEPT ![fd[acell]] = acell]
    /\ apc' = "push"
    /\ UNCHANGED <<kernel, cell, sendBuf, tasks, manager, acell, app, history>>

\* cell_manager.cpp:88: take a place in the queue; a refusal is ignored.
AddReserve ==
    /\ apc = "push"
    /\ \/ /\ QueueFull
          /\ apc' = "accept"
          /\ lost' = lost \cup {acell}
          /\ UNCHANGED tasks
       \/ /\ TQ!Reserve(Acceptor, task("A", fd[acell], 0))
          /\ apc' = "publish"
          /\ UNCHANGED lost
    /\ UNCHANGED <<kernel, cells, manager, acell, app, doubled>>

AddPublish ==
    /\ apc = "publish"
    /\ TQ!Publish(Acceptor)
    /\ apc' = "accept"
    /\ UNCHANGED <<kernel, cells, manager, acell, app, history>>

Acceptance == Accept \/ AddInsert \/ AddReserve \/ AddPublish

-----------------------------------------------------------------------------
(***************************************************************************)
(* The application: SendData (server.cpp:230) and sendTask.                *)
(***************************************************************************)
\* A thread decides to send to a client it was told of and not told to be gone.
SendCall(s) ==
    /\ spc[s] = "idle"
    /\ sent + Cardinality({t \in Senders : spc[t] \in {"find", "push"}}) < MaxSends
    /\ \E f \in Fds :
         /\ session[f] # 0
         /\ sarg' = [sarg EXCEPT ![s] = f]
    /\ spc' = [spc EXCEPT ![s] = "find"]
    /\ UNCHANGED <<kernel, cells, tasks, manager, acceptor, sent, session, history>>

\* cell_manager.cpp:108-113: nobody there, return CLIENT_CLOSED.
SendClosed(s) ==
    /\ spc[s] = "find"
    /\ m_Cell[sarg[s]] = 0
    /\ spc' = [spc EXCEPT ![s] = "idle"]
    /\ UNCHANGED <<kernel, cells, tasks, manager, acceptor, sarg, sent, session, history>>

SendFound(s) ==
    /\ spc[s] = "find"
    /\ m_Cell[sarg[s]] # 0
    /\ spc' = [spc EXCEPT ![s] = "push"]
    /\ UNCHANGED <<kernel, cells, tasks, manager, acceptor, sarg, sent, session, history>>

\* cell_manager.cpp:116-129: take a place, or return PUSH_CACHE_FAILED.
SendReserve(s) ==
    /\ spc[s] = "push"
    /\ \/ /\ QueueFull
          /\ spc' = [spc EXCEPT ![s] = "idle"]
          /\ UNCHANGED <<tasks, sent>>
       \/ /\ TQ!Reserve(s, task("S", sarg[s], sent + 1))
          /\ sent' = sent + 1
          /\ spc' = [spc EXCEPT ![s] = "publish"]
    /\ UNCHANGED <<kernel, cells, manager, acceptor, sarg, session, history>>

\* cell_manager.cpp:125, 131: published, return OK.
SendPublish(s) ==
    /\ spc[s] = "publish"
    /\ TQ!Publish(s)
    /\ spc' = [spc EXCEPT ![s] = "idle"]
    /\ UNCHANGED <<kernel, cells, manager, acceptor, sarg, sent, session, history>>

SendGoOn(s) == SendClosed(s) \/ SendFound(s) \/ SendReserve(s) \/ SendPublish(s)

-----------------------------------------------------------------------------
(***************************************************************************)
(* The manager: one pass of the loop of run (280-300) is handleTask,       *)
(* checkWrite, epoll_wait, and doEvent for every event.                    *)
(***************************************************************************)
DeletingNothing(q, f) == q   \* FAULT: no task is pushed

\* delTask (91-97), called by the reader of the queue itself: nobody pops between
\* the two halves of this push.  A refusal is ignored.
Deleting(q, f) ==
    IF Len(q) >= QueueCap THEN q
    ELSE Append(q, [task |-> task("D", f, 0), writing |-> {}])

\* The connection whose D task the queue refuses, if there is one.
Refused(q, f) == {c \in {m_Cell[f]} \ {0} : Len(q) >= QueueCap}

\* Two D tasks for one descriptor.
TwoDeletions(q) ==
    \E i, j \in DOMAIN q : i # j /\ q[i].task = q[j].task /\ q[i].task.event = "D"

\* handleSend 164: the ring of the cell is full.
RingFull(c) == Len(sendBuf[c]) = SendCap

\* handleTask 210, handleSend 154-181: put the message in the cell's ring; no
\* cell or no room, and it is lost.
HandleSend ==
    /\ mpc = "task"
    /\ TQ!Take /\ got'.event = "S"
    /\ LET c == m_Cell[got'.clientid]
       IN  sendBuf' = IF c = 0 \/ (c # 0 /\ RingFull(c))
                      THEN sendBuf
                      ELSE [sendBuf EXCEPT ![c] = Append(@, got'.msg)]
    /\ UNCHANGED <<kernel, cell, m_Cell, manager, acceptor, app, history>>

\* handleAdd 142-151: watch the descriptor, call OnConnect.
HandleAdd ==
    /\ mpc = "task"
    /\ TQ!Take /\ got'.event = "A"
    /\ LET f == got'.clientid
           c == m_Cell[f]
       IN  /\ c # 0
           /\ interest' = [interest EXCEPT ![c] = {"in"}]
           /\ listed' = listed \cup {d \in {c} : unread[d] \/ Gone(d)}
           /\ session' = [session EXCEPT ![f] = c]
    /\ UNCHANGED <<sock, peer, fd, unread, wire, cells, manager, acceptor, spc, sarg, sent, history>>

\* handleAdd 135-140: no cell; report "client has been closed", push a 'D' task.
HandleAddClosed ==
    /\ mpc = "task"
    /\ TQ!HeadReady
    /\ LET t == Head(queue).task
       IN  /\ t.event = "A"
           /\ m_Cell[t.clientid] = 0
           /\ got' = t
           /\ queue' = Deleting(Tail(queue), t.clientid)
           /\ doubled' = (doubled \/ TwoDeletions(queue'))
    /\ UNCHANGED <<kernel, cells, manager, acceptor, app, lost>>

\* handleDel 196-198: no cell.
HandleDelNone ==
    /\ mpc = "task"
    /\ TQ!Take /\ got'.event = "D"
    /\ m_Cell[got'.clientid] = 0
    /\ UNCHANGED <<kernel, cells, manager, acceptor, app, history>>

\* delClientCell 190.
Closed(c) == [sock EXCEPT ![c] = "closed"]

\* handleDel 200, delClientCell 183-192 with ~clientCell (client_cell.cpp:26-40):
\* out of the epoll set, close the descriptor, delete the cell and its messages.
HandleDelClose ==
    /\ mpc = "task"
    /\ TQ!Take /\ got'.event = "D"
    /\ LET c == m_Cell[got'.clientid]
       IN  /\ c # 0
           /\ interest' = [interest EXCEPT ![c] = {}]
           /\ listed' = listed \ {c}
           /\ sock' = Closed(c)
           /\ unread' = [unread EXCEPT ![c] = FALSE]
           /\ cell' = [cell EXCEPT ![c] = "deleted"]
           /\ sendBuf' = [sendBuf EXCEPT ![c] = << >>]
    /\ mpc' = "erase"
    /\ UNCHANGED <<peer, fd, wire, m_Cell, batch, reading, acceptor, app, history>>

NotErased(f) == m_Cell   \* FAULT: the entry stays

\* handleDel 202.
Erased(f) == [m_Cell EXCEPT ![f] = 0]

\* handleDel 202-203: erase the entry, call OnDisconnect.  The entry may be that of the
\* descriptor's next owner by now, whose cell nobody can find any more.
HandleDelErase ==
    /\ mpc = "erase"
    /\ m_Cell' = Erased(got.clientid)
    /\ lost' = lost \cup (Open \cap {m_Cell[got.clientid]})
    /\ session' = [session EXCEPT ![got.clientid] = 0]
    /\ mpc' = "task"
    /\ UNCHANGED <<kernel, cell, sendBuf, tasks, batch, reading, acceptor, spc, sarg, sent, doubled>>

\* handleTask 210: pop returns false, the queue is empty or its head unpublished.
TasksDone ==
    /\ mpc = "task"
    /\ ~ TQ!HeadReady
    /\ mpc' = "write"
    /\ UNCHANGED <<kernel, cells, tasks, batch, reading, acceptor, app, history>>

\* The cells of m_Cell, as checkWrite walks over them.
Stored == {m_Cell[f] : f \in Fds} \ {0}

\* FAULT: EPOLL_CTL_ADD instead of EPOLL_CTL_MOD.
WatchedOrNot == Stored

\* The cells epoll_ctl(EPOLL_CTL_MOD) has an effect on: those handleAdd has added.
Watched == {c \in Stored : interest[c] # {}}

\* checkWrite 233-265: watch for room while messages wait, and only then.  A
\* change puts the socket on the ready list, if anything watched for is there.
\* On a cell handleAdd has not seen yet EPOLL_CTL_MOD fails, whatever m_Events is.
CheckWrite ==
    /\ mpc = "write"
    /\ LET waiting == {c \in Watched : sendBuf[c] # << >>}
           sated == {c \in Watched \ waiting : "out" \in interest[c]}
       IN  /\ interest' = [c \in Conns |->
                             CASE c \in waiting -> {"in", "out"}
                               [] c \in sated -> {"in"}
                               [] OTHER -> interest[c]]
           /\ listed' = listed \cup waiting \cup {c \in sated : unread[c] \/ Gone(c)}
    /\ mpc' = "wait"
    /\ UNCHANGED <<sock, peer, fd, unread, wire, cells, tasks, batch, reading, acceptor, app, history>>

\* run 288, epoll_wait: every socket on the ready list reports all it is ready
\* for, and leaves the list.  W are the sockets with room to write.
EpollWait ==
    /\ mpc = "wait"
    /\ \E W \in SUBSET {c \in Conns : "out" \in interest[c]} :
         batch' = {e \in [fd : {fd[c] : c \in listed}, hup : BOOLEAN, in : BOOLEAN, out : BOOLEAN] :
                     \E c \in listed :
                       /\ e.fd = fd[c]
                       /\ e.hup = Gone(c)
                       /\ e.in = (unread[c] \/ Gone(c))
                       /\ e.out = (c \in W)
                       /\ e.in \/ e.out}
    /\ listed' = {}
    /\ mpc' = "events"
    /\ UNCHANGED <<sock, peer, fd, unread, interest, wire, cells, tasks, reading, acceptor, app, history>>

\* delTask, for an event of the descriptor f.
EventDeletes(f) ==
    /\ queue' = Deleting(queue, f)
    /\ doubled' = (doubled \/ TwoDeletions(queue'))
    /\ lost' = lost \cup Refused(queue, f)

\* doEvent 304-308: the connection ended, push a 'D' task.
EventHup(e) ==
    /\ e.hup
    /\ EventDeletes(e.fd)
    /\ batch' = batch \ {e}
    /\ UNCHANGED <<kernel, cells, got, reading, app>>

\* doRecv 325-332: a read that fills the buffer exactly, and OnRecvData takes all.  The next
\* one has EAGAIN, and so on until there is something to read; that the loop goes round
\* meanwhile changes nothing.
EventSpin(e) ==
    /\ ~ e.hup /\ e.in
    /\ LET c == m_Cell[e.fd]
       IN  /\ unread[c]
           /\ unread' = [unread EXCEPT ![c] = FALSE]
    /\ reading' = e.fd
    /\ UNCHANGED <<sock, peer, fd, interest, listed, wire, cells, tasks, batch, app, history>>

\* How many messages of c's ring the socket may take: none after a reset.
Writable(c, e) == IF e.out /\ peer[c] # "reset" THEN Len(sendBuf[c]) ELSE 0

UnsentAll(c, n) == sendBuf[c]   \* FAULT: m_SendReadPos stays

\* doSend 427-432: the ring without the n messages written.
Unsent(c, n) == SubSeq(sendBuf[c], n + 1, Len(sendBuf[c]))

\* doEvent 309-314 with doRecv (317-385) and doSend (388-437): what can be read is
\* read and passed to OnRecvData, or the read fails and a 'D' task is pushed; then
\* some messages of the ring are written.  (WatchedAreStored: the cell is there.)
EventIO(e) ==
    /\ ~ e.hup
    /\ LET c == m_Cell[e.fd]
       IN  /\ e.in => unread[c] \/ Gone(c)
           /\ unread' = IF e.in THEN [unread EXCEPT ![c] = FALSE] ELSE unread
           /\ IF e.in /\ ~ unread[c] THEN EventDeletes(e.fd) ELSE UNCHANGED <<queue, history>>
           /\ \E n \in 0 .. Writable(c, e) :
                /\ wire' = [wire EXCEPT ![c] = @ \o SubSeq(sendBuf[c], 1, n)]
                /\ sendBuf' = [sendBuf EXCEPT ![c] = Unsent(c, n)]
    /\ reading' = 0
    /\ batch' = batch \ {e}
    /\ UNCHANGED <<sock, peer, fd, interest, listed, cell, m_Cell, got, app>>

\* The events one by one; while doRecv goes round, no other.
DoEvent ==
    /\ mpc = "events"
    /\ \E e \in batch :
         /\ reading \in {0, e.fd}
         /\ EventHup(e) \/ EventSpin(e) \/ EventIO(e)
    /\ UNCHANGED <<mpc, acceptor>>

\* run 282: the next pass.
EventsDone ==
    /\ mpc = "events"
    /\ batch = {}
    /\ mpc' = "task"
    /\ UNCHANGED <<kernel, cells, tasks, batch, reading, acceptor, app, history>>

Manage ==
    \/ HandleSend
    \/ HandleAdd
    \/ HandleAddClosed
    \/ HandleDelNone
    \/ HandleDelClose
    \/ HandleDelErase
    \/ TasksDone
    \/ CheckWrite
    \/ EpollWait
    \/ DoEvent
    \/ EventsDone

Next ==
    \/ Peer
    \/ Acceptance
    \/ \E s \in Senders : SendCall(s) \/ SendGoOn(s)
    \/ Manage

Spec == Init /\ [][Next]_vars

(***************************************************************************)
(* Fairness: the manager's thread and the acceptor's run on (their loops   *)
(* never end before stop), and a thread that entered SendData comes out.   *)
(* Nobody has to connect, to send, or to close; and a manager that goes    *)
(* round in doRecv comes out only if its peer does something.              *)
(***************************************************************************)
FairSpec ==
    /\ Spec
    /\ WF_vars(Manage)
    /\ WF_vars(Acceptance)
    /\ \A s \in Senders : WF_vars(SendGoOn(s))

-----------------------------------------------------------------------------
(***************************************************************************)
(* Properties.                                                             *)
(***************************************************************************)
\* The types of the kernel's, the process's and the application's state.
TypeOK ==
    /\ sock \in [Conns -> {"none", "backlog", "open", "closed"}]
    /\ peer \in [Conns -> {"none", "up", "closed", "reset"}]
    /\ fd \in [Conns -> Fds \cup {0}]
    /\ unread \in [Conns -> BOOLEAN]
    /\ interest \in [Conns -> SUBSET {"in", "out"}]
    /\ listed \subseteq Conns
    /\ wire \in [Conns -> Seq(1 .. MaxSends)]
    /\ cell \in [Conns -> {"none", "live", "deleted"}]
    /\ sendBuf \in [Conns -> Seq(1 .. MaxSends)]
    /\ \A c \in Conns : Len(sendBuf[c]) <= SendCap
    /\ m_Cell \in [Fds -> Conns \cup {0}]
    /\ TQ!TypeOK /\ Len(queue) <= QueueCap
    /\ mpc \in {"task", "erase", "write", "wait", "events"}
    /\ batch \subseteq [fd : Fds, hup : BOOLEAN, in : BOOLEAN, out : BOOLEAN]
    /\ reading \in Fds \cup {0}
    /\ apc \in {"accept", "insert", "push", "publish"}
    /\ acell \in Conns \cup {0}
    /\ spc \in [Senders -> {"idle", "find", "push", "publish"}]
    /\ sarg \in [Senders -> Fds \cup {0}]
    /\ sent \in 0 .. MaxSends
    /\ session \in [Fds -> Conns \cup {0}]
    /\ doubled \in BOOLEAN /\ lost \subseteq Conns

\* Every variable has its type, and m_Cell never leads to a deleted cell, nor to a cell
\* whose socket is closed or has another descriptor; except, inside handleDel, between
\* delete (191) and erase (202) the entry being erased.
CellsAreLive ==
    /\ TypeOK
    /\ \A f \in Fds : m_Cell[f] # 0 =>
          \/ cell[m_Cell[f]] = "live" /\ m_Cell[f] \in Behind(f)
          \/ cell[m_Cell[f]] = "deleted" /\ mpc = "erase" /\ got.clientid = f

\* A descriptor epoll watches, and so every event of the batch, belongs to the
\* connection whose cell is stored under it and of which OnConnect told the
\* application: OnRecvData and write never concern a connection nobody announced.
WatchedAreStored ==
    /\ \A c \in Conns : interest[c] # {} => m_Cell[fd[c]] = c /\ session[fd[c]] = c
    /\ \A e \in batch : \E c \in Open : fd[c] = e.fd /\ interest[c] # {}

\* A message is written at most once, to one connection, and each connection gets
\* its messages in the order in which SendData accepted them.
WrittenOnceInOrder ==
    \A c \in Conns : \A i \in DOMAIN wire[c] :
        /\ \A j \in DOMAIN wire[c] : i < j => wire[c][i] < wire[c][j]
        /\ \A d \in Conns \ {c} : \A j \in DOMAIN wire[d] : wire[c][i] # wire[d][j]

\* notify.h:29: OnConnect, then OnRecvData, then OnDisconnect.  A descriptor is
\* announced when the application does not know it, and withdrawn when it does.
InOrder ==
    /\ HandleAdd => session[got'.clientid] = 0
    /\ HandleDelErase => session[got.clientid] # 0

\* Every callback is in order.  Not so: two D tasks for one descriptor (306) withdraw its
\* next owner, who has not been announced.
CallbackOrder == [][InOrder]_vars

\* Though descriptors are given out again at once, nothing else brings the callbacks out of
\* order: neither a late or refused task, nor a cell stored or taken out of m_Cell while
\* handleDel (201-203) is at work on an earlier owner.
OrderUnlessDoubled == [][~ doubled => InOrder]_vars

\* doRecv returns, again and again: no peer makes a read fill the buffer exactly (330-332)
\* and is silent from then on.
ManagerReturns == []<>(reading = 0)

\* Every connection the acceptor takes is announced to the application, unless it ends
\* before, the queue refuses its task, or its cell goes with an earlier owner's; as long as
\* doRecv returns.
ConnectedAreAnnounced ==
    ManagerReturns =>
      \A c \in Conns : sock[c] = "open" ~> \/ \E f \in Fds : session[f] = c
                                           \/ sock[c] = "closed" \/ c \in lost

\* Every connection that is open here and that the peer ended is closed here, and the
\* application told; with the same exceptions.
EndedAreReleased ==
    ManagerReturns =>
      \A c \in Conns : Gone(c) /\ sock[c] = "open" ~>
                         \/ sock[c] = "closed" /\ \A f \in Fds : session[f] # c
                         \/ c \in lost
=============================================================================
