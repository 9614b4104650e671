----------------------------- MODULE Lifecycle -----------------------------
(***************************************************************************)
(* Start, stop and destruction of a server: common::tcp_server owns a      *)
(* tcpServer (the acceptor, a process_thread), which owns its cellManagers *)
(* (process_threads too).  An application thread starts and stops; the     *)
(* threads of the server run loops that test is_running_; threads of the   *)
(* application, or callbacks, call SendData, which uses the managers.      *)
(*                                                                         *)
(* What a manager does with tasks and events is CellManager's subject:     *)
(* here a connection is stored, announced and closed, and a manager may go *)
(* round in doRecv.  m_Cell of a manager holds the cells of its stored     *)
(* connections, each under its descriptor.  The use of a deleted object is *)
(* undefined behaviour: it is recorded in "wild", and the system stops     *)
(* there.                                                                  *)
(***************************************************************************)
EXTENDS Integers

CONSTANTS
    Last,        \* how many managers a server has
    MaxServers,  \* bound: how often the application starts a server
    Conns,       \* the connections peers make
    Fds,         \* the descriptors accept4 has for them
    Senders      \* threads of the application that call senddata

ASSUME LastAssumption == Last \in Nat \ {0}
ASSUME MaxServersAssumption == MaxServers \in Nat
ASSUME FdsAssumption == Fds \subseteq Nat

Managers == 1 .. Last              \* m_CellManager, in order
Acceptor == 0                      \* the tcpServer itself
Parts == {Acceptor} \cup Managers
Servers == 1 .. MaxServers
NoServer == 0                      \* NULL

VARIABLES
    server,      \* m_tcpserver_
    starts,      \* servers made so far
    object,      \* of each part of each server: "none", "live" or "deleted"
    running,     \* is_running_
    handle,      \* thread_ is not NULL
    thread,      \* where the thread of the part is: "none" when there is none
    open,        \* the parts whose descriptors are open
    conn,        \* the connections: state, server, descriptor (0 before accept4)
    pc, turn,    \* where the application thread is, and at which manager
    sending,     \* where each sender is: NoServer, or the server it found
    broken,      \* history: the rules nothing in the code enforces, and the application
                 \* has not kept: "stop", a server is stopped only once the threads that
                 \* were made for it run; "send", nobody sends while there is no server,
                 \* or one that is being stopped
    wild         \* what was done to a deleted object

app == <<server, starts, pc, turn>>
parts == <<object, running, handle, thread>>
rest == <<sending, broken, wild>>
vars == <<app, parts, open, conn, rest>>

Each(value) == [s \in Servers |-> [p \in Parts |-> value]]

Init ==
    /\ server = NoServer /\ starts = 0
    /\ object = Each("none") /\ running = Each(FALSE)
    /\ handle = Each(FALSE) /\ thread = Each("none")
    /\ open = {}
    /\ conn = [c \in Conns |-> [state |-> "none", server |-> NoServer, fd |-> 0]]
    /\ pc = "idle" /\ turn = 1
    /\ sending = [s \in Senders |-> NoServer]
    /\ broken = {} /\ wild = {}

Breaks(rules) == broken' = broken \cup rules

Goto(label) == pc' = label
Move(s, p, label) == thread' = [thread EXCEPT ![s][p] = label]
Is(c, state, s) == conn[c].state = state /\ conn[c].server = s
Become(c, state) == conn' = [conn EXCEPT ![c].state = state]
Close(closing) ==
    conn' = [c \in Conns |-> IF closing[c] THEN [conn[c] EXCEPT !.state = "closed"] ELSE conn[c]]

\* clientid % m_CellManager.size().
CurrCellManager(clientid) == (clientid % Last) + 1
At(c, s, m) == conn[c].server = s /\ CurrCellManager(conn[c].fd) = m

\* The connections m_Cell leads to: "stored", the A task or one before it is not published
\* yet; "queued", handleTask will find it; "refused", the queue was full.
Cells(s, m) == {c \in Conns :
    At(c, s, m) /\ conn[c].state \in {"stored", "queued", "refused", "announced"}}

\* The connection whose descriptor and cell handleDel has done away with, and which it is
\* about to erase from m_Cell.
Closing(s, m) == {c \in Conns : At(c, s, m) /\ conn[c].state = "closing"}

\* An access to a part that has been deleted.
Deleted(s, p) == object[s][p] = "deleted"
Wild(what) ==
    /\ wild' = wild \cup {what}
    /\ UNCHANGED <<app, parts, open, conn, sending, broken>>

-----------------------------------------------------------------------------
(* tcp_server::start *)

\* The tcpServer with its managers, and Listen: nobody else knows the object yet.  An
\* application starts a server when there is none.
Start ==
    /\ pc = "idle" /\ server = NoServer /\ starts < MaxServers
    /\ starts' = starts + 1 /\ server' = starts + 1
    /\ object' = [object EXCEPT ![starts + 1] = [p \in Parts |-> "live"]]
    /\ open' = open \cup {<<starts + 1, p>> : p \in Parts}
    /\ Goto("start") /\ turn' = 1
    /\ UNCHANGED <<running, handle, thread, conn, rest>>

\* pthread_create: when it fails there is no thread, and nobody is told.
Create(p) ==
    \/ /\ handle' = [handle EXCEPT ![server][p] = TRUE]
       /\ Move(server, p, "born")
    \/ UNCHANGED <<handle, thread>>

StartManager ==
    /\ pc = "start" /\ turn \in Managers
    /\ IF running[server][turn] THEN UNCHANGED <<handle, thread>> ELSE Create(turn)
    /\ turn' = turn + 1
    /\ UNCHANGED <<server, starts, pc, object, running, open, conn, rest>>

StartAcceptor ==
    /\ pc = "start" /\ turn \notin Managers
    /\ Create(Acceptor)
    /\ Goto("idle")
    /\ UNCHANGED <<server, starts, turn, object, running, open, conn, rest>>

-----------------------------------------------------------------------------
(* tcp_server::stop, which the destructor calls once more. *)

Stop ==
    /\ pc = "idle" /\ server # NoServer
    /\ Breaks({r \in {"stop"} : \E p \in Parts : thread[server][p] = "born"}
                 \cup {r \in {"send"} : \E s \in Senders : sending[s] # NoServer})
    /\ Goto("test")
    /\ UNCHANGED <<server, starts, turn, parts, open, conn, sending, wild>>

\* FAULT: tcpServer::stop does not stop the acceptor first.
StopLate ==
    /\ pc = "test"
    /\ Goto("managers") /\ turn' = 1
    /\ UNCHANGED <<server, starts, parts, open, conn, rest>>

\* process_thread::stop of the acceptor waits 10 ms when the thread has been made and does
\* not run yet.
StopTest ==
    /\ pc = "test"
    /\ Goto(IF ~ running[server][Acceptor] /\ handle[server][Acceptor] THEN "nap" ELSE "claim")
    /\ UNCHANGED <<server, starts, turn, parts, open, conn, rest>>

Nap ==
    /\ pc = "nap"
    /\ Goto("claim")
    /\ UNCHANGED <<server, starts, turn, parts, open, conn, rest>>

\* FAULT: the loop is not told to end.
StopClaimKeeps ==
    /\ pc = "claim"
    /\ IF running[server][Acceptor] THEN Goto("join") ELSE Goto("managers")
    /\ turn' = 1
    /\ UNCHANGED <<server, starts, parts, open, conn, rest>>

StopClaim ==
    /\ pc = "claim"
    /\ IF running[server][Acceptor]
       THEN /\ running' = [running EXCEPT ![server][Acceptor] = FALSE]
            /\ Goto("join")
       ELSE /\ Goto("managers")
            /\ UNCHANGED running
    /\ turn' = 1
    /\ UNCHANGED <<server, starts, object, handle, thread, open, conn, rest>>

JoinAcceptor ==
    /\ pc = "join" /\ thread[server][Acceptor] = "end"
    /\ handle' = [handle EXCEPT ![server][Acceptor] = FALSE]
    /\ Goto("managers")
    /\ UNCHANGED <<server, starts, turn, object, running, thread, open, conn, rest>>

\* delete of the manager whose turn it is.  ~cellManager calls stop, which stops and joins
\* the thread if is_running_ says that there is one.
StopManager ==
    /\ pc = "managers" /\ turn \in Managers /\ ~ Deleted(server, turn)
    /\ IF running[server][turn]
       THEN /\ running' = [running EXCEPT ![server][turn] = FALSE]
            /\ Goto("joinmanager")
       ELSE /\ Goto("closemanager")
            /\ UNCHANGED running
    /\ UNCHANGED <<server, starts, turn, object, handle, thread, open, conn, rest>>

DeleteTwice ==
    /\ \/ pc = "managers" /\ turn \in Managers /\ Deleted(server, turn)
       \/ pc = "deletemanager" /\ Closing(server, turn) # {}
    /\ Wild("delete")

\* FAULT: the thread is not waited for.
JoinManagerNot ==
    /\ pc = "joinmanager"
    /\ handle' = [handle EXCEPT ![server][turn] = FALSE]
    /\ Goto("closemanager")
    /\ UNCHANGED <<server, starts, turn, object, running, thread, open, conn, rest>>

JoinManager ==
    /\ pc = "joinmanager" /\ thread[server][turn] = "end"
    /\ handle' = [handle EXCEPT ![server][turn] = FALSE]
    /\ Goto("closemanager")
    /\ UNCHANGED <<server, starts, turn, object, running, thread, open, conn, rest>>

CloseManager ==
    /\ pc = "closemanager"
    /\ open' = open \ {<<server, turn>>}
    /\ Goto("deletemanager")
    /\ UNCHANGED <<server, starts, turn, parts, conn, rest>>

\* FAULT: the connections of the manager are forgotten.
DeleteManagerOnly ==
    /\ pc = "deletemanager"
    /\ object' = [object EXCEPT ![server][turn] = "deleted"]
    /\ turn' = turn + 1 /\ Goto("managers")
    /\ UNCHANGED <<server, starts, running, handle, thread, open, conn, rest>>

\* The rest of ~cellManager: every cell of m_Cell is closed and deleted, announced or not,
\* and without OnDisconnect; what is left in the queue is dropped.
DeleteManager ==
    /\ pc = "deletemanager" /\ Closing(server, turn) = {}
    /\ Close([c \in Conns |-> c \in Cells(server, turn)])
    /\ object' = [object EXCEPT ![server][turn] = "deleted"]
    /\ turn' = turn + 1 /\ Goto("managers")
    /\ UNCHANGED <<server, starts, running, handle, thread, open, rest>>

\* The descriptors of the acceptor; the kernel resets what was not accepted.
CloseServer ==
    /\ pc = "managers" /\ turn \notin Managers
    /\ open' = open \ {<<server, Acceptor>>}
    /\ Close([c \in Conns |-> Is(c, "pending", server)])
    /\ Goto("destroy")
    /\ UNCHANGED <<server, starts, turn, parts, rest>>

\* ~tcpServer calls tcpServer::stop again if the acceptor runs, and goes on to the managers
\* that stay in m_CellManager.
DestroyAgain ==
    /\ pc = "destroy" /\ running[server][Acceptor]
    /\ Goto("test")
    /\ UNCHANGED <<server, starts, turn, parts, open, conn, rest>>

Destroy ==
    /\ pc = "destroy" /\ ~ running[server][Acceptor]
    /\ object' = [object EXCEPT ![server][Acceptor] = "deleted"]
    /\ server' = NoServer
    /\ Goto("idle")
    /\ UNCHANGED <<starts, turn, running, handle, thread, open, conn, rest>>

-----------------------------------------------------------------------------
(* _thread_proc and the loops of run. *)

SetRunning(s, p) ==
    /\ thread[s][p] = "born" /\ ~ Deleted(s, p)
    /\ running' = [running EXCEPT ![s][p] = TRUE]
    /\ Move(s, p, "loop")
    /\ UNCHANGED <<app, object, handle, open, conn, rest>>

LoopTest(s, p) ==
    /\ thread[s][p] = "loop" /\ ~ Deleted(s, p)
    /\ Move(s, p, IF running[s][p] THEN "body" ELSE "end")
    /\ UNCHANGED <<app, object, running, handle, open, conn, rest>>

\* epoll_wait of the acceptor reports nothing within a second.
AcceptorPass(s) ==
    /\ thread[s][Acceptor] = "body" /\ ~ Deleted(s, Acceptor)
    /\ Move(s, Acceptor, "loop")
    /\ UNCHANGED <<app, object, running, handle, open, conn, rest>>

Outlives(s, p) ==
    /\ thread[s][p] \in {"born", "loop", "body", "erase", "wait", "spin"} /\ Deleted(s, p)
    /\ Wild("use")

\* A descriptor the process has not open: a connection it lost stays open for ever.
FreeFds == {f \in Fds : \A c \in Conns :
    conn[c].fd = f => conn[c].state \in {"none", "pending", "closing", "closed"}}

\* HandleAccept up to addTask.
Accept(s, c) ==
    /\ thread[s][Acceptor] = "body" /\ ~ Deleted(s, Acceptor)
    /\ <<s, Acceptor>> \in open /\ Is(c, "pending", s)
    /\ \E f \in FreeFds :
          conn' = [conn EXCEPT ![c].state = "accepted", ![c].fd = f]
    /\ Move(s, Acceptor, "adding")
    /\ UNCHANGED <<app, object, running, handle, open, rest>>

\* FAULT: the cell is not stored.
AddTaskOnly(s, c) ==
    /\ thread[s][Acceptor] = "adding" /\ Is(c, "accepted", s)
    /\ Move(s, Acceptor, "loop")
    /\ UNCHANGED <<app, object, running, handle, open, conn, rest>>

\* addTask: the cell is stored in the manager, and an A task pushed, if the queue takes it.
AddTask(s, c) ==
    /\ thread[s][Acceptor] = "adding" /\ Is(c, "accepted", s)
    /\ IF Deleted(s, CurrCellManager(conn[c].fd))
       THEN Wild("use")
       ELSE /\ Become(c, "stored") \/ Become(c, "refused")
            /\ Move(s, Acceptor, "loop")
            /\ UNCHANGED <<app, object, running, handle, open, rest>>

\* The threads that push have all published what is in the queue up to c's A task.
Publish(c) ==
    /\ conn[c].state = "stored"
    /\ Become(c, "queued")
    /\ UNCHANGED <<app, parts, open, rest>>

\* The descriptor of c had an owner before, in this manager: tasks that name it may be left.
Stale(c) == \E d \in Conns \ {c} :
    conn[d].state = "closed" /\ conn[d].fd = conn[c].fd /\ conn[d].server = conn[c].server

\* handleAdd of a connection, for its A task or one of an earlier owner.
Announce(s, m, c) ==
    /\ thread[s][m] = "body" /\ ~ Deleted(s, m)
    /\ c \in Cells(s, m)
    /\ \/ conn[c].state = "queued"
       \/ conn[c].state \in {"stored", "refused"} /\ Stale(c)
    /\ Become(c, "announced")
    /\ UNCHANGED <<app, parts, open, rest>>

\* handleDel up to delClientCell, of a connection that ended, or for a D task of an earlier
\* owner: the descriptor is free again.
End(s, m, c) ==
    /\ thread[s][m] = "body" /\ ~ Deleted(s, m)
    /\ c \in Cells(s, m)
    /\ conn[c].state = "announced" \/ Stale(c)
    /\ Become(c, "closing")
    /\ Move(s, m, "erase")
    /\ UNCHANGED <<app, object, running, handle, open, rest>>

\* The rest of handleDel erases what m_Cell has under the descriptor by now: a connection
\* stored there meanwhile is lost.
Erase(s, m) ==
    /\ thread[s][m] = "erase" /\ ~ Deleted(s, m)
    /\ \E c \in Closing(s, m) :
          conn' = [d \in Conns |->
                     CASE d = c -> [conn[d] EXCEPT !.state = "closed"]
                       [] d \in Cells(s, m) /\ conn[d].fd = conn[c].fd ->
                            [conn[d] EXCEPT !.state = "lost"]
                       [] OTHER -> conn[d]]
    /\ Move(s, m, "body")
    /\ UNCHANGED <<app, object, running, handle, open, rest>>

\* pop finds no task any more, or one whose push is not published.
TasksDone(s, m) ==
    /\ thread[s][m] = "body" /\ ~ Deleted(s, m)
    /\ \A c \in Cells(s, m) : conn[c].state # "queued"
    /\ Move(s, m, "wait")
    /\ UNCHANGED <<app, object, running, handle, open, conn, rest>>

\* checkWrite, epoll_wait and doEvent, when doRecv returns.
ManagerPass(s, m) ==
    /\ thread[s][m] = "wait" /\ ~ Deleted(s, m)
    /\ Move(s, m, "loop")
    /\ UNCHANGED <<app, object, running, handle, open, conn, rest>>

\* doRecv reads exactly what there was room for, and goes round until the peer does
\* something.
Spin(s, m) ==
    /\ thread[s][m] = "wait" /\ ~ Deleted(s, m)
    /\ \E c \in Cells(s, m) : conn[c].state = "announced"
    /\ Move(s, m, "spin")
    /\ UNCHANGED <<app, object, running, handle, open, conn, rest>>

SpinEnds(s, m) ==
    /\ thread[s][m] = "spin" /\ ~ Deleted(s, m)
    /\ Move(s, m, "loop")
    /\ UNCHANGED <<app, object, running, handle, open, conn, rest>>

-----------------------------------------------------------------------------
(* Peers and senders. *)

PeerConnect(c) ==
    /\ conn[c].state = "none"
    /\ \E s \in Servers :
          /\ <<s, Acceptor>> \in open
          /\ conn' = [conn EXCEPT ![c].state = "pending", ![c].server = s]
    /\ UNCHANGED <<app, parts, open, rest>>

\* A sender, or a callback, at work while no server is up.
BreaksSend == Breaks({r \in {"send"} : pc # "idle" \/ server = NoServer})

\* senddata reads m_tcpserver_; on NULL it cannot go on.
SendLook(s) ==
    /\ sending[s] = NoServer
    /\ BreaksSend
    /\ IF server # NoServer
       THEN sending' = [sending EXCEPT ![s] = server] /\ UNCHANGED wild
       ELSE wild' = wild \cup {"use"} /\ UNCHANGED sending
    /\ UNCHANGED <<app, parts, open, conn>>

\* tcpServer::SendData looks up the manager of the descriptor and calls its sendTask.
SendData(s) ==
    /\ sending[s] # NoServer
    /\ \E f \in Fds :
          IF Deleted(sending[s], CurrCellManager(f)) \/ Deleted(sending[s], Acceptor)
          THEN Wild("use")
          ELSE /\ sending' = [sending EXCEPT ![s] = NoServer]
               /\ UNCHANGED <<app, parts, open, conn, broken, wild>>

\* A callback in the thread of one manager sends to a connection of another.
Relay(s, m) ==
    /\ thread[s][m] \in {"body", "wait"} /\ ~ Deleted(s, m)
    /\ \E f \in Fds : Deleted(s, CurrCellManager(f))
    /\ BreaksSend
    /\ wild' = wild \cup {"use"}
    /\ UNCHANGED <<app, parts, open, conn, sending>>

-----------------------------------------------------------------------------
Starting == Start \/ StartManager \/ StartAcceptor
Stopping ==
    \/ StopTest \/ Nap \/ StopClaim \/ JoinAcceptor
    \/ StopManager \/ DeleteTwice \/ JoinManager \/ CloseManager \/ DeleteManager
    \/ CloseServer \/ DestroyAgain \/ Destroy
Loop(s, p) == SetRunning(s, p) \/ LoopTest(s, p) \/ Outlives(s, p)
AcceptorRun(s) == Loop(s, Acceptor) \/ AcceptorPass(s) \/ \E c \in Conns : AddTask(s, c)
ManagerRun(s, m) ==
    \/ Loop(s, m) \/ Erase(s, m) \/ TasksDone(s, m) \/ ManagerPass(s, m)
    \/ \E c \in Conns : Announce(s, m, c)

Next ==
    /\ wild = {}
    /\ \/ Starting \/ Stop \/ Stopping
       \/ \E s \in Servers :
             \/ AcceptorRun(s) \/ \E c \in Conns : Accept(s, c)
             \/ \E m \in Managers :
                   \/ ManagerRun(s, m) \/ \E c \in Conns : End(s, m, c)
                   \/ Spin(s, m) \/ SpinEnds(s, m) \/ Relay(s, m)
       \/ \E c \in Conns : PeerConnect(c) \/ Publish(c)
       \/ \E s \in Senders : SendLook(s) \/ SendData(s)

\* Every thread goes on: the application's in stop, the server's, and those that push.  Only
\* a manager in doRecv may depend on its peer.
Fairness ==
    /\ WF_vars(wild = {} /\ Stopping)
    /\ \A s \in Servers :
          /\ WF_vars(wild = {} /\ AcceptorRun(s))
          /\ \A m \in Managers : WF_vars(wild = {} /\ ManagerRun(s, m))
    /\ \A c \in Conns : WF_vars(wild = {} /\ Publish(c))

Spec == Init /\ [][Next]_vars
FairSpec == Spec /\ Fairness

-----------------------------------------------------------------------------
(* Properties. *)

ThreadStates == {"none", "born", "loop", "body", "adding", "erase", "wait", "spin", "end"}
ConnStates == {"none", "pending", "accepted", "stored", "queued", "refused", "announced",
               "closing", "closed", "lost"}

TypeOK ==
    /\ server \in Servers \cup {NoServer} /\ starts \in 0 .. MaxServers
    /\ object \in [Servers -> [Parts -> {"none", "live", "deleted"}]]
    /\ running \in [Servers -> [Parts -> BOOLEAN]]
    /\ handle \in [Servers -> [Parts -> BOOLEAN]]
    /\ thread \in [Servers -> [Parts -> ThreadStates]]
    /\ open \subseteq Servers \X Parts
    /\ conn \in [Conns -> [state : ConnStates, server : Servers \cup {NoServer},
                           fd : Fds \cup {0}]]
    /\ pc \in {"idle", "start", "test", "nap", "claim", "join", "managers", "joinmanager",
               "closemanager", "deletemanager", "destroy"}
    /\ turn \in 1 .. Last + 1
    /\ sending \in [Senders -> Servers \cup {NoServer}]
    /\ broken \subseteq {"stop", "send"} /\ wild \subseteq {"use", "delete"}

\* A part of a server is deleted only when its thread has ended, or never was; if no server
\* is stopped before its threads run.
JoinedBeforeDeleted ==
    "stop" \notin broken =>
        \A s \in Servers, p \in Parts : Deleted(s, p) => thread[s][p] \in {"none", "end"}

\* Nothing deleted is used, by a thread of the server, a callback or a sender, and no
\* manager is deleted twice; if the application keeps to both rules.
NothingDeletedIsUsed == broken = {} => wild = {}

\* When stop has returned everything is closed: the descriptors of the server and every
\* connection it had, wherever it was on its way from the acceptor to its manager; all but
\* one that was stored under a descriptor handleDel was still to erase (190-202).
StopClosesAll ==
    server = NoServer =>
        /\ open = {}
        /\ \A c \in Conns : conn[c].state \in {"none", "closed", "lost"}

\* No manager stays in doRecv (330-332) for ever.
ManagersReturn == \A s \in Servers, m \in Managers : []<>(thread[s][m] # "spin")

\* stop returns, also when some thread could not be made; as long as doRecv returns.
StopReturns == ManagersReturn => (pc = "test" ~> pc = "idle" \/ wild # {})

\* A connection that is accepted is announced or closed, if its manager has a thread and
\* returns from doRecv; unless the queue refuses its task, or it is lost in an erase.
AcceptedIsAnnounced ==
    ManagersReturn =>
      \A c \in Conns :
        Is(c, "accepted", server) /\ thread[server][CurrCellManager(conn[c].fd)] # "none"
            ~> conn[c].state \in {"announced", "closed", "refused", "lost"} \/ wild # {}
=============================================================================
